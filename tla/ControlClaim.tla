--------------------------- MODULE ControlClaim ---------------------------
(* Who steers an entity (entity/control.cpp, class Control, with the handlers *)
(* of api/entity.cpp and the senders of api/replication_core.cpp).  A player  *)
(* claims an entity or releases it under an operation number of its own copy; *)
(* the server decides in the order the requests come, sends its decision to   *)
(* every peer it shows the entity to and the outcome to the one that asked.   *)
(* A claim that no decision answered in time is given up, and its late grant  *)
(* is given back.  The server hides the entity from a peer, which frees the   *)
(* copy with all it waits for, and shows it again as a new copy.              *)
(* Each direction of a link is reliable and ordered.  The game and the        *)
(* interest of the peers are external.                                        *)
EXTENDS Naturals, Sequences, FiniteSets, SequencesExt

CONSTANTS
    Peers,          \* the clients
    Holds,          \* the holds a claim may ask for
    HandsOn,        \* whom a handler of control_changed may give the entity to
    MaxPending,     \* Control::MAX_PENDING
    MaxAbandoned,   \* Control::MAX_ABANDONED
    MaxAsked,       \* bound on the claims and releases of the game
    MaxWrites,      \* bound on the writes of NetwEntity.controller
    MaxHides        \* bound on how often the entity is hidden

BoundsAssumption ==
    {MaxPending, MaxAbandoned, MaxAsked, MaxWrites, MaxHides} \subseteq Nat
HoldsAssumption == Holds \subseteq {"none", "soft", "exclusive"}
PeersAssumption == "server" \notin Peers
Assumptions == BoundsAssumption /\ HoldsAssumption /\ PeersAssumption

Server == "server"                  \* Control::SERVER
Controllers == Peers \cup {Server}

VARIABLES
    control,        \* the server's Control: controller, revision, tenure, hold
    shown,          \* the peers the server shows the entity to
    copy,           \* each peer's Control, or NoCopy
    lastOp,         \* Control::last_op of each copy
    pending,        \* Control::pending of each copy
    abandoned,      \* Control::abandoned of each copy
    up, down,       \* the links to and from the server
    asked,          \* history: every request, in the order they were made
    decided,        \* history: what each revision decided
    writes, hides   \* writes and hides so far
links == <<up, down>>
copies == <<copy, lastOp, pending, abandoned>>
used == <<writes, hides>>
vars == <<control, shown, copies, links, asked, decided, used>>

NoCopy == [revision |-> 0]
Start == [controller |-> Server, revision |-> 1, tenure |-> 1, hold |-> "none"]

Init ==
    /\ control = Start /\ shown = Peers
    /\ copy = [p \in Peers |-> Start] /\ lastOp = [p \in Peers |-> 0]
    /\ pending = [p \in Peers |-> <<>>] /\ abandoned = [p \in Peers |-> <<>>]
    /\ up = [p \in Peers |-> <<>>] /\ down = [p \in Peers |-> <<>>]
    /\ asked = <<>> /\ decided = <<[controller |-> Server, tenure |-> 1,
                                     hold |-> "none", by |-> 0]>>
    /\ writes = 0 /\ hides = 0

-----------------------------------------------------------------------------
(* The peer that asks *)

(* Control::excludes *)
excludes(p, hold, held) ==
    /\ held.controller \notin {Server, p}
    /\ held.hold = "exclusive" \/ hold = "soft"

\* Mutant of Issue: operations are numbered by the place they wait at.
IssueReuses(p, kind, hold, successor, ops) ==
    LET ask == Len(asked) + 1
        op == Len(pending[p]) + 1 IN
    /\ lastOp' = [lastOp EXCEPT ![p] = op]
    /\ pending' = [pending EXCEPT ![p] = Append(ops, [op |-> op, kind |-> kind, ask |-> ask])]
    /\ up' = [up EXCEPT ![p] = Append(@, [op |-> op, kind |-> kind, hold |-> hold,
                                          successor |-> successor, ask |-> ask])]

(* Control::issue, send_control_op; "ask" numbers the requests of the run.    *)
Issue(p, kind, hold, successor, ops) ==
    LET ask == Len(asked) + 1
        op == lastOp[p] + 1 IN
    /\ lastOp' = [lastOp EXCEPT ![p] = op]
    /\ pending' = [pending EXCEPT ![p] = Append(ops, [op |-> op, kind |-> kind, ask |-> ask])]
    /\ up' = [up EXCEPT ![p] = Append(@, [op |-> op, kind |-> kind, hold |-> hold,
                                          successor |-> successor, ask |-> ask])]

(* "whose" is who asks: the game, or the copy that gives back a late grant.   *)
Asking(p, kind, whose) ==
    [peer |-> p, kind |-> kind, whose |-> whose, state |-> "pending", answer |-> 0]

ByTheGame == Cardinality({k \in 1..Len(asked) : asked[k].whose = "game"})
claims_pending(p) == \E i \in 1..Len(pending[p]) : pending[p][i].kind = "claim"

(* issue_claim; what the copy already excludes is refused before it is sent.  *)
claim_control(p, hold) ==
    /\ copy[p] # NoCopy /\ ByTheGame < MaxAsked
    /\ Len(pending[p]) < MaxPending
    /\ ~excludes(p, hold, copy[p])
    /\ ~(pending[p] = <<>> /\ copy[p].controller = p /\ copy[p].hold = hold)
    /\ Issue(p, "claim", hold, p, pending[p])
    /\ asked' = Append(asked, Asking(p, "claim", "game"))
    /\ UNCHANGED <<control, shown, copy, abandoned, down, decided, used>>

release_control(p, successor) ==
    /\ copy[p] # NoCopy /\ ByTheGame < MaxAsked
    /\ Len(pending[p]) < MaxPending
    /\ claims_pending(p) \/ copy[p].controller = p
    /\ Issue(p, "release", "none", successor, pending[p])
    /\ asked' = Append(asked, Asking(p, "release", "game"))
    /\ UNCHANGED <<control, shown, copy, abandoned, down, decided, used>>

\* Mutant of expire_control: what is given up is never forgotten.
ExpireKeepsAll(p, n) ==
    /\ n \in 1..Len(pending[p])
    /\ LET late == SubSeq(pending[p], 1, n)
           claims == SelectSeq(late, LAMBDA held : held.kind = "claim")
           all == abandoned[p] \o [i \in 1..Len(claims) |->
                                      [op |-> claims[i].op, ask |-> claims[i].ask]] IN
        /\ pending' = [pending EXCEPT ![p] = SubSeq(@, n + 1, Len(@))]
        /\ abandoned' = [abandoned EXCEPT ![p] =
              IF TRUE THEN all
              ELSE SubSeq(all, Len(all) - MaxAbandoned + 1, Len(all))]
        /\ asked' = [k \in 1..Len(asked) |->
              IF \E i \in 1..n : late[i].ask = k
              THEN [asked[k] EXCEPT !.state = "timeout"] ELSE asked[k]]
    /\ UNCHANGED <<control, shown, copy, lastOp, links, decided, used>>

\* Mutant of expire_control: a claim that is given up is forgotten.
ExpireForgets(p, n) ==
    /\ n \in 1..Len(pending[p])
    /\ LET late == SubSeq(pending[p], 1, n)
           claims == SelectSeq(late, LAMBDA held : FALSE)
           all == abandoned[p] \o [i \in 1..Len(claims) |->
                                      [op |-> claims[i].op, ask |-> claims[i].ask]] IN
        /\ pending' = [pending EXCEPT ![p] = SubSeq(@, n + 1, Len(@))]
        /\ abandoned' = [abandoned EXCEPT ![p] =
              IF Len(all) <= MaxAbandoned THEN all
              ELSE SubSeq(all, Len(all) - MaxAbandoned + 1, Len(all))]
        /\ asked' = [k \in 1..Len(asked) |->
              IF \E i \in 1..n : late[i].ask = k
              THEN [asked[k] EXCEPT !.state = "timeout"] ELSE asked[k]]
    /\ UNCHANGED <<control, shown, copy, lastOp, links, decided, used>>

(* expire_control: the oldest requests that wait are given up, and the claims *)
(* among them are remembered.                                                 *)
expire_control(p, n) ==
    /\ n \in 1..Len(pending[p])
    /\ LET late == SubSeq(pending[p], 1, n)
           claims == SelectSeq(late, LAMBDA held : held.kind = "claim")
           all == abandoned[p] \o [i \in 1..Len(claims) |->
                                      [op |-> claims[i].op, ask |-> claims[i].ask]] IN
        /\ pending' = [pending EXCEPT ![p] = SubSeq(@, n + 1, Len(@))]
        /\ abandoned' = [abandoned EXCEPT ![p] =
              IF Len(all) <= MaxAbandoned THEN all
              ELSE SubSeq(all, Len(all) - MaxAbandoned + 1, Len(all))]
        /\ asked' = [k \in 1..Len(asked) |->
              IF \E i \in 1..n : late[i].ask = k
              THEN [asked[k] EXCEPT !.state = "timeout"] ELSE asked[k]]
    /\ UNCHANGED <<control, shown, copy, lastOp, links, decided, used>>

-----------------------------------------------------------------------------
(* The server *)

Apply(held, moved, op, outcome, ask) ==
    [at |-> "apply", controller |-> held.controller, revision |-> held.revision,
     moved |-> moved, hold |-> held.hold, op |-> op, outcome |-> outcome, ask |-> ask]

\* Mutant of broadcast_control: the issuer is told only when it is in control.
BroadcastToOthers(links_down, next, moved, issuer, op, ask) ==
    [p \in Peers |->
        IF p \notin shown \/ (p = issuer /\ next.controller # p) THEN links_down[p]
        ELSE Append(links_down[p],
                    IF p = issuer THEN Apply(next, moved, op, "granted", ask)
                    ELSE Apply(next, moved, 0, "granted", 0))]

(* broadcast_control: to everyone the entity is shown to; only the issuer's   *)
(* carries its operation.                                                     *)
broadcast_control(links_down, next, moved, issuer, op, ask) ==
    [p \in Peers |->
        IF p \notin shown THEN links_down[p]
        ELSE Append(links_down[p],
                    IF p = issuer THEN Apply(next, moved, op, "granted", ask)
                    ELSE Apply(next, moved, 0, "granted", 0))]

(* Control::decide *)
Decided(held, controller, hold) ==
    [controller |-> controller, revision |-> held.revision + 1,
     tenure |-> IF controller # held.controller THEN held.revision + 1 ELSE held.tenure,
     hold |-> IF controller = Server THEN "none" ELSE hold]

Entry(next, ask) == [controller |-> next.controller, tenure |-> next.tenure,
                     hold |-> next.hold, by |-> ask]

(* decide_control.  A handler of control_changed may hand the entity on       *)
(* before the decision is sent: its own decision is sent first, and then this *)
(* one, with the revision and the hold that stand by then.                    *)
Decide(controller, hold, issuer, op, ask, on) ==
    LET next == Decided(control, controller, hold)
        moved == controller # control.controller
        last == Decided(next, on, "none") IN
    IF moved /\ on \in HandsOn \ {controller}
    THEN /\ control' = last
         /\ decided' = decided \o <<Entry(next, ask), Entry(last, 0)>>
         /\ down' = broadcast_control(broadcast_control(down, last, TRUE, Server, 0, 0),
                                      [last EXCEPT !.controller = controller],
                                      TRUE, issuer, op, ask)
    ELSE /\ on = controller
         /\ control' = next
         /\ decided' = Append(decided, Entry(next, ask))
         /\ down' = broadcast_control(down, next, moved, issuer, op, ask)

(* refuse_control, which restates the decision that stands. *)
Refuse(p, request, outcome) ==
    /\ down' = [down EXCEPT ![p] =
          Append(@, Apply(control, FALSE, request.op, outcome, request.ask))]
    /\ UNCHANGED <<control, decided>>

holds_copy(p) == p = Server \/ p \in shown

(* _handle_control_request: decide_request and decide_release.  "denied" is   *)
(* the handler of control_requested, which a change of the own hold is spared. *)
(* The transfer is the requestable one, and a requester controls the entity    *)
(* it names as its source; what is refused otherwise is not modelled.          *)
decide_request(p, denied, on) ==
    /\ up[p] # <<>> /\ Head(up[p]).kind = "claim"
    /\ LET request == Head(up[p]) IN
        IF excludes(p, request.hold, control) \/ (denied /\ control.controller # p)
        THEN Refuse(p, request, "unauthorized") /\ on = p
        ELSE Decide(p, request.hold, p, request.op, request.ask, on)
    /\ up' = [up EXCEPT ![p] = Tail(@)]
    /\ UNCHANGED <<shown, copies, asked, used>>

decide_release(p, on) ==
    /\ up[p] # <<>> /\ Head(up[p]).kind = "release"
    /\ LET request == Head(up[p]) IN
        CASE control.controller # p ->
                Refuse(p, request, "unauthorized") /\ on = p
          [] control.controller = p /\ ~holds_copy(request.successor) ->
                Refuse(p, request, "unavailable") /\ on = p
          [] OTHER -> Decide(request.successor, "none", p, request.op, request.ask, on)
    /\ up' = [up EXCEPT ![p] = Tail(@)]
    /\ UNCHANGED <<shown, copies, asked, used>>

(* transfer_steering: the server writes NetwEntity.controller. *)
transfer_steering(c, on) ==
    /\ writes < MaxWrites
    /\ writes' = writes + 1
    /\ Decide(c, "none", Server, 0, 0, on)
    /\ UNCHANGED <<shown, copies, up, asked, hides>>

(* External: the interest of the peers.  A hidden peer is told so, and a peer *)
(* it is shown to gets a copy seeded with the decision that stands.           *)
hide(p) ==
    /\ p \in shown /\ hides < MaxHides
    /\ hides' = hides + 1
    /\ shown' = shown \ {p}
    /\ down' = [down EXCEPT ![p] = Append(@, [at |-> "hide"])]
    /\ UNCHANGED <<control, copies, up, asked, decided, writes>>

show(p) ==
    /\ p \notin shown
    /\ shown' = shown \cup {p}
    /\ down' = [down EXCEPT ![p] = Append(@, [at |-> "spawn", seed |-> control])]
    /\ UNCHANGED <<control, copies, up, asked, decided, used>>

-----------------------------------------------------------------------------
(* The peer that hears *)

hears(p, what) == down[p] # <<>> /\ Head(down[p]).at = what
Took(p) == down' = [down EXCEPT ![p] = Tail(@)]

\* Mutant of Installed: every decision starts a tenure.
InstalledAnew(p, heard) ==
    IF heard.revision <= copy[p].revision THEN copy[p]
    ELSE [controller |-> heard.controller, revision |-> heard.revision, hold |-> heard.hold,
          tenure |-> IF TRUE THEN heard.revision ELSE copy[p].tenure]

(* Control::install: only what is newer. *)
Installed(p, heard) ==
    IF heard.revision <= copy[p].revision THEN copy[p]
    ELSE [controller |-> heard.controller, revision |-> heard.revision, hold |-> heard.hold,
          tenure |-> IF heard.moved THEN heard.revision ELSE copy[p].tenure]

\* Mutant of Outcome: a refusal that leaves the peer without control counts as done.
OutcomeOfAny(p, held, heard, now) ==
    IF \/ heard.outcome = "granted"
       \/ heard.outcome = "unauthorized" /\ now.controller # p
    THEN "ok" ELSE "refused"

(* settle_claim: a release that finds nothing to release has what it wanted.  *)
Outcome(p, held, heard, now) ==
    IF \/ heard.outcome = "granted"
       \/ held.kind = "release" /\ heard.outcome = "unauthorized" /\ now.controller # p
    THEN "ok" ELSE "refused"

(* settle_control: the operation that is answered settles; a claim that was   *)
(* given up before is given back.                                             *)
settle_control(p, heard, now) ==
    LET waits == {i \in 1..Len(pending[p]) : pending[p][i].op = heard.op}
        given_up == {i \in 1..Len(abandoned[p]) : abandoned[p][i].op = heard.op}
        gives_back == /\ heard.outcome = "granted" /\ now.controller = p
                      /\ Len(pending[p]) < MaxPending IN
    CASE waits # {} ->
            LET i == CHOOSE j \in waits : \A k \in waits : j <= k
                held == pending[p][i] IN
            /\ pending' = [pending EXCEPT ![p] = RemoveAt(@, i)]
            /\ asked' = [asked EXCEPT ![held.ask].state = Outcome(p, held, heard, now),
                                      ![held.ask].answer = heard.ask]
            /\ UNCHANGED <<lastOp, abandoned, up>>
      [] waits = {} /\ given_up # {} ->
            /\ abandoned' = [abandoned EXCEPT ![p] =
                  RemoveAt(@, CHOOSE i \in given_up : \A k \in given_up : i <= k)]
            /\ IF gives_back
               THEN /\ Issue(p, "release", "none", Server, pending[p])
                    /\ asked' = Append(asked, Asking(p, "release", "copy"))
               ELSE UNCHANGED <<lastOp, pending, up, asked>>
      [] OTHER -> UNCHANGED <<lastOp, pending, abandoned, up, asked>>

(* _handle_control_apply: the copy takes the decision, then the operation it  *)
(* answers settles.  A copy that is gone hears nothing.                       *)
handle_control_apply(p) ==
    /\ hears(p, "apply")
    /\ Took(p)
    /\ IF copy[p] = NoCopy THEN UNCHANGED <<copies, up, asked>>
       ELSE LET now == Installed(p, Head(down[p])) IN
            /\ copy' = [copy EXCEPT ![p] = now]
            /\ settle_control(p, Head(down[p]), now)
    /\ UNCHANGED <<control, shown, decided, used>>

(* handle_hide_frame frees the node, and the destructor of its entity gives   *)
(* up what it waits for (abandon_claims).                                     *)
handle_hide(p) ==
    /\ hears(p, "hide")
    /\ Took(p)
    /\ copy' = [copy EXCEPT ![p] = NoCopy]
    /\ lastOp' = [lastOp EXCEPT ![p] = 0]
    /\ abandoned' = [abandoned EXCEPT ![p] = <<>>]
    /\ pending' = [pending EXCEPT ![p] = <<>>]
    /\ asked' = [k \in 1..Len(asked) |->
          IF \E i \in 1..Len(pending[p]) : pending[p][i].ask = k
          THEN [asked[k] EXCEPT !.state = "gone"] ELSE asked[k]]
    /\ UNCHANGED <<control, shown, up, decided, used>>

\* Mutant of handle_spawn: a new copy starts a tenure of its own.
SpawnStartsATenure(p) ==
    /\ hears(p, "spawn")
    /\ Took(p)
    /\ copy' = [copy EXCEPT ![p] = [Head(down[p]).seed EXCEPT !.tenure = Head(down[p]).seed.revision]]
    /\ UNCHANGED <<control, shown, lastOp, pending, abandoned, up, asked, decided, used>>

(* Record::stamp_header: seed_control on the entity of a new node. *)
handle_spawn(p) ==
    /\ hears(p, "spawn")
    /\ Took(p)
    /\ copy' = [copy EXCEPT ![p] = Head(down[p]).seed]
    /\ UNCHANGED <<control, shown, lastOp, pending, abandoned, up, asked, decided, used>>

Hears(p) == handle_control_apply(p) \/ handle_hide(p) \/ handle_spawn(p)
Decides(p) ==
    \E on \in Controllers :
        \/ \E denied \in BOOLEAN : decide_request(p, denied, on)
        \/ decide_release(p, on)
Asks(p) ==
    \/ \E hold \in Holds : claim_control(p, hold)
    \/ \E successor \in Controllers \ {p} : release_control(p, successor)

Next ==
    \/ \E p \in Peers :
        \/ Asks(p) \/ Decides(p) \/ Hears(p) \/ hide(p) \/ show(p)
        \/ \E n \in 1..MaxPending : expire_control(p, n)
    \/ \E c, on \in Controllers : transfer_steering(c, on)

Spec == Init /\ [][Next]_vars

(* Links are reliable: what was sent is read.  Nobody owes anything else. *)
FairSpec == Spec /\ \A p \in Peers : WF_vars(Decides(p)) /\ WF_vars(Hears(p))

-----------------------------------------------------------------------------
Decision == [controller : Controllers, revision : Nat, tenure : Nat,
             hold : {"none", "soft", "exclusive"}]

TypeOK ==
    /\ control \in Decision /\ shown \subseteq Peers
    /\ \A p \in Peers : copy[p] = NoCopy \/ copy[p] \in Decision
    /\ \A p \in Peers : Len(pending[p]) <= MaxPending /\ Len(abandoned[p]) <= MaxAbandoned
    /\ lastOp \in [Peers -> Nat]
    /\ \A k \in 1..Len(asked) :
        asked[k].state \in {"pending", "ok", "refused", "timeout", "gone"}
    /\ Len(decided) = control.revision /\ {writes, hides} \subseteq Nat

(* A revision says the same to everyone: a copy that is at a revision has the *)
(* controller, the hold and the tenure that were decided there, whatever it   *)
(* missed, was refused or was seeded with.                                    *)
CopiesAgree ==
    \A p \in Peers : copy[p] # NoCopy =>
        /\ copy[p].revision <= control.revision
        /\ LET was == decided[copy[p].revision] IN
            /\ copy[p].controller = was.controller /\ copy[p].hold = was.hold
            /\ copy[p].tenure = was.tenure

(* A request settles by the decision about itself. *)
AnsweredForItself ==
    \A k \in 1..Len(asked) : asked[k].answer \in {0, k}

(* A claim resolves on a copy that its peer controls. *)
InCharge ==
    \A k \in 1..Len(asked) :
        asked'[k].state = "ok" /\ asked[k].state # "ok" /\ asked[k].kind = "claim" =>
            copy'[asked[k].peer].controller = asked[k].peer
ResolvesInCharge == [][InCharge]_vars

Quiet == \A p \in Peers : up[p] = <<>> /\ down[p] = <<>> /\ pending[p] = <<>>

(* When everything is said, a peer is in control by a claim it was told of: a *)
(* claim that was reported to have failed is not granted behind its back, and *)
(* one that timed out is given back.                                          *)
NoOneIsLeftInControl ==
    Quiet => LET by == decided[control.revision].by IN
        by # 0 /\ asked[by].kind = "claim" => asked[by].state = "ok"

(* Claims are answered by what was decided, as the four parts above say. *)
ClaimsAreAnswered == TypeOK /\ CopiesAgree /\ AnsweredForItself /\ NoOneIsLeftInControl

(* What is given back is a late grant, and never control that a later claim   *)
(* was told it has.                                                           *)
GivesBackOnlyTheLate ==
    [][\A k \in 1..Len(asked) :
          control' # control /\ decided'[control'.revision].by = k /\ asked[k].whose = "copy" =>
              LET lost == decided[control.revision].by IN
                lost = 0 \/ asked[lost].state # "ok"]_vars

(* Every copy comes to the decision that stands. *)
CopiesFollow == \A p \in shown : copy[p] = control
EveryCopyFollows == <>[]CopiesFollow
=============================================================================

------------------------------ MODULE Admission ------------------------------
(***************************************************************************)
(* How a server lets peers in (api/session/admission.cpp and the auth_,     *)
(* session_ and player_ parts of api/netw_multiplayer.cpp).  A peer that the *)
(* transport brings is authenticated first: hello, join, the verdicts of the *)
(* account providers and of the admission handler, ADMITTED, CONFIRMED; its  *)
(* player is published once the link is through.  Promises settle late,      *)
(* deadlines pass, links end and begin again under the same peer id, a       *)
(* second join of an account replaces the first player, and while a server   *)
(* that took over waits for reports joins are parked.                        *)
(***************************************************************************)
EXTENDS Integers, Sequences, FiniteSets, SequencesExt

CONSTANTS
    Peers,          \* the ids that remote peers connect under
    None,           \* no link, no admission, no player
    Accounts,       \* what a verdict can assign; a guest has none
    Guest,
    HostAccount,    \* the account of the server's own player
    Declarations,   \* whether the game declares admission at first: "ready", "absent"
    Providers,      \* account providers the declaration accepts
    Halts,          \* whether the server may start halted
    MaxDials,       \* links in all
    MaxDeclares     \* new declarations

Assumptions ==
    /\ Declarations \subseteq {"ready", "absent"} /\ Halts \subseteq BOOLEAN
    /\ Guest \notin Accounts /\ HostAccount \in Accounts
    /\ {Providers, MaxDials, MaxDeclares} \subseteq Nat

VARIABLES
    row,            \* per peer, what transport, session and client hold of it
    declared, generation,
    structure_halted, halt_joins,
    polling         \* TRUE while a poll reads the transport

vars == <<row, declared, generation, structure_halted, halt_joins, polling>>

POLLS == 2          \* POLLS_BEFORE_TURNED_AWAY_PEER_DROPS

(* A LinkHandshake, timed once the link begins in order, and what is known of a peer *)
(* nobody has heard of.                                                              *)
LinkHandshake == [hello_heard |-> FALSE, joining |-> FALSE, completed |-> FALSE,
                  refused |-> FALSE, refused_polls |-> 0, timed |-> FALSE, late |-> FALSE,
                  admitted |-> None]
Unknown == [transport |-> "none", inner |-> "none", dial |-> 0,
            inbox |-> <<>>, outbox |-> <<>>, client |-> "away",
            link |-> None, pending |-> None, player |-> None, rostered |-> FALSE,
            settled |-> FALSE, turned |-> None, promises |-> {}, minted |-> 0]

Init ==
    /\ row = [p \in Peers |-> Unknown]
    /\ declared \in Declarations /\ generation = 0
    /\ structure_halted \in Halts /\ halt_joins = <<>>
    /\ polling = FALSE

-----------------------------------------------------------------------------
(* What is done to one peer. *)

(* SceneMultiplayer authenticates the peer until both ends completed the link. *)
Authenticating(r) == r.inner \in {"pending", "confirmed"}

Sent(r, message) ==
    IF Authenticating(r) /\ r.transport = "up" THEN Append(r.outbox, message) ELSE r.outbox

(* The transport is told to close the link; it tells the session once it has. *)
Closing(r) ==
    [r EXCEPT !.transport = IF @ = "up" THEN "closing" ELSE @, !.inbox = <<>>, !.outbox = <<>>]

(* SceneMultiplayer forgets the peer first, so nothing is heard of its end. *)
disconnect_peer(r) == [Closing(r) EXCEPT !.inner = "none"]

auth_forget_link(r) == [r EXCEPT !.link = None, !.pending = None]

Refusable(r) == r.link # None /\ ~r.link.completed /\ r.link.hello_heard

auth_refuse(r) ==
    IF r.link.refused
    THEN r
    ELSE [r EXCEPT !.link.refused = TRUE, !.link.refused_polls = 0, !.pending = None,
                   !.outbox = Sent(r, "refused")]

turn_peer_away(r) == IF r.turned = None THEN [r EXCEPT !.turned = 0] ELSE r

fail_join(r) ==
    LET forgotten == [r EXCEPT !.rostered = FALSE]
    IN  IF Refusable(r) THEN auth_refuse(forgotten) ELSE turn_peer_away(forgotten)

settle_peer_loss(r) ==
    IF r.settled
    THEN r
    ELSE [auth_forget_link(r) EXCEPT !.settled = TRUE, !.player = None, !.rostered = FALSE]

publish_admitted(r, seat) == [r EXCEPT !.player = seat, !.rostered = TRUE]

(* The link is told that it is admitted; without a link that joins the player is     *)
(* published at once.                                                                *)
Admit(r, seat) ==
    IF r.link = None \/ ~r.link.joining \/ r.link.completed
    THEN publish_admitted(r, seat)
    ELSE LET told == [r EXCEPT !.link.admitted = seat, !.outbox = Sent(r, "admitted")]
         IN  IF Authenticating(r) THEN told ELSE disconnect_peer(told)

(* A provider or the handler is called and its promise awaited. *)
Await(r) ==
    [r EXCEPT !.minted = @ + 1, !.pending.ticket = r.minted + 1,
              !.promises = @ \cup {[ticket |-> r.minted + 1, dial |-> r.pending.dial]}]

(* Mutant: a verdict counts whichever promise brings it. *)
awaited_settleAny(r, promise) == r.pending # None

awaited_settle(r, promise) == r.pending # None /\ r.pending.ticket = promise.ticket

verify_next(r) ==
    IF r.pending.verified < Providers
    THEN Await([r EXCEPT !.pending.verified = @ + 1])
    ELSE Await([r EXCEPT !.pending.asked = TRUE])

(* The verdict is due with the link, or after a time of its own where no link is    *)
(* authenticating.                                                                   *)
start_admission(r, join) ==
    LET timed == r.link # None /\ ~r.link.completed /\ r.link.timed
    IN  verify_next([r EXCEPT !.pending =
            [dial |-> join.dial, orphan |-> join.orphan, verified |-> 0, asked |-> FALSE,
             ticket |-> 0, declaration |-> generation, ownTime |-> ~timed,
             late |-> timed /\ r.link.late]])

-----------------------------------------------------------------------------
(* What a join does to all of them. *)

Playing(rows, account) ==
    {p \in Peers : account # Guest /\ rows[p].player # None /\ rows[p].player.account = account}

(* Links of the account that were admitted and have not come through. *)
Admitted(rows, account) ==
    {p \in Peers : /\ rows[p].link # None /\ rows[p].link.admitted # None
                   /\ rows[p].link.admitted.account = account}

(* The first player of the account leaves before the join handler is looked at. *)
Replaced(rows, joining, former) ==
    IF former \in {None, joining} THEN rows
    ELSE [rows EXCEPT ![former] = settle_peer_loss(turn_peer_away(@))]

finish_join(rows, p, join, account, former, available) ==
    LET seat == [dial |-> join.dial, by |-> join.by, orphan |-> join.orphan,
                 account |-> account, beside |-> Admitted(rows, account) \ {p}]
    IN  IF account = HostAccount THEN [rows EXCEPT ![p] = fail_join(@)]
        ELSE [Replaced(rows, p, former) EXCEPT
                 ![p] = IF available THEN Admit(@, seat) ELSE fail_join(@)]

(* Whom a join of the account can find playing, of several any one. *)
Formers(rows, account) ==
    IF Playing(rows, account) = {} THEN {None} ELSE Playing(rows, account)

accept_join(rows, p, join, account, former, available) ==
    IF ~join.good \/ (~rows[p].rostered /\ rows[p].pending = None /\ declared = "gone")
    THEN [rows EXCEPT ![p] = fail_join(@)]
    ELSE IF rows[p].rostered \/ rows[p].pending # None THEN rows
    ELSE IF declared = "absent"
    THEN finish_join(rows, p, join, account, former, available)
    ELSE [rows EXCEPT ![p] = start_admission(@, join)]

(* The account that the directory of the transport reports, where nothing is        *)
(* declared.                                                                         *)
Directory == IF declared = "absent" THEN Accounts \cup {Guest} ELSE {Guest}

(* halt_forget_peer: a peer that is settled takes its parked join along. *)
halt_forget(after) ==
    SelectSeq(halt_joins, LAMBDA join : after[join.peer].settled => row[join.peer].settled)

Becomes(rows) == row' = rows /\ halt_joins' = halt_forget(rows)

BecomesOf(p, r) == Becomes([row EXCEPT ![p] = r])

-----------------------------------------------------------------------------
(* What the transport brings, while a poll reads it. *)

Dials == LET Add(p, sum) == row[p].dial + sum IN FoldSet(Add, 0, Peers)

(* peer_authenticating: the link begins, whatever is left of the last one. *)
auth_send_hello(p) ==
    /\ polling /\ row[p].transport = "none" /\ Dials < MaxDials
    /\ \E hello \in {"hello", "foreign"} :
           BecomesOf(p, [row[p] EXCEPT !.transport = "up", !.inner = "pending", !.dial = @ + 1,
                             !.inbox = <<hello>>, !.outbox = <<>>, !.client = "greeting",
                             !.link = [LinkHandshake EXCEPT !.timed = TRUE]])
    /\ UNCHANGED <<declared, generation, structure_halted, polling>>

(* The next packet of the link. *)
Hears(p, message) ==
    /\ polling /\ row[p].transport = "up" /\ row[p].inbox # <<>> /\ Head(row[p].inbox) = message
    /\ UNCHANGED <<declared, generation, structure_halted, polling>>

Read(p) == [row[p] EXCEPT !.inbox = Tail(@)]
Refused(p) == row[p].link # None /\ row[p].link.refused

(* The link as the hello finds it, begun anew where it was settled away. *)
Heard(p) ==
    [Read(p) EXCEPT !.link = [(IF @ = None THEN LinkHandshake ELSE @) EXCEPT !.hello_heard = TRUE]]

auth_receive_hello(p) ==
    /\ ~Refused(p)
    /\ \/ Hears(p, "hello") /\ BecomesOf(p, [Heard(p) EXCEPT !.outbox = Sent(row[p], "hello")])
       \/ Hears(p, "foreign") /\ BecomesOf(p, auth_refuse(Heard(p)))

(* A link that is refused hears nothing more. *)
auth_ignored(p) ==
    /\ Refused(p)
    /\ \E message \in {"hello", "foreign", "join", "other", "confirmed"} : Hears(p, message)
    /\ BecomesOf(p, Read(p))

(* halt_park_join: while the server is halted the latest join of each sender waits. *)
park_join(join) ==
    IF \E i \in DOMAIN halt_joins : halt_joins[i].peer = join.peer
    THEN [i \in DOMAIN halt_joins |->
             IF halt_joins[i].peer = join.peer THEN join ELSE halt_joins[i]]
    ELSE Append(halt_joins, join)

Submitted(p, message) ==
    [peer |-> p, dial |-> row[p].dial, by |-> row[p].dial, good |-> message = "join",
     orphan |-> FALSE]

auth_receive_join(p) ==
    /\ ~Refused(p)
    /\ \E message \in {"join", "other"} :
           /\ Hears(p, message)
           /\ LET joining == [row EXCEPT ![p] = [Read(p) EXCEPT !.link.joining = TRUE]]
                  join == Submitted(p, message)
              IN  IF row[p].link = None \/ (row[p].link # None /\ ~row[p].link.hello_heard)
                  THEN BecomesOf(p, disconnect_peer(row[p]))
                  ELSE IF structure_halted
                  THEN row' = joining /\ halt_joins' = park_join(join)
                  ELSE \E account \in Directory, available \in BOOLEAN :
                       \E former \in Formers(joining, account) :
                           Becomes(accept_join(joining, p, join, account, former, available))

(* CONFIRMED completes an admitted link at this end, and the packet after it says    *)
(* that the client has completed it too: SceneMultiplayer connects the peer and the  *)
(* player that was admitted is published.                                            *)
auth_receive_answer(p) ==
    /\ Hears(p, "confirmed") /\ ~Refused(p)
    /\ BecomesOf(p, IF row[p].link = None \/ row[p].link.completed \/ row[p].link.admitted = None
                    THEN Read(p)
                    ELSE [Read(p) EXCEPT !.link.completed = TRUE, !.inner = "confirmed"])

peer_connected(p) ==
    LET connected == [Read(p) EXCEPT !.inner = "connected", !.settled = FALSE]
    IN  /\ Hears(p, "completed")
        /\ BecomesOf(p, IF row[p].inner # "confirmed" THEN Read(p)
                        ELSE IF row[p].link = None \/ row[p].link.admitted = None THEN connected
                        ELSE publish_admitted([connected EXCEPT !.link.admitted = None],
                                              row[p].link.admitted))

session_receive_leave(p) ==
    Hears(p, "leave") /\ BecomesOf(p, turn_peer_away(Read(p)))

(* The link is gone: closed at this end, by the client, or lost. *)
TransportEnds(p) ==
    LET gone == [row[p] EXCEPT !.transport = "none", !.inner = "none", !.client = "away",
                               !.inbox = <<>>, !.outbox = <<>>]
    IN  /\ polling /\ row[p].transport # "none"
        /\ BecomesOf(p, CASE Authenticating(row[p]) -> auth_forget_link(gone)
                          [] row[p].inner = "connected" -> settle_peer_loss(gone)
                          [] OTHER -> gone)
        /\ UNCHANGED <<declared, generation, structure_halted, polling>>

ClosedLinkEnds(p) == row[p].transport = "closing" /\ TransportEnds(p)

-----------------------------------------------------------------------------
(* The client answers what it hears, in order, and may leave once it is in. *)

Client(p, r) ==
    row' = [row EXCEPT ![p] = r]
        /\ UNCHANGED <<declared, generation, structure_halted, halt_joins, polling>>

Hearing(p) == [row[p] EXCEPT !.outbox = Tail(@)]

ClientHears(p) ==
    /\ row[p].outbox # <<>>
    /\ \/ /\ Head(row[p].outbox) = "hello"
          /\ \E join \in {"join", "other"} :
                 Client(p, [Hearing(p) EXCEPT !.client = "joining", !.inbox = Append(@, join)])
       \/ /\ Head(row[p].outbox) = "admitted" /\ row[p].client = "joining"
          /\ Client(p, [Hearing(p) EXCEPT !.client = "in",
                                          !.inbox = @ \o <<"confirmed", "completed">>])
       \/ /\ Head(row[p].outbox) = "admitted" /\ row[p].client # "joining"
          /\ Client(p, Hearing(p))
       \/ /\ Head(row[p].outbox) = "refused"
          /\ Client(p, [Hearing(p) EXCEPT !.client = IF @ = "in" THEN @ ELSE "refused"])

ClientLeaves(p) ==
    /\ row[p].transport = "up" /\ row[p].inner = "connected" /\ row[p].client = "in"
    /\ Client(p, [row[p] EXCEPT !.client = "left", !.inbox = Append(@, "leave")])

-----------------------------------------------------------------------------
(* What providers, the handler and the game do, at any time. *)

(* A promise settles.  Only the one that is awaited counts, and only under the       *)
(* declaration it was asked under.                                                    *)
session_admission_settled(p) ==
    /\ \E promise \in row[p].promises, verdict \in {"refused", Guest} \cup Accounts :
       LET heard == [row[p] EXCEPT !.promises = @ \ {promise}]
           asked == [heard EXCEPT !.pending = None]
           stands == declared = "ready" /\ generation = row[p].pending.declaration
       IN  \/ ~awaited_settle(row[p], promise) /\ BecomesOf(p, heard)
           \/ /\ awaited_settle(row[p], promise) /\ (~stands \/ verdict = "refused")
              /\ BecomesOf(p, fail_join(asked))
           \/ /\ awaited_settle(row[p], promise) /\ stands /\ verdict # "refused"
              /\ ~row[p].pending.asked
              /\ BecomesOf(p, verify_next(heard))
           \/ /\ awaited_settle(row[p], promise) /\ stands /\ verdict # "refused"
              /\ row[p].pending.asked
              /\ \E available \in BOOLEAN, former \in Formers(row, verdict) :
                     Becomes(finish_join([row EXCEPT ![p] = asked], p,
                         [dial |-> row[p].pending.dial, by |-> promise.dial,
                          orphan |-> row[p].pending.orphan], verdict, former, available))
    /\ UNCHANGED <<declared, generation, structure_halted, polling>>

player_kick(p) ==
    /\ row[p].player # None
    /\ BecomesOf(p, turn_peer_away([row[p] EXCEPT !.player = None, !.rostered = FALSE]))
    /\ UNCHANGED <<declared, generation, structure_halted, polling>>

(* configure_admission is called again, or the object of its handler is freed. *)
Declare ==
    /\ declared # "absent" /\ generation < MaxDeclares
    /\ declared' \in {"ready", "gone"} /\ generation' = generation + 1
    /\ UNCHANGED <<row, structure_halted, halt_joins, polling>>

Time(p) ==
    /\ \/ /\ row[p].link # None /\ row[p].link.timed /\ ~row[p].link.completed /\ ~row[p].link.late
          /\ row' = [row EXCEPT ![p] =
                 IF @.pending # None /\ ~@.pending.ownTime
                 THEN [@ EXCEPT !.link.late = TRUE, !.pending.late = TRUE]
                 ELSE [@ EXCEPT !.link.late = TRUE]]
       \/ /\ row[p].pending # None /\ row[p].pending.ownTime /\ ~row[p].pending.late
          /\ row' = [row EXCEPT ![p].pending.late = TRUE]
    /\ UNCHANGED <<declared, generation, structure_halted, halt_joins, polling>>

(* The reports are in: the joins that were parked are accepted in their order. No    *)
(* more than one player of an account can be there to be found.                      *)
Released(join) ==
    LET r == row[join.peer]
    IN  [join EXCEPT !.orphan = r.link = None \/ r.link.refused \/ ~r.link.joining
                                    \/ r.dial # join.dial]

halt_release ==
    /\ structure_halted
    /\ \E account \in [Peers -> Directory], available \in [Peers -> BOOLEAN] :
       LET Accept(rows, join) ==
               LET p == join.peer
               IN  IF rows[p].settled /\ ~row[p].settled THEN rows ELSE accept_join(rows, p, Released(join), account[p],
                       CHOOSE q \in Formers(rows, account[p]) : TRUE, available[p])
       IN  row' = FoldLeft(Accept, row, halt_joins)
    /\ structure_halted' = FALSE /\ halt_joins' = <<>>
    /\ UNCHANGED <<declared, generation, polling>>

-----------------------------------------------------------------------------
(* A poll: what is overdue first, then the transport, then those to be dropped. *)

expire_admission(r) ==
    IF r.pending # None /\ r.pending.late THEN fail_join([r EXCEPT !.pending = None]) ELSE r

poll_deadline(r) ==
    IF r.link = None \/ r.link.completed \/ r.link.refused \/ ~r.link.late THEN r
    ELSE IF Refusable(r) THEN auth_refuse(r)
    ELSE auth_forget_link(disconnect_peer(r))

session_poll_admissions ==
    /\ ~polling
    /\ Becomes([p \in Peers |-> poll_deadline(expire_admission(row[p]))])
    /\ polling' = TRUE
    /\ UNCHANGED <<declared, generation, structure_halted>>

poll_turned_away(r) ==
    IF r.turned = None THEN r
    ELSE IF r.turned + 1 < POLLS THEN [r EXCEPT !.turned = @ + 1]
    ELSE settle_peer_loss(Closing([r EXCEPT !.turned = None]))

(* A link that was refused is dropped after two polls, and remembered until its      *)
(* deadline.                                                                          *)
Over(link) == link.late \/ ~link.timed

poll_refused(r) ==
    IF r.link = None \/ ~r.link.refused THEN r
    ELSE IF r.link.refused_polls < POLLS
    THEN LET counted == [r EXCEPT !.link.refused_polls = @ + 1]
         IN  IF r.link.refused_polls + 1 < POLLS THEN counted
             ELSE IF Over(r.link) THEN disconnect_peer([counted EXCEPT !.link = None])
             ELSE Closing(counted)
    ELSE IF ~Over(r.link) THEN r
    ELSE IF Authenticating(r) THEN disconnect_peer(auth_forget_link(r))
    ELSE auth_forget_link(r)

poll_ends ==
    /\ polling
    /\ Becomes([p \in Peers |-> poll_refused(poll_turned_away(row[p]))])
    /\ polling' = FALSE
    /\ UNCHANGED <<declared, generation, structure_halted>>

Receives(p) ==
    \/ auth_receive_hello(p) \/ auth_ignored(p) \/ auth_receive_join(p)
    \/ auth_receive_answer(p) \/ peer_connected(p) \/ session_receive_leave(p)

Polls == session_poll_admissions \/ poll_ends

Next ==
    \/ Polls \/ halt_release \/ Declare
    \/ \E p \in Peers :
           \/ auth_send_hello(p) \/ Receives(p) \/ TransportEnds(p)
           \/ ClientHears(p) \/ ClientLeaves(p)
           \/ session_admission_settled(p) \/ player_kick(p) \/ Time(p)

Spec == Init /\ [][Next]_vars

-----------------------------------------------------------------------------
(* A player stands for a link that is connected, was let in by the verdict its own   *)
(* join was given and is on the roster.  The one way around it: a join that was      *)
(* parked while the server was halted and outlived its link (auth_forget_link leaves *)
(* halt_joins alone).                                                                *)
PlayersAreAdmitted ==
    \A p \in Peers : row[p].player # None =>
        \/ row[p].player.orphan
        \/ /\ row[p].inner = "connected" /\ row[p].rostered
           /\ row[p].player.dial = row[p].dial /\ row[p].player.by = row[p].dial

(* An account plays once, and never beside the server's own player.  The one way     *)
(* around it: two links that were admitted while neither had come through            *)
(* (player_find_account looks at players only).                                      *)
AccountPlaysOnce ==
    \A p, q \in Peers :
        /\ row[p].player # None => row[p].player.account # HostAccount
        /\ /\ p # q /\ row[p].player # None /\ row[q].player # None
           /\ row[p].player.account = row[q].player.account
           /\ row[p].player.account # Guest
           => p \in row[q].player.beside \/ q \in row[p].player.beside

(* A link that is refused goes no further, and whoever was settled holds no player:   *)
(* the end of its link would be passed over (settled_peer_departures) and the player  *)
(* never leave.                                                                       *)
RefusedStaysOut ==
    \A p \in Peers :
        /\ Refused(p) => row[p].inner \notin {"confirmed", "connected"}
        /\ row[p].settled /\ row[p].player # None => row[p].player.orphan

AdmissionsAreSound == PlayersAreAdmitted /\ AccountPlaysOnce /\ RefusedStaysOut

(* No link authenticates for ever, nobody who was turned away stays, and no verdict  *)
(* is awaited for ever.                                                              *)
NoLinkWaits ==
    \A p \in Peers :
        /\ ~Authenticating(row[p]) /\ row[p].transport # "closing"
        /\ row[p].turned = None /\ row[p].pending = None
=============================================================================

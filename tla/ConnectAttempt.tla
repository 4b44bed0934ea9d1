-------------------------- MODULE ConnectAttempt --------------------------
(* The connection of a session (connect/core.cpp, class ConnectCore, with      *)
(* connect/creation.cpp), the states of the session it follows               *)
(* (session_core.cpp) and the calls between them (api/netw_multiplayer.cpp).  *)
(* A join or a host is an attempt: it asks a transport for a peer under a     *)
(* ticket, assigns that peer to the session, and settles its promise when the *)
(* session is online.  The game may also ask for peers of its own, which is an *)
(* attempt without a promise when none is under way, assign peers, cancel and *)
(* leave.  Every signal, callback and promise runs game     *)
(* code in the middle of the code that raised it: "stack" holds the calls in  *)
(* progress, innermost first, and a call of the game goes on top of it.       *)
(* The transports, the network and the server are external.                   *)
EXTENDS Naturals, Sequences, FiniteSets

CONSTANTS
    Tickets,        \* how many peers may be asked for
    OwnPeers,       \* how many peers the game makes itself
    Modes,          \* the modes of an attempt: "client", "host"
    Habits,         \* what the game calls and from where: pairs <<place, call>>
    MaxCalls,       \* bound on the calls of the game
    HearsLate       \* a refusal may be heard before the connection is polled

Places == {"frame", "trying", "leaving", "completed", "outbid", "failed",
           "settled", "skipped", "state", "entered", "exiting"}
Calls == {"join", "cancel", "create", "cancelCreation", "assign", "assignOwn",
          "unassign", "leave"}
BoundsAssumption == {Tickets, OwnPeers, MaxCalls} \subseteq Nat
HabitsAssumption == Habits \subseteq Places \X Calls
ModesAssumption == Modes \subseteq {"client", "host"} /\ HearsLate \in BOOLEAN
Assumptions == BoundsAssumption /\ HabitsAssumption /\ ModesAssumption

Ticket == 1..Tickets                \* the peer a ticket delivers has its number
Own == (Tickets + 1)..(Tickets + OwnPeers)
Peer == Ticket \cup Own
None == 0                           \* no ticket, no peer

VARIABLES
    link,           \* SessionCore::state
    published,      \* NetwMultiplayer::session_published_state
    assigned,       \* NetwMultiplayer::assigned_peer
    attempt,        \* ConnectCore::attempt
    live,           \* ConnectCore::live, by the peer it serves
    creation,       \* where each ticket is: Creation, its waiter and its provider
    asker,          \* Creation::completed: the attempt's or the game's
    mode,           \* Creation::mode
    starts,         \* ConnectCore::starts
    offer,          \* PeerOffer of each ticket
    closing,        \* the peer refused, while auth_close_refused_peer is deferred
    leaving,        \* the peer a leave waits for
    stack,          \* the calls in progress, innermost first
    peer,           \* external: each peer
    promise,        \* history: how the promise of each ticket settled
    answers,        \* history: how often the callback of each ticket ran
    failures,       \* history: how often "failed" reported each ticket's attempt
    inside,         \* history: "entered" was announced, and no "exiting" since
    minted, made, calls     \* tickets, own peers and calls used so far
session == <<link, published, assigned, closing, leaving>>
book == <<creation, asker, mode, starts, offer>>
history == <<promise, answers, failures, inside>>
used == <<minted, made, calls>>
vars == <<session, attempt, live, book, stack, peer, history, used>>

States == {"offline", "creating", "connecting", "online", "disconnecting"}
Rank == [s \in States |-> CASE s = "offline" -> 0 [] s = "creating" -> 1
            [] s = "connecting" -> 2 [] s = "online" -> 3 [] s = "disconnecting" -> 4]
NoAttempt == [state |-> "offline", ticket |-> None, timed |-> FALSE, answered |-> FALSE]

(* One call in progress. *)
Game(place, t) == [at |-> "game", place |-> place, ticket |-> t]
Open(m, who) == [at |-> "open", mode |-> m, who |-> who]
Cancel == [at |-> "cancel"]
CancelCreation(t) == [at |-> "cancelCreation", ticket |-> t]
Settle(t, err) == [at |-> "settle", ticket |-> t, err |-> err]
Answer(t, err) == [at |-> "answer", ticket |-> t, err |-> err]
Finish(t, err) == [at |-> "finish", ticket |-> t, err |-> err]
Assign(p) == [at |-> "assign", peer |-> p]
Install(p) == [at |-> "install", peer |-> p]
PeerAssigned(p) == [at |-> "peerAssigned", peer |-> p]
ResolveOnline(p) == [at |-> "resolveOnline", peer |-> p]
Transition(s) == [at |-> "transition", state |-> s]
Exited == [at |-> "exited"]
Edge(s) == [at |-> "edge", state |-> s]
Entered == [at |-> "entered"]
WentOnline == [at |-> "wentOnline"]
Publish == [at |-> "publish"]
Failed(t) == [at |-> "failed", ticket |-> t]
Promised(t, how) == [at |-> "promised", ticket |-> t, how |-> how]
Leave == [at |-> "leave"]
Depart == [at |-> "depart"]
ClosePeer(p, drops) == [at |-> "close", peer |-> p, drops |-> drops]

top == Head(stack)
TopIs(name) == stack # <<>> /\ top.at = name
Do(todo) == stack' = todo \o Tail(stack)

(* ConnectCore::answering_offer: the ticket whose callback is running.  It is *)
(* set for the call and put back after it, before settle_creation goes on.    *)
Finishing == {i \in 1..Len(stack) : stack[i].at = "finish"}
answering_offer ==
    IF Finishing = {} THEN None
    ELSE stack[CHOOSE i \in Finishing : \A j \in Finishing : i <= j].ticket

answers_attempt ==
    attempt.state = "creating" /\ attempt.ticket # None /\ attempt.ticket = answering_offer

(* session_get_computed_state *)
computed_state ==
    IF link = "offline" /\ attempt.state = "creating" THEN "creating" ELSE link

\* Mutant of AnnounceEnd: a cancelled attempt reports a failure too.
AnnounceEveryEnd(ended, err) ==
    <<Failed(ended.ticket)>>
    \o (IF ended.state = "offline" THEN <<>> ELSE <<Publish>>)
    \o (IF ended.ticket = None THEN <<>> ELSE <<Promised(ended.ticket, err)>>)

(* announce_end: "failed" for a real failure, the state, then the promise. *)
AnnounceEnd(ended, err) ==
    (IF err = "skip" THEN <<>> ELSE <<Failed(ended.ticket)>>)
    \o (IF ended.state = "offline" THEN <<>> ELSE <<Publish>>)
    \o (IF ended.ticket = None THEN <<>> ELSE <<Promised(ended.ticket, err)>>)

(* release_attempt *)
Release(ended) ==
    CASE ended.state = "creating" -> <<CancelCreation(ended.ticket)>>
      [] ended.state = "connecting" -> <<Assign(None)>>
      [] OTHER -> <<>>

Trying == attempt.state \in {"creating", "connecting"}

(* Nothing is in progress: an on_poll takes every waiter it armed before it   *)
(* returns.                                                                   *)
idle ==
    /\ stack = <<>>
    /\ \A t \in Ticket : /\ creation[t] \notin {"made", "refused"}
                         /\ creation[t] = "done" /\ peer[t] = "open" => offer[t] # "none"

(* on_poll runs once a frame, and what a frame deferred runs at its end. *)
polled == HearsLate \/ closing = None

Init ==
    /\ link = "offline" /\ published = "offline" /\ assigned = None
    /\ closing = None /\ leaving = None
    /\ attempt = NoAttempt /\ live = None
    /\ creation = [t \in Ticket |-> "none"] /\ asker = [t \in Ticket |-> "attempt"]
    /\ mode = [t \in Ticket |-> "client"] /\ starts = <<>>
    /\ offer = [t \in Ticket |-> "none"] /\ stack = <<>>
    /\ peer = [p \in Peer |-> "none"]
    /\ promise = [t \in Ticket |-> "none"] /\ answers = [t \in Ticket |-> 0]
    /\ failures = [t \in {None} \cup Ticket |-> 0] /\ inside = FALSE
    /\ minted = 0 /\ made = 0 /\ calls = 0

-----------------------------------------------------------------------------
(* The game *)

(* Where the game calls from: inside a callback, or in its own frame, told    *)
(* apart by what the session is in the middle of; "outbid" is the callback of *)
(* a ticket of the game's own while another attempt is under way.             *)
Place ==
    CASE TopIs("game") /\ top.place # "completed" -> top.place
      [] link = "disconnecting" -> "leaving"
      [] TopIs("game") -> IF Trying /\ attempt.ticket # top.ticket
                           THEN "outbid" ELSE "completed"
      [] Trying -> "trying"
      [] OTHER -> "frame"

Opening == Cardinality({i \in 1..Len(stack) : stack[i].at = "open"})
May(call) ==
    /\ idle \/ TopIs("game")
    /\ <<Place, call>> \in Habits
    /\ calls < MaxCalls

Calling(todo) ==
    /\ calls' = calls + 1
    /\ stack' = todo \o stack
    /\ UNCHANGED <<session, attempt, live, book, peer, history, minted>>

\* Mutant of join: a join leaves the attempt under way alone.
JoinBeside(m) ==
    /\ May("join")
    /\ minted + Opening < Tickets
    /\ attempt.state # "online"
    /\ Calling(<<Open(m, "attempt")>>)
    /\ UNCHANGED made

(* start_attempt; refused while an attempt is online. *)
join(m) ==
    /\ May("join")
    /\ minted + Opening < Tickets
    /\ attempt.state # "online"
    /\ Calling(<<Cancel, Open(m, "attempt")>>)
    /\ UNCHANGED made

cancel == May("cancel") /\ Calling(<<Cancel>>) /\ UNCHANGED made

create_peer ==
    /\ May("create")
    /\ minted + Opening < Tickets
    /\ Calling(<<Open("client", "game")>>)
    /\ UNCHANGED made

cancel_creation(t) ==
    /\ May("cancelCreation")
    /\ t <= minted /\ asker[t] = "game"
    /\ Calling(<<CancelCreation(t)>>)
    /\ UNCHANGED made

(* The game assigns the peer it was offered, one of its own, or none. *)
assign_offered ==
    /\ May("assign")
    /\ TopIs("game") /\ top.place = "completed" /\ peer[top.ticket] = "open"
    /\ Calling(<<Assign(top.ticket)>>)
    /\ UNCHANGED made

assign_own ==
    /\ May("assignOwn")
    /\ made < OwnPeers
    /\ made' = made + 1
    /\ calls' = calls + 1
    /\ peer' = [peer EXCEPT ![Tickets + made'] = "open"]
    /\ stack' = <<Assign(Tickets + made')>> \o stack
    /\ UNCHANGED <<session, attempt, live, book, history, minted>>

unassign == May("unassign") /\ Calling(<<Assign(None)>>) /\ UNCHANGED made

leave == May("leave") /\ Calling(<<Leave>>) /\ UNCHANGED made

game_returns ==
    /\ TopIs("game")
    /\ Do(<<>>)
    /\ UNCHANGED <<session, attempt, live, book, peer, history, used>>

GameCalls ==
    \/ \E m \in Modes : join(m)
    \/ cancel \/ create_peer
    \/ \E t \in Ticket : cancel_creation(t)
    \/ assign_offered \/ assign_own \/ unassign \/ leave

-----------------------------------------------------------------------------
(* Attempts *)

(* open_creation, and begin_attempt: for a join or a host, which has a promise, and   *)
(* for a peer the game asks for while no attempt is under way (create_peer).          *)
open_creation ==
    /\ TopIs("open")
    /\ LET t == minted + 1
           begins == top.who = "attempt" \/ attempt.state = "offline" IN
        /\ minted' = t
        /\ creation' = [creation EXCEPT ![t] = "queued"]
        /\ asker' = [asker EXCEPT ![t] = top.who]
        /\ mode' = [mode EXCEPT ![t] = top.mode]
        /\ starts' = Append(starts, t)
        /\ attempt' = IF begins THEN [NoAttempt EXCEPT !.state = "creating", !.ticket = t]
                      ELSE attempt
        /\ promise' = IF top.who = "attempt" THEN [promise EXCEPT ![t] = "pending"] ELSE promise
        /\ Do(IF begins THEN <<Publish>> ELSE <<>>)
    /\ UNCHANGED <<session, live, offer, peer, answers, failures, inside, made, calls>>

cancel_attempt ==
    /\ TopIs("cancel")
    /\ IF Trying
       THEN attempt' = NoAttempt /\ Do(Release(attempt) \o AnnounceEnd(attempt, "skip"))
       ELSE Do(<<>>) /\ UNCHANGED attempt
    /\ UNCHANGED <<session, live, book, peer, history, used>>

(* tick_attempt, at the deadline. *)
tick_attempt ==
    /\ idle /\ polled
    /\ Trying /\ attempt.timed
    /\ attempt' = NoAttempt
    /\ stack' = Release(attempt) \o AnnounceEnd(attempt, "timeout")
    /\ UNCHANGED <<session, live, book, peer, history, used>>

(* connection_emit_failed *)
failed ==
    /\ TopIs("failed")
    /\ failures' = [failures EXCEPT ![top.ticket] = @ + 1]
    /\ Do(<<Game("failed", top.ticket)>>)
    /\ UNCHANGED <<session, attempt, live, book, peer, promise, answers, inside, used>>

(* NetwPromise::resolve and reject: the first settlement counts. *)
promised ==
    /\ TopIs("promised")
    /\ IF promise[top.ticket] = "pending"
       THEN /\ promise' = [promise EXCEPT ![top.ticket] = top.how]
            /\ Do(<<Game(IF top.how = "skip" THEN "skipped" ELSE "settled", top.ticket)>>)
       ELSE Do(<<>>) /\ UNCHANGED promise
    /\ UNCHANGED <<session, attempt, live, book, peer, answers, failures, inside, used>>

-----------------------------------------------------------------------------
(* Creations *)

\* Mutant of start_creation: the deadline of the transport is not taken.
StartUntimed ==
    /\ stack = <<>> /\ starts # <<>>
    /\ polled
    /\ LET t == Head(starts) IN
        /\ starts' = Tail(starts)
        /\ \/ /\ stack' = <<Settle(t, "error")>>
              /\ UNCHANGED <<creation, attempt, peer>>
           \/ /\ \/ creation' = [creation EXCEPT ![t] = "building"] /\ UNCHANGED peer
                 \/ /\ creation' = [creation EXCEPT ![t] = "made"]
                    /\ peer' = [peer EXCEPT ![t] = "open"]
                 \/ creation' = [creation EXCEPT ![t] = "refused"] /\ UNCHANGED peer
              /\ attempt' = attempt
              /\ stack' = <<>>
    /\ UNCHANGED <<session, live, asker, mode, offer, history, used>>

(* start_creation, from the start of on_poll.  The transport may be gone, may *)
(* answer inside make_peer, or take its time.                                 *)
start_creation ==
    /\ stack = <<>> /\ starts # <<>>
    /\ polled
    /\ LET t == Head(starts) IN
        /\ starts' = Tail(starts)
        /\ \/ /\ stack' = <<Settle(t, "error")>>
              /\ UNCHANGED <<creation, attempt, peer>>
           \/ /\ \/ creation' = [creation EXCEPT ![t] = "building"] /\ UNCHANGED peer
                 \/ /\ creation' = [creation EXCEPT ![t] = "made"]
                    /\ peer' = [peer EXCEPT ![t] = "open"]
                 \/ creation' = [creation EXCEPT ![t] = "refused"] /\ UNCHANGED peer
              /\ attempt' = IF attempt.ticket = t THEN [attempt EXCEPT !.timed = TRUE]
                            ELSE attempt
              /\ stack' = <<>>
    /\ UNCHANGED <<session, live, asker, mode, offer, history, used>>

(* External: a transport delivers a peer or fails, which arms the waiter, and *)
(* outside of on_poll settles it at once (arm_waiter).                        *)
deliver(t, ok) ==
    /\ idle
    /\ creation[t] = "building"
    /\ creation' = [creation EXCEPT ![t] = IF ok THEN "made" ELSE "refused"]
    /\ peer' = IF ok THEN [peer EXCEPT ![t] = "open"] ELSE peer
    /\ stack' = <<Settle(t, IF ok THEN "ok" ELSE "error")>>
    /\ UNCHANGED <<session, attempt, live, asker, mode, starts, offer, history, used>>

(* The end of on_poll: a waiter that is ready.  One whose creation was        *)
(* settled meanwhile lets go of the peer it holds.                            *)
take_ready(t) ==
    /\ stack = <<>> /\ polled
    /\ \/ /\ creation[t] \in {"made", "refused"}
          /\ starts = <<>>
          /\ stack' = <<Settle(t, IF creation[t] = "made" THEN "ok" ELSE "error")>>
          /\ UNCHANGED peer
       \/ /\ creation[t] = "done" /\ peer[t] = "open" /\ offer[t] = "none"
          /\ peer' = [peer EXCEPT ![t] = "closed"]
          /\ UNCHANGED stack
    /\ UNCHANGED <<session, attempt, live, book, history, used>>

\* Mutant of Unsettled: a request is open until its callback returned.
UnsettledWhileItAnswers == {"queued", "building", "made", "refused", "answering"}

Unsettled == {"queued", "building", "made", "refused"}

(* cancel_peer_creation, which a callback that is running does not reach. *)
cancel_peer_creation ==
    /\ TopIs("cancelCreation")
    /\ Do(IF creation[top.ticket] \in Unsettled
          THEN <<Settle(top.ticket, "skip")>> ELSE <<>>)
    /\ UNCHANGED <<session, attempt, live, book, peer, history, used>>

(* settle_creation up to the call of its callback. *)
settle_creation ==
    /\ TopIs("settle")
    /\ LET t == top.ticket IN
        IF creation[t] \in Unsettled
        THEN /\ creation' = [creation EXCEPT ![t] = "answering"]
             /\ starts' = SelectSeq(starts, LAMBDA other : other # t)
             /\ offer' = IF top.err = "ok" THEN [offer EXCEPT ![t] = "open"] ELSE offer
             /\ Do(<<Answer(t, top.err), Finish(t, top.err)>>)
        ELSE Do(<<>>) /\ UNCHANGED <<creation, starts, offer>>
    /\ UNCHANGED <<session, attempt, live, asker, mode, peer, history, used>>

\* Mutant of answer: the promise resolves when the peer is assigned.
AnswerResolves ==
    /\ TopIs("answer")
    /\ LET t == top.ticket IN
        /\ answers' = [answers EXCEPT ![t] = @ + 1]
        /\ CASE asker[t] = "game" -> Do(<<Game("completed", t)>>)
             [] asker[t] = "attempt" /\ top.err = "ok" /\ answers_attempt -> Do(<<Assign(t), Promised(t, "ok")>>)
             [] OTHER -> Do(<<>>)
    /\ UNCHANGED <<session, attempt, live, book, peer, promise, failures, inside, used>>

(* The callback: assign_created for an attempt, the game's otherwise. *)
answer ==
    /\ TopIs("answer")
    /\ LET t == top.ticket IN
        /\ answers' = [answers EXCEPT ![t] = @ + 1]
        /\ CASE asker[t] = "game" -> Do(<<Game("completed", t)>>)
             [] asker[t] = "attempt" /\ top.err = "ok" /\ answers_attempt -> Do(<<Assign(t)>>)
             [] OTHER -> Do(<<>>)
    /\ UNCHANGED <<session, attempt, live, book, peer, promise, failures, inside, used>>

\* Mutant of finish: a peer that nobody took stays open.
FinishForgetsThePeer ==
    /\ TopIs("finish")
    /\ LET t == top.ticket
           ends == attempt.ticket = t /\ attempt.state = "creating"
           err == IF top.err # "ok" THEN top.err
                  ELSE IF asker[t] = "attempt" THEN "error" ELSE "skip" IN
        /\ creation' = [creation EXCEPT ![t] = "done"]
        /\ peer' = peer
        /\ offer' = offer
        /\ attempt' = IF ends THEN NoAttempt ELSE attempt
        /\ Do(IF ends THEN AnnounceEnd(attempt, err) ELSE <<>>)
    /\ UNCHANGED <<session, live, asker, mode, starts, history, used>>

(* settle_creation after its callback: the offer ends, and an attempt that    *)
(* still creates has failed, or is given up if it owes no promise.            *)
finish ==
    /\ TopIs("finish")
    /\ LET t == top.ticket
           ends == attempt.ticket = t /\ attempt.state = "creating"
           err == IF top.err # "ok" THEN top.err
                  ELSE IF asker[t] = "attempt" THEN "error" ELSE "skip" IN
        /\ creation' = [creation EXCEPT ![t] = "done"]
        /\ peer' = IF top.err = "ok" /\ offer[t] # "claimed"
                   THEN [peer EXCEPT ![t] = "closed"] ELSE peer
        /\ offer' = [offer EXCEPT ![t] = IF @ = "claimed" THEN @ ELSE "none"]
        /\ attempt' = IF ends THEN NoAttempt ELSE attempt
        /\ Do(IF ends THEN AnnounceEnd(attempt, err) ELSE <<>>)
    /\ UNCHANGED <<session, live, asker, mode, starts, history, used>>

-----------------------------------------------------------------------------
(* The session *)

(* set_multiplayer_peer: a repeated or a closed peer is ignored, and a session *)
(* that is online is torn down first.                                          *)
set_multiplayer_peer ==
    /\ TopIs("assign")
    /\ LET p == top.peer IN
        IF p = assigned \/ (p # None /\ peer[p] = "closed") THEN Do(<<>>)
        ELSE Do((IF link = "online"
                 THEN <<Transition("disconnecting"), Transition("offline")>> ELSE <<>>)
                \o <<Install(p)>>)
    /\ UNCHANGED <<session, attempt, live, book, peer, history, used>>

(* The rest of it, with ConnectCore::on_peer_assigned and claim_offer: a peer *)
(* offered by a ticket, or any peer assigned while a ticket answers, takes    *)
(* that offer.                                                                *)
on_peer_assigned ==
    /\ TopIs("install")
    /\ LET p == top.peer
           offered == IF p \in Ticket /\ offer[p] # "none" THEN p ELSE answering_offer IN
        /\ assigned' = p
        /\ live' = p
        /\ offer' = IF p # None /\ offered # None /\ offer[offered] = "open"
                    THEN [offer EXCEPT ![offered] = "claimed"] ELSE offer
        /\ Do(<<PeerAssigned(p)>>)
    /\ UNCHANGED <<link, published, closing, leaving, attempt, creation, asker, mode,
                   starts, peer, history, used>>

\* Mutant of session_peer_assigned: only a session that is asked to connect takes a peer.
AssignedOnceOffline ==
    /\ TopIs("peerAssigned")
    /\ LET p == top.peer IN
        Do(IF p = None
           THEN IF link = "connecting" THEN <<Transition("offline")>> ELSE <<>>
           ELSE (IF link = "disconnecting" THEN <<Transition("connecting")>> ELSE <<>>)
                \o <<ResolveOnline(p)>>)
    /\ UNCHANGED <<session, attempt, live, book, peer, history, used>>

(* SessionCore::on_peer_assigned *)
session_peer_assigned ==
    /\ TopIs("peerAssigned")
    /\ LET p == top.peer IN
        Do(IF p = None
           THEN IF link = "connecting" THEN <<Transition("offline")>> ELSE <<>>
           ELSE (IF link = "offline" THEN <<Transition("connecting")>> ELSE <<>>)
                \o <<ResolveOnline(p)>>)
    /\ UNCHANGED <<session, attempt, live, book, peer, history, used>>

serves(p) == p \in Ticket /\ mode[p] = "host"

(* Its end: a server's own peer is online at once. *)
resolve_online ==
    /\ TopIs("resolveOnline")
    /\ Do(IF link = "connecting" /\ serves(top.peer) THEN <<Transition("online")>> ELSE <<>>)
    /\ UNCHANGED <<session, attempt, live, book, peer, history, used>>

edge_is_legal(from, to) ==
    <<from, to>> \in {<<"offline", "connecting">>, <<"connecting", "online">>,
                      <<"connecting", "offline">>, <<"online", "disconnecting">>,
                      <<"disconnecting", "offline">>}

\* Mutant of transition: "exiting" is announced for a session that never went online.
TransitionExitsAll ==
    /\ TopIs("transition")
    /\ LET next == top.state IN
        Do(IF edge_is_legal(link, next)
           THEN (IF link \in {"connecting", "online"} THEN <<Exited>> ELSE <<>>) \o <<Edge(next)>>
                \o (IF next = "online" THEN <<Entered, WentOnline>> ELSE <<>>)
           ELSE <<>>)
    /\ UNCHANGED <<session, attempt, live, book, peer, history, used>>

(* SessionCore::transition: leave the old state, set the new one, enter it. *)
transition ==
    /\ TopIs("transition")
    /\ LET next == top.state IN
        Do(IF edge_is_legal(link, next)
           THEN (IF link = "online" THEN <<Exited>> ELSE <<>>) \o <<Edge(next)>>
                \o (IF next = "online" THEN <<Entered, WentOnline>> ELSE <<>>)
           ELSE <<>>)
    /\ UNCHANGED <<session, attempt, live, book, peer, history, used>>

\* Mutant of set_state: a session whose peer is gone skips its departure.
SetStateSkips ==
    /\ TopIs("edge")
    /\ LET gone == top.state = "disconnecting" /\ assigned # None /\ peer[assigned] = "closed"
           next == IF gone THEN "offline" ELSE top.state
           ends == next = "offline" /\ attempt.state \in {"connecting", "online"} IN
        IF link = next THEN Do(<<>>) /\ UNCHANGED <<link, attempt>>
        ELSE /\ link' = next
             /\ attempt' =
                  CASE next = "connecting" /\ attempt.state = "offline" ->
                          [NoAttempt EXCEPT !.state = "connecting"]
                    [] next = "connecting" /\ attempt.state = "creating" ->
                          [attempt EXCEPT !.state = "connecting"]
                    [] ends -> NoAttempt
                    [] OTHER -> attempt
             /\ Do((IF ends THEN AnnounceEnd(attempt, "skip") ELSE <<>>) \o <<Publish>>)
    /\ UNCHANGED <<published, assigned, closing, leaving, live, book, peer, history, used>>

\* Mutant of set_state: the attempt follows the session into its departure too.
FollowsTheDeparture ==
    /\ TopIs("edge")
    /\ LET next == top.state
           ends == next = "offline" /\ attempt.state \in {"connecting", "online"} IN
        IF link = next THEN Do(<<>>) /\ UNCHANGED <<link, attempt>>
        ELSE /\ link' = next
             /\ attempt' =
                  CASE next = "connecting" /\ attempt.state = "offline" ->
                          [NoAttempt EXCEPT !.state = "connecting"]
                    [] next = "connecting" /\ attempt.state = "creating" ->
                          [attempt EXCEPT !.state = "connecting"]
                    [] ends -> NoAttempt
                    [] next = "disconnecting" -> [attempt EXCEPT !.state = next]
                    [] OTHER -> attempt
             /\ Do((IF ends THEN AnnounceEnd(attempt, "skip") ELSE <<>>) \o <<Publish>>)
    /\ UNCHANGED <<published, assigned, closing, leaving, live, book, peer, history, used>>

(* set_state, session_announce_edge and ConnectCore::on_session_edge. *)
set_state ==
    /\ TopIs("edge")
    /\ LET next == top.state
           ends == next = "offline" /\ attempt.state \in {"connecting", "online"} IN
        IF link = next THEN Do(<<>>) /\ UNCHANGED <<link, attempt>>
        ELSE /\ link' = next
             /\ attempt' =
                  CASE next = "connecting" /\ attempt.state = "offline" ->
                          [NoAttempt EXCEPT !.state = "connecting"]
                    [] next = "connecting" /\ attempt.state = "creating" ->
                          [attempt EXCEPT !.state = "connecting"]
                    [] ends -> NoAttempt
                    [] OTHER -> attempt
             /\ Do((IF ends THEN AnnounceEnd(attempt, "skip") ELSE <<>>) \o <<Publish>>)
    /\ UNCHANGED <<published, assigned, closing, leaving, live, book, peer, history, used>>

(* session_publish_state *)
session_publish_state ==
    /\ TopIs("publish")
    /\ IF computed_state = published THEN Do(<<>>) /\ UNCHANGED published
       ELSE published' = computed_state /\ Do(<<Game("state", None)>>)
    /\ UNCHANGED <<link, assigned, closing, leaving, attempt, live, book, peer, history, used>>

(* session_announce_entered and session_announce_ended *)
session_announces ==
    /\ TopIs("entered") \/ TopIs("exited")
    /\ inside' = TopIs("entered")
    /\ Do(<<Game(IF inside' THEN "entered" ELSE "exiting", None)>>)
    /\ UNCHANGED <<session, attempt, live, book, peer, promise, answers, failures, used>>

(* ConnectCore::on_session_online, the last of what "entered" does. *)
on_session_online ==
    /\ TopIs("wentOnline")
    /\ attempt' = [attempt EXCEPT !.state = "online", !.ticket = None, !.timed = FALSE]
    /\ Do((IF attempt.state = "online" THEN <<>> ELSE <<Publish>>)
          \o (IF attempt.ticket = None THEN <<>> ELSE <<Promised(attempt.ticket, "ok")>>))
    /\ UNCHANGED <<session, live, book, peer, history, used>>

(* session_close_peer: a client that is online waits for the server, one that *)
(* still connects closes its peer at once.                                    *)
session_close_peer ==
    /\ TopIs("leave")
    /\ Do(CASE link = "offline" \/ leaving # None -> <<>>
            [] link = "connecting" -> <<ClosePeer(assigned, TRUE), Transition("offline")>>
            [] OTHER -> <<Transition("disconnecting"), Depart>>)
    /\ UNCHANGED <<session, attempt, live, book, peer, history, used>>

(* session_close_client *)
session_departs ==
    /\ TopIs("depart")
    /\ leaving' = assigned
    /\ Do(<<>>)
    /\ UNCHANGED <<link, published, assigned, closing, attempt, live, book, peer, history, used>>

(* session_settle_client_leave: the server answered or the window ended. *)
session_settle_leave ==
    /\ idle /\ leaving # None
    /\ leaving' = None
    /\ stack' = <<ClosePeer(leaving, TRUE), Transition("offline")>>
    /\ UNCHANGED <<link, published, assigned, closing, attempt, live, book, peer, history, used>>

close_peer ==
    /\ TopIs("close")
    /\ peer' = IF top.peer = None THEN peer ELSE [peer EXCEPT ![top.peer] = "closed"]
    /\ live' = IF top.drops /\ assigned = top.peer THEN None ELSE live
    /\ Do(<<>>)
    /\ UNCHANGED <<session, attempt, book, history, used>>

-----------------------------------------------------------------------------
(* External: the network and the server *)

Linked == assigned # None /\ peer[assigned] = "open"

(* session_transport_connected, once the server admitted the player. *)
connected ==
    /\ idle /\ link = "connecting" /\ Linked /\ ~serves(assigned) /\ closing = None
    /\ stack' = <<Transition("online")>>
    /\ UNCHANGED <<session, attempt, live, book, peer, history, used>>

\* Mutant of unreachable: a peer that cannot connect leaves the state alone.
UnreachableStays ==
    /\ idle /\ link = "connecting" /\ Linked
    /\ peer' = [peer EXCEPT ![assigned] = "closed"]
    /\ LET ends == attempt.state = "connecting" IN
        /\ attempt' = IF ends THEN NoAttempt ELSE attempt
        /\ stack' = (IF ends THEN AnnounceEnd(attempt, "error") ELSE <<>>)
    /\ UNCHANGED <<session, live, book, history, used>>

(* session_transport_failed, on_transport_failed *)
unreachable ==
    /\ idle /\ link = "connecting" /\ Linked
    /\ peer' = [peer EXCEPT ![assigned] = "closed"]
    /\ LET ends == attempt.state = "connecting" IN
        /\ attempt' = IF ends THEN NoAttempt ELSE attempt
        /\ stack' = (IF ends THEN AnnounceEnd(attempt, "error") ELSE <<>>)
                    \o <<Transition("offline")>>
    /\ UNCHANGED <<session, live, book, history, used>>

(* session_transport_dropped while online: session_teardown_online. *)
dropped ==
    /\ idle /\ link = "online" /\ Linked
    /\ peer' = [peer EXCEPT ![assigned] = "closed"]
    /\ stack' = <<Transition("disconnecting"), Transition("offline")>>
    /\ UNCHANGED <<session, attempt, live, book, history, used>>

(* on_server_answered: from here the server's own timeouts hold. *)
server_answers ==
    /\ idle /\ link = "connecting" /\ Linked /\ ~attempt.answered
    /\ attempt' = [attempt EXCEPT !.timed = FALSE, !.answered = TRUE]
    /\ UNCHANGED <<session, live, book, stack, peer, history, used>>

(* auth_refused_locally, on_join_refused *)
refused ==
    /\ idle /\ link = "connecting" /\ Linked /\ attempt.answered /\ closing = None
    /\ closing' = assigned
    /\ IF attempt.state = "connecting"
       THEN attempt' = NoAttempt /\ stack' = AnnounceEnd(attempt, "error")
       ELSE stack' = <<Failed(None)>> /\ UNCHANGED attempt
    /\ UNCHANGED <<link, published, assigned, leaving, live, book, peer, history, used>>

(* auth_close_refused_peer, deferred to the end of the frame. *)
auth_close_refused_peer ==
    /\ idle /\ closing # None
    /\ closing' = None
    /\ stack' = IF link = "connecting"
                THEN <<Assign(None), ClosePeer(assigned, FALSE)>> ELSE <<>>
    /\ UNCHANGED <<link, published, assigned, leaving, attempt, live, book, peer, history, used>>

-----------------------------------------------------------------------------
Inside ==
    \/ open_creation \/ cancel_attempt \/ failed \/ promised
    \/ cancel_peer_creation \/ settle_creation \/ answer \/ finish
    \/ set_multiplayer_peer \/ on_peer_assigned \/ session_peer_assigned \/ resolve_online
    \/ transition \/ set_state \/ session_publish_state \/ session_announces
    \/ on_session_online \/ session_close_peer \/ session_departs \/ close_peer

Polls ==
    \/ start_creation \/ (\E t \in Ticket : take_ready(t))
    \/ tick_attempt \/ session_settle_leave \/ auth_close_refused_peer

NetAnswers == connected \/ unreachable \/ refused

External ==
    \/ NetAnswers \/ dropped \/ server_answers
    \/ \E t \in Ticket, ok \in BOOLEAN : deliver(t, ok)

Next == GameCalls \/ game_returns \/ Inside \/ Polls \/ External

Spec == Init /\ [][Next]_vars

(* The game's calls end, on_poll runs every frame, and a peer that connects    *)
(* is answered, refused or lost (the attempt's own deadline covers the silence *)
(* before the server answers).  A transport owes nothing.                      *)
FairSpec ==
    /\ Spec
    /\ WF_vars(Inside \/ game_returns)
    /\ WF_vars(Polls)
    /\ WF_vars(NetAnswers)

-----------------------------------------------------------------------------
TypeOK ==
    /\ {link, published} \subseteq States /\ link # "creating"
    /\ {assigned, leaving, live, closing} \subseteq {None} \cup Peer
    /\ attempt \in [state : States \ {"disconnecting"}, ticket : {None} \cup Ticket,
                    timed : BOOLEAN, answered : BOOLEAN]
    /\ creation \in [Ticket -> {"none", "answering", "done"} \cup Unsettled]
    /\ asker \in [Ticket -> {"attempt", "game"}] /\ mode \in [Ticket -> {"client", "host"}]
    /\ starts \in Seq(Ticket) /\ offer \in [Ticket -> {"none", "open", "claimed"}]
    /\ peer \in [Peer -> {"none", "open", "closed"}]
    /\ promise \in [Ticket -> {"none", "pending", "ok", "skip", "error", "timeout"}]
    /\ answers \in [Ticket -> Nat] /\ failures \in [{None} \cup Ticket -> Nat]
    /\ inside \in BOOLEAN /\ {minted, made, calls} \subseteq Nat

(* No request answers twice, however it is replaced, cancelled or answered    *)
(* while another one is: each ticket's callback runs exactly once.            *)
AnswersOnce ==
    \A t \in Ticket : /\ answers[t] <= 1
                      /\ creation[t] = "done" => answers[t] = 1

(* A peer that its callback leaves unassigned is closed: once a ticket is     *)
(* settled its peer is open only if the session took it.                      *)
NoPeerLeaks ==
    idle => \A t \in Ticket :
        creation[t] = "done" /\ peer[t] = "open" => offer[t] = "claimed"

(* One attempt runs at a time: between two calls the promise that is owed and *)
(* the creation that is under way for a join are those of the attempt.        *)
OneAttemptRuns ==
    idle => \A t \in Ticket :
        /\ promise[t] = "pending" => attempt.ticket = t
        /\ asker[t] = "attempt" /\ creation[t] \in Unsettled =>
              attempt.ticket = t /\ attempt.state = "creating"

(* The promise of a join resolves for the peer it made, with the session      *)
(* online on it.                                                              *)
OnItsPeer ==
    \A t \in Ticket : promise'[t] = "ok" /\ promise[t] # "ok" => link = "online" /\ assigned = t
ResolvesOnItsPeer == [][OnItsPeer]_vars

(* "failed" is emitted once for an attempt that fails and never for one that  *)
(* is cancelled, and the promise tells the same; one that the game's own call *)
(* began has no promise to tell it.                                           *)
FailsOnce ==
    idle => \A t \in Ticket :
        IF asker[t] = "attempt"
        THEN failures[t] = IF promise[t] \in {"error", "timeout"} THEN 1 ELSE 0
        ELSE failures[t] <= 1

(* The session follows its peer: one that is offline has no open peer.        *)
FollowsItsPeer ==
    idle /\ link = "offline" => assigned = None \/ peer[assigned] = "closed"

(* The attempt and the session agree on where they are, so that "this session *)
(* is already online" is only ever said of one that is.                       *)
AttemptFollowsSession ==
    idle /\ closing = None =>
        /\ attempt.state = "online" <=> link \in {"online", "disconnecting"}
        /\ attempt.state = "connecting" <=> link = "connecting"
        /\ published = computed_state

(* The attempts, their promises and the peers made for them are accounted for, as the *)
(* parts above say.                                                           *)
AttemptsAreWhole ==
    /\ TypeOK /\ AnswersOnce /\ NoPeerLeaks /\ OneAttemptRuns /\ FailsOnce
    /\ FollowsItsPeer /\ AttemptFollowsSession

(* What is closed at the end of the frame is the peer that was refused. *)
ClosesTheRefusedPeer ==
    [][closing # None /\ closing' = None /\ Len(stack') > 0 => assigned = closing]_vars

(* "entered" and "exiting" take turns: a session exits what it entered, once. *)
TakesTurns == inside' = inside => ~(TopIs("entered") \/ TopIs("exited")) \/ stack' = stack
ExitsWhatItEntered == [][TakesTurns]_vars

(* Whatever the callbacks of a transition do, the session only ever moves     *)
(* along its own edges.                                                       *)
AlongAnEdge == link' # link => edge_is_legal(link, link')
MovesAlongEdges == [][AlongAnEdge]_vars

(* Joins resolve on their own peer, and transitions are whole, as the parts above say. *)
JoinStep == OnItsPeer /\ TakesTurns /\ AlongAnEdge
JoinsResolveTrue == [][JoinStep]_vars

(* Every join and every host settles. *)
NoAttemptWaits == \A t \in Ticket : promise[t] # "pending"
EveryAttemptSettles == []<>NoAttemptWaits
=============================================================================

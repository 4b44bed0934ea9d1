----------------------------- MODULE MCPromises -----------------------------
(***************************************************************************)
(* What is promised to the game, on small instances: calls deferred by the   *)
(* session, requests to peers, callbacks and calls that wait for a route,    *)
(* attempts to join or host, and links that a server lets in.  The five      *)
(* share no variable.  A behaviour   *)
(* moves the one that "moving" names and leaves the others where they start, *)
(* so the behaviours of each are all there and their states add up instead   *)
(* of multiplying.                                                           *)
(***************************************************************************)
EXTENDS Requests, TLC

CONSTANTS
    Parts,                                      \* what a run moves
    Keys, NoKey, MaxAsks,                       \* of SettleQueue
    Routes, Slow, MaxShows,                     \* of WhenLive
    Tickets, Habits, MaxGameCalls,              \* of ConnectAttempt
    Halts, MaxDials,                            \* of Admission
    p1, p2, key1, key2

VARIABLES
    moving,
    rows, drains, asks, hasRun, gone, dropped, withdrawn,
    life, recv, parked, loaded, departing, pending, deferrals, deferred_flushes, todo,
    callRows, shown, shows, jumps, waits, waitAnswers, arrived, handedOn,
    session, published, assigned, attempt, live, creation, asker, mode, starts, offer,
    closing, leaving, stack, peer, joinPromise, answers, failures, inside, minted, made, gameCalls,
    links, declared, generation, halted, haltJoins, polling

(* The peers are alike, and so are the keys. *)
Alike == Permutations({p1, p2}) \cup Permutations({key1, key2})

(* What a game calls: in its own frame it joins, hosts, gives up and leaves, and    *)
(* assigns a peer of its own where no attempt is under way; it has peers made for   *)
(* itself and assigns the one it is offered; it answers what it hears by joining    *)
(* again or giving up.                                                              *)
Frames == ({"frame", "trying"} \X {"join", "cancel", "leave", "unassign"})
    \cup {<<"frame", "assignOwn">>}
Makes == ({"frame", "trying"} \X {"create", "cancelCreation"})
    \cup ({"completed"} \X {"assign", "create", "cancelCreation"})
Retries == {"failed", "settled"} \X {"join", "cancel"}

WholeGame == Frames \cup Makes \cup Retries
RetryingGame == Frames \cup Retries

(* The queue of deferred calls: callbacks that flush, and callbacks that do not. *)
Deferred == INSTANCE SettleQueue WITH
    Windows <- {0, 1}, MaxPasses <- 2, MaxDepth <- 2, frames <- drains, ran <- hasRun
Ordered == INSTANCE SettleQueue WITH
    Windows <- {0}, MaxPasses <- 2, MaxDepth <- 1, frames <- drains, ran <- hasRun

(* Routes spawned one under the other, and a route whose calls are parked. *)
Chain == INSTANCE WhenLive WITH
    Local <- {}, Dep <- [r \in Routes |-> r - 1], Senders <- {"sender"},
    WaitSpan <- 1, ParkSpan <- 1, CallSpan <- 1, BUDGET <- 1, MaxWaits <- 1, MaxCalls <- 1,
    MaxJumps <- 0, rows <- callRows, answers <- waitAnswers, calls <- arrived, ran <- handedOn
Parked == INSTANCE WhenLive WITH
    Routes <- {1, 2}, Local <- {1}, Slow <- {2}, Dep <- <<0, 1>>, Senders <- {"sender"},
    WaitSpan <- 1, ParkSpan <- 1, CallSpan <- 1, BUDGET <- 2, MaxWaits <- 1, MaxCalls <- 3,
    MaxShows <- 2, MaxJumps <- 0,
    rows <- callRows, answers <- waitAnswers, calls <- arrived, ran <- handedOn

Joins == INSTANCE ConnectAttempt WITH
    OwnPeers <- 1, Modes <- {"client", "host"}, MaxCalls <- MaxGameCalls, HearsLate <- FALSE,
    link <- session, promise <- joinPromise, calls <- gameCalls

(* Links while admission is declared anew, with a provider asked before the handler, *)
(* and more links of the same peers, where the handler alone is asked.               *)
Admits == INSTANCE Admission WITH
    None <- NoPeer, Accounts <- {"account", "host"}, Guest <- "guest", HostAccount <- "host",
    Declarations <- {"ready", "absent"}, Providers <- 1, MaxDeclares <- 1, MaxDials <- 2,
    Halts <- BOOLEAN,
    row <- links, structure_halted <- halted, halt_joins <- haltJoins
Rejoins == INSTANCE Admission WITH
    None <- NoPeer, Accounts <- {"account", "host"}, Guest <- "guest", HostAccount <- "host",
    Declarations <- {"ready"}, Providers <- 0, MaxDeclares <- 0,
    row <- links, structure_halted <- halted, halt_joins <- haltJoins

ASSUME PromisesAssumption ==
    /\ Deferred!Assumptions /\ Ordered!Assumptions
    /\ Chain!Assumptions /\ Parked!Assumptions /\ Joins!Assumptions
    /\ Admits!Assumptions /\ Rejoins!Assumptions

requestVars == vars
deferVars == <<rows, drains, asks, hasRun, gone, dropped, withdrawn>>
waitVars == <<life, recv, parked, loaded, departing, pending, deferrals, deferred_flushes, todo,
              callRows, shown, shows, jumps, waits, waitAnswers, arrived, handedOn>>
joinVars == <<session, published, assigned, attempt, live, creation, asker, mode, starts, offer,
              closing, leaving, stack, peer, joinPromise, answers, failures, inside, minted,
              made, gameCalls>>
linkVars == <<links, declared, generation, halted, haltJoins, polling>>
promisesVars == <<moving, requestVars, deferVars, waitVars, joinVars, linkVars>>

Asking(A) ==
    moving = "requests" /\ A /\ UNCHANGED <<moving, deferVars, waitVars, joinVars, linkVars>>
Deferring(which, A) ==
    moving = which /\ A /\ UNCHANGED <<moving, requestVars, waitVars, joinVars, linkVars>>
Waiting(which, A) ==
    moving = which /\ A /\ UNCHANGED <<moving, requestVars, deferVars, joinVars, linkVars>>
Joining(A) ==
    moving = "joins" /\ A /\ UNCHANGED <<moving, requestVars, deferVars, waitVars, linkVars>>
Admitting(which, A) ==
    moving = which /\ A /\ UNCHANGED <<moving, requestVars, deferVars, waitVars, joinVars>>

PromisesInit ==
    /\ moving \in Parts
    /\ Init /\ Deferred!Init /\ Joins!Init
    /\ IF moving = "parked" THEN Parked!Init ELSE Chain!Init
    /\ IF moving = "admits" THEN Admits!Init
       ELSE IF moving = "rejoins" THEN Rejoins!Init
       ELSE Rejoins!Init /\ halted = FALSE

PromisesNext ==
    \/ Asking(Next)
    \/ Deferring("deferred", Deferred!Next) \/ Deferring("ordered", Ordered!Next)
    \/ Waiting("chain", Chain!Next) \/ Waiting("parked", Parked!Next)
    \/ Joining(Joins!Next)
    \/ Admitting("admits", Admits!Next) \/ Admitting("rejoins", Rejoins!Next)

PromisesSpec == PromisesInit /\ [][PromisesNext]_promisesVars

(* The session polls: windows pass, the queue is drained and deadlines are swept;    *)
(* callbacks return and handlers run to their end; a scene is loaded or found        *)
(* missing; a peer that connects is answered, refused or lost; time passes, a packet *)
(* that has arrived is read and a link that is closed comes to its end.  No other    *)
(* peer owes an answer, and no verdict need ever be given.  As one part moves in a   *)
(* behaviour and the others stand still, fairness to a disjunction of actions of     *)
(* different parts is fairness to each of them.                                      *)
Queued(A) == Deferring("deferred", A)
Chained(A) == Waiting("chain", A)
Linked(A) == Admitting("rejoins", A)

FairPromisesSpec ==
    /\ PromisesSpec
    /\ \A t \in Txns : WF_promisesVars(Asking(\E expired \in SUBSET book :
                                                  t \in expired /\ Sweep(expired)))
    /\ WF_promisesVars(\/ Asking(SettleNext)
                       \/ Queued(Deferred!advance_windows)
                       \/ Chained(Chain!Handler)
                       \/ Joining(Joins!Inside \/ Joins!game_returns)
                       \/ Linked(Rejoins!Polls))
    /\ WF_promisesVars(\/ Asking(CallbacksReturn)
                       \/ Queued(drains = <<>> /\ Deferred!drain)
                       \/ Chained(Chain!Poll)
                       \/ Joining(Joins!Polls)
                       \/ Linked(\E p \in Peers : Rejoins!Time(p)))
    /\ WF_promisesVars(\/ Asking(HandlerEnds)
                       \/ Queued(Deferred!RunNext)
                       \/ Joining(Joins!NetAnswers))
    /\ WF_promisesVars(Queued(Deferred!CallbackReturns))
    /\ WF_promisesVars(Queued(Deferred!NextPass \/ Deferred!GiveUp \/ Deferred!DrainEnds))
    /\ SF_promisesVars(\/ Chained(Chain!Tick)
                       \/ Linked(\E p \in Peers :
                                         Rejoins!Receives(p) \/ Rejoins!ClosedLinkEnds(p)))
    /\ \A r \in Routes :
           /\ SF_promisesVars(Chained(Chain!SceneLoaded(r) \/ Chain!BuildMissing(r)))
           /\ SF_promisesVars(Chained(Chain!BuildReady(r)))

-----------------------------------------------------------------------------
(* Every deferred call is kept in one place until it runs, is cancelled or is        *)
(* reported, and they run in the order they were deferred while no callback flushes  *)
(* (settle_queue.cpp); calls to one route are handed on in the order they came       *)
(* (call_park.cpp).                                                                  *)
CallsAreKept ==
    /\ moving = "deferred" => Deferred!CallsAreKept
    /\ moving = "ordered" => Ordered!RunsInOrder
    /\ moving = "parked" => Parked!CallsInOrder

(* Whoever waits for a route is answered once, and none is left behind              *)
(* (liveness_core.cpp, spawn/pipeline.cpp).                                          *)
WaitersAreKept == moving = "chain" => Chain!WaitersAreKept

(* A callback that waits for a route runs while the route lives (liveness_core.cpp). *)
CalledWhileLive == [][Chain!CallsTheLiving]_waitVars

(* Attempts and the peers made for them are accounted for (connect/core.cpp).        *)
AttemptsAreWhole == Joins!AttemptsAreWhole

(* Whoever plays was let in on the link it plays over, by the verdict on its own     *)
(* join, and its account plays once, but for joins that outlive their link in a halt *)
(* and links admitted side by side (api/session/admission.cpp).                      *)
AdmissionsAreSound == Rejoins!AdmissionsAreSound

(* A join resolves for the peer it made, and the session moves along its own edges  *)
(* and exits what it entered (connect/core.cpp, session_core.cpp).                   *)
JoinsResolveTrue == [][Joins!JoinStep]_joinVars

(* While the session polls nothing that was promised waits for ever: a deferred call *)
(* runs, is cancelled or is reported (session_flush_deferred), a request settles by   *)
(* its deadline (rpc_request_call), whoever waits for a route is answered, no parked  *)
(* spawn or call is held for good, a join or host settles (connect/core.cpp), and a  *)
(* link is let in or closed (auth_poll_deadlines, auth_poll_refused).                 *)
EveryPromiseSettles ==
    []<>(/\ Deferred!NoCallWaits /\ NoRequestWaits /\ Chain!NothingWaits
         /\ Joins!NoAttemptWaits /\ Rejoins!NoLinkWaits)
=============================================================================

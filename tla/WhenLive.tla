------------------------------ MODULE WhenLive ------------------------------
(* What waits for a route to live on the peer that receives: the callbacks of  *)
(* liveness_when_live (liveness_core.cpp), the spawns parked until the parent  *)
(* they name is there or their scene is loaded (spawn/park.cpp,                *)
(* spawn/pipeline.cpp) and the calls parked until their route is known          *)
(* (call_park.cpp, api/session/rpc.cpp).  A callback runs inside the handler    *)
(* that found its route alive or given up, and starts handlers of its own:     *)
(* "todo" is what the handler in progress has yet to do, first things first.   *)
(*                                                                             *)
(* A deadline is kept as the ticks left until it, so time needs no bound.       *)
EXTENDS Naturals, Sequences, FiniteSets, SequencesExt

CONSTANTS
    Routes,         \* the routes, in the order the sender may spawn them
    Local,          \* those this peer binds itself
    Slow,           \* those whose scene has to be loaded
    Dep,            \* the route a spawn is placed under, 0 for none
    Senders,        \* the peers whose calls arrive
    WaitSpan, ParkSpan, CallSpan,   \* the timeouts, in ticks
    BUDGET,         \* calls one sender may have parked
    MaxWaits,       \* bound: callbacks registered by the game
    MaxCalls,       \* bound: calls
    MaxShows,       \* bound: spawn frames
    MaxJumps        \* bound: jumps of the clock

RoutesAssumption == Routes \subseteq Nat \ {0} /\ Local \subseteq Routes
                    /\ Slow \subseteq Routes \ Local
DepAssumption == Dep \in [Routes -> {0} \cup Routes]
                 /\ \A r \in Routes : Dep[r] < r
SpansAssumption == {WaitSpan, ParkSpan, CallSpan, BUDGET} \subseteq Nat \ {0}
BoundsAssumption == {MaxWaits, MaxCalls, MaxShows, MaxJumps} \subseteq Nat
Assumptions == RoutesAssumption /\ DepAssumption /\ SpansAssumption /\ BoundsAssumption

VARIABLES
    life,           \* NetwLivenessCore: the state of the entity of a route
    recv,           \* Book::received: the routes a spawn was applied for
    parked,         \* Park::rows: what a parked spawn waits for, and its deadline
    loaded,         \* Pipeline::builds that are ready
    departing,      \* routes whose death is to be settled
    pending,        \* NetwLivenessCore::pending: the waiters of every route
    deferrals,      \* NetwLivenessCore::flushes_deferred
    deferred_flushes,
    todo,           \* what the handler in progress has yet to do
    rows,           \* NetwCallPark::rows
    shown,          \* what the sender of the spawns shows this peer
    shows,          \* spawn frames so far
    jumps,          \* jumps of the clock so far
    waits,          \* history: the route of every callback registered
    answers,        \* history: how each was answered
    calls,          \* history: sender and route of every call that arrived
    ran             \* history: the calls handed on, in order
vars == <<life, recv, parked, loaded, departing, pending, deferrals, deferred_flushes, todo, rows,
          shown, shows, jumps, waits, answers, calls, ran>>

wire == <<shown, shows>>
history == <<waits, answers, calls, ran>>

Waiters == [kind : {"game", "spawn", "call"}, id : Nat, left : Nat, span : Nat]
Works == [do : {"called", "timedout", "retry", "expire", "giveup", "run",
                "placed", "resume", "drain", "sweep"}, of : Nat]

Work(do, of) == <<[do |-> do, of |-> of]>>
Idle == todo = <<>>

(* The game runs between handlers, in its callbacks, and in the tree           *)
(* notifications of a node being placed.                                        *)
GameRuns == ~Idle => Head(todo).do \in {"called", "timedout", "placed"}

is_held(r) == r \in DOMAIN parked
anchor_parks(r) == r # 0 /\ life[r] \in {"unknown", "absent"}
Without(f, r) == [s \in DOMAIN f \ {r} |-> f[s]]

-----------------------------------------------------------------------------
(* The waiters of a route become work: its callback, or its on_timeout.        *)

Callback(w) == [do |-> CASE w.kind = "game" -> "called"
                         [] w.kind = "spawn" -> "retry"
                         [] w.kind = "call" -> "run",
                of |-> w.id]
OnTimeout(w, spawn) == [do |-> IF w.kind = "game" THEN "timedout" ELSE spawn, of |-> w.id]
HasTimeout(w) == w.kind # "call"        \* a parked call names no on_timeout

\* Mutant of Callbacks: the latest waiter first.
CallbacksReversed(ws) == [n \in DOMAIN ws |-> Callback(ws[Len(ws) + 1 - n])]

Callbacks(ws) == [n \in DOMAIN ws |-> Callback(ws[n])]

(* expire_parked is called for a deadline ("expire") and for a route that is     *)
(* given up ("giveup"); it does the same for both.                               *)
OnTimeouts(ws, spawn) == LET heard == SelectSeq(ws, HasTimeout) IN
                         [n \in DOMAIN heard |-> OnTimeout(heard[n], spawn)]

Waiter(kind, id, span) == [kind |-> kind, id |-> id, left |-> span, span |-> span]

(* when_live, of a route that is not live or whose flush is deferred.          *)
Join(r, w) == [pending EXCEPT ![r] = Append(@, w)]

\* Mutant of fail_live: the waiters stay when they were told.
fail_liveKeeps(r, rest) ==
    /\ todo' = OnTimeouts(pending[r], "giveup") \o rest
    /\ UNCHANGED pending

\* Mutant of fail_live: it calls their callbacks.
fail_liveCalls(r, rest) ==
    /\ pending' = [pending EXCEPT ![r] = <<>>]
    /\ todo' = Callbacks(pending[r]) \o rest

(* fail_live, followed by rest.                                                 *)
fail_live(r, rest) ==
    /\ pending' = [pending EXCEPT ![r] = <<>>]
    /\ todo' = OnTimeouts(pending[r], "giveup") \o rest

(* Park::cancel and release_build, followed by rest.                            *)
cancel_parked(r, rest) ==
    /\ parked' = Without(parked, r)
    /\ loaded' = loaded \ {r}
    /\ fail_live(r, rest)

-----------------------------------------------------------------------------
(* A spawn frame, as it arrives and as it is retried.  "was" is the park without  *)
(* the row the retry took.                                                     *)

\* Mutant of ParkSpawn: the waiter is registered for the route that is parked.
ParkSpawnOnItself(r, was, rest) ==
    /\ parked' = was @@ (r :> [wait |-> "route", left |-> ParkSpan])
    /\ pending' = Join(r, Waiter("spawn", r, ParkSpan))
    /\ todo' = rest
    /\ UNCHANGED <<life, recv, loaded, deferrals, deferred_flushes>>

(* park_spawn: a second frame does not replace the parked one, and registers   *)
(* a waiter all the same.                                                      *)
ParkSpawn(r, was, rest) ==
    /\ parked' = was @@ (r :> [wait |-> "route", left |-> ParkSpan])
    /\ pending' = Join(Dep[r], Waiter("spawn", r, ParkSpan))
    /\ todo' = rest
    /\ UNCHANGED <<life, recv, loaded, deferrals, deferred_flushes>>

ParkForScene(r, was, rest) ==
    /\ parked' = was @@ (r :> [wait |-> "build", left |-> 0])
    /\ todo' = rest
    /\ UNCHANGED <<life, recv, loaded, pending, deferrals, deferred_flushes>>

\* Mutant of DeferFlush: the flush is not taken up again.
DeferFlushForgets(r) == deferred_flushes

(* flush_live(r) while flushes are deferred.                                     *)
DeferFlush(r) ==
    IF pending[r] = <<>> \/ Contains(deferred_flushes, r) THEN deferred_flushes
    ELSE Append(deferred_flushes, r)

(* defer_flushes, place_received and, as work to come, resume_flushes.          *)
Place(r, was, rest) ==
    /\ deferrals' = deferrals + 1
    /\ recv' = recv \cup {r}
    /\ life' = [life EXCEPT ![r] = "live"]
    /\ deferred_flushes' = DeferFlush(r)
    /\ loaded' = loaded \ {r}
    /\ parked' = was
    /\ todo' = Work("placed", r) \o Work("resume", r) \o rest
    /\ UNCHANGED pending

IsDuplicate(r) == r \in recv \/ life[r] = "live"

ParentIsDead(r) == Dep[r] # 0 /\ life[Dep[r]] = "dead"

try_apply_spawn(r, was, rest) ==
    CASE IsDuplicate(r) \/ ParentIsDead(r) ->
            /\ parked' = was /\ todo' = rest
            /\ UNCHANGED <<life, recv, loaded, pending, deferrals, deferred_flushes>>
      [] ~IsDuplicate(r) /\ anchor_parks(Dep[r]) -> ParkSpawn(r, was, rest)
      [] ~IsDuplicate(r) /\ ~anchor_parks(Dep[r]) /\ r \in Slow \ loaded ->
            ParkForScene(r, was, rest)
      [] OTHER -> Place(r, was, rest)

-----------------------------------------------------------------------------
Init ==
    /\ life = [r \in Routes |-> "unknown"] /\ recv = {}
    /\ parked = <<>> /\ loaded = {} /\ departing = {}
    /\ pending = [r \in Routes |-> <<>>]
    /\ deferrals = 0 /\ deferred_flushes = <<>> /\ todo = <<>> /\ rows = {}
    /\ shown = {} /\ shows = 0 /\ jumps = 0
    /\ waits = <<>> /\ answers = <<>> /\ calls = <<>> /\ ran = <<>>

(* The sender shows a parent before its child, hides it after, and never spawns *)
(* again what it despawned.                                                    *)
HasChildShown(r) == \E c \in shown : Dep[c] = r

ReceiveSpawn(r) ==
    /\ Idle
    /\ shows < MaxShows
    /\ r \notin shown \cup Local \cup departing /\ life[r] # "dead"
    /\ Dep[r] \in {0} \cup shown \cup Local
    /\ shown' = shown \cup {r} /\ shows' = shows + 1
    /\ try_apply_spawn(r, parked, <<>>)
    /\ UNCHANGED <<departing, rows, jumps>> /\ UNCHANGED history

ReceiveHide(r) ==
    /\ Idle
    /\ r \in shown /\ ~HasChildShown(r)
    /\ shown' = shown \ {r}
    /\ \/ /\ is_held(r)
          /\ cancel_parked(r, <<>>)
          /\ UNCHANGED <<life, recv>>
       \/ /\ ~is_held(r)
          /\ recv' = recv \ {r}
          /\ life' = IF r \in recv THEN [life EXCEPT ![r] = "absent"] ELSE life
          /\ UNCHANGED <<parked, loaded, pending, todo>>
    /\ UNCHANGED <<departing, deferrals, deferred_flushes, rows, shows, jumps>>
    /\ UNCHANGED history

(* A received node leaves the tree, and its death is settled later.             *)
ReceiveDespawn(r) ==
    /\ Idle
    /\ r \in recv /\ ~HasChildShown(r)
    /\ recv' = recv \ {r}
    /\ departing' = departing \cup {r}
    /\ shown' = shown \ {r}
    /\ UNCHANGED <<life, parked, loaded, pending, deferrals, deferred_flushes, todo, rows,
                   jumps, shows>>
    /\ UNCHANGED history

(* liveness_release, of a death that is settled.                                *)
SettleDeath(r) ==
    /\ Idle
    /\ r \in departing
    /\ departing' = departing \ {r}
    /\ life' = [life EXCEPT ![r] = "dead"]
    /\ fail_live(r, <<>>)
    /\ UNCHANGED <<recv, parked, loaded, deferrals, deferred_flushes, rows, jumps>>
    /\ UNCHANGED wire /\ UNCHANGED history

SceneLoaded(r) ==
    /\ Idle
    /\ is_held(r) /\ parked[r].wait = "build"
    /\ loaded' = loaded \cup {r}
    /\ UNCHANGED <<life, recv, parked, departing, pending, deferrals, deferred_flushes, todo,
                   rows, jumps>>
    /\ UNCHANGED wire /\ UNCHANGED history

(* retry_build_parked, of a scene that is loaded, and of one that is missing.    *)
BuildReady(r) ==
    /\ Idle
    /\ is_held(r) /\ parked[r].wait = "build" /\ r \in loaded
    /\ try_apply_spawn(r, Without(parked, r), <<>>)
    /\ UNCHANGED <<departing, rows, jumps>> /\ UNCHANGED wire /\ UNCHANGED history

BuildMissing(r) ==
    /\ Idle
    /\ is_held(r) /\ parked[r].wait = "build" /\ r \notin loaded
    /\ cancel_parked(r, <<>>)
    /\ UNCHANGED <<life, recv, departing, deferrals, deferred_flushes, rows, jumps>>
    /\ UNCHANGED wire /\ UNCHANGED history

-----------------------------------------------------------------------------
(* The game and the calls.                                                      *)

(* liveness_when_live.                                                          *)
WhenLive(r) ==
    LET w == Len(waits) + 1 IN
    /\ GameRuns
    /\ w <= MaxWaits
    /\ waits' = Append(waits, r) /\ answers' = Append(answers, <<>>)
    /\ IF life[r] = "live" /\ ~Contains(deferred_flushes, r)
       THEN todo' = Work("called", w) \o todo /\ UNCHANGED pending
       ELSE pending' = Join(r, Waiter("game", w, WaitSpan)) /\ UNCHANGED todo
    /\ UNCHANGED <<life, recv, parked, loaded, departing, deferrals, deferred_flushes, rows,
                   jumps, calls, ran>>
    /\ UNCHANGED wire

(* liveness_bind_route of an entity of this peer, and its flush.                *)
BindLocal(r) ==
    /\ GameRuns
    /\ r \in Local /\ life[r] = "unknown"
    /\ life' = [life EXCEPT ![r] = "live"]
    /\ IF deferrals > 0
       THEN deferred_flushes' = DeferFlush(r) /\ UNCHANGED <<pending, todo>>
       ELSE /\ pending' = [pending EXCEPT ![r] = <<>>]
            /\ todo' = Callbacks(pending[r]) \o todo
            /\ UNCHANGED deferred_flushes
    /\ UNCHANGED <<recv, parked, loaded, departing, deferrals, rows, jumps>>
    /\ UNCHANGED wire /\ UNCHANGED history

(* The game frees it.                                                          *)
FreeLocal(r) ==
    /\ GameRuns
    /\ r \in Local \ departing /\ life[r] = "live"
    /\ departing' = departing \cup {r}
    /\ UNCHANGED <<life, recv, parked, loaded, pending, deferrals, deferred_flushes, todo,
                   rows, jumps>>
    /\ UNCHANGED wire /\ UNCHANGED history

(* replication_dispatch of a call: it waits for an unknown route               *)
(* (rpc_defer_call) unless its sender has too many parked.                      *)
active_count(p) == Cardinality({row \in rows : row.sender = p})

ReceiveCall(p, r) ==
    LET c == Len(calls) + 1 IN
    /\ Idle
    /\ c <= MaxCalls
    /\ calls' = Append(calls, [sender |-> p, route |-> r])
    /\ \/ /\ life[r] # "unknown"
          /\ ran' = Append(ran, c)
          /\ UNCHANGED <<rows, pending>>
       \/ /\ life[r] = "unknown" /\ active_count(p) >= BUDGET
          /\ UNCHANGED <<rows, pending, ran>>
       \/ /\ life[r] = "unknown" /\ active_count(p) < BUDGET
          /\ rows' = rows \cup {[id |-> c, sender |-> p, route |-> r, left |-> CallSpan,
                                 owed |-> CallSpan, active |-> TRUE]}
          /\ pending' = Join(r, Waiter("call", c, CallSpan))
          /\ UNCHANGED ran
    /\ UNCHANGED <<life, recv, parked, loaded, departing, deferrals, deferred_flushes, todo,
                   jumps, waits, answers>>
    /\ UNCHANGED wire

-----------------------------------------------------------------------------
(* The clock and the poll.                                                     *)

\* Mutant of Less: the deadline moves away.
LessGrows(n) == n + 1

Less(n) == IF n = 0 THEN 0 ELSE n - 1

(* A tick is run.  "owed" of a parked call counts the ticks that ran; its      *)
(* deadline is on the clock, which a sync moves.                               *)
Tick ==
    /\ Idle
    /\ pending' = [r \in Routes |-> [n \in DOMAIN pending[r] |->
                       [pending[r][n] EXCEPT !.left = Less(@)]]]
    /\ parked' = [r \in DOMAIN parked |-> [parked[r] EXCEPT !.left = Less(@)]]
    /\ rows' = {[row EXCEPT !.left = Less(@), !.owed = Less(@)] : row \in rows}
    /\ UNCHANGED <<life, recv, loaded, departing, deferrals, deferred_flushes, todo, jumps>>
    /\ UNCHANGED wire /\ UNCHANGED history

ClockJumps ==
    /\ Idle
    /\ jumps < MaxJumps /\ jumps' = jumps + 1
    /\ rows' = {[row EXCEPT !.left = 0] : row \in rows}
    /\ UNCHANGED <<life, recv, parked, loaded, departing, pending, deferrals,
                   deferred_flushes, todo>>
    /\ UNCHANGED wire /\ UNCHANGED history

(* sweep_pending: a route that is held has its deadlines moved.                 *)
Swept(r) ==
    IF is_held(r) THEN [n \in DOMAIN pending[r] |-> [pending[r][n] EXCEPT !.left = pending[r][n].span]]
    ELSE SelectSeq(pending[r], LAMBDA w : w.left > 0)
\* Mutant of Expired: a route all of whose waiters expire is erased first.
ExpiredUnlessLast(r) ==
    IF is_held(r) \/ Len(pending[r]) = 1 THEN <<>>
    ELSE SelectSeq(pending[r], LAMBDA w : w.left = 0)

Expired(r) == IF is_held(r) THEN <<>> ELSE SelectSeq(pending[r], LAMBDA w : w.left = 0)

(* liveness_poll_now, and rpc_sweep_deferred_calls when its callbacks ran.      *)
Poll ==
    /\ Idle
    /\ pending' = [r \in Routes |-> Swept(r)]
    /\ \E order \in SetToSeqs({r \in Routes : Expired(r) # <<>>}) :
           todo' = FlattenSeq([n \in DOMAIN order |-> OnTimeouts(Expired(order[n]), "expire")])
                   \o Work("sweep", 0)
    /\ UNCHANGED <<life, recv, parked, loaded, departing, deferrals, deferred_flushes, rows,
                   jumps>>
    /\ UNCHANGED wire /\ UNCHANGED history

(* NetwCallPark::sweep.                                                         *)
Sweep ==
    /\ rows' = {IF is_held(row.route) THEN [row EXCEPT !.left = CallSpan, !.owed = CallSpan]
                ELSE row : row \in {row \in rows : row.active /\ (is_held(row.route) \/ row.left > 0)}}
    /\ todo' = Tail(todo)
    /\ UNCHANGED <<life, recv, parked, loaded, departing, pending, deferrals,
                   deferred_flushes, jumps>>
    /\ UNCHANGED wire /\ UNCHANGED history

-----------------------------------------------------------------------------
(* The work of the handler in progress.                                         *)

Does(do) == todo # <<>> /\ Head(todo).do = do
Of == Head(todo).of
Rest == Tail(todo)

(* A callback of the game returns, or its on_timeout.                           *)
GameReturns ==
    /\ Does("called") \/ Does("timedout")
    /\ answers' = [answers EXCEPT ![Of] = Append(@, Head(todo).do)]
    /\ todo' = Rest
    /\ UNCHANGED <<life, recv, parked, loaded, departing, pending, deferrals,
                   deferred_flushes, rows, jumps, waits, calls, ran>>
    /\ UNCHANGED wire

(* retry_parked: the row may have been taken or cancelled since.                *)
RetryParked ==
    /\ Does("retry")
    /\ IF is_held(Of) THEN try_apply_spawn(Of, Without(parked, Of), Rest)
       ELSE /\ todo' = Rest
            /\ UNCHANGED <<life, recv, parked, loaded, pending, deferrals, deferred_flushes>>
    /\ UNCHANGED <<departing, rows, jumps>> /\ UNCHANGED wire /\ UNCHANGED history

ExpireParked ==
    /\ Does("expire") \/ Does("giveup")
    /\ IF is_held(Of) THEN cancel_parked(Of, Rest)
       ELSE todo' = Rest /\ UNCHANGED <<parked, loaded, pending>>
    /\ UNCHANGED <<life, recv, departing, deferrals, deferred_flushes, rows, jumps>>
    /\ UNCHANGED wire /\ UNCHANGED history

(* rpc_resolve_parked: a row that was swept hands nothing on.                   *)
ResolveParked ==
    /\ Does("run")
    /\ LET own == {row \in rows : row.id = Of /\ row.active} IN
       /\ rows' = (rows \ own) \cup {[row EXCEPT !.active = FALSE] : row \in own}
       /\ ran' = IF own = {} THEN ran ELSE Append(ran, Of)
    /\ todo' = Rest
    /\ UNCHANGED <<life, recv, parked, loaded, departing, pending, deferrals,
                   deferred_flushes, jumps, waits, answers, calls>>
    /\ UNCHANGED wire

(* The tree notifications of a placed node end.                                *)
Placed ==
    /\ Does("placed")
    /\ todo' = Rest
    /\ UNCHANGED <<life, recv, parked, loaded, departing, pending, deferrals,
                   deferred_flushes, rows, jumps>>
    /\ UNCHANGED wire /\ UNCHANGED history

(* resume_flushes, and its loop: as long as no flush is deferred, the first      *)
(* route that waits is flushed.                                                *)
Resume ==
    /\ Does("resume")
    /\ deferrals' = deferrals - 1
    /\ todo' = Work("drain", 0) \o Rest
    /\ UNCHANGED <<life, recv, parked, loaded, departing, pending, deferred_flushes, rows,
                   jumps>>
    /\ UNCHANGED wire /\ UNCHANGED history

Drain ==
    /\ Does("drain")
    /\ IF deferrals = 0 /\ deferred_flushes # <<>>
       THEN LET r == Head(deferred_flushes) IN
            /\ deferred_flushes' = Tail(deferred_flushes)
            /\ pending' = [pending EXCEPT ![r] = <<>>]
            /\ todo' = Callbacks(pending[r]) \o todo
       ELSE todo' = Rest /\ UNCHANGED <<pending, deferred_flushes>>
    /\ UNCHANGED <<life, recv, parked, loaded, departing, deferrals, rows, jumps>>
    /\ UNCHANGED wire /\ UNCHANGED history

Handler == GameReturns \/ RetryParked \/ ExpireParked \/ ResolveParked \/ Placed
           \/ Resume \/ Drain \/ (Does("sweep") /\ Sweep)

Next ==
    \/ Handler \/ Tick \/ ClockJumps \/ Poll
    \/ \E r \in Routes : \/ ReceiveSpawn(r) \/ ReceiveHide(r) \/ ReceiveDespawn(r)
                         \/ SettleDeath(r)
                         \/ SceneLoaded(r) \/ BuildReady(r) \/ BuildMissing(r)
                         \/ WhenLive(r) \/ BindLocal(r) \/ FreeLocal(r)
                         \/ \E p \in Senders : ReceiveCall(p, r)

Spec == Init /\ [][Next]_vars

(* Handlers run to their end.  A session polls every frame, runs ticks between    *)
(* its polls and looks at the scenes being loaded after each (session poll,      *)
(* api/netw_multiplayer.cpp:4022), so each of these recurs between handlers: a   *)
(* scene is loaded or found missing.                                             *)
Fairness == /\ WF_vars(Handler) /\ WF_vars(Poll) /\ SF_vars(Tick)
            /\ \A r \in Routes : /\ SF_vars(SceneLoaded(r) \/ BuildMissing(r))
                                 /\ SF_vars(BuildReady(r))

FairSpec == Spec /\ Fairness

-----------------------------------------------------------------------------
TypeOK ==
    /\ life \in [Routes -> {"unknown", "live", "absent", "dead"}]
    /\ {recv, loaded, departing, shown, DOMAIN parked} \subseteq SUBSET Routes
    /\ \A r \in DOMAIN parked : /\ parked[r].wait \in {"route", "build"}
                                /\ parked[r].left \in 0 .. ParkSpan
    /\ pending \in [Routes -> Seq(Waiters)]
    /\ deferrals \in Nat
    /\ deferred_flushes \in Seq(Routes)
    /\ todo \in Seq(Works)
    /\ \A row \in rows : row.left \in 0 .. CallSpan /\ row.owed \in 0 .. CallSpan
    /\ Len(answers) = Len(waits)

WaitsFor(r, kind, id) == \E n \in DOMAIN pending[r] : pending[r][n].kind = kind
                                                      /\ pending[r][n].id = id
ToDo(does, of) == \E n \in DOMAIN todo : todo[n].do \in does /\ todo[n].of = of

(* A callback of the game is answered once, by its callback or its on_timeout:   *)
(* until then it waits in one place, whatever handlers nest                     *)
(* (liveness_core.cpp flush_live, fail_live and sweep_pending take the waiters   *)
(* of a route before they call any).                                            *)
AnsweredOnce ==
    \A w \in DOMAIN waits :
        Len(answers[w])
        + Cardinality({n \in DOMAIN todo : todo[n].do \in {"called", "timedout"} /\ todo[n].of = w})
        + Cardinality({n \in DOMAIN pending[waits[w]] :
                           pending[waits[w]][n].kind = "game" /\ pending[waits[w]][n].id = w})
        = 1

(* The callback runs while the route lives, though other callbacks, spawns and  *)
(* deferred flushes run between the bind and the call (liveness_core.cpp:512).  *)
CallsTheLiving ==
    \A w \in DOMAIN waits :
        answers'[w] # answers[w] /\ Last(answers'[w]) = "called" => life[waits[w]] = "live"
CalledWhileLive == [][CallsTheLiving]_vars

(* A spawn parked for a route is woken when the route lives or is given up:     *)
(* there is always someone left to wake it (spawn/pipeline.cpp:2993).           *)
ParkedIsWoken ==
    \A r \in DOMAIN parked :
        parked[r].wait = "route" =>
            WaitsFor(Dep[r], "spawn", r) \/ ToDo({"retry", "expire", "giveup"}, r)

(* No waiter is left behind on a live route once the handlers are done: a bind  *)
(* whose flush was deferred is flushed by the end of the spawn that deferred it  *)
(* (liveness_core.cpp resume_flushes).                                           *)
NoneLeftBehind ==
    Idle => /\ deferrals = 0 /\ deferred_flushes = <<>>
            /\ \A r \in Routes : life[r] = "live" => pending[r] = <<>>

(* Whoever waits is waited for, as the four parts above say.                     *)
WaitersAreKept == TypeOK /\ AnsweredOnce /\ ParkedIsWoken /\ NoneLeftBehind

(* Calls of one sender to one route are handed on in the order they arrived,    *)
(* and each once, the parked and the direct ones together                       *)
(* (call_park.cpp resolve, api/replication_core.cpp:823).                        *)
CallsInOrder ==
    \A m, n \in DOMAIN ran :
        m < n /\ calls[ran[m]] = calls[ran[n]] => ran[m] < ran[n]

(* A parked call is dropped only when the ticks it may wait have run.  The test  *)
(* of the callbacks says of their deadlines that "the jump of a first sync does  *)
(* not expire it" (tests/session_when_live_laws.cpp:75).                         *)
JumpExpiresNoCall ==
    [][\A row \in rows : row.active /\ row.owed > 0
           => \E after \in rows' : after.id = row.id]_vars

(* "a wait expires once the count reaches its deadline"                         *)
(* (tests/spawn_park_tests.cpp:76): a parked spawn is given up by a timeout      *)
(* only at the deadline it was parked under.                                    *)
ExpiresAtDeadline ==
    [][\A r \in DOMAIN parked :
           Does("expire") /\ Of = r /\ r \notin DOMAIN parked' => parked[r].left = 0]_vars

(* Everything that waits is answered in the end, and nothing holds a deadline    *)
(* back for ever: a callback, a parked spawn and a parked call.                 *)
NothingWaits ==
    /\ \A w \in DOMAIN waits : answers[w] # <<>>
    /\ rows = {} /\ \A r \in Routes : ~is_held(r)
EveryWaitEnds == []<>NothingWaits

=============================================================================

----------------------------- MODULE Database -----------------------------
(* One database of a session (persist/database.cpp, class Databases, and the *)
(* calls of api/session/persistence.cpp that reach it): the slot it holds     *)
(* open, the queue of operations, the lock an operation takes on each record  *)
(* it names, and the promises it owes.  Every promise that settles runs game  *)
(* code, which may call the database again before the code that settled it    *)
(* goes on: "stack" holds what is still to be done, innermost first.          *)
(* The backend and its connections are external: a connection answers the     *)
(* outstanding operations in any order, each with success or failure.         *)
EXTENDS Naturals, Sequences, FiniteSets, SequencesExt

CONSTANTS
    Slots,          \* the slots of the backend
    Records,        \* the addresses of a slot
    Works,          \* the operations the game asks for: [op, locks]
    QueueLimit,     \* Databases::queue_limit
    Prompt,         \* the backend may answer inside the call, as FileConnection does
    AnswerCalls,    \* what the game calls where an operation or an open is answered
    FlushCalls,     \* what the game calls where a flush is answered
    Reopens,        \* the game opens a database that is not closed
    Ends,           \* the session may end
    MaxOps, MaxOpens, MaxFlushes, MaxCloses     \* bounds on the calls of a run

Calls == {"submit", "open", "close", "flush"}
WorksAssumption ==
    \A w \in Works : /\ w.op \in {"read", "write", "erase", "patch", "batch"}
                     /\ w.locks # {} /\ w.locks \subseteq Records
                     /\ w.op = "batch" \/ Cardinality(w.locks) = 1
CallsAssumption == AnswerCalls \subseteq Calls /\ FlushCalls \subseteq Calls
FlagsAssumption == {Prompt, Reopens, Ends} \subseteq BOOLEAN
BoundsAssumption ==
    {QueueLimit, MaxOps, MaxOpens, MaxFlushes, MaxCloses} \subseteq Nat
Assumptions == WorksAssumption /\ CallsAssumption /\ FlagsAssumption /\ BoundsAssumption

VARIABLES
    state,          \* Instance::state
    generation,     \* Instance::generation
    connection,     \* Instance::connection, 0 for none
    connecting,     \* Instance::connecting, 0 for none
    abandoned,      \* Instance::abandoned, the pairs <<generation, connection>>
    queue,          \* Instance::queue, the pending operations
    held,           \* Instance::held: the sequence that holds a record, 0 for none
    flush_waiters,  \* Instance::flush_waiters
    stack,          \* the calls in progress, innermost first
    conns,          \* external: every connection the backend was asked for
    flight,         \* external: the operations a connection has not answered
    store,          \* external: what each slot holds
    ops,            \* history: the operations admitted, by sequence
    flushes,        \* history: for each flush, the operations in the queue then
    closes,         \* history: how often the database was closed
    owed,           \* history: the promises given out and not settled
    ended           \* the session is gone
database == <<state, generation, connection, connecting, abandoned, queue, held, flush_waiters>>
external == <<conns, flight, store>>
history == <<ops, flushes, closes>>
vars == <<database, stack, external, history, owed, ended>>

Sequences == 1..MaxOps
Promise == ({"op"} \X Sequences) \cup ({"open"} \X (1..MaxOpens))
    \cup ({"flush"} \X (1..MaxFlushes)) \cup ({"close"} \X (1..MaxCloses))

(* What a record holds is named by the operations that made it: a write       *)
(* replaces all of it, a patch adds to what it read, an absent record is {}.  *)
Content == SUBSET Sequences
Pending == [sequence : Sequences, op : {"read", "write", "erase", "patch", "batch"},
            locks : SUBSET Records, generation : Nat, issued : BOOLEAN, staged : BOOLEAN]

Game(calls) == [at |-> "game", calls |-> calls]
Pump(row) == [at |-> "pump", row |-> row]
Release(left) == [at |-> "release", left |-> left]
Settle == [at |-> "settle"]
Finish == [at |-> "finish"]
Reply(s) == [at |-> "reply", sequence |-> s]
Made(c) == [at |-> "made", conn |-> c]

top == Head(stack)
TopIs(name) == stack # <<>> /\ top.at = name
Under == Tail(stack)

(* The game calls the database: from its own loop, or inside an answer. *)
May(call) ==
    /\ ~ended
    /\ stack = <<>> \/ (TopIs("game") /\ call \in top.calls)

RowOf(s) == CHOOSE i \in DOMAIN queue : queue[i].sequence = s
Queued == {queue[i].sequence : i \in DOMAIN queue}
Free(row) == \A r \in row.locks : held[r] = 0
Issuable(from) == {i \in from..Len(queue) : ~queue[i].issued /\ Free(queue[i])}

Init ==
    /\ state = "closed" /\ generation = 1 /\ connection = 0 /\ connecting = 0
    /\ abandoned = {} /\ queue = <<>> /\ held = [r \in Records |-> 0]
    /\ flush_waiters = <<>> /\ stack = <<>>
    /\ conns = <<>> /\ flight = {} /\ store = [s \in Slots |-> [r \in Records |-> {}]]
    /\ ops = <<>> /\ flushes = <<>> /\ closes = 0 /\ owed = {} /\ ended = FALSE

-----------------------------------------------------------------------------
(* Opening *)

(* The backend is asked before the state of the database is looked at; the    *)
(* promise of a connection nobody takes is let go.                            *)
open(s) ==
    /\ May("open")
    /\ Len(conns) < MaxOpens
    /\ state = "closed" \/ Reopens
    /\ LET c == Len(conns) + 1 IN
        /\ conns' = Append(conns, [slot |-> s, is |-> "connecting", closed |-> FALSE,
                                   bound |-> IF state = "closed" THEN generation ELSE 0])
        /\ stack' = IF Prompt THEN <<Made(c)>> \o stack ELSE stack
        /\ IF state = "closed"
           THEN /\ state' = "opening"
                /\ connecting' = c
                /\ owed' = owed \cup {<<"open", c>>}
           ELSE UNCHANGED <<state, connecting, owed>>
    /\ UNCHANGED <<generation, connection, abandoned, queue, held, flush_waiters,
                   flight, store, history, ended>>

Connects(c) ==
    /\ ~ended
    /\ stack # <<>> => TopIs("made") /\ top.conn = c
    /\ conns[c].is = "connecting"
    /\ UNCHANGED <<generation, queue, held, flush_waiters, flight, store, history, ended>>

rest == IF stack = <<>> THEN <<>> ELSE Under

stale(c) == conns[c].bound # generation \/ state # "opening"

(* connected: the connection the database is waiting for. *)
connected(c, ok) ==
    /\ Connects(c)
    /\ ~stale(c)
    /\ conns' = [conns EXCEPT ![c].is = IF ok THEN "made" ELSE "failed"]
    /\ connecting' = 0
    /\ connection' = IF ok THEN c ELSE 0
    /\ state' = IF ok THEN "open" ELSE "closed"
    /\ owed' = owed \ {<<"open", c>>}
    /\ stack' = <<Game(AnswerCalls)>> \o (IF ok THEN <<Pump(1)>> ELSE <<>>) \o rest
    /\ UNCHANGED abandoned

\* Mutant of discard: a connection nobody waits for is kept.
discardKept(c, ok) ==
    /\ Connects(c)
    /\ stale(c)
    /\ conns' = [conns EXCEPT ![c].is = IF ok THEN "made" ELSE "failed"]
    /\ abandoned' = abandoned \ {<<conns[c].bound, c>>}
    /\ stack' = rest
    /\ UNCHANGED <<state, connection, connecting, owed>>

(* connected, discard: a connection that comes for an earlier generation, or  *)
(* for an open that was never admitted.                                       *)
discard(c, ok) ==
    /\ Connects(c)
    /\ stale(c)
    /\ conns' = [conns EXCEPT ![c].is = IF ok THEN "made" ELSE "failed",
                              ![c].closed = ok /\ <<conns[c].bound, c>> \in abandoned]
    /\ abandoned' = abandoned \ {<<conns[c].bound, c>>}
    /\ stack' = rest
    /\ UNCHANGED <<state, connection, connecting, owed>>

-----------------------------------------------------------------------------
(* Closing and flushing *)

\* Mutant of close: closes over the operations that are still pending.
closeNow ==
    /\ May("close")
    /\ closes < MaxCloses
    /\ state \in {"opening", "open"}
    /\ closes' = closes + 1
    /\ state' = "closing"
    /\ connecting' = 0
    /\ abandoned' = IF connecting = 0 THEN abandoned
                    ELSE abandoned \cup {<<generation, connecting>>}
    /\ owed' = (owed \ {<<"open", connecting>>}) \cup {<<"close", closes'>>}
    /\ flush_waiters' = <<>>
    /\ stack' = <<Release(flush_waiters), Finish>> \o stack
    /\ UNCHANGED <<generation, connection, queue, held, external, ops, flushes, ended>>

(* A close that overtakes an open gives the connection up and rejects the     *)
(* open; the work that was admitted is waited for.                            *)
close ==
    /\ May("close")
    /\ closes < MaxCloses
    /\ state \in {"opening", "open"}
    /\ closes' = closes + 1
    /\ state' = "closing"
    /\ connecting' = 0
    /\ abandoned' = IF connecting = 0 THEN abandoned
                    ELSE abandoned \cup {<<generation, connecting>>}
    /\ owed' = (owed \ {<<"open", connecting>>}) \cup {<<"close", closes'>>}
    /\ LET overtaken == IF state = "opening" THEN <<Game(AnswerCalls)>> ELSE <<>> IN
        IF queue = <<>>
        THEN /\ flush_waiters' = <<>>
             /\ stack' = <<Release(flush_waiters), Finish>> \o overtaken \o stack
        ELSE /\ stack' = overtaken \o stack
             /\ UNCHANGED flush_waiters
    /\ UNCHANGED <<generation, connection, queue, held, external, ops, flushes, ended>>

flush ==
    /\ May("flush")
    /\ Len(flushes) < MaxFlushes
    /\ queue # <<>>
    /\ flushes' = Append(flushes, Queued)
    /\ flush_waiters' = Append(flush_waiters, Len(flushes'))
    /\ owed' = owed \cup {<<"flush", Len(flushes')>>}
    /\ UNCHANGED <<state, generation, connection, connecting, abandoned, queue, held,
                   stack, external, ops, closes, ended>>

(* release_waiters: the waiting flushes are answered one after another ... *)
release_waiters ==
    /\ TopIs("release")
    /\ IF top.left = <<>>
       THEN stack' = Under /\ UNCHANGED owed
       ELSE /\ owed' = owed \ {<<"flush", Head(top.left)>>}
            /\ stack' = <<Game(FlushCalls), Release(Tail(top.left))>> \o Under
    /\ UNCHANGED <<database, external, history, ended>>

(* ... and then, if the database is closing by now, it closes.  Whether the   *)
(* queue is still empty is not looked at again.                               *)
finish ==
    /\ TopIs("finish")
    /\ IF state # "closing"
       THEN stack' = Under /\ UNCHANGED <<database, conns, owed>>
       ELSE /\ state' = "closed"
            /\ connection' = 0
            /\ generation' = generation + 1
            /\ held' = [r \in Records |-> 0]
            /\ conns' = [c \in DOMAIN conns |->
                            IF c = connection THEN [conns[c] EXCEPT !.closed = TRUE]
                                              ELSE conns[c]]
            /\ owed' = owed \ {<<"close", closes>>}
            /\ stack' = <<Game(AnswerCalls)>> \o Under
            /\ UNCHANGED <<connecting, abandoned, queue, flush_waiters>>
    /\ UNCHANGED <<flight, store, history, ended>>

-----------------------------------------------------------------------------
(* The queue *)

admit(w) ==
    /\ May("submit")
    /\ Len(ops) < MaxOps
    /\ state = "open"
    /\ Len(queue) < QueueLimit
    /\ LET s == Len(ops) + 1 IN
        /\ ops' = Append(ops, [op |-> w.op, locks |-> w.locks, conn |-> connection])
        /\ queue' = Append(queue, [sequence |-> s, op |-> w.op, locks |-> w.locks,
                                   generation |-> generation, issued |-> FALSE, staged |-> FALSE])
        /\ owed' = owed \cup {<<"op", s>>}
    /\ stack' = <<Pump(1)>> \o stack
    /\ UNCHANGED <<state, generation, connection, connecting, abandoned, held, flush_waiters,
                   external, flushes, closes, ended>>

(* issue: what the connection is asked; "base" is what a patch read.          *)
Ask(s, write, base) == [sequence |-> s, conn |-> connection, write |-> write, base |-> base]
Answers(s) == IF Prompt THEN <<Reply(s)>> ELSE <<>>

\* Mutant of pump: an operation takes no locks.
pumpFree ==
    /\ TopIs("pump")
    /\ IF connection = 0 \/ Issuable(top.row) = {}
       THEN stack' = Under /\ UNCHANGED <<queue, held, flight>>
       ELSE LET i == Min(Issuable(top.row))
                s == queue[i].sequence IN
            /\ UNCHANGED held
            /\ queue' = [queue EXCEPT ![i].issued = TRUE]
            /\ flight' = flight \cup {Ask(s, queue[i].op \notin {"read", "patch"}, {})}
            /\ stack' = Answers(s) \o <<Pump(i + 1)>> \o Under
    /\ UNCHANGED <<state, generation, connection, connecting, abandoned, flush_waiters,
                   conns, store, history, owed, ended>>

\* Mutant of pump: the queue is walked from its end.
pumpLast ==
    /\ TopIs("pump")
    /\ IF connection = 0 \/ Issuable(1) = {}
       THEN stack' = Under /\ UNCHANGED <<queue, held, flight>>
       ELSE LET i == Max(Issuable(1))
                s == queue[i].sequence IN
            /\ held' = [r \in Records |-> IF r \in queue[i].locks THEN s ELSE held[r]]
            /\ queue' = [queue EXCEPT ![i].issued = TRUE]
            /\ flight' = flight \cup {Ask(s, queue[i].op \notin {"read", "patch"}, {})}
            /\ stack' = Answers(s) \o <<Pump(1)>> \o Under
    /\ UNCHANGED <<state, generation, connection, connecting, abandoned, flush_waiters,
                   conns, store, history, owed, ended>>

(* pump, issue: walks the queue and issues each operation whose records are   *)
(* free, past those that have to wait.                                        *)
pump ==
    /\ TopIs("pump")
    /\ IF connection = 0 \/ Issuable(top.row) = {}
       THEN stack' = Under /\ UNCHANGED <<queue, held, flight>>
       ELSE LET i == Min(Issuable(top.row))
                s == queue[i].sequence IN
            /\ held' = [r \in Records |-> IF r \in queue[i].locks THEN s ELSE held[r]]
            /\ queue' = [queue EXCEPT ![i].issued = TRUE]
            /\ flight' = flight \cup {Ask(s, queue[i].op \notin {"read", "patch"}, {})}
            /\ stack' = Answers(s) \o <<Pump(i + 1)>> \o Under
    /\ UNCHANGED <<state, generation, connection, connecting, abandoned, flush_waiters,
                   conns, store, history, owed, ended>>

(* What a successful write leaves in the store.                               *)
written(f) ==
    LET s == f.sequence
        slot == conns[f.conn].slot IN
    [store EXCEPT ![slot] = [r \in Records |->
        IF r \notin ops[s].locks THEN @[r]
        ELSE CASE ops[s].op = "erase" -> {}
               [] ops[s].op = "patch" -> f.base \cup {s}
               [] OTHER -> {s}]]
read(f) == store[conns[f.conn].slot][CHOOSE r \in ops[f.sequence].locks : TRUE]

Answered(f) ==
    /\ ~ended
    /\ f \in flight
    /\ stack # <<>> => TopIs("reply") /\ top.sequence = f.sequence

Staging(f, ok) ==
    LET row == queue[RowOf(f.sequence)] IN
    /\ row.op = "patch" /\ ~row.staged /\ row.generation = generation
    /\ ok /\ read(f) # {}

(* settled, stage_patch: the patch has read the record that is there; what it *)
(* merged is written under the lock it keeps.                                 *)
stage_patch(f, ok) ==
    /\ Answered(f)
    /\ Staging(f, ok)
    /\ queue' = [queue EXCEPT ![RowOf(f.sequence)].staged = TRUE]
    /\ flight' = (flight \ {f}) \cup {Ask(f.sequence, TRUE, read(f))}
    /\ stack' = Answers(f.sequence) \o rest
    /\ UNCHANGED <<state, generation, connection, connecting, abandoned, held, flush_waiters,
                   conns, store, history, owed, ended>>

\* Mutant of retire: the last row goes, whichever was answered.
retireLast(s) ==
    /\ held' = [r \in Records |-> IF r \in ops[s].locks /\ held[r] = s THEN 0 ELSE held[r]]
    /\ queue' = Front(queue)

\* Mutant of retire: the locks stay taken.
retireHeld(s) ==
    /\ UNCHANGED held
    /\ queue' = RemoveAt(queue, RowOf(s))

(* retire: gives back the locks that are still this operation's.              *)
retire(s) ==
    /\ held' = [r \in Records |-> IF r \in ops[s].locks /\ held[r] = s THEN 0 ELSE held[r]]
    /\ queue' = RemoveAt(queue, RowOf(s))

\* Mutant of settled: what waits is not looked at again.
settledAlone(f, ok) ==
    /\ Answered(f)
    /\ ~Staging(f, ok)
    /\ store' = IF ok /\ f.write THEN written(f) ELSE store
    /\ retire(f.sequence)
    /\ flight' = flight \ {f}
    /\ owed' = owed \ {<<"op", f.sequence>>}
    /\ stack' = <<Game(AnswerCalls)>> \o rest
    /\ UNCHANGED <<state, generation, connection, connecting, abandoned, flush_waiters,
                   conns, history, ended>>

(* settled: the operation is retired and then answered: with its outcome, or, *)
(* when the database closed under it, with a rejection.                       *)
settled(f, ok) ==
    /\ Answered(f)
    /\ ~Staging(f, ok)
    /\ store' = IF ok /\ f.write THEN written(f) ELSE store
    /\ retire(f.sequence)
    /\ flight' = flight \ {f}
    /\ owed' = owed \ {<<"op", f.sequence>>}
    /\ stack' = <<Game(AnswerCalls), Settle>> \o rest
    /\ UNCHANGED <<state, generation, connection, connecting, abandoned, flush_waiters,
                   conns, history, ended>>

\* Mutant of settle: flushes are answered whatever the queue holds.
settleAny ==
    /\ TopIs("settle")
    /\ flush_waiters' = <<>>
    /\ stack' = <<Release(flush_waiters), Finish, Pump(1)>> \o Under
    /\ UNCHANGED <<state, generation, connection, connecting, abandoned, queue, held,
                   external, history, owed, ended>>

(* settled, after the answer: release_waiters, pump.                          *)
settle ==
    /\ TopIs("settle")
    /\ IF queue = <<>>
       THEN /\ flush_waiters' = <<>>
            /\ stack' = <<Release(flush_waiters), Finish, Pump(1)>> \o Under
       ELSE /\ stack' = <<Pump(1)>> \o Under
            /\ UNCHANGED flush_waiters
    /\ UNCHANGED <<state, generation, connection, connecting, abandoned, queue, held,
                   external, history, owed, ended>>

GameReturns ==
    /\ TopIs("game")
    /\ stack' = Under
    /\ UNCHANGED <<database, external, history, owed, ended>>

(* The promise that was asked for is not settled yet: the call goes on.       *)
AnswersLater ==
    /\ TopIs("reply") \/ TopIs("made")
    /\ stack' = Under
    /\ UNCHANGED <<database, external, history, owed, ended>>

\* Mutant of clear: the flushes that wait are forgotten.
clearOps ==
    /\ Ends /\ ~ended /\ stack = <<>>
    /\ ended' = TRUE
    /\ queue' = <<>> /\ held' = [r \in Records |-> 0] /\ flush_waiters' = <<>>
    /\ owed' = {p \in owed : p[1] # "op"}
    /\ UNCHANGED <<state, generation, connection, connecting, abandoned, stack, external, history>>

(* clear, fail_queue: the session goes, and its databases with it.            *)
clear ==
    /\ Ends /\ ~ended /\ stack = <<>>
    /\ ended' = TRUE
    /\ queue' = <<>> /\ held' = [r \in Records |-> 0] /\ flush_waiters' = <<>>
    /\ owed' = {p \in owed : p[1] \notin {"op", "flush"}}
    /\ UNCHANGED <<state, generation, connection, connecting, abandoned, stack, external, history>>

(* What runs by itself once it was begun.                                     *)
Inside == release_waiters \/ finish \/ pump \/ settle \/ GameReturns \/ AnswersLater
Backend ==
    \/ \E f \in flight, ok \in BOOLEAN : stage_patch(f, ok) \/ settled(f, ok)
    \/ \E c \in DOMAIN conns, ok \in BOOLEAN : connected(c, ok) \/ discard(c, ok)
GameCalls ==
    \/ \E s \in Slots : open(s)
    \/ \E w \in Works : admit(w)
    \/ close
    \/ flush
Next == Inside \/ Backend \/ GameCalls \/ clear
Spec == Init /\ [][Next]_vars

(* The backend answers everything it was asked.                               *)
Fairness ==
    /\ WF_vars(Inside)
    /\ \A s \in Sequences : SF_vars(\E f \in flight, ok \in BOOLEAN :
                                        f.sequence = s /\ (stage_patch(f, ok) \/ settled(f, ok)))
    /\ \A c \in 1..MaxOpens : SF_vars(c \in DOMAIN conns /\ \E ok \in BOOLEAN :
                                        connected(c, ok) \/ discard(c, ok))
FairSpec == Spec /\ Fairness

-----------------------------------------------------------------------------
(* Properties *)

(* Every variable keeps its type, an operation is in the queue exactly while  *)
(* its answer is owed, and only what was issued is outstanding.               *)
TypeOK ==
    /\ state \in {"closed", "opening", "open", "closing"}
    /\ generation \in 1..(MaxCloses + 1)
    /\ connection \in 0..Len(conns) /\ connecting \in 0..Len(conns)
    /\ abandoned \subseteq (1..(MaxCloses + 1)) \X (1..MaxOpens)
    /\ \A i \in DOMAIN queue : queue[i] \in Pending
    /\ held \in [Records -> 0..MaxOps]
    /\ store \in [Slots -> [Records -> Content]]
    /\ owed \subseteq Promise
    /\ Queued = {s \in Sequences : <<"op", s>> \in owed}
    /\ ~ended => \A i \in DOMAIN queue : queue[i].issued <=>
                    \E f \in flight : f.sequence = queue[i].sequence

(* The locks are exact: what an issued operation names is held for it and     *)
(* nothing else is (held, Databases::pump and retire).                        *)
LocksAreExact ==
    ~ended => \A r \in Records :
        LET takers == {i \in DOMAIN queue : queue[i].issued /\ r \in queue[i].locks} IN
        IF held[r] = 0 THEN takers = {}
        ELSE \E i \in takers : takers = {i} /\ queue[i].sequence = held[r]

(* What a staged patch read is what the record still holds: the write that    *)
(* follows undoes nothing that was written in between (stage_patch).          *)
PatchIsCurrent ==
    \A f \in flight : ops[f.sequence].op = "patch" /\ f.write => f.base = read(f)

(* Operations that name one record are answered in the order they were        *)
(* admitted (Databases::pump).                                                *)
SettlesInOrder ==
    \A i, j \in Sequences :
        (i < j /\ j <= Len(ops) /\ ops[i].locks \cap ops[j].locks # {} /\ <<"op", i>> \in owed)
            => <<"op", j>> \in owed

(* A connection is closed after its last operation was answered               *)
(* (Databases::release_waiters).                                              *)
ClosesAfterItsWork == \A f \in flight : ~ended => ~conns[f.conn].closed

(* An operation reaches the connection that was open when it was admitted and *)
(* no other: nothing asked of one slot is done to another.                    *)
ReachesItsOwnSlot == \A f \in flight : f.conn = ops[f.sequence].conn

(* A connection that was made is the one the database uses, or it was closed  *)
(* (Databases::discard, release_waiters).                                     *)
NoConnectionLeftOpen ==
    (stack = <<>> /\ ~ended) =>
        \A c \in DOMAIN conns : conns[c].is = "made" => c = connection \/ conns[c].closed

(* A flush answers after every operation it waits for (release_waiters).      *)
FlushIsHonest ==
    ~ended => \A n \in DOMAIN flushes : <<"flush", n>> \notin owed =>
                    flushes[n] \cap Queued = {}

(* A flush is answered once the operations admitted before it are.            *)
FlushWaitsForEarlierOnly ==
    stack = <<>> => \A n \in DOMAIN flushes :
        <<"flush", n>> \in owed => flushes[n] \cap Queued # {}

(* When the session ends, what it owes for operations and flushes is settled. *)
EndAnswersTheQueue == ended => \A p \in owed : p[1] \in {"open", "close"}

(* When the session ends, everything it owes is settled.                      *)
EndAnswersAll == ended => owed = {}

(* What is asked of one record happens in the order it was asked, and a patch *)
(* is of what the record holds, as the four parts above say.                  *)
OperationsAreOrdered == TypeOK /\ LocksAreExact /\ PatchIsCurrent /\ SettlesInOrder

(* Connections, flushes and the end do what was asked of them, as the parts   *)
(* above say.                                                                 *)
ConnectionsAreSound ==
    /\ ClosesAfterItsWork /\ ReachesItsOwnSlot /\ NoConnectionLeftOpen
    /\ FlushIsHonest /\ EndAnswersTheQueue

(* Every promise is settled in the end, while the backend answers.            *)
NothingOwed == owed = {} \/ ended
=============================================================================

---------------------------- MODULE SettleQueue ----------------------------
(* The queue of deferred session work (settle_queue.cpp) and the calls that  *)
(* reach it: session_defer, session_defer_after, session_cancel_deferred,     *)
(* session_flush_deferred.  A deferred callback is game or session code, so   *)
(* it may call any of them again while the queue drains, a flush included:    *)
(* "frames" is the stack of drains in progress, each with the local batch it  *)
(* took out of "rows".                                                        *)
EXTENDS Naturals, Sequences, FiniteSets, SequencesExt

CONSTANTS
    Keys,       \* the keys that name a deferred call
    NoKey,      \* an unkeyed call
    Windows,    \* the window lengths, in pumps, a call may be deferred by
    MaxPasses,  \* SettleQueue::MAX_PASSES
    MaxAsks,    \* bound: calls deferred in a run
    MaxDepth    \* bound: drains nested in callbacks

KeysAssumption == NoKey \notin Keys /\ 0 \in Windows /\ Windows \subseteq Nat
BoundsAssumption == {MaxPasses, MaxAsks, MaxDepth} \subseteq Nat \ {0}
Assumptions == KeysAssumption /\ BoundsAssumption

VARIABLES
    rows,       \* SettleQueue::rows, the queue itself
    frames,     \* the drains in progress, innermost last
    asks,       \* how many calls were deferred; a call is named by its number
    ran,        \* history: the calls that ran
    gone,       \* history: the calls taken out of "rows" by a cancel
    dropped,    \* history: the calls a drain gave up on
    withdrawn   \* history: the calls whose key was cancelled while they waited
vars == <<rows, frames, asks, ran, gone, dropped, withdrawn>>

Row == [ask : Nat, key : Keys \cup {NoKey}, pumps : Nat]

AsksOf(s) == {s[i].ask : i \in DOMAIN s}
Batched == UNION {AsksOf(frames[f].batch) : f \in DOMAIN frames}

\* Mutant of due: a window counts as over one pump early.
dueEarly == SelectSeq(rows, LAMBDA r : r.pumps <= 1)

due == SelectSeq(rows, LAMBDA r : r.pumps = 0)

held == SelectSeq(rows, LAMBDA r : r.pumps > 0)
\* Mutant of has_due: a last row on its own is not seen.
has_dueTwo == Len(due) > 1

has_due == due # <<>>

top == Last(frames)
SetTop(f) == Append(Front(frames), f)

(* Code runs that may call the queue: outside every drain, or in a callback. *)
CallerRuns == frames # <<>> => top.running

cancelled(key) == SelectSeq(rows, LAMBDA r : r.key # NoKey /\ r.key = key)
kept(key) == SelectSeq(rows, LAMBDA r : r.key = NoKey \/ r.key # key)

(* The calls that wait under "key" anywhere, a drain's batch included. *)
WaitingUnder(key) ==
    AsksOf(cancelled(key)) \cup
    UNION {AsksOf(SelectSeq(frames[f].batch, LAMBDA r : r.key # NoKey /\ r.key = key)) :
               f \in DOMAIN frames}

Init ==
    /\ rows = <<>> /\ frames = <<>> /\ asks = 0
    /\ ran = {} /\ gone = {} /\ dropped = {} /\ withdrawn = {}

\* Mutant of schedule: a key that waits is not cancelled first.
scheduleBeside(key, pumps) ==
    /\ CallerRuns
    /\ asks < MaxAsks
    /\ asks' = asks + 1
    /\ rows' = Append(rows, [ask |-> asks', key |-> key, pumps |-> pumps])
    /\ UNCHANGED <<frames, ran, gone, dropped, withdrawn>>

schedule(key, pumps) ==
    /\ CallerRuns
    /\ asks < MaxAsks
    /\ asks' = asks + 1
    /\ rows' = Append(kept(key), [ask |-> asks', key |-> key, pumps |-> pumps])
    /\ gone' = gone \cup AsksOf(cancelled(key))
    /\ withdrawn' = withdrawn \cup WaitingUnder(key)
    /\ UNCHANGED <<frames, ran, dropped>>

cancel(key) ==
    /\ CallerRuns
    /\ WaitingUnder(key) # {}
    /\ rows' = kept(key)
    /\ gone' = gone \cup AsksOf(cancelled(key))
    /\ withdrawn' = withdrawn \cup WaitingUnder(key)
    /\ UNCHANGED <<frames, asks, ran, dropped>>

advance_windows ==
    /\ frames = <<>>
    /\ held # <<>>
    /\ rows' = [i \in DOMAIN rows |->
                   IF rows[i].pumps > 0 THEN [rows[i] EXCEPT !.pumps = @ - 1] ELSE rows[i]]
    /\ UNCHANGED <<frames, asks, ran, gone, dropped, withdrawn>>

\* Mutant of drain: the rows whose window is open are cleared too.
drainAll ==
    /\ CallerRuns
    /\ has_due
    /\ Len(frames) < MaxDepth
    /\ frames' = Append(frames, [batch |-> due, passes |-> 1, running |-> FALSE])
    /\ rows' = <<>>
    /\ UNCHANGED <<asks, ran, gone, dropped, withdrawn>>

(* drain(): the first pass; a drain that finds nothing due returns at once. *)
drain ==
    /\ CallerRuns
    /\ has_due
    /\ Len(frames) < MaxDepth
    /\ frames' = Append(frames, [batch |-> due, passes |-> 1, running |-> FALSE])
    /\ rows' = held
    /\ UNCHANGED <<asks, ran, gone, dropped, withdrawn>>

DrainResumes == frames # <<>> /\ ~top.running
PassEnds == DrainResumes /\ top.batch = <<>>

RunNext ==
    /\ DrainResumes
    /\ top.batch # <<>>
    /\ frames' = SetTop([top EXCEPT !.batch = Tail(@), !.running = TRUE])
    /\ ran' = ran \cup {Head(top.batch).ask}
    /\ UNCHANGED <<rows, asks, gone, dropped, withdrawn>>

CallbackReturns ==
    /\ frames # <<>>
    /\ top.running
    /\ frames' = SetTop([top EXCEPT !.running = FALSE])
    /\ UNCHANGED <<rows, asks, ran, gone, dropped, withdrawn>>

\* Mutant of NextPass: one pass too many before a cycle is reported.
NextPassOver ==
    /\ PassEnds
    /\ has_due
    /\ top.passes <= MaxPasses
    /\ frames' = SetTop([top EXCEPT !.batch = due, !.passes = @ + 1])
    /\ rows' = held
    /\ UNCHANGED <<asks, ran, gone, dropped, withdrawn>>

NextPass ==
    /\ PassEnds
    /\ has_due
    /\ top.passes < MaxPasses
    /\ frames' = SetTop([top EXCEPT !.batch = due, !.passes = @ + 1])
    /\ rows' = held
    /\ UNCHANGED <<asks, ran, gone, dropped, withdrawn>>

GiveUp ==
    /\ PassEnds
    /\ has_due
    /\ top.passes >= MaxPasses
    /\ dropped' = dropped \cup AsksOf(due)
    /\ rows' = held
    /\ frames' = Front(frames)
    /\ UNCHANGED <<asks, ran, gone, withdrawn>>

DrainEnds ==
    /\ PassEnds
    /\ ~has_due
    /\ frames' = Front(frames)
    /\ UNCHANGED <<rows, asks, ran, gone, dropped, withdrawn>>

Next ==
    \/ \E key \in Keys \cup {NoKey}, pumps \in Windows : schedule(key, pumps)
    \/ \E key \in Keys : cancel(key)
    \/ advance_windows
    \/ drain
    \/ RunNext
    \/ CallbackReturns
    \/ NextPass
    \/ GiveUp
    \/ DrainEnds

(* The session advances the windows and flushes on every poll or tick, a      *)
(* callback returns, and a drain is a loop that goes on when it does.          *)
Fairness ==
    /\ WF_vars(advance_windows)
    /\ WF_vars(frames = <<>> /\ drain)
    /\ WF_vars(RunNext)
    /\ WF_vars(CallbackReturns)
    /\ WF_vars(NextPass \/ GiveUp \/ DrainEnds)

Spec == Init /\ [][Next]_vars
FairSpec == Spec /\ Fairness

-----------------------------------------------------------------------------
(* Every variable keeps its shape; a drain never runs more than MaxPasses     *)
(* passes of the loop in SettleQueue::drain.                                   *)
TypeOK ==
    /\ rows \in Seq(Row)
    /\ frames \in Seq([batch : Seq(Row), passes : 1 .. MaxPasses, running : BOOLEAN])
    /\ asks \in Nat
    /\ {ran, gone, dropped, withdrawn} \subseteq SUBSET (1 .. asks)

(* Every deferred call is in exactly one place, through windows, nested        *)
(* drains, cancels and give-ups of SettleQueue::drain: it waits in the queue,   *)
(* waits in the batch of one drain, ran, was cancelled, or was reported as      *)
(* pending by a drain that gave up.                                            *)
Places == <<AsksOf(rows), Batched, ran, gone, dropped>>
NothingLostOrTwice ==
    /\ UNION {Places[i] : i \in DOMAIN Places} = 1 .. asks
    /\ \A i, j \in DOMAIN Places : i # j => Places[i] \cap Places[j] = {}
    /\ \A f, g \in DOMAIN frames :
           f # g => AsksOf(frames[f].batch) \cap AsksOf(frames[g].batch) = {}

(* The queue never holds two calls under one key, so a key that is deferred    *)
(* again coalesces (SettleQueue::schedule).                                    *)
OneRowPerKey ==
    \A i, j \in DOMAIN rows : rows[i].key = rows[j].key /\ rows[i].key # NoKey => i = j

(* A call whose window is open never runs: what a drain takes is due, and a    *)
(* callback that opens a window during a pass does not join the next one.      *)
WindowsHold == \A f \in DOMAIN frames : \A i \in DOMAIN frames[f].batch :
                   frames[f].batch[i].pumps = 0

(* The calls of the queue are kept: the four parts above together.             *)
CallsAreKept == TypeOK /\ NothingLostOrTwice /\ OneRowPerKey /\ WindowsHold

(* Two calls deferred without a window run in the order they were deferred,    *)
(* as long as no callback flushes: the later one has not run while the earlier *)
(* one still waits (a window lets a later call overtake, so it is left out).   *)
RunsInOrder ==
    \A a, b \in 1 .. asks :
        /\ a < b
        /\ b \in ran
        /\ a \in AsksOf(due) \cup Batched
        => FALSE

(* Every deferred call runs, unless it is cancelled or a drain gives it up,    *)
(* however callbacks defer, cancel and flush (session_flush_deferred).         *)
NoCallWaits == 1 .. asks \subseteq ran \cup gone \cup dropped
EveryCallSettles == []<>NoCallWaits

(* session_cancel_deferred "Removes the call queued under key by                *)
(* session_defer" (NetwMultiplayer.xml:2524): what it withdrew does not run     *)
(* afterwards.                                                                 *)
CancelledNeverRuns == [][(ran' \ ran) \cap withdrawn = {}]_vars

(* session_flush_deferred "Runs every call queued with session_defer until      *)
(* none are left" (NetwMultiplayer.xml:2538): when a flush returns without      *)
(* reporting a cycle, no call that is due still waits.                         *)
FlushLeavesNone ==
    [][Len(frames') < Len(frames) /\ dropped' = dropped
           => AsksOf(due)' \cup Batched' = {}]_vars
=============================================================================

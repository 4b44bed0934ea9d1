--------------------------- MODULE DatabaseProofs ---------------------------
(***************************************************************************)
(* Proofs about Database for every number of slots, records, operations,     *)
(* opens, flushes and closes, with any calls inside the answers that the     *)
(* named hypotheses allow: the operations on a record are done in the order  *)
(* they were asked for, on the connection they were asked of, and a          *)
(* connection is closed when nothing is left to do on it.                    *)
(***************************************************************************)
EXTENDS Database, TLAPS, SequenceTheorems, WellFoundedInduction

-----------------------------------------------------------------------------
(* Numbers and sequences. *)

\* A set of numbers that holds something has a least one.
LEMMA Least ==
    ASSUME NEW T \in SUBSET Nat, T # {}
    PROVE  \E x \in T : \A y \in T : x <= y
<1>1. PICK x \in T : \A y \in T : ~(<<y, x>> \in OpToRel(<, Nat))
  BY NatLessThanWellFounded, WFMin
<1>2. \A y \in T : ~(y < x)
  BY <1>1 DEF OpToRel
<1>3. \A y \in T : x <= y
  BY <1>2
<1> QED
  BY <1>3

\* What is under the head of a sequence.
LEMMA Popped ==
    ASSUME NEW S, NEW s \in Seq(S), s # <<>>
    PROVE  /\ Tail(s) \in Seq(S)
           /\ Len(s) \in Nat \ {0}
           /\ Len(Tail(s)) = Len(s) - 1
           /\ \A n \in 1 .. Len(s) - 1 : Tail(s)[n] = s[n + 1]
           /\ Head(s) = s[1] /\ s[1] \in S
BY SMT

\* One element over a sequence.
LEMMA Pushed ==
    ASSUME NEW S, NEW a \in S, NEW t \in Seq(S)
    PROVE  /\ <<a>> \o t \in Seq(S)
           /\ <<a>> \o t # <<>>
           /\ Len(t) \in Nat
           /\ Len(<<a>> \o t) = Len(t) + 1
           /\ (<<a>> \o t)[1] = a
           /\ \A n \in 2 .. Len(t) + 1 : (<<a>> \o t)[n] = t[n - 1]
           /\ Tail(<<a>> \o t) = t
BY SMT

LEMMA SameSequence ==
    ASSUME NEW S, NEW s \in Seq(S), NEW t \in Seq(S), Len(s) = Len(t),
           \A n \in 1 .. Len(s) : s[n] = t[n]
    PROVE  s = t
BY SMT

\* Several elements over a sequence are one over another.
LEMMA PushedTwo ==
    ASSUME NEW S, NEW a \in S, NEW b \in S, NEW t \in Seq(S)
    PROVE  <<a, b>> \o t = <<a>> \o (<<b>> \o t)
<1> DEFINE x == <<a, b>> \o t
           y == <<a>> \o (<<b>> \o t)
<1>1. x \in Seq(S) /\ y \in Seq(S) /\ Len(x) = Len(t) + 2 /\ Len(y) = Len(t) + 2
  BY SMT
<1>2. \A n \in 1 .. Len(t) + 2 : x[n] = y[n]
  BY SMT
<1> HIDE DEF x, y
<1>3. x = y
  BY <1>1, <1>2, SameSequence
<1> QED
  BY <1>3 DEF x, y

LEMMA Associates ==
    ASSUME NEW S, NEW s \in Seq(S), NEW t \in Seq(S), NEW u \in Seq(S)
    PROVE  s \o t \o u = s \o (t \o u)
<1> DEFINE x == s \o t \o u
           y == s \o (t \o u)
<1>1. /\ x \in Seq(S) /\ y \in Seq(S)
      /\ Len(x) = Len(s) + Len(t) + Len(u) /\ Len(y) = Len(s) + Len(t) + Len(u)
  BY SMT
<1>2. \A n \in 1 .. Len(s) + Len(t) + Len(u) : x[n] = y[n]
  BY SMT
<1> HIDE DEF x, y
<1>3. x = y
  BY <1>1, <1>2, SameSequence
<1> QED
  BY <1>3 DEF x, y

LEMMA PushedNone == ASSUME NEW S, NEW t \in Seq(S) PROVE <<>> \o t = t
BY SMT

\* One element at the end of a sequence.
LEMMA Appended ==
    ASSUME NEW S, NEW s \in Seq(S), NEW e \in S
    PROVE  /\ Append(s, e) \in Seq(S)
           /\ Len(s) \in Nat
           /\ Len(Append(s, e)) = Len(s) + 1
           /\ Append(s, e)[Len(s) + 1] = e
           /\ \A i \in 1 .. Len(s) : Append(s, e)[i] = s[i]
BY SMT

\* What is left of a sequence when one element is taken out.
LEMMA Removed ==
    ASSUME NEW S, NEW s \in Seq(S), NEW k \in DOMAIN s
    PROVE  /\ RemoveAt(s, k) \in Seq(S)
           /\ Len(s) \in Nat /\ k \in 1 .. Len(s)
           /\ Len(RemoveAt(s, k)) = Len(s) - 1
           /\ \A i \in 1 .. Len(s) - 1 :
                RemoveAt(s, k)[i] = IF i < k THEN s[i] ELSE s[i + 1]
<1> DEFINE a == SubSeq(s, 1, k - 1)
           b == SubSeq(s, k + 1, Len(s))
<1>1. Len(s) \in Nat /\ k \in 1 .. Len(s)
  BY SMT
<1>2. /\ a \in Seq(S) /\ Len(a) = k - 1
      /\ \A i \in 1 .. k - 1 : a[i] = s[i]
  BY <1>1, SMT
<1>3. /\ b \in Seq(S) /\ Len(b) = Len(s) - k
      /\ \A i \in 1 .. Len(s) - k : b[i] = s[k + i]
  BY <1>1, SMT
<1>4. RemoveAt(s, k) = a \o b
  BY DEF RemoveAt
<1> HIDE DEF a, b
<1>5. /\ a \o b \in Seq(S) /\ Len(a \o b) = Len(s) - 1
      /\ \A i \in 1 .. Len(s) - 1 :
            (a \o b)[i] = IF i < k THEN a[i] ELSE b[i - (k - 1)]
  <2>1. /\ a \o b \in Seq(S) /\ Len(a \o b) = Len(a) + Len(b)
        /\ \A i \in 1 .. Len(a) + Len(b) :
              (a \o b)[i] = IF i <= Len(a) THEN a[i] ELSE b[i - Len(a)]
    BY <1>2, <1>3, ConcatProperties, Zenon
  <2>2. Len(a) = k - 1 /\ Len(a) + Len(b) = Len(s) - 1
    BY <1>1, <1>2, <1>3
  <2>3. \A i \in 1 .. Len(s) - 1 : i <= Len(a) <=> i < k
    BY <1>1, <2>2
  <2> QED
    BY <2>1, <2>2, <2>3
<1>6. ASSUME NEW i \in 1 .. Len(s) - 1
      PROVE  (a \o b)[i] = IF i < k THEN s[i] ELSE s[i + 1]
  <2>1. CASE i < k
    BY <2>1, <1>1, <1>2, <1>5
  <2>2. CASE ~(i < k)
    <3>1. i - (k - 1) \in 1 .. Len(s) - k /\ k + (i - (k - 1)) = i + 1
      BY <2>2, <1>1
    <3> QED
      BY <2>2, <3>1, <1>3, <1>5
  <2> QED
    BY <2>1, <2>2
<1> QED
  BY <1>1, <1>4, <1>5, <1>6

-----------------------------------------------------------------------------
(* What every variable may hold, whatever the game calls. *)

Kinds == {"read", "write", "erase", "patch", "batch"}
Conn == [slot : Slots, is : {"connecting", "made", "failed"}, closed : BOOLEAN, bound : Nat]
Asked == [op : Kinds, locks : SUBSET Records, conn : Nat]
Outstanding == [sequence : Sequences, conn : Nat, write : BOOLEAN, base : Content]
Frame == {Game(AnswerCalls), Game(FlushCalls), Settle, Finish}
    \cup {Pump(r) : r \in Nat \ {0}} \cup {Release(left) : left \in Seq(Nat)}
    \cup {Reply(s) : s \in Nat} \cup {Made(c) : c \in Nat}

\* The states of the database go with its generation and its connections.
StateTyped ==
    /\ state \in {"closed", "opening", "open", "closing"}
    /\ closes \in 0 .. MaxCloses
    /\ generation = IF state = "closing" THEN closes ELSE closes + 1
    /\ generation \in Nat \ {0}
    /\ conns \in Seq(Conn) /\ Len(conns) <= MaxOpens
    /\ connection \in 0 .. Len(conns) /\ connecting \in 0 .. Len(conns)
    /\ abandoned \subseteq (1 .. (MaxCloses + 1)) \X (1 .. MaxOpens)
    /\ state = "open" => connection # 0
    /\ state \in {"closed", "opening"} => connection = 0
    /\ connecting # 0 => state = "opening"

StackTyped ==
    /\ stack \in Seq(Frame)
    /\ ended \in BOOLEAN
    /\ ended => stack = <<>>

FlushTyped ==
    /\ flushes \in Seq(SUBSET Nat) /\ Len(flushes) <= MaxFlushes
    /\ flush_waiters \in Seq(Nat)

\* A row is of an operation that was admitted; rows are in the order of admission.
QueueTyped ==
    /\ queue \in Seq(Pending)
    /\ held \in [Records -> 0 .. MaxOps]
    /\ ops \in Seq(Asked) /\ Len(ops) <= MaxOps
    /\ \A s \in DOMAIN ops : ops[s].locks # {} /\ ops[s].conn \in DOMAIN conns
Sorted ==
    \A i, j \in DOMAIN queue : i < j => queue[i].sequence < queue[j].sequence
RowsMatch ==
    \A i \in DOMAIN queue :
        /\ queue[i].sequence \in DOMAIN ops
        /\ queue[i].op = ops[queue[i].sequence].op
        /\ queue[i].locks = ops[queue[i].sequence].locks

\* What is outstanding is what was issued, once.
FlightTyped ==
    /\ flight \subseteq Outstanding
    /\ \A f \in flight : f.sequence \in DOMAIN ops /\ f.conn \in DOMAIN conns
    /\ \A f, g \in flight : f.sequence = g.sequence => f = g
    /\ ~ended => \A f \in flight : f.sequence \in Queued
    /\ ~ended => \A i \in DOMAIN queue :
            queue[i].issued <=> \E f \in flight : f.sequence = queue[i].sequence
RowsServed ==
    \A i \in DOMAIN queue :
        /\ queue[i].generation <= generation
        /\ queue[i].generation = generation => connection # 0
StoreTyped == store \in [Slots -> [Records -> Content]]
OwedTyped ==
    /\ owed \subseteq Promise
    /\ Queued = {s \in Sequences : <<"op", s>> \in owed}

Typed ==
    /\ StateTyped /\ StackTyped /\ FlushTyped
    /\ QueueTyped /\ Sorted /\ RowsMatch /\ RowsServed
    /\ FlightTyped /\ StoreTyped /\ OwedTyped

\* What is on the stack.
LEMMA Frames ==
    /\ Game(AnswerCalls) \in Frame /\ Game(FlushCalls) \in Frame
    /\ Settle \in Frame /\ Finish \in Frame
    /\ \A r \in Nat : r # 0 => Pump(r) \in Frame
    /\ \A left \in Seq(Nat) : Release(left) \in Frame
    /\ \A s \in Nat : Reply(s) \in Frame
    /\ \A c \in Nat : Made(c) \in Frame
    /\ \A fr \in Frame :
        /\ fr.at \in {"game", "settle", "finish", "pump", "release", "reply", "made"}
        /\ fr.at = "game" => fr.calls \in {AnswerCalls, FlushCalls}
        /\ fr.at = "pump" => fr.row \in Nat /\ fr.row >= 1
        /\ fr.at = "release" => fr.left \in Seq(Nat)
        /\ fr.at = "made" => fr.conn \in Nat
        /\ fr.at = "reply" => fr.sequence \in Nat
    /\ \A calls : Game(calls).at = "game" /\ Game(calls).calls = calls
    /\ \A r : Pump(r).at = "pump" /\ Pump(r).row = r
    /\ \A left : Release(left).at = "release" /\ Release(left).left = left
    /\ \A s : Reply(s).at = "reply" /\ Reply(s).sequence = s
    /\ \A c : Made(c).at = "made" /\ Made(c).conn = c
    /\ Settle.at = "settle" /\ Finish.at = "finish"
<1>1. /\ \A calls : Game(calls).at = "game" /\ Game(calls).calls = calls
      /\ \A r : Pump(r).at = "pump" /\ Pump(r).row = r
      /\ \A left : Release(left).at = "release" /\ Release(left).left = left
      /\ \A s : Reply(s).at = "reply" /\ Reply(s).sequence = s
      /\ \A c : Made(c).at = "made" /\ Made(c).conn = c
      /\ Settle.at = "settle" /\ Finish.at = "finish"
  BY DEF Game, Pump, Release, Reply, Made, Settle, Finish
<1>2. /\ Game(AnswerCalls) \in Frame /\ Game(FlushCalls) \in Frame
      /\ Settle \in Frame /\ Finish \in Frame
      /\ \A r \in Nat : r # 0 => Pump(r) \in Frame
      /\ \A left \in Seq(Nat) : Release(left) \in Frame
      /\ \A s \in Nat : Reply(s) \in Frame
      /\ \A c \in Nat : Made(c) \in Frame
  BY Zenon, 0 \in Nat DEF Frame
<1>3. ASSUME NEW fr \in Frame
      PROVE  /\ fr.at \in {"game", "settle", "finish", "pump", "release", "reply", "made"}
             /\ fr.at = "game" => fr.calls \in {AnswerCalls, FlushCalls}
             /\ fr.at = "pump" => fr.row \in Nat /\ fr.row >= 1
             /\ fr.at = "release" => fr.left \in Seq(Nat)
             /\ fr.at = "made" => fr.conn \in Nat
             /\ fr.at = "reply" => fr.sequence \in Nat
  <2>1. \/ fr = Game(AnswerCalls) \/ fr = Game(FlushCalls)
        \/ fr = Settle \/ fr = Finish
        \/ \E r \in Nat \ {0} : fr = Pump(r)
        \/ \E left \in Seq(Nat) : fr = Release(left)
        \/ \E s \in Nat : fr = Reply(s)
        \/ \E c \in Nat : fr = Made(c)
    BY DEF Frame
  <2> QED
    BY ONLY <2>1, <1>1
<1> QED
  BY <1>1, <1>2, <1>3, Zenon

\* Frames may be grouped either way.
Regrouped(s, t, u) == s \o t \o u = s \o (t \o u)

LEMMA Regroups ==
    ASSUME NEW s \in Seq(Frame), NEW t \in Seq(Frame), NEW u \in Seq(Frame)
    PROVE  Regrouped(s, t, u)
<1> DEFINE S == Frame
<1>1. s \in Seq(S) /\ t \in Seq(S) /\ u \in Seq(S)
  OBVIOUS
<1> HIDE DEF S
<1> QED
  BY <1>1, Associates DEF Regrouped

\* Three frames are stacked as if one by one.
OneByOne(a, b, c, t) == <<a, b, c>> \o t = <<a>> \o (<<b>> \o (<<c>> \o t))

LEMMA StackedThree ==
    ASSUME NEW a \in Frame, NEW b \in Frame, NEW c \in Frame, NEW t \in Seq(Frame)
    PROVE  OneByOne(a, b, c, t)
<1> DEFINE x == <<a, b, c>> \o t
           y == <<a>> \o (<<b>> \o (<<c>> \o t))
<1>1. x \in Seq(Frame) /\ y \in Seq(Frame) /\ Len(x) = Len(t) + 3 /\ Len(y) = Len(t) + 3
  BY SMT
<1>2. \A n \in 1 .. Len(t) + 3 : x[n] = y[n]
  BY SMT
<1> HIDE DEF x, y
<1>3. x = y
  BY <1>1, <1>2, SameSequence
<1> QED
  BY <1>3 DEF x, y, OneByOne

\* What settle stacks when the queue is empty, frame by frame.
LEMMA StackedSettle ==
    ASSUME NEW q, Release(q) \in Frame, Finish \in Frame, Pump(1) \in Frame,
           NEW t \in Seq(Frame)
    PROVE  <<Release(q), Finish, Pump(1)>> \o t = <<Release(q)>> \o (<<Finish>> \o (<<Pump(1)>> \o t))
<1>1. OneByOne(Release(q), Finish, Pump(1), t)
  BY StackedThree
<1> QED
  BY <1>1, Zenon DEF OneByOne

\* The top of the stack and what is under it.
LEMMA Top ==
    ASSUME StackTyped, stack # <<>>
    PROVE  /\ top \in Frame /\ top = stack[1]
           /\ Under \in Seq(Frame)
           /\ Len(Under) = Len(stack) - 1
           /\ \A n \in 1 .. Len(stack) - 1 : Under[n] = stack[n + 1]
           /\ Len(stack) \in Nat \ {0}
BY Popped, Zenon DEF StackTyped, top, Under

LEMMA Rest == ASSUME StackTyped PROVE rest \in Seq(Frame)
BY Top DEF rest, StackTyped

-----------------------------------------------------------------------------
(* Every step keeps the types, one part after the other. *)

LEMMA Bounds ==
    ASSUME Assumptions
    PROVE  /\ MaxOps \in Nat /\ MaxOpens \in Nat /\ MaxFlushes \in Nat /\ MaxCloses \in Nat
           /\ Prompt \in BOOLEAN /\ Reopens \in BOOLEAN /\ Ends \in BOOLEAN
BY DEF Assumptions, BoundsAssumption, FlagsAssumption

\* The calls in progress, what is outstanding and what the game asks for.
dbState == <<state, generation, connection, connecting, abandoned, conns, closes>>

LEMMA StateStep ==
    ASSUME Assumptions, Typed, Next
    PROVE  StateTyped'
<1> USE Bounds
<1>1. ASSUME NEW s \in Slots, open(s)
      PROVE  StateTyped'
  <2> DEFINE new == [slot |-> s, is |-> "connecting", closed |-> FALSE,
                     bound |-> IF state = "closed" THEN generation ELSE 0]
  <2>1. new \in Conn
    BY DEF Conn, Typed, StateTyped
  <2>2. conns' = Append(conns, new)
    BY <1>1 DEF open
  <2> HIDE DEF new
  <2>3. conns' \in Seq(Conn) /\ Len(conns') = Len(conns) + 1 /\ Len(conns) \in Nat
    BY <2>1, <2>2, Appended, Zenon DEF Typed, StateTyped
  <2>4. /\ UNCHANGED <<generation, connection, abandoned, closes>> /\ Len(conns) < MaxOpens
        /\ \/ state = "closed" /\ state' = "opening" /\ connecting' = Len(conns) + 1
           \/ UNCHANGED <<state, connecting>>
    BY <1>1, Zenon DEF open, history
  <2> QED
    BY <2>3, <2>4 DEF Typed, StateTyped
<1>2. ASSUME NEW c \in DOMAIN conns, NEW ok \in BOOLEAN, connected(c, ok) \/ discard(c, ok)
      PROVE  StateTyped'
  <2>1. /\ conns' \in Seq(Conn)
        /\ Len(conns') = Len(conns)
    <3>1. conns \in Seq(Conn)
      BY DEF Typed, StateTyped
    <3>2. conns[c] \in Conn
      BY <3>1
    <3>3. \E x \in Conn : conns' = [conns EXCEPT ![c] = x]
      <4>1. CASE connected(c, ok)
        <5>1. conns' = [conns EXCEPT ![c] = [conns[c] EXCEPT !.is = IF ok THEN "made" ELSE "failed"]]
          BY <4>1, Zenon DEF connected
        <5>2. [conns[c] EXCEPT !.is = IF ok THEN "made" ELSE "failed"] \in Conn
          BY <3>2 DEF Conn
        <5> QED
          BY <5>1, <5>2
      <4>2. CASE discard(c, ok)
        <5> DEFINE lost == ok /\ <<conns[c].bound, c>> \in abandoned
                   x == [conns[c] EXCEPT !.is = IF ok THEN "made" ELSE "failed", !.closed = lost]
        <5>1. conns' = [conns EXCEPT ![c] = x]
          BY <4>2, <3>1 DEF discard
        <5>2. lost \in BOOLEAN
          BY Zenon
        <5> HIDE DEF lost
        <5>3. x \in Conn
          BY <3>2, <5>2 DEF Conn
        <5> QED
          BY <5>1, <5>3
      <4> QED
        BY <4>1, <4>2, <1>2
    <3> QED
      BY <3>1, <3>3
  <2>2. c \in 1 .. Len(conns)
    BY DEF Typed, StateTyped
  <2>3. CASE connected(c, ok)
    <3>1. /\ UNCHANGED <<generation, closes, abandoned>> /\ connecting' = 0
          /\ \/ connection' = c /\ state' = "open"
             \/ connection' = 0 /\ state' = "closed"
          /\ state = "opening"
      BY <2>3, Zenon DEF connected, Connects, stale, history
    <3> QED
      BY <2>1, <2>2, <3>1 DEF Typed, StateTyped
  <2>4. CASE discard(c, ok)
    <3>1. /\ UNCHANGED <<generation, closes, state, connection, connecting>>
          /\ abandoned' \subseteq abandoned
      BY <2>4, Zenon DEF discard, Connects, history
    <3> QED
      BY <2>1, <2>2, <3>1 DEF Typed, StateTyped
  <2> QED
    BY <2>3, <2>4, <1>2
<1>3. CASE close
  <2>1. UNCHANGED <<conns, generation, connection>> /\ state' = "closing" /\ connecting' = 0
        /\ closes' = closes + 1 /\ closes < MaxCloses /\ state \in {"opening", "open"}
        /\ abandoned' = IF connecting = 0 THEN abandoned
                        ELSE abandoned \cup {<<generation, connecting>>}
    BY <1>3 DEF close, external
  <2> QED
    BY <2>1 DEF Typed, StateTyped
<1>4. CASE finish
  <2>1. CASE state # "closing"
    BY <1>4, <2>1 DEF finish, database, history, Typed, StateTyped
  <2>2. CASE state = "closing"
    <3>1. conns \in Seq(Conn)
      BY DEF Typed, StateTyped
    <3>2. /\ DOMAIN conns' = DOMAIN conns
          /\ \A c \in DOMAIN conns : conns'[c] \in Conn
      <4>1. conns' = [c \in DOMAIN conns |->
                         IF c = connection THEN [conns[c] EXCEPT !.closed = TRUE] ELSE conns[c]]
        BY <1>4, <2>2 DEF finish
      <4>2. ASSUME NEW c \in DOMAIN conns
            PROVE  conns[c] \in Conn /\ [conns[c] EXCEPT !.closed = TRUE] \in Conn
        <5>1. conns[c] \in Conn
          BY <3>1
        <5> QED
          BY ONLY <5>1 DEF Conn
      <4> QED
        BY <4>1, <4>2
    <3>3. conns' \in Seq(Conn) /\ Len(conns') = Len(conns)
      <4>1. DOMAIN conns' = 1 .. Len(conns) /\ Len(conns) \in Nat
        BY <3>1, <3>2
      <4>2. conns' = [c \in 1 .. Len(conns) |-> conns'[c]]
        BY <1>4, <2>2, <4>1 DEF finish
      <4> QED
        BY <3>2, <4>1, <4>2
    <3> QED
      BY <3>3, <1>4, <2>2 DEF finish, history, Typed, StateTyped
  <2> QED
    BY <2>1, <2>2
<1>5. CASE UNCHANGED dbState
  BY <1>5 DEF dbState, Typed, StateTyped
<1>6. \/ \E s \in Slots : open(s)
      \/ \E c \in DOMAIN conns, ok \in BOOLEAN : connected(c, ok) \/ discard(c, ok)
      \/ close \/ finish
      \/ UNCHANGED dbState
  <2>1. ASSUME NEW f \in flight, NEW ok \in BOOLEAN, stage_patch(f, ok) \/ settled(f, ok)
        PROVE  UNCHANGED dbState
    BY <2>1 DEF stage_patch, settled, history, dbState
  <2>2. ASSUME NEW w \in Works, admit(w)
        PROVE  UNCHANGED dbState
    BY <2>2 DEF admit, external, dbState
  <2>3. flush \/ release_waiters \/ pump \/ settle \/ GameReturns \/ AnswersLater \/ clear
            => UNCHANGED dbState
    BY DEF flush, release_waiters, pump, settle, GameReturns, AnswersLater, clear,
           database, external, history, dbState
  <2> QED
    BY <2>1, <2>2, <2>3, Zenon DEF Next, Inside, Backend, GameCalls
<1> QED
  BY <1>1, <1>2, <1>3, <1>4, <1>5, <1>6, Zenon

\* What the connection answers, and the answer a call in progress is for.
LEMMA Replied ==
    ASSUME NEW s \in Nat, NEW t \in Seq(Frame)
    PROVE  /\ Answers(s) \o t \in Seq(Frame)
           /\ Answers(s) \o t = IF Prompt THEN <<Reply(s)>> \o t ELSE t
<1>1. Reply(s) \in Frame
  BY Frames, Zenon
<1>2. CASE Prompt
  BY <1>1, <1>2, Pushed, Zenon DEF Answers
<1>3. CASE ~Prompt
  BY <1>3, PushedNone, Zenon DEF Answers
<1> QED
  BY <1>2, <1>3

LEMMA AnswersAssociate ==
    ASSUME NEW s \in Nat, NEW a \in Frame, NEW t \in Seq(Frame)
    PROVE  Answers(s) \o <<a>> \o t = Answers(s) \o (<<a>> \o t)
<1>1. Reply(s) \in Frame
  BY Frames, Zenon
<1>2. Answers(s) \in Seq(Frame) /\ <<a>> \in Seq(Frame)
  BY <1>1 DEF Answers
<1> QED
  BY <1>2, Associates

LEMMA Issued ==
    ASSUME Assumptions, Typed, TopIs("pump"), Issuable(top.row) # {}
    PROVE  /\ Min(Issuable(top.row)) \in Issuable(top.row)
           /\ \A i \in Issuable(top.row) : Min(Issuable(top.row)) <= i
           /\ top.row \in Nat /\ top.row >= 1
           /\ Min(Issuable(top.row)) \in DOMAIN queue
           /\ Min(Issuable(top.row)) >= top.row
           /\ ~queue[Min(Issuable(top.row))].issued
           /\ Free(queue[Min(Issuable(top.row))])
           /\ queue[Min(Issuable(top.row))].sequence \in DOMAIN ops
           /\ queue[Min(Issuable(top.row))].sequence \in 1 .. MaxOps
<1>1. top.row \in Nat /\ top.row >= 1
  BY Top, Frames DEF Typed, TopIs
<1>2. Len(queue) \in Nat /\ DOMAIN queue = 1 .. Len(queue)
  BY DEF Typed, QueueTyped
<1>3. Issuable(top.row) \subseteq Nat
  BY <1>1, <1>2 DEF Issuable
<1>4. \E i \in Issuable(top.row) : \A j \in Issuable(top.row) : i <= j
  BY <1>3, Least, Zenon
<1>5. /\ Min(Issuable(top.row)) \in Issuable(top.row)
      /\ \A i \in Issuable(top.row) : Min(Issuable(top.row)) <= i
  BY <1>4, Zenon DEF Min
<1>6. /\ Min(Issuable(top.row)) \in top.row .. Len(queue)
      /\ ~queue[Min(Issuable(top.row))].issued
      /\ Free(queue[Min(Issuable(top.row))])
  BY <1>5, Zenon DEF Issuable
<1>7. Min(Issuable(top.row)) \in DOMAIN queue /\ Min(Issuable(top.row)) >= top.row
  BY <1>1, <1>2, <1>6
<1>8. queue[Min(Issuable(top.row))].sequence \in DOMAIN ops
  BY <1>7, Zenon DEF Typed, RowsMatch
<1>9. \A s \in DOMAIN ops : s \in 1 .. MaxOps
  BY Bounds DEF Typed, QueueTyped
<1> QED
  BY <1>1, <1>5, <1>6, <1>7, <1>8, <1>9, Zenon

LEMMA StackStep ==
    ASSUME Assumptions, Typed, Next
    PROVE  StackTyped'
<1> USE Bounds
<1>1. StackTyped
  BY DEF Typed
<1>2. ASSUME NEW a \in Frame, NEW t \in Seq(Frame)
      PROVE  <<a>> \o t \in Seq(Frame)
  BY Pushed
<1>3. ASSUME NEW a \in Frame, NEW b \in Frame, NEW t \in Seq(Frame)
      PROVE  <<a, b>> \o t \in Seq(Frame)
  BY <1>2, PushedTwo
<1>4. ASSUME NEW a \in Frame, NEW b \in Frame, NEW c \in Frame, NEW t \in Seq(Frame)
      PROVE  <<a, b, c>> \o t \in Seq(Frame)
  <2>1. OneByOne(a, b, c, t)
    BY StackedThree
  <2> QED
    BY <2>1, <1>2 DEF OneByOne
<1>5. stack # <<>> => Under \in Seq(Frame) /\ top \in Frame
  BY <1>1, Top
<1>6. rest \in Seq(Frame)
  BY <1>1, Rest
<1>7. /\ Pump(1) \in Frame /\ Finish \in Frame /\ Settle \in Frame
      /\ Game(AnswerCalls) \in Frame /\ Game(FlushCalls) \in Frame
  BY Frames
\* Whatever is not a session that ends leaves "ended" alone.
<1>8. ASSUME stack' \in Seq(Frame), UNCHANGED ended, ~ended
      PROVE  StackTyped'
  BY <1>1, <1>8 DEF StackTyped
<1>9. ASSUME stack' \in Seq(Frame), UNCHANGED ended, stack # <<>>
      PROVE  StackTyped'
  BY <1>1, <1>9 DEF StackTyped
<1>10. ASSUME NEW s \in Slots, open(s)
       PROVE  StackTyped'
  <2>1. Len(conns) + 1 \in Nat
    BY DEF Typed, StateTyped
  <2>2. Made(Len(conns) + 1) \in Frame
    BY <2>1, Frames, Zenon
  <2>3. <<Made(Len(conns) + 1)>> \o stack \in Seq(Frame)
    BY <2>2, <1>1, <1>2 DEF StackTyped
  <2>4. stack' = <<Made(Len(conns) + 1)>> \o stack \/ stack' = stack
    BY <1>10, Zenon DEF open
  <2>5. ~ended /\ UNCHANGED ended
    BY <1>10, Zenon DEF open, May
  <2> QED
    BY <2>3, <2>4, <2>5, <1>1, <1>8 DEF StackTyped
<1>11. ASSUME NEW w \in Works, admit(w)
       PROVE  StackTyped'
  <2>1. stack' = <<Pump(1)>> \o stack /\ ~ended /\ UNCHANGED ended
    BY <1>11, Zenon DEF admit, May
  <2> QED
    BY <2>1, <1>1, <1>2, <1>7, <1>8 DEF StackTyped
<1>12. CASE close
  <2> DEFINE overtaken == IF state = "opening" THEN <<Game(AnswerCalls)>> ELSE <<>>
  <2>1. overtaken \o stack \in Seq(Frame)
    <3>1. CASE state = "opening"
      BY <3>1, <1>1, <1>2, Frames DEF StackTyped
    <3>2. CASE state # "opening"
      BY <3>2, <1>1, PushedNone DEF StackTyped
    <3> QED
      BY <3>1, <3>2
  <2>2. Release(flush_waiters) \in Frame /\ Finish \in Frame
    BY Frames, Zenon DEF Typed, FlushTyped
  <2>3. overtaken \in Seq(Frame)
    BY Frames
  <2>4. \/ stack' = overtaken \o stack
        \/ stack' = <<Release(flush_waiters), Finish>> \o overtaken \o stack
    BY <1>12, Zenon DEF close
  <2> HIDE DEF overtaken
  <2>5. <<Release(flush_waiters), Finish>> \o overtaken \o stack
            = <<Release(flush_waiters), Finish>> \o (overtaken \o stack)
    <3>1. <<Release(flush_waiters), Finish>> \in Seq(Frame) /\ stack \in Seq(Frame)
      BY <2>2, <1>1 DEF StackTyped
    <3>2. Regrouped(<<Release(flush_waiters), Finish>>, overtaken, stack)
      BY <2>3, <3>1, Regroups, Zenon
    <3> QED
      BY <3>2, Zenon DEF Regrouped
  <2>6. ~ended /\ UNCHANGED ended
    BY <1>12, Zenon DEF close, May
  <2> QED
    BY <2>1, <2>2, <2>4, <2>5, <2>6, <1>3, <1>8
<1>13. CASE flush \/ UNCHANGED <<stack, ended>>
  BY <1>13, <1>1 DEF flush, StackTyped
<1>14. CASE release_waiters
  <2>1. stack # <<>> /\ top.at = "release" /\ UNCHANGED ended
    BY <1>14, Zenon DEF release_waiters, TopIs
  <2>2. top.left \in Seq(Nat)
    BY <2>1, <1>5, Frames, Zenon
  <2>3. CASE top.left = <<>>
    BY <2>1, <2>3, <1>5, <1>9, <1>14, Zenon DEF release_waiters
  <2>4. CASE top.left # <<>>
    <3>1. Tail(top.left) \in Seq(Nat)
      BY <2>2, <2>4, Popped
    <3>2. Release(Tail(top.left)) \in Frame
      BY <3>1, Frames, Zenon
    <3>3. stack' = <<Game(FlushCalls), Release(Tail(top.left))>> \o Under
      BY <2>4, <1>14, Zenon DEF release_waiters
    <3>4. stack' \in Seq(Frame)
      BY <2>1, <3>2, <3>3, <1>3, <1>5, <1>7
    <3> QED
      BY <2>1, <3>4, <1>9
  <2> QED
    BY <2>3, <2>4
<1>15. CASE finish
  <2>1. stack # <<>> /\ UNCHANGED ended
    BY <1>15, Zenon DEF finish, TopIs
  <2>2. stack' = Under \/ stack' = <<Game(AnswerCalls)>> \o Under
    BY <1>15, Zenon DEF finish
  <2>3. stack' \in Seq(Frame)
    BY <2>1, <2>2, <1>2, <1>5, <1>7
  <2> QED
    BY <2>1, <2>3, <1>9
<1>16. CASE pump
  <2>1. stack # <<>> /\ UNCHANGED ended
    BY <1>16, Zenon DEF pump, TopIs
  <2>2. CASE connection = 0 \/ Issuable(top.row) = {}
    BY <2>1, <2>2, <1>5, <1>9, <1>16, Zenon DEF pump
  <2>3. CASE ~(connection = 0 \/ Issuable(top.row) = {})
    <3> DEFINE i == Min(Issuable(top.row))
    <3>1. i \in Nat /\ queue[i].sequence \in Nat
      <4>1. i \in DOMAIN queue /\ queue[i].sequence \in 1 .. MaxOps
        BY <2>3, <1>16, Issued, Zenon DEF pump
      <4> QED
        BY <4>1 DEF Typed, QueueTyped
    <3>2. Pump(i + 1) \in Frame
      BY <3>1, Frames
    <3>3. stack' = Answers(queue[i].sequence) \o <<Pump(i + 1)>> \o Under
      BY <2>3, <1>16, Zenon DEF pump
    <3> HIDE DEF i
    <3>4. Answers(queue[i].sequence) \o (<<Pump(i + 1)>> \o Under) \in Seq(Frame)
      BY <3>1, <3>2, <2>1, <1>2, <1>5, Replied
    <3>5. stack' = Answers(queue[i].sequence) \o (<<Pump(i + 1)>> \o Under)
      BY <3>1, <3>2, <3>3, <2>1, <1>5, AnswersAssociate
    <3> QED
      BY <3>4, <3>5, <2>1, <1>9
  <2> QED
    BY <2>2, <2>3
<1>17. CASE settle
  <2>1. stack # <<>> /\ UNCHANGED ended
    BY <1>17, Zenon DEF settle, TopIs
  <2>2. Release(flush_waiters) \in Frame /\ Finish \in Frame
    BY Frames, Zenon DEF Typed, FlushTyped
  <2>3. \/ stack' = <<Pump(1)>> \o Under
        \/ stack' = <<Release(flush_waiters), Finish, Pump(1)>> \o Under
    BY <1>17, Zenon DEF settle
  <2>4. /\ <<Pump(1)>> \o Under \in Seq(Frame)
        /\ <<Release(flush_waiters), Finish, Pump(1)>> \o Under \in Seq(Frame)
    BY <2>1, <2>2, <1>2, <1>4, <1>5, <1>7, Zenon
  <2> QED
    BY <2>1, <2>3, <2>4, <1>9, Zenon
<1>18. CASE GameReturns \/ AnswersLater
  <2>1. stack # <<>> /\ UNCHANGED ended /\ stack' = Under
    BY <1>18, Zenon DEF GameReturns, AnswersLater, TopIs
  <2> QED
    BY <2>1, <1>5, <1>9
<1>19. ASSUME NEW f \in flight, NEW ok \in BOOLEAN, stage_patch(f, ok) \/ settled(f, ok)
       PROVE  StackTyped'
  <2>1. ~ended /\ UNCHANGED ended
    BY <1>19, Zenon DEF stage_patch, settled, Answered
  <2>2. f.sequence \in Nat
    BY DEF Typed, FlightTyped, Outstanding, Sequences
  <2>3. \/ stack' = Answers(f.sequence) \o rest
        \/ stack' = <<Game(AnswerCalls), Settle>> \o rest
    BY <1>19, Zenon DEF stage_patch, settled
  <2>4. Answers(f.sequence) \o rest \in Seq(Frame)
    BY <2>2, <1>6, Replied
  <2>5. <<Game(AnswerCalls), Settle>> \o rest \in Seq(Frame)
    BY <1>3, <1>6, <1>7
  <2> QED
    BY <2>1, <2>3, <2>4, <2>5, <1>8
<1>20. ASSUME NEW c \in DOMAIN conns, NEW ok \in BOOLEAN, connected(c, ok) \/ discard(c, ok)
       PROVE  StackTyped'
  <2>1. ~ended /\ UNCHANGED ended
    BY <1>20, Zenon DEF connected, discard, Connects
  <2>2. \/ stack' = rest
        \/ stack' = <<Game(AnswerCalls)>> \o <<>> \o rest
        \/ stack' = <<Game(AnswerCalls)>> \o <<Pump(1)>> \o rest
    BY <1>20, Zenon DEF connected, discard
  <2>3. /\ <<Game(AnswerCalls)>> \o <<>> \o rest = <<Game(AnswerCalls)>> \o rest
        /\ <<Game(AnswerCalls)>> \o <<Pump(1)>> \o rest = <<Game(AnswerCalls), Pump(1)>> \o rest
    OBVIOUS
  <2>4. /\ <<Game(AnswerCalls)>> \o rest \in Seq(Frame)
        /\ <<Game(AnswerCalls), Pump(1)>> \o rest \in Seq(Frame)
    BY <1>2, <1>3, <1>6, <1>7
  <2> QED
    BY <2>1, <2>2, <2>3, <2>4, <1>6, <1>8
<1>21. CASE clear
  BY <1>21, <1>1 DEF clear, StackTyped
<1> QED
  BY <1>10, <1>11, <1>12, <1>13, <1>14, <1>15, <1>16, <1>17, <1>18, <1>19, <1>20, <1>21,
     Zenon DEF Next, Inside, Backend, GameCalls

\* The rows of the queue.
LEMMA Rows ==
    ASSUME Assumptions, QueueTyped, RowsMatch
    PROVE  /\ Len(queue) \in Nat /\ DOMAIN queue = 1 .. Len(queue)
           /\ Len(ops) \in Nat /\ DOMAIN ops = 1 .. Len(ops)
           /\ DOMAIN ops \subseteq Sequences /\ Sequences \subseteq Nat
           /\ \A i \in DOMAIN queue :
                /\ queue[i] \in Pending
                /\ queue[i].sequence \in DOMAIN ops /\ queue[i].sequence \in Queued
                /\ queue[i].locks \in SUBSET Records
                /\ queue[i].issued \in BOOLEAN /\ queue[i].staged \in BOOLEAN
           /\ \A s \in Queued :
                s \in DOMAIN ops /\ \E i \in DOMAIN queue : queue[i].sequence = s
           /\ Queued \in SUBSET Nat
<1>1. /\ Len(queue) \in Nat /\ DOMAIN queue = 1 .. Len(queue)
      /\ Len(ops) \in Nat /\ DOMAIN ops = 1 .. Len(ops)
      /\ DOMAIN ops \subseteq Sequences /\ Sequences \subseteq Nat
  BY Bounds DEF QueueTyped, Sequences
<1>2. \A i \in DOMAIN queue : queue[i] \in Pending
  BY DEF QueueTyped
<1>3. \A p \in Pending : p.locks \in SUBSET Records /\ p.issued \in BOOLEAN /\ p.staged \in BOOLEAN
  BY DEF Pending
<1>4. \A i \in DOMAIN queue : queue[i].sequence \in DOMAIN ops /\ queue[i].sequence \in Queued
  BY Zenon DEF RowsMatch, Queued
<1>5. \A s \in Queued :
         s \in DOMAIN ops /\ \E i \in DOMAIN queue : queue[i].sequence = s
  BY Zenon DEF RowsMatch, Queued
<1>6. Queued \in SUBSET Nat
  BY <1>1, <1>5
<1> QED
  BY <1>1, <1>2, <1>3, <1>4, <1>5, <1>6, Zenon

\* An operation has one row.
LEMMA OneRow ==
    ASSUME Assumptions, QueueTyped, RowsMatch, Sorted, NEW s \in Queued
    PROVE  /\ RowOf(s) \in DOMAIN queue /\ queue[RowOf(s)].sequence = s
           /\ \A i \in DOMAIN queue : queue[i].sequence = s => i = RowOf(s)
<1>1. RowOf(s) \in DOMAIN queue /\ queue[RowOf(s)].sequence = s
  BY Rows, Zenon DEF RowOf
<1>2. ASSUME NEW i \in DOMAIN queue, queue[i].sequence = s
      PROVE  i = RowOf(s)
  <2>1. i \in Nat /\ RowOf(s) \in Nat /\ s \in Nat
    BY <1>1, Rows
  <2>2. ~(i < RowOf(s)) /\ ~(RowOf(s) < i)
    <3>1. ~(s < s)
      BY <2>1
    <3> QED
      BY <3>1, <1>1, <1>2, Zenon DEF Sorted
  <2> QED
    BY <2>1, <2>2
<1> QED
  BY <1>1, <1>2

\* A row is marked and stays what it was otherwise.
LEMMA Marked ==
    ASSUME Assumptions, QueueTyped, RowsMatch, NEW k \in DOMAIN queue,
           \/ queue' = [queue EXCEPT ![k].issued = TRUE]
           \/ queue' = [queue EXCEPT ![k].staged = TRUE]
    PROVE  /\ queue' \in Seq(Pending) /\ DOMAIN queue' = DOMAIN queue
           /\ Queued' = Queued
           /\ \A i \in DOMAIN queue :
                /\ queue'[i].sequence = queue[i].sequence
                /\ queue'[i].op = queue[i].op
                /\ queue'[i].locks = queue[i].locks
                /\ queue'[i].generation = queue[i].generation
                /\ i # k => queue'[i] = queue[i]
           /\ queue' = [queue EXCEPT ![k].issued = TRUE] =>
                queue'[k].issued /\ queue'[k].staged = queue[k].staged
           /\ queue' = [queue EXCEPT ![k].staged = TRUE] =>
                queue'[k].staged /\ queue'[k].issued = queue[k].issued
<1>1. queue \in Seq(Pending) /\ queue[k] \in Pending
  BY Rows DEF QueueTyped
<1>2. \/ queue'[k] = [queue[k] EXCEPT !.issued = TRUE]
      \/ queue'[k] = [queue[k] EXCEPT !.staged = TRUE]
  BY <1>1
<1>3. /\ queue'[k] \in Pending /\ queue'[k].sequence = queue[k].sequence
      /\ queue'[k].op = queue[k].op /\ queue'[k].locks = queue[k].locks
      /\ queue'[k].generation = queue[k].generation
  BY ONLY <1>1, <1>2 DEF Pending
<1>4. DOMAIN queue' = DOMAIN queue /\ \A i \in DOMAIN queue : i # k => queue'[i] = queue[i]
  BY <1>1
<1>5. queue' \in Seq(Pending)
  <2>1. \E x \in Pending : queue' = [queue EXCEPT ![k] = x]
    <3>1. /\ [queue[k] EXCEPT !.issued = TRUE] \in Pending
          /\ [queue[k] EXCEPT !.staged = TRUE] \in Pending
      BY ONLY <1>1 DEF Pending
    <3> QED
      BY <3>1, Zenon
  <2> QED
    BY <2>1, <1>1
<1>6. \A i \in DOMAIN queue :
         /\ queue'[i].sequence = queue[i].sequence
         /\ queue'[i].op = queue[i].op
         /\ queue'[i].locks = queue[i].locks
         /\ queue'[i].generation = queue[i].generation
  BY <1>3, <1>4, Zenon
<1>7. Queued' = Queued
  BY <1>4, <1>6 DEF Queued
<1>8. /\ queue' = [queue EXCEPT ![k].issued = TRUE] =>
            queue'[k].issued /\ queue'[k].staged = queue[k].staged
      /\ queue' = [queue EXCEPT ![k].staged = TRUE] =>
            queue'[k].staged /\ queue'[k].issued = queue[k].issued
  BY <1>1 DEF Pending
<1> QED
  BY <1>4, <1>5, <1>6, <1>7, <1>8

\* A row is taken out; the others stay, in their order.
Was(i, k) == IF i < k THEN i ELSE i + 1
LEMMA TakenOut ==
    ASSUME Assumptions, QueueTyped, RowsMatch, Sorted, NEW s \in Queued,
           queue' = RemoveAt(queue, RowOf(s))
    PROVE  /\ queue' \in Seq(Pending) /\ Len(queue') = Len(queue) - 1
           /\ DOMAIN queue' = 1 .. Len(queue) - 1
           /\ Queued' = Queued \ {s}
           /\ \A i \in DOMAIN queue' :
                /\ Was(i, RowOf(s)) \in DOMAIN queue
                /\ Was(i, RowOf(s)) # RowOf(s)
                /\ queue'[i] = queue[Was(i, RowOf(s))]
           /\ \A i, j \in DOMAIN queue' : i < j => Was(i, RowOf(s)) < Was(j, RowOf(s))
<1> DEFINE k == RowOf(s)
<1>1. k \in DOMAIN queue /\ queue[k].sequence = s
  BY OneRow
<1>2. \A i \in DOMAIN queue : queue[i].sequence = s => i = k
  BY OneRow
<1>3. Len(queue) \in Nat /\ DOMAIN queue = 1 .. Len(queue)
  BY Rows
<1> HIDE DEF k
<1>4. queue' = RemoveAt(queue, k) /\ queue \in Seq(Pending)
  BY DEF k, QueueTyped
<1>5. /\ queue' \in Seq(Pending)
      /\ k \in 1 .. Len(queue)
      /\ Len(queue') = Len(queue) - 1
      /\ \A i \in 1 .. Len(queue) - 1 : queue'[i] = IF i < k THEN queue[i] ELSE queue[i + 1]
  BY <1>1, <1>4, Removed
<1>6. DOMAIN queue' = 1 .. Len(queue) - 1
  BY <1>3, <1>5
<1>7. ASSUME NEW i \in DOMAIN queue'
      PROVE  Was(i, k) \in DOMAIN queue /\ Was(i, k) # k /\ queue'[i] = queue[Was(i, k)]
  BY <1>3, <1>5, <1>6, <1>7 DEF Was
<1>8. \A i, j \in DOMAIN queue' : i < j => Was(i, k) < Was(j, k)
  BY <1>3, <1>5, <1>6 DEF Was
<1>9. ASSUME NEW i \in DOMAIN queue, i # k
      PROVE  \E j \in DOMAIN queue' : queue'[j] = queue[i]
  <2>1. CASE i < k
    <3>1. i \in DOMAIN queue' /\ Was(i, k) = i
      BY <2>1, <1>3, <1>5, <1>6, <1>9 DEF Was
    <3> QED
      BY <3>1, <1>7
  <2>2. CASE ~(i < k)
    <3>1. i - 1 \in DOMAIN queue' /\ Was(i - 1, k) = i
      BY <2>2, <1>3, <1>5, <1>6, <1>9 DEF Was
    <3> QED
      BY <3>1, <1>7
  <2> QED
    BY <2>1, <2>2
<1>10. Queued' = Queued \ {s}
  <2>1. Queued' \subseteq Queued \ {s}
    <3>1. ASSUME NEW q \in Queued'
          PROVE  q \in Queued \ {s}
      <4>1. PICK j \in DOMAIN queue' : queue'[j].sequence = q
        BY DEF Queued
      <4>2. Was(j, k) \in DOMAIN queue /\ Was(j, k) # k /\ queue[Was(j, k)].sequence = q
        BY <4>1, <1>7
      <4> QED
        BY <4>2, <1>2 DEF Queued
    <3> QED
      BY <3>1
  <2>2. Queued \ {s} \subseteq Queued'
    <3>1. ASSUME NEW q \in Queued, q # s
          PROVE  q \in Queued'
      <4>1. PICK i \in DOMAIN queue : queue[i].sequence = q
        BY DEF Queued
      <4>2. i # k
        BY <4>1, <3>1, <1>1
      <4>3. PICK j \in DOMAIN queue' : queue'[j] = queue[i]
        BY <4>2, <1>9
      <4> QED
        BY <4>1, <4>3 DEF Queued
    <3> QED
      BY <3>1
  <2> QED
    BY <2>1, <2>2
<1> QED
  BY <1>5, <1>6, <1>7, <1>8, <1>10, Zenon DEF k

LEMMA FlushStep ==
    ASSUME Assumptions, Typed, Next
    PROVE  FlushTyped'
<1> USE Bounds
<1>1. CASE flush
  <2>1. Queued \in SUBSET Nat
    BY Rows, Zenon DEF Typed
  <2>2. /\ flushes' = Append(flushes, Queued) /\ Len(flushes) < MaxFlushes
        /\ flush_waiters' = Append(flush_waiters, Len(flushes'))
    BY <1>1, Zenon DEF flush
  <2>3. /\ flushes' \in Seq(SUBSET Nat) /\ Len(flushes') = Len(flushes) + 1
        /\ Len(flushes) \in Nat /\ flush_waiters \in Seq(Nat)
    BY <2>1, <2>2, Appended DEF Typed, FlushTyped
  <2>4. flush_waiters' \in Seq(Nat)
    BY <2>2, <2>3, Appended
  <2> QED
    BY <2>2, <2>3, <2>4 DEF FlushTyped
<1>2. ASSUME UNCHANGED flushes, flush_waiters' = flush_waiters \/ flush_waiters' = <<>>
      PROVE  FlushTyped'
  <2>1. flush_waiters' \in Seq(Nat)
    <3>1. <<>> \in Seq(Nat) /\ flush_waiters \in Seq(Nat)
      BY DEF Typed, FlushTyped
    <3> QED
      BY <3>1, <1>2
  <2> QED
    BY <1>2, <2>1 DEF Typed, FlushTyped
<1>3. \/ flush
      \/ UNCHANGED flushes /\ (flush_waiters' = flush_waiters \/ flush_waiters' = <<>>)
  <2>1. ASSUME NEW f \in flight, NEW ok \in BOOLEAN, stage_patch(f, ok) \/ settled(f, ok)
        PROVE  UNCHANGED <<flushes, flush_waiters>>
    BY <2>1, Zenon DEF stage_patch, settled, history
  <2>2. ASSUME NEW w \in Works, admit(w)
        PROVE  UNCHANGED <<flushes, flush_waiters>>
    BY <2>2, Zenon DEF admit
  <2>3. ASSUME NEW c \in DOMAIN conns, NEW ok \in BOOLEAN, connected(c, ok) \/ discard(c, ok)
        PROVE  UNCHANGED <<flushes, flush_waiters>>
    BY <2>3, Zenon DEF connected, discard, Connects, history
  <2>4. ASSUME NEW s \in Slots, open(s)
        PROVE  UNCHANGED <<flushes, flush_waiters>>
    BY <2>4, Zenon DEF open, history
  <2>5. ASSUME release_waiters \/ finish \/ pump \/ settle \/ GameReturns \/ AnswersLater
               \/ clear \/ close
        PROVE  UNCHANGED flushes /\ (flush_waiters' = flush_waiters \/ flush_waiters' = <<>>)
    BY <2>5, Zenon DEF release_waiters, finish, pump, settle, GameReturns, AnswersLater, clear,
       close, database, history
  <2> QED
    BY <2>1, <2>2, <2>3, <2>4, <2>5, Zenon DEF Next, Inside, Backend, GameCalls
<1> QED
  BY <1>1, <1>2, <1>3

Shaped == QueueTyped /\ Sorted /\ RowsMatch /\ RowsServed /\ FlightTyped

\* An operation is admitted: its row is the last and nothing of it is outstanding.
LEMMA AdmitShaped ==
    ASSUME Assumptions, Typed, NEW w \in Works, admit(w)
    PROVE  Shaped'
<1> DEFINE s == Len(ops) + 1
           row == [sequence |-> s, op |-> w.op, locks |-> w.locks, generation |-> generation,
                   issued |-> FALSE, staged |-> FALSE]
           rec == [op |-> w.op, locks |-> w.locks, conn |-> connection]
<1> USE Bounds
<1>1. /\ Len(ops) < MaxOps /\ state = "open"
      /\ ops' = Append(ops, rec) /\ queue' = Append(queue, row)
      /\ UNCHANGED <<held, conns, flight, ended, generation, connection>> /\ ~ended
  BY Zenon DEF admit, external, May
<1>2. /\ QueueTyped /\ Sorted /\ RowsMatch /\ RowsServed /\ FlightTyped /\ StateTyped
  BY DEF Typed
<1>3. w.op \in Kinds /\ w.locks \in SUBSET Records /\ w.locks # {}
  BY DEF Assumptions, WorksAssumption, Kinds
<1>4. Len(ops) \in Nat /\ s \in Sequences /\ generation \in Nat /\ connection \in Nat
      /\ connection \in DOMAIN conns
  BY <1>1, <1>2, Rows DEF StateTyped, Sequences
<1>5. row \in Pending
  BY <1>3, <1>4 DEF Pending, Kinds
<1>6. rec \in Asked
  BY <1>3, <1>4 DEF Asked
<1>7. /\ rec.op = row.op /\ rec.locks = row.locks /\ rec.locks # {} /\ rec.conn = connection
      /\ row.sequence = s /\ row.generation = generation /\ ~row.issued
  BY <1>3
<1> HIDE DEF row, rec
<1>8. /\ ops' \in Seq(Asked) /\ Len(ops') = s /\ ops'[s] = rec
      /\ \A i \in 1 .. Len(ops) : ops'[i] = ops[i]
  BY <1>1, <1>2, <1>6, Appended DEF QueueTyped
<1>9. /\ queue' \in Seq(Pending) /\ Len(queue') = Len(queue) + 1
      /\ queue'[Len(queue) + 1] = row
      /\ \A i \in 1 .. Len(queue) : queue'[i] = queue[i]
  BY <1>1, <1>2, <1>5, Appended DEF QueueTyped
<1> HIDE DEF s
<1>10. /\ DOMAIN queue = 1 .. Len(queue) /\ Len(queue) \in Nat
       /\ DOMAIN queue' = 1 .. Len(queue) + 1
       /\ DOMAIN ops = 1 .. Len(ops) /\ DOMAIN ops' = 1 .. s
  BY <1>2, <1>8, <1>9, Rows
<1>11. s = Len(ops) + 1
  BY DEF s
<1>12. ASSUME NEW i \in DOMAIN queue'
       PROVE  \/ i \in DOMAIN queue /\ queue'[i] = queue[i] /\ queue[i].sequence \in DOMAIN ops
                 /\ queue[i].sequence \in 1 .. Len(ops)
              \/ i = Len(queue) + 1 /\ queue'[i] = row
  BY <1>2, <1>9, <1>10, Rows
<1>13. QueueTyped'
  <2>1. ASSUME NEW i \in DOMAIN ops'
        PROVE  ops'[i].locks # {} /\ ops'[i].conn \in DOMAIN conns'
    <3>1. CASE i = s
      BY <3>1, <1>1, <1>4, <1>7, <1>8
    <3>2. CASE i # s
      <4>1. i \in DOMAIN ops /\ ops'[i] = ops[i]
        BY <3>2, <1>4, <1>8, <1>10, <1>11
      <4> QED
        BY <4>1, <1>1, <1>2 DEF QueueTyped
    <3> QED
      BY <3>1, <3>2
  <2> QED
    BY <2>1, <1>1, <1>2, <1>4, <1>8, <1>9, <1>11 DEF QueueTyped
<1>14. Sorted'
  <2> SUFFICES ASSUME NEW i \in DOMAIN queue', NEW j \in DOMAIN queue', i < j
               PROVE  queue'[i].sequence < queue'[j].sequence
    BY DEF Sorted
  <2>1. i \in DOMAIN queue /\ queue'[i] = queue[i] /\ queue[i].sequence \in 1 .. Len(ops)
    BY <1>10, <1>12
  <2>2. CASE j \in DOMAIN queue /\ queue'[j] = queue[j]
    BY <2>1, <2>2, <1>2 DEF Sorted
  <2>3. CASE queue'[j] = row
    BY <2>1, <2>3, <1>4, <1>7, <1>11
  <2> QED
    BY <2>2, <2>3, <1>12
<1>15. RowsMatch'
  <2> SUFFICES ASSUME NEW i \in DOMAIN queue'
               PROVE  /\ queue'[i].sequence \in DOMAIN ops'
                      /\ queue'[i].op = ops'[queue'[i].sequence].op
                      /\ queue'[i].locks = ops'[queue'[i].sequence].locks
    BY DEF RowsMatch
  <2>1. CASE i \in DOMAIN queue /\ queue'[i] = queue[i]
    <3>1. /\ queue[i].sequence \in 1 .. Len(ops)
          /\ queue[i].op = ops[queue[i].sequence].op
          /\ queue[i].locks = ops[queue[i].sequence].locks
      BY <2>1, <1>2, <1>10 DEF RowsMatch
    <3>2. queue[i].sequence \in DOMAIN ops'
      BY <3>1, <1>4, <1>10, <1>11
    <3> QED
      BY <2>1, <3>1, <3>2, <1>8
  <2>2. CASE queue'[i] = row
    <3>1. s \in DOMAIN ops'
      BY <1>4, <1>10, <1>11
    <3> QED
      BY <2>2, <3>1, <1>7, <1>8
  <2> QED
    BY <2>1, <2>2, <1>12
<1>16. RowsServed'
  <2>1. connection # 0
    BY <1>1, <1>2 DEF StateTyped
  <2> QED
    BY <2>1, <1>1, <1>2, <1>4, <1>7, <1>12 DEF RowsServed
<1>17. FlightTyped'
  <2>1. Queued \subseteq Queued'
    <3>1. \A i \in DOMAIN queue : i \in DOMAIN queue' /\ queue'[i] = queue[i]
      BY <1>9, <1>10
    <3> QED
      BY <3>1 DEF Queued
  <2>2. \A f \in flight : f.sequence \in DOMAIN ops /\ f.sequence \in DOMAIN ops' /\ f.sequence # s
    BY <1>2, <1>4, <1>10, <1>11 DEF FlightTyped
  <2>3. ASSUME NEW i \in DOMAIN queue'
        PROVE  queue'[i].issued <=> \E f \in flight : f.sequence = queue'[i].sequence
    <3>1. CASE i \in DOMAIN queue /\ queue'[i] = queue[i]
      BY <3>1, <1>1, <1>2, Zenon DEF FlightTyped
    <3>2. CASE queue'[i] = row
      BY <3>2, <2>2, <1>7, Zenon
    <3> QED
      BY <3>1, <3>2, <1>12
  <2> QED
    BY <2>1, <2>2, <2>3, <1>1, <1>2 DEF FlightTyped
<1> QED
  BY <1>13, <1>14, <1>15, <1>16, <1>17 DEF Shaped

\* The connection is asked for an operation: its records are taken for it.
LEMMA PumpShaped ==
    ASSUME Assumptions, Typed, pump
    PROVE  Shaped'
<1> USE Bounds
<1>1. /\ UNCHANGED <<ops, conns, ended, generation, connection>> /\ ~ended
  <2>1. stack # <<>> /\ UNCHANGED <<ops, conns, ended, generation, connection>>
    BY Zenon DEF pump, TopIs, history
  <2> QED
    BY <2>1 DEF Typed, StackTyped
<1>2. QueueTyped /\ Sorted /\ RowsMatch /\ RowsServed /\ FlightTyped /\ StateTyped
  BY DEF Typed
<1>3. CASE connection = 0 \/ Issuable(top.row) = {}
  <2>1. UNCHANGED <<queue, held, flight>>
    BY <1>3, Zenon DEF pump
  <2> QED
    BY <2>1, <1>1, <1>2 DEF Shaped, QueueTyped, Sorted, RowsMatch, RowsServed, FlightTyped, Queued
<1>4. CASE ~(connection = 0 \/ Issuable(top.row) = {})
  <2> DEFINE k == Min(Issuable(top.row))
             s == queue[k].sequence
             ask == Ask(s, queue[k].op \notin {"read", "patch"}, {})
  <2>1. TopIs("pump") /\ Issuable(top.row) # {} /\ connection # 0
    BY <1>4, Zenon DEF pump
  <2>2. k \in DOMAIN queue /\ ~queue[k].issued /\ s \in DOMAIN ops /\ s \in 1 .. MaxOps
    BY <2>1, Issued, Zenon
  <2>3. /\ held' = [r \in Records |-> IF r \in queue[k].locks THEN s ELSE held[r]]
        /\ queue' = [queue EXCEPT ![k].issued = TRUE]
        /\ flight' = flight \cup {ask}
    BY <1>4, Zenon DEF pump
  <2>4. connection \in DOMAIN conns
    BY <2>1, <1>2 DEF StateTyped
  <2>5. /\ ask.sequence = s /\ ask.conn = connection
        /\ ask \in Outstanding
    <3>1. /\ s \in Sequences /\ connection \in Nat /\ {} \in Content
          /\ (queue[k].op \notin {"read", "patch"}) \in BOOLEAN
      BY <2>2, <1>2 DEF Sequences, Content, StateTyped
    <3> HIDE DEF s
    <3> QED
      BY ONLY <3>1 DEF Ask, Outstanding
  <2> HIDE DEF ask, s, k
  <2>6. /\ queue' \in Seq(Pending) /\ DOMAIN queue' = DOMAIN queue /\ Queued' = Queued
        /\ \A i \in DOMAIN queue :
            /\ queue'[i].sequence = queue[i].sequence
            /\ queue'[i].op = queue[i].op
            /\ queue'[i].locks = queue[i].locks
            /\ queue'[i].generation = queue[i].generation
            /\ i # k => queue'[i] = queue[i]
        /\ queue'[k].issued
    BY <2>2, <2>3, <1>2, Marked
  <2>7. s = queue[k].sequence
    BY DEF s
  <2>8. QueueTyped'
    <3>1. held' \in [Records -> 0 .. MaxOps]
      <4>1. \A r \in Records :
               (IF r \in queue[k].locks THEN s ELSE held[r]) \in 0 .. MaxOps
        BY <2>2, <1>2 DEF QueueTyped
      <4> QED
        BY <4>1, <2>3
    <3> QED
      BY <3>1, <2>6, <1>1, <1>2 DEF QueueTyped
  <2>9. Sorted' /\ RowsMatch' /\ RowsServed'
    BY <2>6, <1>1, <1>2 DEF Sorted, RowsMatch, RowsServed
  <2>10. \A f \in flight : f.sequence # s
    BY <2>2, <2>7, <1>1, <1>2, Zenon DEF FlightTyped
  <2>11. s \in Queued
    BY <2>2, <2>7 DEF Queued
  <2>12. ASSUME NEW i \in DOMAIN queue'
         PROVE  queue'[i].issued <=> \E f \in flight' : f.sequence = queue'[i].sequence
    <3>1. i \in DOMAIN queue
      BY <2>6
    <3>2. CASE i = k
      BY <3>1, <3>2, <2>3, <2>5, <2>6, <2>7
    <3>3. CASE i # k
      <4>1. queue[i].sequence # s
        <5>1. RowOf(s) = i \/ queue[i].sequence # s
          BY <3>1, <2>11, <1>2, OneRow
        <5>2. RowOf(s) = k
          BY <2>2, <2>7, <2>11, <1>2, OneRow
        <5> QED
          BY <5>1, <5>2, <3>3
      <4>2. queue'[i] = queue[i]
        BY <3>1, <3>3, <2>6
      <4>3. queue[i].issued <=> \E f \in flight : f.sequence = queue[i].sequence
        BY <3>1, <1>1, <1>2, Zenon DEF FlightTyped
      <4>4. (\E f \in flight' : f.sequence = queue[i].sequence)
                <=> \E f \in flight : f.sequence = queue[i].sequence
        BY <4>1, <2>3, <2>5
      <4> QED
        BY <4>2, <4>3, <4>4, Zenon
    <3> QED
      BY <3>2, <3>3
  <2>13. FlightTyped'
    <3>1. flight' \subseteq Outstanding
      BY <2>3, <2>5, <1>2 DEF FlightTyped
    <3>2. \A f \in flight' : f.sequence \in DOMAIN ops' /\ f.conn \in DOMAIN conns'
      BY <2>2, <2>3, <2>4, <2>5, <1>1, <1>2 DEF FlightTyped
    <3>3. \A f, g \in flight' : f.sequence = g.sequence => f = g
      BY <2>3, <2>5, <2>10, <1>2 DEF FlightTyped
    <3>4. \A f \in flight' : f.sequence \in Queued'
      BY <2>3, <2>5, <2>6, <2>11, <1>1, <1>2 DEF FlightTyped
    <3> QED
      BY <3>1, <3>2, <3>3, <3>4, <2>12, Zenon DEF FlightTyped
  <2> QED
    BY <2>8, <2>9, <2>13 DEF Shaped
<1> QED
  BY <1>3, <1>4

\* What an outstanding operation names.
LEMMA Answerable ==
    ASSUME Assumptions, Typed, NEW f \in flight
    PROVE  /\ f \in Outstanding /\ f.sequence \in DOMAIN ops /\ f.sequence \in Sequences
           /\ f.base \in Content /\ f.write \in BOOLEAN
           /\ f.conn \in DOMAIN conns /\ conns[f.conn].slot \in Slots
           /\ ops[f.sequence].locks \in SUBSET Records
           /\ ops[f.sequence].conn \in DOMAIN conns
           /\ ops[f.sequence].op \in Kinds
           /\ (CHOOSE r \in ops[f.sequence].locks : TRUE) \in ops[f.sequence].locks
           /\ read(f) \in Content
<1>1. f \in Outstanding /\ f.sequence \in DOMAIN ops /\ f.conn \in DOMAIN conns
  BY DEF Typed, FlightTyped
<1>2. f.base \in Content /\ f.write \in BOOLEAN /\ f.sequence \in Sequences
  BY ONLY <1>1 DEF Outstanding
<1>3. conns[f.conn] \in Conn
  BY <1>1 DEF Typed, StateTyped
<1>4. conns[f.conn].slot \in Slots
  BY ONLY <1>3 DEF Conn
<1>5. /\ ops[f.sequence] \in Asked /\ ops[f.sequence].locks # {}
      /\ ops[f.sequence].conn \in DOMAIN conns
  BY <1>1 DEF Typed, QueueTyped
<1>6. ops[f.sequence].locks \in SUBSET Records /\ ops[f.sequence].op \in Kinds
  BY ONLY <1>5 DEF Asked
<1>7. (CHOOSE r \in ops[f.sequence].locks : TRUE) \in ops[f.sequence].locks
  BY ONLY <1>5, Zenon
<1>8. read(f) \in Content
  BY <1>4, <1>6, <1>7 DEF read, Typed, StoreTyped
<1> QED
  BY <1>1, <1>2, <1>4, <1>5, <1>6, <1>7, <1>8, Zenon

\* A patch has read its record: what it asks for next stands for it.
LEMMA StageShaped ==
    ASSUME Assumptions, Typed, NEW f \in flight, NEW ok \in BOOLEAN, stage_patch(f, ok)
    PROVE  Shaped'
<1> USE Bounds
<1> DEFINE s == f.sequence
           k == RowOf(s)
           ask == Ask(s, TRUE, read(f))
<1>1. QueueTyped /\ Sorted /\ RowsMatch /\ RowsServed /\ FlightTyped /\ StateTyped
  BY DEF Typed
<1>2. /\ UNCHANGED <<ops, conns, ended, held, generation, connection>> /\ ~ended
      /\ queue' = [queue EXCEPT ![k].staged = TRUE]
      /\ flight' = (flight \ {f}) \cup {ask}
      /\ queue[k].generation = generation
  BY Zenon DEF stage_patch, Answered, Staging, history
<1>3. s \in Queued
  BY <1>1, <1>2 DEF FlightTyped
<1>4. k \in DOMAIN queue /\ queue[k].sequence = s
  BY <1>1, <1>3, OneRow
<1>5. connection \in DOMAIN conns
  BY <1>1, <1>2, <1>4 DEF RowsServed, StateTyped
<1>6. /\ ask.sequence = s /\ ask.conn = connection /\ ask \in Outstanding
  <2>1. s \in Sequences /\ connection \in Nat /\ read(f) \in Content
    <3>1. s \in Sequences /\ read(f) \in Content
      BY Answerable
    <3> QED
      BY <3>1, <1>1 DEF StateTyped
  <2> HIDE DEF s
  <2> QED
    BY ONLY <2>1 DEF Ask, Outstanding
<1> HIDE DEF ask, k
<1>7. /\ queue' \in Seq(Pending) /\ DOMAIN queue' = DOMAIN queue /\ Queued' = Queued
      /\ \A i \in DOMAIN queue :
            /\ queue'[i].sequence = queue[i].sequence
            /\ queue'[i].op = queue[i].op
            /\ queue'[i].locks = queue[i].locks
            /\ queue'[i].generation = queue[i].generation
            /\ i # k => queue'[i] = queue[i]
      /\ queue'[k].issued = queue[k].issued
  BY <1>1, <1>2, <1>4, Marked
<1>8. QueueTyped'
  BY <1>1, <1>2, <1>7 DEF QueueTyped
<1>9. Sorted' /\ RowsMatch' /\ RowsServed'
  BY <1>1, <1>2, <1>7 DEF Sorted, RowsMatch, RowsServed
<1>10. ASSUME NEW q
       PROVE  (\E g \in flight' : g.sequence = q) <=> \E g \in flight : g.sequence = q
  BY <1>2, <1>6
<1>11. \A i \in DOMAIN queue' : queue'[i].issued = queue[i].issued
  BY <1>7, Zenon
<1>12. FlightTyped'
  <2>1. flight' \subseteq Outstanding
    BY <1>1, <1>2, <1>6 DEF FlightTyped
  <2>2. \A g \in flight' : g.sequence \in DOMAIN ops' /\ g.conn \in DOMAIN conns'
    BY <1>1, <1>2, <1>5, <1>6 DEF FlightTyped
  <2>3. \A g, h \in flight' : g.sequence = h.sequence => g = h
    BY <1>1, <1>2, <1>6 DEF FlightTyped
  <2>4. \A g \in flight' : g.sequence \in Queued'
    BY <1>1, <1>2, <1>3, <1>6, <1>7 DEF FlightTyped
  <2>5. ASSUME NEW i \in DOMAIN queue'
        PROVE  queue'[i].issued <=> \E g \in flight' : g.sequence = queue'[i].sequence
    <3>1. i \in DOMAIN queue /\ queue'[i].sequence = queue[i].sequence
          /\ queue'[i].issued = queue[i].issued
      BY <1>7, <1>11
    <3>2. queue[i].issued <=> \E g \in flight : g.sequence = queue[i].sequence
      BY <3>1, <1>1, <1>2, Zenon DEF FlightTyped
    <3> QED
      BY <3>1, <3>2, <1>10, Zenon
  <2> QED
    BY <2>1, <2>2, <2>3, <2>4, <2>5, Zenon DEF FlightTyped
<1> QED
  BY <1>8, <1>9, <1>12 DEF Shaped

\* An operation is answered: its row is taken out and its records are given back.
LEMMA SettledShaped ==
    ASSUME Assumptions, Typed, NEW f \in flight, NEW ok \in BOOLEAN, settled(f, ok)
    PROVE  Shaped' /\ Queued' = Queued \ {f.sequence}
<1> USE Bounds
<1> DEFINE s == f.sequence
           k == RowOf(s)
<1>1. QueueTyped /\ Sorted /\ RowsMatch /\ RowsServed /\ FlightTyped /\ StateTyped
  BY DEF Typed
<1>2. /\ UNCHANGED <<ops, conns, ended, generation, connection>> /\ ~ended
      /\ queue' = RemoveAt(queue, k)
      /\ held' = [r \in Records |-> IF r \in ops[s].locks /\ held[r] = s THEN 0 ELSE held[r]]
      /\ flight' = flight \ {f}
  BY Zenon DEF settled, Answered, retire, history
<1>3. s \in Queued
  BY <1>1, <1>2 DEF FlightTyped
<1>4. k \in DOMAIN queue /\ queue[k].sequence = s
  BY <1>1, <1>3, OneRow
<1>5. \A i \in DOMAIN queue : queue[i].sequence = s => i = k
  BY <1>1, <1>3, OneRow
<1>6. /\ queue' \in Seq(Pending)
      /\ Queued' = Queued \ {s}
      /\ \A i \in DOMAIN queue' :
            /\ Was(i, k) \in DOMAIN queue
            /\ Was(i, k) # k
            /\ queue'[i] = queue[Was(i, k)]
      /\ \A i, j \in DOMAIN queue' : i < j => Was(i, k) < Was(j, k)
  BY <1>1, <1>2, <1>3, TakenOut
<1> HIDE DEF k
<1>7. QueueTyped'
  <2>1. held' \in [Records -> 0 .. MaxOps]
    BY <1>1, <1>2 DEF QueueTyped
  <2> QED
    BY <2>1, <1>1, <1>2, <1>6 DEF QueueTyped
<1>8. Sorted'
  BY <1>1, <1>6 DEF Sorted
<1>9. RowsMatch' /\ RowsServed'
  BY <1>1, <1>2, <1>6 DEF RowsMatch, RowsServed
<1>10. FlightTyped'
  <2>1. \A g \in flight' : g \in flight /\ g.sequence # s
    BY <1>1, <1>2 DEF FlightTyped
  <2>2. \A g \in flight' : g.sequence \in Queued'
    BY <2>1, <1>1, <1>2, <1>6 DEF FlightTyped
  <2>3. ASSUME NEW i \in DOMAIN queue'
        PROVE  queue'[i].issued <=> \E g \in flight' : g.sequence = queue'[i].sequence
    <3> DEFINE j == Was(i, k)
    <3>1. j \in DOMAIN queue /\ queue'[i] = queue[j] /\ queue[j].sequence # s
      BY <1>5, <1>6
    <3> HIDE DEF j
    <3>2. queue[j].issued <=> \E g \in flight : g.sequence = queue[j].sequence
      BY <3>1, <1>1, <1>2, Zenon DEF FlightTyped
    <3>3. (\E g \in flight : g.sequence = queue[j].sequence)
              <=> \E g \in flight' : g.sequence = queue[j].sequence
      BY <3>1, <1>2
    <3> QED
      BY <3>1, <3>2, <3>3, Zenon
  <2> QED
    BY <2>1, <2>2, <2>3, <1>1, <1>2, Zenon DEF FlightTyped
<1> QED
  BY <1>6, <1>7, <1>8, <1>9, <1>10 DEF Shaped

LEMMA ShapedStep ==
    ASSUME Assumptions, Typed, Next
    PROVE  Shaped'
<1> USE Bounds
<1>1. QueueTyped /\ Sorted /\ RowsMatch /\ RowsServed /\ FlightTyped /\ StateTyped
  BY DEF Typed
\* What leaves the queue alone.
<1>2. ASSUME UNCHANGED <<queue, ops, flight, ended>>, DOMAIN conns \subseteq DOMAIN conns',
             held' \in [Records -> 0 .. MaxOps], RowsServed'
      PROVE  Shaped'
  <2>1. QueueTyped'
    BY <1>1, <1>2 DEF QueueTyped
  <2>2. Sorted' /\ RowsMatch'
    BY <1>1, <1>2 DEF Sorted, RowsMatch
  <2>3. FlightTyped'
    BY <1>1, <1>2 DEF FlightTyped, Queued
  <2> QED
    BY <1>2, <2>1, <2>2, <2>3 DEF Shaped
<1>3. ASSUME NEW s \in Slots, open(s)
      PROVE  Shaped'
  <2>1. /\ UNCHANGED <<queue, ops, flight, ended, held, generation, connection>>
        /\ \E c \in Conn : conns' = Append(conns, c)
    <3> DEFINE c == [slot |-> s, is |-> "connecting", closed |-> FALSE,
                     bound |-> IF state = "closed" THEN generation ELSE 0]
    <3>1. c \in Conn
      BY <1>1 DEF Conn, StateTyped
    <3>2. conns' = Append(conns, c)
      BY <1>3, Zenon DEF open
    <3> QED
      BY <1>3, <3>1, <3>2, Zenon DEF open, history
  <2>2. DOMAIN conns \subseteq DOMAIN conns'
    BY <2>1, <1>1 DEF StateTyped
  <2> QED
    BY <2>1, <2>2, <1>1, <1>2 DEF RowsServed, QueueTyped
<1>4. ASSUME NEW c \in DOMAIN conns, NEW ok \in BOOLEAN, connected(c, ok) \/ discard(c, ok)
      PROVE  Shaped'
  <2>1. UNCHANGED <<queue, ops, flight, ended, held, generation>> /\ DOMAIN conns' = DOMAIN conns
    BY <1>4 DEF connected, discard, Connects, history
  <2>2. UNCHANGED connection \/ connection = 0
    BY <1>1, <1>4 DEF connected, discard, stale, StateTyped
  <2>3. RowsServed'
    BY <2>1, <2>2, <1>1 DEF RowsServed
  <2> QED
    BY <2>1, <2>3, <1>1, <1>2 DEF QueueTyped
<1>5. CASE finish
  <2>1. UNCHANGED <<queue, ops, flight, ended>>
    BY <1>5, Zenon DEF finish, database, history
  <2>2. DOMAIN conns' = DOMAIN conns
    BY <1>5 DEF finish
  <2>3. held' \in [Records -> 0 .. MaxOps]
    BY <1>1, <1>5 DEF finish, database, QueueTyped
  <2>4. \/ UNCHANGED <<generation, connection>>
        \/ generation' = generation + 1
    BY <1>5, Zenon DEF finish, database
  <2>5. \A i \in DOMAIN queue : queue[i].generation \in Nat
    <3>1. \A i \in DOMAIN queue : queue[i] \in Pending
      BY <1>1, Rows
    <3> QED
      BY <3>1 DEF Pending
  <2>6. RowsServed'
    BY <2>1, <2>4, <2>5, <1>1 DEF RowsServed, StateTyped
  <2> QED
    BY <2>1, <2>2, <2>3, <2>6, <1>2
<1>6. CASE clear
  <2>1. /\ queue' = <<>> /\ held' = [r \in Records |-> 0] /\ ended' = TRUE
        /\ UNCHANGED <<ops, flight, conns, generation, connection>>
    BY <1>6, Zenon DEF clear, external, history
  <2>2. <<>> \in Seq(Pending) /\ DOMAIN queue' = {}
    BY <2>1
  <2>3. QueueTyped'
    BY <2>1, <2>2, <1>1 DEF QueueTyped
  <2>4. Sorted' /\ RowsMatch' /\ RowsServed'
    BY <2>2 DEF Sorted, RowsMatch, RowsServed
  <2>5. FlightTyped'
    BY <2>1, <1>1 DEF FlightTyped
  <2> QED
    BY <2>3, <2>4, <2>5 DEF Shaped
<1>7. ASSUME close \/ flush \/ release_waiters \/ settle \/ GameReturns \/ AnswersLater
      PROVE  Shaped'
  <2>1. UNCHANGED <<queue, ops, flight, ended, conns, held, generation, connection>>
    BY <1>7, Zenon DEF close, flush, release_waiters, settle, GameReturns, AnswersLater,
       database, external, history
  <2> QED
    BY <2>1, <1>1, <1>2 DEF QueueTyped, RowsServed
<1> QED
  BY <1>3, <1>4, <1>5, <1>6, <1>7, AdmitShaped, PumpShaped, StageShaped, SettledShaped,
     Zenon DEF Next, Inside, Backend, GameCalls

LEMMA StoreStep ==
    ASSUME Assumptions, Typed, Next
    PROVE  StoreTyped'
<1>1. ASSUME NEW f \in flight, NEW ok \in BOOLEAN, settled(f, ok)
      PROVE  StoreTyped'
  <2> DEFINE s == f.sequence
             slot == conns[f.conn].slot
             row == [r \in Records |->
                        IF r \notin ops[s].locks THEN store[slot][r]
                        ELSE CASE ops[s].op = "erase" -> {}
                               [] ops[s].op = "patch" -> f.base \cup {s}
                               [] OTHER -> {s}]
  <2>1. slot \in Slots /\ s \in Sequences /\ f.base \in Content
    BY Answerable
  <2>2. store' = store \/ store' = [store EXCEPT ![slot] = row]
    BY <1>1, Zenon DEF settled, written
  <2>3. store[slot] \in [Records -> Content]
    BY <2>1 DEF Typed, StoreTyped
  <2>4. {} \in Content /\ f.base \cup {s} \in Content /\ {s} \in Content
    BY <2>1 DEF Content
  <2>5. row \in [Records -> Content]
    BY <2>3, <2>4
  <2> HIDE DEF row, slot
  <2> QED
    BY <2>1, <2>2, <2>5 DEF Typed, StoreTyped
<1>2. \/ UNCHANGED store
      \/ \E f \in flight, ok \in BOOLEAN : settled(f, ok)
  <2>1. ASSUME NEW f \in flight, NEW ok \in BOOLEAN, stage_patch(f, ok)
        PROVE  UNCHANGED store
    BY <2>1, Zenon DEF stage_patch
  <2>2. ASSUME NEW w \in Works, admit(w)
        PROVE  UNCHANGED store
    BY <2>2, Zenon DEF admit, external
  <2>3. ASSUME NEW c \in DOMAIN conns, NEW ok \in BOOLEAN, connected(c, ok) \/ discard(c, ok)
        PROVE  UNCHANGED store
    BY <2>3, Zenon DEF connected, discard, Connects
  <2>4. ASSUME NEW s \in Slots, open(s)
        PROVE  UNCHANGED store
    BY <2>4, Zenon DEF open
  <2>5. release_waiters \/ finish \/ pump \/ settle \/ GameReturns \/ AnswersLater
        \/ clear \/ close \/ flush => UNCHANGED store
    BY Zenon DEF release_waiters, finish, pump, settle, GameReturns, AnswersLater, clear,
       close, flush, external
  <2> QED
    BY <2>1, <2>2, <2>3, <2>4, <2>5, Zenon DEF Next, Inside, Backend, GameCalls
<1>3. CASE UNCHANGED store
  BY <1>3 DEF Typed, StoreTyped
<1> QED
  BY <1>1, <1>2, <1>3

LEMMA OwedStep ==
    ASSUME Assumptions, Typed, Next
    PROVE  OwedTyped'
<1> USE Bounds
<1>1. owed \subseteq Promise /\ Queued = {s \in Sequences : <<"op", s>> \in owed}
  BY DEF Typed, OwedTyped
<1>2. QueueTyped /\ Sorted /\ RowsMatch /\ FlightTyped /\ StateTyped
  BY DEF Typed
\* What is owed of anything but an operation.
<1>3. ASSUME UNCHANGED queue,
             \/ \E p \in {"open", "close", "flush"} \X Nat : owed' = owed \ {p}
             \/ \E p \in Promise : p[1] # "op" /\ owed' = owed \cup {p}
             \/ \E p \in {"open", "close", "flush"} \X Nat, q \in Promise :
                    q[1] # "op" /\ owed' = (owed \ {p}) \cup {q}
             \/ UNCHANGED owed
      PROVE  OwedTyped'
  <2>1. owed' \subseteq Promise
    BY <1>1, <1>3
  <2>2. \A s : <<"op", s>> \in owed' <=> <<"op", s>> \in owed
    BY <1>3
  <2>3. Queued' = Queued
    BY <1>3 DEF Queued
  <2> QED
    BY <2>1, <2>2, <2>3, <1>1 DEF OwedTyped
<1>4. ASSUME NEW c \in 1 .. MaxOpens
      PROVE  <<"open", c>> \in Promise
  BY DEF Promise
<1>5. ASSUME NEW n \in 1 .. MaxFlushes
      PROVE  <<"flush", n>> \in Promise
  BY DEF Promise
<1>6. ASSUME NEW n \in 1 .. MaxCloses
      PROVE  <<"close", n>> \in Promise
  BY DEF Promise
<1>7. ASSUME NEW s \in Slots, open(s)
      PROVE  OwedTyped'
  <2> DEFINE c == Len(conns) + 1
  <2>1. c \in 1 .. MaxOpens
    BY <1>2, <1>7 DEF open, StateTyped
  <2>2. UNCHANGED queue /\ (UNCHANGED owed \/ owed' = owed \cup {<<"open", c>>})
    BY <1>7, Zenon DEF open
  <2> HIDE DEF c
  <2>3. <<"open", c>> \in Promise /\ <<"open", c>>[1] # "op"
    BY <2>1, <1>4
  <2> QED
    BY <2>2, <2>3, <1>3, Zenon
<1>8. ASSUME NEW c \in DOMAIN conns, NEW ok \in BOOLEAN, connected(c, ok) \/ discard(c, ok)
      PROVE  OwedTyped'
  <2>1. c \in Nat /\ <<"open", c>> \in {"open", "close", "flush"} \X Nat
    BY <1>2 DEF StateTyped
  <2>2. UNCHANGED queue /\ (UNCHANGED owed \/ owed' = owed \ {<<"open", c>>})
    BY <1>8, Zenon DEF connected, discard, Connects
  <2> QED
    BY <2>1, <2>2, <1>3, Zenon
<1>9. CASE close
  <2>1. /\ UNCHANGED queue /\ closes' = closes + 1 /\ closes < MaxCloses
        /\ owed' = (owed \ {<<"open", connecting>>}) \cup {<<"close", closes'>>}
    BY <1>9, Zenon DEF close
  <2>2. closes' \in 1 .. MaxCloses
    BY <2>1, <1>2 DEF StateTyped
  <2>3. <<"close", closes'>> \in Promise /\ <<"close", closes'>>[1] # "op"
    BY <2>2, <1>6
  <2>4. <<"open", connecting>> \in {"open", "close", "flush"} \X Nat
    BY <1>2 DEF StateTyped
  <2> QED
    BY <2>1, <2>3, <2>4, <1>3, Zenon
<1>10. CASE flush
  <2>1. UNCHANGED queue /\ flushes' = Append(flushes, Queued) /\ Len(flushes) < MaxFlushes
        /\ owed' = owed \cup {<<"flush", Len(flushes')>>}
    BY <1>10, Zenon DEF flush
  <2>2. Len(flushes) \in Nat /\ Len(flushes') = Len(flushes) + 1
    BY <2>1 DEF Typed, FlushTyped
  <2>3. <<"flush", Len(flushes')>> \in Promise /\ <<"flush", Len(flushes')>>[1] # "op"
    BY <2>1, <2>2, <1>5
  <2> QED
    BY <2>1, <2>3, <1>3, Zenon
<1>11. CASE release_waiters
  <2>1. UNCHANGED queue /\ TopIs("release")
        /\ (UNCHANGED owed \/ (top.left # <<>> /\ owed' = owed \ {<<"flush", Head(top.left)>>}))
    BY <1>11, Zenon DEF release_waiters, database
  <2>2. top.left \in Seq(Nat)
    BY <2>1, Top, Frames, Zenon DEF TopIs, Typed
  <2>3. top.left # <<>> => <<"flush", Head(top.left)>> \in {"open", "close", "flush"} \X Nat
    BY <2>2
  <2> QED
    BY <2>1, <2>3, <1>3, Zenon
<1>12. CASE finish
  <2>1. UNCHANGED queue /\ (UNCHANGED owed \/ owed' = owed \ {<<"close", closes>>})
    BY <1>12, Zenon DEF finish, database
  <2>2. <<"close", closes>> \in {"open", "close", "flush"} \X Nat
    BY <1>2 DEF StateTyped
  <2> QED
    BY <2>1, <2>2, <1>3, Zenon
<1>13. ASSUME settle \/ GameReturns \/ AnswersLater
       PROVE  OwedTyped'
  BY <1>3, <1>13, Zenon DEF settle, GameReturns, AnswersLater, database
\* An operation is owed while it has a row.
<1>14. CASE pump
  <2>1. UNCHANGED owed
    BY <1>14, Zenon DEF pump
  <2>2. Queued' = Queued
    <3>1. CASE connection = 0 \/ Issuable(top.row) = {}
      BY <1>14, <3>1 DEF pump, Queued
    <3>2. CASE ~(connection = 0 \/ Issuable(top.row) = {})
      <4>1. /\ TopIs("pump") /\ Issuable(top.row) # {}
            /\ queue' = [queue EXCEPT ![Min(Issuable(top.row))].issued = TRUE]
        BY <1>14, <3>2, Zenon DEF pump
      <4>2. Min(Issuable(top.row)) \in DOMAIN queue
        BY <4>1, Issued
      <4> QED
        BY <4>1, <4>2, <1>2, Marked
    <3> QED
      BY <3>1, <3>2
  <2> QED
    BY <2>1, <2>2, <1>1 DEF OwedTyped
<1>15. ASSUME NEW f \in flight, NEW ok \in BOOLEAN, stage_patch(f, ok)
       PROVE  OwedTyped'
  <2>1. /\ UNCHANGED owed /\ ~ended
        /\ queue' = [queue EXCEPT ![RowOf(f.sequence)].staged = TRUE]
    BY <1>15, Zenon DEF stage_patch, Answered
  <2>2. f.sequence \in Queued
    BY <2>1, <1>2 DEF FlightTyped
  <2>3. RowOf(f.sequence) \in DOMAIN queue
    BY <2>2, <1>2, OneRow
  <2>4. Queued' = Queued
    BY <2>1, <2>3, <1>2, Marked
  <2> QED
    BY <2>1, <2>4, <1>1 DEF OwedTyped
<1>16. ASSUME NEW f \in flight, NEW ok \in BOOLEAN, settled(f, ok)
       PROVE  OwedTyped'
  <2>1. owed' = owed \ {<<"op", f.sequence>>}
    BY <1>16, Zenon DEF settled
  <2>2. Queued' = Queued \ {f.sequence}
    BY <1>16, SettledShaped
  <2> QED
    BY <2>1, <2>2, <1>1 DEF OwedTyped
<1>17. ASSUME NEW w \in Works, admit(w)
       PROVE  OwedTyped'
  <2> DEFINE s == Len(ops) + 1
             row == [sequence |-> s, op |-> w.op, locks |-> w.locks, generation |-> generation,
                     issued |-> FALSE, staged |-> FALSE]
  <2>1. /\ Len(ops) < MaxOps /\ queue' = Append(queue, row)
        /\ owed' = owed \cup {<<"op", s>>}
    BY <1>17, Zenon DEF admit
  <2>2. row.sequence = s
    OBVIOUS
  <2>3. s \in Sequences
    BY <2>1, <1>2, Rows DEF Sequences
  <2> HIDE DEF row, s
  <2>4. queue \in Seq(Pending)
    BY <1>2 DEF QueueTyped
  <2>5. Queued' = Queued \cup {s}
    <3>1. /\ DOMAIN queue' = DOMAIN queue \cup {Len(queue) + 1}
          /\ queue'[Len(queue) + 1] = row
          /\ \A i \in DOMAIN queue : queue'[i] = queue[i]
      BY <2>1, <2>4
    <3> QED
      BY <3>1, <2>2 DEF Queued
  <2>6. <<"op", s>> \in Promise
    BY <2>3 DEF Promise
  <2> QED
    BY <2>1, <2>3, <2>5, <2>6, <1>1 DEF OwedTyped
<1>18. CASE clear
  <2>1. queue' = <<>> /\ owed' = {p \in owed : p[1] \notin {"op", "flush"}}
    BY <1>18, Zenon DEF clear
  <2>2. Queued' = {}
    BY <2>1 DEF Queued
  <2>3. \A s : <<"op", s>> \notin owed'
    BY <2>1
  <2> QED
    BY <2>1, <2>2, <2>3, <1>1 DEF OwedTyped
<1> QED
  BY <1>7, <1>8, <1>9, <1>10, <1>11, <1>12, <1>13, <1>14, <1>15, <1>16, <1>17, <1>18,
     Zenon DEF Next, Inside, Backend, GameCalls

LEMMA TypedInit == ASSUME Assumptions, Init PROVE Typed
<1> USE Bounds
<1>1. /\ state = "closed" /\ generation = 1 /\ connection = 0 /\ connecting = 0
      /\ abandoned = {} /\ queue = <<>> /\ held = [r \in Records |-> 0]
      /\ flush_waiters = <<>> /\ stack = <<>> /\ conns = <<>> /\ flight = {}
      /\ store = [s \in Slots |-> [r \in Records |-> {}]]
      /\ ops = <<>> /\ flushes = <<>> /\ closes = 0 /\ owed = {} /\ ended = FALSE
  BY DEF Init
<1>2. StateTyped
  <2>1. <<>> \in Seq(Conn) /\ Len(<<>>) = 0
    OBVIOUS
  <2> QED
    BY <1>1, <2>1 DEF StateTyped
<1>3. StackTyped /\ FlushTyped
  <2>1. stack \in Seq(Frame)
    BY <1>1
  <2>2. flushes \in Seq(SUBSET Nat) /\ Len(flushes) = 0
    BY <1>1
  <2>3. flush_waiters \in Seq(Nat)
    BY <1>1
  <2>4. ended = FALSE
    BY <1>1
  <2>5. StackTyped
    BY <2>1, <2>4 DEF StackTyped
  <2>6. FlushTyped
    BY <2>2, <2>3 DEF FlushTyped
  <2> QED
    BY <2>5, <2>6
<1>4. DOMAIN queue = {} /\ Queued = {} /\ DOMAIN ops = {}
  BY <1>1 DEF Queued
<1>5. QueueTyped
  BY <1>1, <1>4 DEF QueueTyped
<1>6. Sorted /\ RowsMatch /\ RowsServed /\ FlightTyped
  BY <1>1, <1>4 DEF Sorted, RowsMatch, RowsServed, FlightTyped
<1>7. StoreTyped
  BY <1>1 DEF StoreTyped, Content
<1>8. OwedTyped
  BY <1>1, <1>4 DEF OwedTyped
<1> QED
  BY <1>2, <1>3, <1>5, <1>6, <1>7, <1>8 DEF Typed

LEMMA TypedStutter == ASSUME Typed, UNCHANGED vars PROVE Typed'
<1>1. UNCHANGED <<state, generation, connection, connecting, abandoned, queue, held,
                  flush_waiters, stack, conns, flight, store, ops, flushes, closes, owed, ended>>
  BY DEF vars, database, external, history
<1>2. StateTyped' /\ StackTyped' /\ FlushTyped'
  BY <1>1 DEF Typed, StateTyped, StackTyped, FlushTyped
<1>3. QueueTyped' /\ Sorted' /\ RowsMatch' /\ RowsServed'
  BY <1>1 DEF Typed, QueueTyped, Sorted, RowsMatch, RowsServed
<1>4. Queued' = Queued
  BY <1>1 DEF Queued
<1>5. FlightTyped' /\ StoreTyped' /\ OwedTyped'
  BY <1>1, <1>4 DEF Typed, FlightTyped, StoreTyped, OwedTyped
<1> QED
  BY <1>2, <1>3, <1>5 DEF Typed

LEMMA TypedStep == ASSUME Assumptions, Typed, [Next]_vars PROVE Typed'
<1>1. CASE Next
  <2>1. StateTyped' /\ StackTyped' /\ FlushTyped'
    BY <1>1, StateStep, StackStep, FlushStep
  <2>2. Shaped'
    BY <1>1, ShapedStep
  <2>3. StoreTyped' /\ OwedTyped'
    BY <1>1, StoreStep, OwedStep
  <2> QED
    BY <2>1, <2>2, <2>3, Zenon DEF Typed, Shaped
<1>2. CASE UNCHANGED vars
  BY <1>2, TypedStutter
<1> QED
  BY <1>1, <1>2

LEMMA TypedTypes == ASSUME Assumptions, Typed PROVE TypeOK
<1> USE Bounds
<1>1. /\ state \in {"closed", "opening", "open", "closing"}
      /\ generation \in 1 .. (MaxCloses + 1)
      /\ connection \in 0 .. Len(conns) /\ connecting \in 0 .. Len(conns)
      /\ abandoned \subseteq (1 .. (MaxCloses + 1)) \X (1 .. MaxOpens)
  BY DEF Typed, StateTyped
<1>2. (\A i \in DOMAIN queue : queue[i] \in Pending) /\ held \in [Records -> 0 .. MaxOps]
  BY DEF Typed, QueueTyped
<1>3. store \in [Slots -> [Records -> Content]]
  BY DEF Typed, StoreTyped
<1>4. owed \subseteq Promise /\ Queued = {s \in Sequences : <<"op", s>> \in owed}
  BY DEF Typed, OwedTyped
<1>5. ~ended => \A i \in DOMAIN queue : queue[i].issued <=>
                    \E f \in flight : f.sequence = queue[i].sequence
  BY DEF Typed, FlightTyped
<1> QED
  BY <1>1, <1>2, <1>3, <1>4, <1>5, Zenon DEF TypeOK

-----------------------------------------------------------------------------
(* The calls in progress. *)

(* What the game is trusted with.  Where a flush is answered it does not close   *)
(* the database; and it submits nothing there if the backend may answer inside    *)
(* the call.  Without this the queue is no longer empty when the database closes. *)
Calm == "close" \notin FlushCalls /\ (Prompt => "submit" \notin FlushCalls)

Busy == state \in {"open", "closing"}

\* Frames that may lie over the end of a close.
Quiet(fr) ==
    /\ fr.at \in {"release", "game", "made", "pump"}
    /\ fr.at = "game" => fr.calls = FlushCalls
    /\ fr.at = "pump" => ~Prompt
Empty(fr) == fr.at = "release" /\ fr.left = <<>>

\* Flushes are released just before a close may end, and little happens over it.
Chained(s) ==
    \A n \in 1 .. Len(s) : s[n].at = "release" => n < Len(s) /\ s[n + 1].at = "finish"
QuietAbove(s) ==
    \A n \in 1 .. Len(s) : s[n].at = "finish" => \A m \in 1 .. n - 1 : Quiet(s[m])
Finishing(s) == \E n \in 1 .. Len(s) : s[n].at = "finish"
Occupied(s) ==
    \E n \in 1 .. Len(s) : s[n].at = "finish" /\ \E m \in 1 .. n - 1 : ~Empty(s[m])
Unprompted(s) == ~Prompt => \A n \in 1 .. Len(s) : s[n].at \notin {"reply", "made"}

LEMMA Pops ==
    ASSUME NEW s \in Seq(Frame), s # <<>>
    PROVE  /\ Chained(s) => Chained(Tail(s))
           /\ QuietAbove(s) => QuietAbove(Tail(s))
           /\ Unprompted(s) => Unprompted(Tail(s))
           /\ Finishing(Tail(s)) => Finishing(s)
           /\ Occupied(Tail(s)) => Occupied(s)
           /\ QuietAbove(s) /\ Finishing(Tail(s)) => Quiet(s[1])
           /\ Finishing(Tail(s)) /\ ~Empty(s[1]) => Occupied(s)
           /\ Chained(s) /\ s[1].at = "release" =>
                Tail(s) # <<>> /\ Tail(s)[1].at = "finish" /\ Finishing(Tail(s))
           /\ Finishing(s) => s[1].at = "finish" \/ Finishing(Tail(s))
           /\ s[1].at = "finish" => Finishing(s)
<1> DEFINE t == Tail(s)
<1>1. /\ t \in Seq(Frame) /\ Len(s) \in Nat \ {0} /\ Len(t) = Len(s) - 1
      /\ \A n \in 1 .. Len(s) - 1 : t[n] = s[n + 1]
  BY Popped
<1> HIDE DEF t
<1>2. \A n \in 1 .. Len(t) : n \in 1 .. Len(s) /\ n + 1 \in 1 .. Len(s) /\ t[n] = s[n + 1]
  BY <1>1
<1>3. Chained(s) => Chained(t)
  <2> SUFFICES ASSUME Chained(s), NEW n \in 1 .. Len(t), t[n].at = "release"
               PROVE  n < Len(t) /\ t[n + 1].at = "finish"
    BY DEF Chained
  <2>1. n + 1 < Len(s) /\ s[n + 1 + 1].at = "finish"
    BY <1>2 DEF Chained
  <2> QED
    BY <2>1, <1>1
<1>4. QuietAbove(s) => QuietAbove(t)
  <2> SUFFICES ASSUME QuietAbove(s), NEW n \in 1 .. Len(t), t[n].at = "finish",
                      NEW m \in 1 .. n - 1
               PROVE  Quiet(t[m])
    BY DEF QuietAbove
  <2>1. m + 1 \in 1 .. (n + 1) - 1 /\ m \in 1 .. Len(t)
    BY <1>1
  <2>2. Quiet(s[m + 1])
    BY <2>1, <1>2 DEF QuietAbove
  <2> QED
    BY <2>1, <2>2, <1>2
<1>5. Unprompted(s) => Unprompted(t)
  BY <1>2, Zenon DEF Unprompted
<1>6. Finishing(t) => Finishing(s)
  BY <1>2, Zenon DEF Finishing
<1>7. Occupied(t) => Occupied(s)
  <2> SUFFICES ASSUME NEW n \in 1 .. Len(t), t[n].at = "finish",
                      NEW m \in 1 .. n - 1, ~Empty(t[m])
               PROVE  Occupied(s)
    BY DEF Occupied
  <2>1. m + 1 \in 1 .. (n + 1) - 1 /\ m \in 1 .. Len(t)
    BY <1>1
  <2>2. ~Empty(s[m + 1]) /\ n + 1 \in 1 .. Len(s) /\ s[n + 1].at = "finish"
    BY <2>1, <1>2
  <2> QED
    BY <2>1, <2>2, Zenon DEF Occupied
<1>8. ASSUME NEW n \in 1 .. Len(t), t[n].at = "finish"
      PROVE  n + 1 \in 1 .. Len(s) /\ s[n + 1].at = "finish" /\ 1 \in 1 .. (n + 1) - 1
  BY <1>2, <1>8
<1>9. QuietAbove(s) /\ Finishing(t) => Quiet(s[1])
  BY <1>8 DEF QuietAbove, Finishing
<1>10. Finishing(t) /\ ~Empty(s[1]) => Occupied(s)
  BY <1>8 DEF Finishing, Occupied
<1>11. Chained(s) /\ s[1].at = "release" => t # <<>> /\ t[1].at = "finish" /\ Finishing(t)
  <2> SUFFICES ASSUME Chained(s), s[1].at = "release"
               PROVE  t # <<>> /\ t[1].at = "finish" /\ Finishing(t)
    OBVIOUS
  <2>1. 1 < Len(s) /\ s[1 + 1].at = "finish"
    BY <1>1 DEF Chained
  <2>2. 1 \in 1 .. Len(t) /\ t[1].at = "finish" /\ t # <<>>
    BY <2>1, <1>1
  <2> QED
    BY <2>2 DEF Finishing
<1>12. Finishing(s) => s[1].at = "finish" \/ Finishing(t)
  <2> SUFFICES ASSUME NEW n \in 1 .. Len(s), s[n].at = "finish", n # 1
               PROVE  Finishing(t)
    BY DEF Finishing
  <2>1. n - 1 \in 1 .. Len(t) /\ t[n - 1] = s[n]
    BY <1>1
  <2> QED
    BY <2>1 DEF Finishing
<1>13. s[1].at = "finish" => Finishing(s)
  BY <1>1 DEF Finishing
<1> QED
  BY <1>3, <1>4, <1>5, <1>6, <1>7, <1>9, <1>10, <1>11, <1>12, <1>13, Zenon DEF t

LEMMA Pushes ==
    ASSUME NEW a \in Frame, NEW t \in Seq(Frame)
    PROVE  /\ Chained(t) /\ a.at # "release" => Chained(<<a>> \o t)
           /\ Chained(t) /\ t # <<>> /\ t[1].at = "finish" => Chained(<<a>> \o t)
           /\ QuietAbove(t) /\ (Finishing(t) => Quiet(a)) => QuietAbove(<<a>> \o t)
           /\ Unprompted(t) /\ (Prompt \/ a.at \notin {"reply", "made"})
                => Unprompted(<<a>> \o t)
           /\ Finishing(<<a>> \o t) => a.at = "finish" \/ Finishing(t)
           /\ Occupied(<<a>> \o t) => Occupied(t) \/ (Finishing(t) /\ ~Empty(a))
<1> DEFINE s == <<a>> \o t
<1>1. /\ s \in Seq(Frame) /\ Len(t) \in Nat /\ Len(s) = Len(t) + 1
      /\ s[1] = a
      /\ \A n \in 2 .. Len(t) + 1 : s[n] = t[n - 1]
  BY Pushed
<1> HIDE DEF s
<1>2. \A n \in 1 .. Len(s) : n = 1 \/ (n - 1 \in 1 .. Len(t) /\ s[n] = t[n - 1])
  BY <1>1
<1>3. Chained(t) /\ (a.at # "release" \/ (t # <<>> /\ t[1].at = "finish")) => Chained(s)
  <2> SUFFICES ASSUME Chained(t), a.at # "release" \/ (t # <<>> /\ t[1].at = "finish"),
                      NEW n \in 1 .. Len(s), s[n].at = "release"
               PROVE  n < Len(s) /\ s[n + 1].at = "finish"
    BY DEF Chained
  <2>1. CASE n = 1
    <3>1. t # <<>> /\ t[1].at = "finish"
      BY <2>1, <1>1
    <3>2. Len(t) >= 1
      BY <3>1, <1>1
    <3>3. n < Len(s) /\ n + 1 = 2 /\ 2 \in 2 .. Len(t) + 1
      BY <2>1, <3>2, <1>1
    <3>4. s[2] = t[1]
      BY <3>3, <1>1
    <3> QED
      BY <3>1, <3>3, <3>4
  <2>2. CASE n # 1
    <3>1. n - 1 \in 1 .. Len(t) /\ s[n] = t[n - 1]
      BY <2>2, <1>2
    <3>2. n - 1 < Len(t) /\ t[n - 1 + 1].at = "finish"
      BY <3>1 DEF Chained
    <3>3. n - 1 + 1 = (n + 1) - 1 /\ n + 1 \in 2 .. Len(t) + 1 /\ n < Len(s)
      BY <3>1, <3>2, <1>1
    <3>4. s[n + 1] = t[(n + 1) - 1]
      BY <3>3, <1>1
    <3> QED
      BY <3>2, <3>3, <3>4
  <2> QED
    BY <2>1, <2>2
<1>4. QuietAbove(t) /\ (Finishing(t) => Quiet(a)) => QuietAbove(s)
  <2> SUFFICES ASSUME QuietAbove(t), Finishing(t) => Quiet(a),
                      NEW n \in 1 .. Len(s), s[n].at = "finish", NEW m \in 1 .. n - 1
               PROVE  Quiet(s[m])
    BY DEF QuietAbove
  <2>1. n - 1 \in 1 .. Len(t) /\ t[n - 1].at = "finish"
    BY <1>2
  <2>2. CASE m = 1
    <3>1. Finishing(t)
      BY <2>1 DEF Finishing
    <3> QED
      BY <2>2, <3>1, <1>1
  <2>3. CASE m # 1
    <3>1. m - 1 \in 1 .. (n - 1) - 1 /\ m \in 1 .. Len(s)
      BY <2>1, <2>3
    <3>2. Quiet(t[m - 1])
      BY <2>1, <3>1, Zenon DEF QuietAbove
    <3> QED
      BY <2>3, <3>1, <3>2, <1>2
  <2> QED
    BY <2>2, <2>3
<1>5. Unprompted(t) /\ (Prompt \/ a.at \notin {"reply", "made"}) => Unprompted(s)
  BY <1>1, <1>2 DEF Unprompted
<1>6. Finishing(s) => a.at = "finish" \/ Finishing(t)
  BY <1>1, <1>2 DEF Finishing
<1>7. Occupied(s) => Occupied(t) \/ (Finishing(t) /\ ~Empty(a))
  <2> SUFFICES ASSUME NEW n \in 1 .. Len(s), s[n].at = "finish", NEW m \in 1 .. n - 1,
                      ~Empty(s[m])
               PROVE  Occupied(t) \/ (Finishing(t) /\ ~Empty(a))
    BY DEF Occupied
  <2>1. n - 1 \in 1 .. Len(t) /\ t[n - 1].at = "finish"
    BY <1>2
  <2>2. CASE m = 1
    BY <2>1, <2>2, <1>1 DEF Finishing
  <2>3. CASE m # 1
    <3>1. m - 1 \in 1 .. (n - 1) - 1 /\ m \in 1 .. Len(s)
      BY <2>1, <2>3
    <3>2. ~Empty(t[m - 1])
      BY <2>3, <3>1, <1>2
    <3> QED
      BY <2>1, <3>1, <3>2, Zenon DEF Occupied
  <2> QED
    BY <2>2, <2>3
<1> QED
  BY <1>3, <1>4, <1>5, <1>6, <1>7, Zenon DEF s

LEMMA OccupiedFinishes == ASSUME NEW s, Occupied(s) PROVE Finishing(s)
BY DEF Occupied, Finishing

\* A close ends with nothing left to do; while something lies over its end the
\* database is in use.
Calmed ==
    /\ Chained(stack) /\ QuietAbove(stack) /\ Unprompted(stack)
    /\ Finishing(stack) /\ state = "closing" => queue = <<>> /\ flush_waiters = <<>>
    /\ Occupied(stack) => Busy
    /\ flush_waiters # <<>> => Busy

\* What is queued is for the connection in use, which is open.
Working ==
    /\ queue # <<>> => Busy /\ connection # 0
    /\ \A i \in DOMAIN queue :
        queue[i].generation = generation /\ ops[queue[i].sequence].conn = connection
    /\ \A f \in flight : f.conn = ops[f.sequence].conn
    /\ connection # 0 => conns[connection].is = "made" /\ ~conns[connection].closed
    /\ \A c \in DOMAIN conns : conns[c].is = "connecting" => ~conns[c].closed

\* What is known of the top frame when the game calls inside an answer.
LEMMA GameTop ==
    ASSUME Typed, Calmed, NEW call, May(call), Finishing(stack)
    PROVE  Busy /\ call \in FlushCalls
<1>1. stack # <<>>
  <2> SUFFICES ASSUME stack = <<>> PROVE FALSE
    OBVIOUS
  <2>1. 1 .. Len(stack) = {}
    OBVIOUS
  <2> QED
    BY <2>1 DEF Finishing
<1>2. top.at = "game" /\ call \in top.calls /\ top = stack[1]
  BY <1>1, Top DEF May, TopIs, Typed
<1>3. stack \in Seq(Frame)
  BY DEF Typed, StackTyped
<1>4. Finishing(Tail(stack))
  BY <1>1, <1>2, <1>3, Pops
<1>5. Quiet(stack[1]) /\ Occupied(stack)
  <2>1. ~Empty(stack[1])
    BY <1>2 DEF Empty
  <2> QED
    BY <2>1, <1>1, <1>3, <1>4, Pops, Zenon DEF Calmed
<1> QED
  BY <1>2, <1>5 DEF Calmed, Quiet

\* What is popped may have been in use; what is under it may not.
LEMMA UnderCalm ==
    ASSUME Typed, Calmed, stack # <<>>
    PROVE  /\ Under \in Seq(Frame) /\ top = stack[1] /\ top \in Frame
           /\ Chained(Under) /\ QuietAbove(Under) /\ Unprompted(Under)
           /\ Finishing(Under) => Finishing(stack) /\ Quiet(top)
           /\ Finishing(Under) /\ ~Empty(top) => Busy
           /\ Occupied(Under) => Busy
           /\ top.at = "release" => Under # <<>> /\ Under[1].at = "finish" /\ Finishing(Under)
           /\ top.at = "finish" => Finishing(stack)
<1>1. stack \in Seq(Frame) /\ Under \in Seq(Frame) /\ top = stack[1] /\ top \in Frame
  BY Top DEF Typed, StackTyped
<1>2. Under = Tail(stack)
  BY DEF Under
<1> QED
  BY <1>1, <1>2, Pops, Zenon DEF Calmed

\* An answer of the backend does not come over the end of a close.
LEMMA RestCalm ==
    ASSUME Typed, Calmed, stack = <<>> \/ top.at = "reply"
    PROVE  /\ rest \in Seq(Frame) /\ ~Finishing(rest)
           /\ Chained(rest) /\ QuietAbove(rest) /\ Unprompted(rest)
<1>1. CASE stack = <<>>
  <2>1. rest = <<>> /\ 1 .. Len(rest) = {} /\ rest \in Seq(Frame)
    BY <1>1 DEF rest
  <2> QED
    BY <2>1 DEF Finishing, Chained, QuietAbove, Unprompted
<1>2. CASE stack # <<>>
  <2>1. rest = Under /\ top.at = "reply"
    BY <1>2 DEF rest
  <2>2. ~Quiet(top)
    BY <2>1 DEF Quiet
  <2> QED
    BY <2>1, <2>2, <1>2, UnderCalm, Zenon
<1> QED
  BY <1>1, <1>2

\* The frames of a stack on which no rule is broken.
Framed(s) == s \in Seq(Frame) /\ Chained(s) /\ QuietAbove(s) /\ Unprompted(s)

LEMMA Framing ==
    ASSUME NEW a \in Frame, NEW t, Framed(t),
           a.at # "release" \/ (t # <<>> /\ t[1].at = "finish"),
           Finishing(t) => Quiet(a), Prompt \/ a.at \notin {"reply", "made"}
    PROVE  /\ Framed(<<a>> \o t) /\ <<a>> \o t # <<>> /\ (<<a>> \o t)[1] = a
           /\ Finishing(<<a>> \o t) => a.at = "finish" \/ Finishing(t)
           /\ Occupied(<<a>> \o t) => Occupied(t) \/ (Finishing(t) /\ ~Empty(a))
           /\ Occupied(<<a>> \o t) => Finishing(t)
<1>1. /\ t \in Seq(Frame) /\ Chained(t) /\ QuietAbove(t) /\ Unprompted(t)
  BY DEF Framed
<1>2. /\ <<a>> \o t \in Seq(Frame) /\ <<a>> \o t # <<>> /\ (<<a>> \o t)[1] = a
  BY <1>1, Pushed
<1>3. Framed(<<a>> \o t)
  BY <1>1, <1>2, Pushes, Zenon DEF Framed
<1>4. /\ Finishing(<<a>> \o t) => a.at = "finish" \/ Finishing(t)
      /\ Occupied(<<a>> \o t) => Occupied(t) \/ (Finishing(t) /\ ~Empty(a))
  BY <1>1, Pushes, Zenon
<1> QED
  BY <1>2, <1>3, <1>4, OccupiedFinishes, Zenon

\* Two or three frames over a stack, one over another.
LEMMA Stacked ==
    ASSUME NEW a \in Frame, NEW b \in Frame, NEW t \in Seq(Frame)
    PROVE  /\ <<a, b>> \o t = <<a>> \o (<<b>> \o t)
           /\ <<a>> \o <<b>> \o t = <<a>> \o (<<b>> \o t)
           /\ <<a>> \o <<>> \o t = <<a>> \o t
<1>1. <<a, b>> \o t = <<a>> \o (<<b>> \o t)
  BY PushedTwo
<1>2. <<a>> \o <<b>> \o t = <<a>> \o (<<b>> \o t)
  <2>1. <<a>> \in Seq(Frame) /\ <<b>> \in Seq(Frame)
    OBVIOUS
  <2> QED
    BY <2>1, Associates
<1>3. <<a>> \o <<>> \o t = <<a>> \o t
  <2>1. <<a>> \in Seq(Frame) /\ <<>> \in Seq(Frame) /\ <<>> \o t = t
    BY PushedNone
  <2> QED
    BY <2>1, Associates
<1> QED
  BY <1>1, <1>2, <1>3, Zenon

LEMMA CalmedStep ==
    ASSUME Assumptions, Calm, Typed, Calmed, Working, Next
    PROVE  Calmed'
<1> USE Bounds
<1>1. Framed(stack)
  BY DEF Framed, Calmed, Typed, StackTyped
<1>2. /\ Pump(1) \in Frame /\ Finish \in Frame /\ Settle \in Frame
      /\ Game(AnswerCalls) \in Frame /\ Game(FlushCalls) \in Frame
      /\ Release(flush_waiters) \in Frame
  BY Frames DEF Typed, FlushTyped
<1>3. stack # <<>> => Framed(Under)
  BY UnderCalm, Zenon DEF Framed
<1>4. stack' \in Seq(Frame)
  BY StackStep DEF StackTyped
<1>5. /\ Settle.at = "settle" /\ Finish.at = "finish"
      /\ \A calls : Game(calls).at = "game" /\ Game(calls).calls = calls
      /\ \A r : Pump(r).at = "pump"
      /\ \A left : Release(left).at = "release" /\ Release(left).left = left
      /\ \A c : Made(c).at = "made"
      /\ \A q : Reply(q).at = "reply"
  BY Frames, Zenon
<1>6. ASSUME Framed(stack'), ~Finishing(stack'), flush_waiters' # <<>> => Busy'
      PROVE  Calmed'
  BY <1>6, OccupiedFinishes DEF Calmed, Framed
<1>7. ASSUME stack # <<>>, stack' = Under, UNCHANGED <<state, queue, flush_waiters>>
      PROVE  Calmed'
  BY <1>7, <1>3, UnderCalm DEF Calmed, Framed, Busy
<1>8. ASSUME NEW s \in Slots, open(s)
      PROVE  Calmed'
  <2> DEFINE m == Made(Len(conns) + 1)
  <2>1. /\ May("open") /\ UNCHANGED <<queue, flush_waiters>>
        /\ \/ state = "closed" /\ state' = "opening"
           \/ UNCHANGED state
        /\ \/ Prompt /\ stack' = <<m>> \o stack
           \/ UNCHANGED stack
    BY <1>8, Zenon DEF open
  <2>2. Finishing(stack) => Busy
    BY <2>1, GameTop
  <2>3. Busy => UNCHANGED state
    BY <2>1 DEF Busy
  <2>4. Framed(stack') /\ (Finishing(stack') => Finishing(stack))
          /\ (Occupied(stack') => Finishing(stack))
    <3>1. CASE Prompt /\ stack' = <<m>> \o stack
      <4>1. m \in Frame
        <5>1. Len(conns) + 1 \in Nat
          BY DEF Typed, StateTyped
        <5> QED
          BY <5>1, Frames, Zenon
      <4>2. m.at = "made" /\ Quiet(m)
        BY <1>5 DEF Quiet
      <4> QED
        BY <3>1, <4>1, <4>2, <1>1, Framing
    <3>2. CASE UNCHANGED stack
      BY <3>2, <1>1, OccupiedFinishes
    <3> QED
      BY <2>1, <3>1, <3>2
  <2> QED
    BY <2>1, <2>2, <2>3, <2>4 DEF Calmed, Framed, Busy
<1>9. ASSUME NEW w \in Works, admit(w)
      PROVE  Calmed'
  <2>1. /\ May("submit") /\ state = "open" /\ UNCHANGED <<state, flush_waiters>>
        /\ stack' = <<Pump(1)>> \o stack
    BY <1>9, Zenon DEF admit
  <2>2. Finishing(stack) => ~Prompt
    BY <2>1, GameTop DEF Calm
  <2>3. Finishing(stack) => Quiet(Pump(1))
    BY <2>2, <1>5 DEF Quiet
  <2>4. Framed(stack')
    BY <2>1, <2>3, <1>1, <1>2, <1>5, Framing
  <2> QED
    BY <2>1, <2>4 DEF Calmed, Framed, Busy
<1>10. CASE flush
  <2>1. /\ queue # <<>> /\ UNCHANGED <<state, queue, stack>>
    BY <1>10, Zenon DEF flush
  <2>2. Busy
    BY <2>1 DEF Working
  <2> QED
    BY <2>1, <2>2 DEF Calmed, Busy
<1>11. CASE release_waiters
  <2>1. stack # <<>> /\ top.at = "release" /\ UNCHANGED <<state, queue, flush_waiters>>
    BY <1>11, Zenon DEF release_waiters, TopIs, database
  <2>2. CASE top.left = <<>>
    BY <2>1, <2>2, <1>7, <1>11, Zenon DEF release_waiters
  <2>3. CASE top.left # <<>>
    <3> DEFINE r == Release(Tail(top.left))
    <3>1. stack' = <<Game(FlushCalls), r>> \o Under
      BY <2>3, <1>11, Zenon DEF release_waiters
    <3>2. r \in Frame /\ r.at = "release"
      <4>1. top.left \in Seq(Nat)
        BY <2>1, UnderCalm, Frames, Zenon
      <4>2. Tail(top.left) \in Seq(Nat)
        BY <2>3, <4>1, Popped
      <4> QED
        BY <4>2, <1>5, Frames, Zenon
    <3>3. Quiet(r) /\ Quiet(Game(FlushCalls))
      BY <3>2, <1>5 DEF Quiet
    <3>4. ~Empty(top)
      BY <2>3 DEF Empty
    <3>5. Busy /\ Finishing(stack) /\ Under # <<>> /\ Under[1].at = "finish" /\ Finishing(Under)
      BY <2>1, <3>4, UnderCalm
    <3> HIDE DEF r
    <3>6. stack' = <<Game(FlushCalls)>> \o (<<r>> \o Under)
      <4>1. Under \in Seq(Frame)
        BY <2>1, <1>3, Zenon DEF Framed
      <4> QED
        <5>1. <<Game(FlushCalls), r>> \o Under = <<Game(FlushCalls)>> \o (<<r>> \o Under)
          BY <4>1, <3>2, <1>2, Stacked, Zenon
        <5> QED
          BY <5>1, <3>1, Zenon
    <3>7. Framed(<<r>> \o Under)
      BY <3>2, <3>3, <3>5, <1>3, <2>1, Framing
    <3>8. Framed(stack')
      BY <3>3, <3>6, <3>7, <1>2, <1>5, Framing
    <3> QED
      BY <2>1, <3>5, <3>8 DEF Calmed, Framed, Busy
  <2> QED
    BY <2>2, <2>3
<1>12. CASE finish
  <2>1. stack # <<>> /\ top.at = "finish" /\ UNCHANGED <<queue, flush_waiters>>
    BY <1>12, Zenon DEF finish, TopIs, database
  <2>2. CASE state # "closing"
    <3>1. stack' = Under /\ UNCHANGED state
      BY <1>12, <2>2, Zenon DEF finish, database
    <3> QED
      BY <2>1, <3>1, <1>7
  <2>3. CASE state = "closing"
    <3>1. stack' = <<Game(AnswerCalls)>> \o Under
      BY <1>12, <2>3, Zenon DEF finish
    <3>2. ~Quiet(top) /\ Finishing(stack)
      BY <2>1, UnderCalm DEF Quiet
    <3>3. ~Finishing(Under)
      BY <2>1, <3>2, UnderCalm
    <3>4. Framed(stack') /\ ~Finishing(stack')
      BY <2>1, <3>1, <3>3, <1>2, <1>3, <1>5, Framing
    <3>5. flush_waiters' = <<>>
      BY <2>1, <2>3, <3>2 DEF Calmed
    <3> QED
      BY <3>4, <3>5, <1>6
  <2> QED
    BY <2>2, <2>3
<1>13. CASE pump
  <2>1. stack # <<>> /\ top.at = "pump" /\ UNCHANGED <<state, flush_waiters>>
    BY <1>13, Zenon DEF pump, TopIs
  <2>2. CASE connection = 0 \/ Issuable(top.row) = {}
    BY <2>1, <2>2, <1>7, <1>13, Zenon DEF pump
  <2>3. CASE ~(connection = 0 \/ Issuable(top.row) = {})
    <3> DEFINE i == Min(Issuable(top.row))
               p == Pump(i + 1)
               t == <<p>> \o Under
    <3>1. /\ i \in Nat /\ queue[i].sequence \in Nat /\ queue # <<>>
      <4>1. i \in DOMAIN queue /\ queue[i].sequence \in 1 .. MaxOps
        BY <2>3, <1>13, Issued, Zenon DEF pump
      <4> QED
        BY <4>1 DEF Typed, QueueTyped
    <3>2. p \in Frame /\ p.at = "pump"
      BY <3>1, Frames
    <3>3. stack' = Answers(queue[i].sequence) \o <<p>> \o Under
      BY <2>3, <1>13, Zenon DEF pump
    <3>4. Finishing(Under) => ~Prompt /\ Busy /\ Finishing(stack)
      <4>1. ~Empty(top) /\ (Quiet(top) => ~Prompt)
        BY <2>1 DEF Empty, Quiet
      <4> QED
        BY <2>1, <4>1, UnderCalm
    <3>5. Finishing(Under) => Quiet(p)
      BY <3>2, <3>4 DEF Quiet
    <3> HIDE DEF i, p
    <3>6. /\ Framed(t) /\ (Finishing(t) => Finishing(Under))
      BY <3>2, <3>5, <2>1, <1>3, Framing
    <3>7. stack' = IF Prompt THEN <<Reply(queue[i].sequence)>> \o t ELSE t
      <4>1. Under \in Seq(Frame) /\ t \in Seq(Frame)
        BY <2>1, <3>6, <1>3, Zenon DEF Framed
      <4>2. stack' = Answers(queue[i].sequence) \o t
        BY <4>1, <3>1, <3>2, <3>3, AnswersAssociate, Zenon
      <4> HIDE DEF t
      <4> QED
        BY <4>1, <4>2, <3>1, Replied, Zenon
    <3> HIDE DEF t
    <3>8. Framed(stack') /\ (Finishing(stack') => Finishing(Under))
      <4>1. CASE ~Prompt
        BY <4>1, <3>6, <3>7
      <4>2. CASE Prompt
        <5>1. Reply(queue[i].sequence) \in Frame
          BY <3>1, Frames
        <5> QED
          BY <4>2, <5>1, <3>4, <3>6, <3>7, <1>5, Framing
      <4> QED
        BY <4>1, <4>2
    <3>9. Finishing(stack') => Busy /\ state # "closing"
      BY <3>1, <3>4, <3>8 DEF Calmed
    <3> QED
      BY <2>1, <3>8, <3>9, OccupiedFinishes DEF Calmed, Framed, Busy
  <2> QED
    BY <2>2, <2>3
<1>14. CASE settle
  <2>1. stack # <<>> /\ top.at = "settle" /\ UNCHANGED <<state, queue>>
    BY <1>14, Zenon DEF settle, TopIs
  <2>2. ~Finishing(Under)
    <3>1. ~Quiet(top)
      BY <2>1 DEF Quiet
    <3> QED
      BY <2>1, <3>1, UnderCalm
  <2> DEFINE t == <<Pump(1)>> \o Under
             u == <<Finish>> \o t
  <2>3. Framed(t) /\ ~Finishing(t)
    BY <2>1, <2>2, <1>2, <1>3, <1>5, Framing
  <2>4. CASE queue # <<>>
    <3>1. stack' = t /\ UNCHANGED flush_waiters
      BY <1>14, <2>4, Zenon DEF settle
    <3> QED
      BY <2>1, <2>3, <3>1, <1>6 DEF Calmed, Busy
  <2>5. CASE queue = <<>>
    <3>1. flush_waiters' = <<>> /\ stack' = <<Release(flush_waiters), Finish, Pump(1)>> \o Under
      BY <1>14, <2>5, Zenon DEF settle
    <3>2. stack' = <<Release(flush_waiters)>> \o u
      <4>1. Under \in Seq(Frame)
        BY <2>1, <1>3, Zenon DEF Framed
      <4> QED
        <5>1. <<Release(flush_waiters), Finish, Pump(1)>> \o Under = <<Release(flush_waiters)>> \o u
          BY <4>1, <1>2, StackedSettle
        <5> HIDE DEF u
        <5> QED
          BY <3>1, <5>1
    <3> HIDE DEF t
    <3>3. Framed(u) /\ ~Occupied(u) /\ u # <<>> /\ u[1].at = "finish"
      BY <2>3, <1>2, <1>5, Framing
    <3>4. Quiet(Release(flush_waiters))
      BY <1>5 DEF Quiet
    <3> HIDE DEF u
    <3>5. Framed(stack') /\ (Occupied(stack') => ~Empty(Release(flush_waiters)))
      BY <3>2, <3>3, <3>4, <1>2, <1>5, Framing
    <3>6. Occupied(stack') => Busy
      BY <3>5, <1>5 DEF Empty, Calmed
    <3> QED
      BY <2>1, <2>5, <3>1, <3>5, <3>6 DEF Calmed, Framed, Busy
  <2> QED
    BY <2>4, <2>5
<1>15. CASE GameReturns \/ AnswersLater
  <2>1. stack # <<>> /\ stack' = Under /\ UNCHANGED <<state, queue, flush_waiters>>
    BY <1>15, Zenon DEF GameReturns, AnswersLater, TopIs, database
  <2> QED
    BY <2>1, <1>7
<1>16. ASSUME NEW f \in flight, NEW ok \in BOOLEAN, stage_patch(f, ok) \/ settled(f, ok)
       PROVE  Calmed'
  <2>1. /\ stack = <<>> \/ top.at = "reply"
        /\ UNCHANGED <<state, flush_waiters>>
    BY <1>16, Zenon DEF stage_patch, settled, Answered, TopIs
  <2>2. Framed(rest) /\ ~Finishing(rest)
    BY <2>1, RestCalm DEF Framed
  <2>3. Framed(stack') /\ ~Finishing(stack')
    <3>1. CASE stage_patch(f, ok)
      <4>1. f.sequence \in Nat
        BY DEF Typed, FlightTyped, Outstanding, Sequences
      <4>2. stack' = IF Prompt THEN <<Reply(f.sequence)>> \o rest ELSE rest
        BY <3>1, <4>1, <2>2, Replied DEF stage_patch, Framed
      <4>3. Reply(f.sequence) \in Frame /\ Reply(f.sequence).at = "reply"
        BY <4>1, Frames
      <4> QED
        BY <2>2, <4>2, <4>3, Framing
    <3>2. CASE settled(f, ok)
      <4>1. stack' = <<Game(AnswerCalls), Settle>> \o rest
        BY <3>2, Zenon DEF settled
      <4>2. stack' = <<Game(AnswerCalls)>> \o (<<Settle>> \o rest)
        <5>1. rest \in Seq(Frame)
          BY <2>2, Zenon DEF Framed
        <5> QED
          BY <4>1, <5>1, <1>2, Stacked, Zenon
      <4>3. Framed(<<Settle>> \o rest) /\ ~Finishing(<<Settle>> \o rest)
        BY <2>2, <1>2, <1>5, Framing
      <4> QED
        BY <4>2, <4>3, <1>2, <1>5, Framing
    <3> QED
      BY <3>1, <3>2, <1>16
  <2> QED
    BY <2>1, <2>3, <1>6 DEF Calmed, Busy
<1>17. ASSUME NEW c \in DOMAIN conns, NEW ok \in BOOLEAN, connected(c, ok)
       PROVE  Calmed'
  <2>1. /\ stack = <<>> \/ top.at = "made"
        /\ UNCHANGED flush_waiters /\ state = "opening"
        /\ \/ stack' = <<Game(AnswerCalls)>> \o <<>> \o rest
           \/ stack' = <<Game(AnswerCalls)>> \o <<Pump(1)>> \o rest
    BY <1>17, Zenon DEF connected, Connects, stale, TopIs
  <2>2. Framed(rest) /\ ~Finishing(rest)
    <3>1. CASE stack = <<>>
      BY <3>1, RestCalm DEF Framed
    <3>2. CASE stack # <<>>
      <4>1. ~Empty(top) /\ rest = Under
        BY <2>1, <3>2 DEF Empty, rest
      <4> QED
        BY <2>1, <3>2, <4>1, <1>3, UnderCalm DEF Busy
    <3> QED
      BY <3>1, <3>2
  <2>3. /\ <<Game(AnswerCalls)>> \o <<>> \o rest = <<Game(AnswerCalls)>> \o rest
        /\ <<Game(AnswerCalls)>> \o <<Pump(1)>> \o rest = <<Game(AnswerCalls)>> \o (<<Pump(1)>> \o rest)
    <3>1. rest \in Seq(Frame)
      BY <2>2 DEF Framed
    <3> QED
      BY <3>1, <1>2, Stacked, Zenon
  <2>4. Framed(<<Pump(1)>> \o rest) /\ ~Finishing(<<Pump(1)>> \o rest)
    BY <2>2, <1>2, <1>5, Framing
  <2> DEFINE u == <<Pump(1)>> \o rest
  <2>5. stack' = <<Game(AnswerCalls)>> \o rest \/ stack' = <<Game(AnswerCalls)>> \o u
    BY <2>1, <2>3, Zenon
  <2> HIDE DEF u
  <2>6. Framed(stack') /\ ~Finishing(stack')
    <3>1. Framed(u) /\ ~Finishing(u)
      BY <2>4 DEF u
    <3> QED
      <4>1. CASE stack' = <<Game(AnswerCalls)>> \o rest
        BY <4>1, <2>2, <1>2, <1>5, Framing
      <4>2. CASE stack' = <<Game(AnswerCalls)>> \o u
        BY <4>2, <3>1, <1>2, <1>5, Framing
      <4> QED
        BY <2>5, <4>1, <4>2
  <2>7. flush_waiters' = <<>>
    BY <2>1 DEF Calmed, Busy
  <2> QED
    BY <2>6, <2>7, <1>6
<1>18. ASSUME NEW c \in DOMAIN conns, NEW ok \in BOOLEAN, discard(c, ok)
       PROVE  Calmed'
  <2>1. stack' = rest /\ UNCHANGED <<state, queue, flush_waiters>>
    BY <1>18, Zenon DEF discard, Connects
  <2>2. CASE stack # <<>>
    BY <2>1, <2>2, <1>7 DEF rest
  <2>3. CASE stack = <<>>
    <3>1. Framed(rest) /\ ~Finishing(rest)
      BY <2>3, RestCalm DEF Framed
    <3> QED
      BY <2>1, <3>1, <1>6 DEF Calmed, Busy
  <2> QED
    BY <2>2, <2>3
<1>19. CASE close
  <2> DEFINE overtaken == IF state = "opening" THEN <<Game(AnswerCalls)>> ELSE <<>>
             t == overtaken \o stack
  <2>1. /\ May("close") /\ state' = "closing" /\ UNCHANGED queue
        /\ \/ /\ queue = <<>> /\ flush_waiters' = <<>>
              /\ stack' = <<Release(flush_waiters), Finish>> \o overtaken \o stack
           \/ UNCHANGED flush_waiters /\ stack' = t
    BY <1>19, Zenon DEF close
  <2>2. ~Finishing(stack)
    BY <2>1, GameTop DEF Calm
  <2>3. Framed(t) /\ ~Finishing(t)
    <3>1. CASE state = "opening"
      BY <3>1, <2>2, <1>1, <1>2, <1>5, Framing
    <3>2. CASE state # "opening"
      BY <3>2, <2>2, <1>1, PushedNone DEF Framed
    <3> QED
      BY <3>1, <3>2
  <2>4. Busy'
    BY <2>1 DEF Busy
  <2>5. CASE stack' = t
    BY <2>3, <2>4, <2>5, <1>6
  <2>6. CASE /\ queue = <<>> /\ flush_waiters' = <<>>
             /\ stack' = <<Release(flush_waiters), Finish>> \o overtaken \o stack
    <3> DEFINE u == <<Finish>> \o t
    <3>1. overtaken \in Seq(Frame)
      BY <1>2
    <3> HIDE DEF overtaken
    <3>2. <<Release(flush_waiters), Finish>> \o overtaken \o stack
             = <<Release(flush_waiters), Finish>> \o t
      <4>1. <<Release(flush_waiters), Finish>> \in Seq(Frame) /\ stack \in Seq(Frame)
        BY <1>1, <1>2 DEF Framed
      <4> QED
        <5>1. Regrouped(<<Release(flush_waiters), Finish>>, overtaken, stack)
          BY <3>1, <4>1, Regroups, Zenon
        <5> QED
          BY <5>1, Zenon DEF Regrouped
    <3> HIDE DEF t
    <3>3. stack' = <<Release(flush_waiters)>> \o u
      <4>1. t \in Seq(Frame)
        BY <2>3, Zenon DEF Framed
      <4> QED
        BY <4>1, <2>6, <3>2, <1>2, Stacked, Zenon
    <3>4. Framed(u) /\ u # <<>> /\ u[1].at = "finish"
      BY <2>3, <1>2, <1>5, Framing
    <3>5. Quiet(Release(flush_waiters))
      BY <1>5 DEF Quiet
    <3> HIDE DEF u
    <3>6. Framed(stack')
      BY <3>3, <3>4, <3>5, <1>2, <1>5, Framing
    <3> QED
      BY <2>1, <2>4, <2>6, <3>6 DEF Calmed, Framed
  <2> QED
    BY <2>1, <2>5, <2>6
<1>20. CASE clear
  <2>1. stack = <<>> /\ UNCHANGED stack /\ flush_waiters' = <<>>
    BY <1>20, Zenon DEF clear
  <2>2. rest = stack
    BY <2>1 DEF rest
  <2>3. ~Finishing(stack)
    BY <2>1, <2>2, RestCalm
  <2> QED
    BY <2>1, <2>3, <1>1, <1>6
<1> QED
  BY <1>8, <1>9, <1>10, <1>11, <1>12, <1>13, <1>14, <1>15, <1>16, <1>17, <1>18, <1>19, <1>20,
     Zenon DEF Next, Inside, Backend, GameCalls

-----------------------------------------------------------------------------
(* What the steps on the queue do, once for all that is proved of them. *)

\* The row a walk of the queue issues, and what the connection is asked for it.
chosen == Min(Issuable(top.row))
asked == Ask(queue[chosen].sequence, queue[chosen].op \notin {"read", "patch"}, {})
again(f) == Ask(f.sequence, TRUE, read(f))

\* The rows stay what they are, but for what is marked on one of them.
Same(k) ==
    /\ DOMAIN queue' = DOMAIN queue /\ Queued' = Queued /\ Len(queue') = Len(queue)
    /\ \A i \in DOMAIN queue :
        /\ queue'[i].sequence = queue[i].sequence
        /\ queue'[i].op = queue[i].op
        /\ queue'[i].locks = queue[i].locks
        /\ queue'[i].generation = queue[i].generation
        /\ i # k => queue'[i] = queue[i]

LEMMA Issues ==
    ASSUME Assumptions, Typed, pump, connection # 0, Issuable(top.row) # {}
    PROVE  /\ chosen \in DOMAIN queue /\ ~queue[chosen].issued /\ Free(queue[chosen])
           /\ UNCHANGED <<state, generation, connection, conns, store, ops, ended>> /\ ~ended
           /\ held' = [r \in Records |->
                IF r \in queue[chosen].locks THEN queue[chosen].sequence ELSE held[r]]
           /\ Same(chosen)
           /\ queue'[chosen].issued /\ queue'[chosen].staged = queue[chosen].staged
           /\ flight' = flight \cup {asked}
           /\ asked.sequence = queue[chosen].sequence /\ asked.conn = connection
           /\ asked.write <=> queue[chosen].op \notin {"read", "patch"}
           /\ queue[chosen].sequence \in DOMAIN ops /\ queue[chosen].sequence \in Queued
           /\ queue[chosen].sequence \in 1 .. MaxOps
<1>1. TopIs("pump") /\ ~ended
  <2>1. TopIs("pump") /\ stack # <<>>
    BY Zenon DEF pump, TopIs
  <2> QED
    BY <2>1 DEF Typed, StackTyped
<1>2. /\ chosen \in DOMAIN queue /\ ~queue[chosen].issued /\ Free(queue[chosen])
      /\ queue[chosen].sequence \in DOMAIN ops /\ queue[chosen].sequence \in 1 .. MaxOps
  BY <1>1, Issued, Zenon DEF chosen
<1>3. /\ UNCHANGED <<state, generation, connection, conns, store, ops, ended>>
      /\ held' = [r \in Records |->
                IF r \in queue[chosen].locks THEN queue[chosen].sequence ELSE held[r]]
      /\ queue' = [queue EXCEPT ![chosen].issued = TRUE]
      /\ flight' = flight \cup {asked}
  BY Zenon DEF pump, history, chosen, asked
<1>4. QueueTyped /\ RowsMatch
  BY DEF Typed
<1>5. /\ Same(chosen)
      /\ queue'[chosen].issued /\ queue'[chosen].staged = queue[chosen].staged
  <2>1. /\ queue' \in Seq(Pending) /\ DOMAIN queue' = DOMAIN queue
        /\ Queued' = Queued
        /\ \A i \in DOMAIN queue :
            /\ queue'[i].sequence = queue[i].sequence
            /\ queue'[i].op = queue[i].op
            /\ queue'[i].locks = queue[i].locks
            /\ queue'[i].generation = queue[i].generation
            /\ i # chosen => queue'[i] = queue[i]
        /\ queue'[chosen].issued /\ queue'[chosen].staged = queue[chosen].staged
    BY <1>2, <1>3, <1>4, Marked
  <2>2. Len(queue') = Len(queue)
    BY <2>1, <1>4 DEF QueueTyped
  <2> QED
    BY <2>1, <2>2, Zenon DEF Same
<1>6. /\ asked.sequence = queue[chosen].sequence /\ asked.conn = connection
      /\ asked.write <=> queue[chosen].op \notin {"read", "patch"}
  BY DEF asked, Ask
<1>7. queue[chosen].sequence \in Queued
  BY <1>2, Zenon DEF Queued
<1> QED
  BY <1>1, <1>2, <1>3, <1>5, <1>6, <1>7, Zenon

LEMMA Idles ==
    ASSUME pump, connection = 0 \/ Issuable(top.row) = {}
    PROVE  /\ UNCHANGED <<state, generation, connection, conns, store, ops, ended>>
           /\ UNCHANGED <<queue, held, flight>> /\ stack' = Under
BY Zenon DEF pump, history

\* What staging the read of a patch leaves of its row.
Restaged(f) ==
    /\ RowOf(f.sequence) \in DOMAIN queue /\ queue[RowOf(f.sequence)].sequence = f.sequence
    /\ \A i \in DOMAIN queue : queue[i].sequence = f.sequence => i = RowOf(f.sequence)
    /\ queue[RowOf(f.sequence)].op = "patch" /\ ~queue[RowOf(f.sequence)].staged
    /\ UNCHANGED <<state, generation, connection, conns, store, ops, held, ended>> /\ ~ended
    /\ Same(RowOf(f.sequence))
    /\ queue'[RowOf(f.sequence)].staged
    /\ \A i \in DOMAIN queue : queue'[i].issued = queue[i].issued
    /\ flight' = (flight \ {f}) \cup {again(f)}
    /\ again(f).sequence = f.sequence /\ again(f).conn = connection
    /\ again(f).write /\ again(f).base = read(f)

LEMMA Stages ==
    ASSUME Assumptions, Typed, NEW f \in flight, NEW ok \in BOOLEAN, stage_patch(f, ok)
    PROVE  Restaged(f)
<1> DEFINE k == RowOf(f.sequence)
<1>1. /\ UNCHANGED <<state, generation, connection, conns, store, ops, held, ended>> /\ ~ended
      /\ queue' = [queue EXCEPT ![k].staged = TRUE]
      /\ flight' = (flight \ {f}) \cup {again(f)}
      /\ queue[k].op = "patch" /\ ~queue[k].staged
  BY Zenon DEF stage_patch, Answered, Staging, history, again
<1>2. QueueTyped /\ RowsMatch /\ Sorted /\ f.sequence \in Queued
  BY <1>1 DEF Typed, FlightTyped
<1>3. /\ k \in DOMAIN queue /\ queue[k].sequence = f.sequence
      /\ \A i \in DOMAIN queue : queue[i].sequence = f.sequence => i = k
  BY <1>2, OneRow
<1> HIDE DEF k
<1>4. Same(k) /\ queue'[k].staged /\ queue'[k].issued = queue[k].issued
  <2>1. /\ queue' \in Seq(Pending) /\ DOMAIN queue' = DOMAIN queue
        /\ Queued' = Queued
        /\ \A i \in DOMAIN queue :
            /\ queue'[i].sequence = queue[i].sequence
            /\ queue'[i].op = queue[i].op
            /\ queue'[i].locks = queue[i].locks
            /\ queue'[i].generation = queue[i].generation
            /\ i # k => queue'[i] = queue[i]
        /\ queue'[k].staged /\ queue'[k].issued = queue[k].issued
    BY <1>1, <1>2, <1>3, Marked
  <2>2. Len(queue') = Len(queue)
    BY <2>1, <1>2 DEF QueueTyped
  <2> QED
    BY <2>1, <2>2, Zenon DEF Same
<1>5. \A i \in DOMAIN queue : queue'[i].issued = queue[i].issued
  BY <1>4, Zenon DEF Same
<1>6. /\ again(f).sequence = f.sequence /\ again(f).conn = connection
      /\ again(f).write /\ again(f).base = read(f)
  BY DEF again, Ask
<1> QED
  BY <1>1, <1>3, <1>4, <1>5, <1>6, Zenon DEF k, Restaged

\* What settling an answered operation leaves of its row.
Settled(f, ok) ==
    /\ RowOf(f.sequence) \in DOMAIN queue /\ queue[RowOf(f.sequence)].sequence = f.sequence
    /\ \A i \in DOMAIN queue : queue[i].sequence = f.sequence => i = RowOf(f.sequence)
    /\ UNCHANGED <<state, generation, connection, conns, ops, ended>> /\ ~ended
    /\ held' = [r \in Records |->
         IF r \in ops[f.sequence].locks /\ held[r] = f.sequence THEN 0 ELSE held[r]]
    /\ Len(queue') = Len(queue) - 1 /\ DOMAIN queue' = 1 .. Len(queue) - 1
    /\ Queued' = Queued \ {f.sequence}
    /\ \A i \in DOMAIN queue' :
         /\ Was(i, RowOf(f.sequence)) \in DOMAIN queue
         /\ Was(i, RowOf(f.sequence)) # RowOf(f.sequence)
         /\ queue'[i] = queue[Was(i, RowOf(f.sequence))]
    /\ \A i, j \in DOMAIN queue' :
         i < j => Was(i, RowOf(f.sequence)) < Was(j, RowOf(f.sequence))
    /\ flight' = flight \ {f}
    /\ store' = IF ok /\ f.write THEN written(f) ELSE store
    /\ f.sequence \in DOMAIN ops /\ f.sequence \in 1 .. MaxOps

LEMMA Settles ==
    ASSUME Assumptions, Typed, NEW f \in flight, NEW ok \in BOOLEAN, settled(f, ok)
    PROVE  Settled(f, ok)
<1>1. /\ UNCHANGED <<state, generation, connection, conns, ops, ended>> /\ ~ended
      /\ held' = [r \in Records |->
                IF r \in ops[f.sequence].locks /\ held[r] = f.sequence THEN 0 ELSE held[r]]
      /\ queue' = RemoveAt(queue, RowOf(f.sequence))
      /\ flight' = flight \ {f}
      /\ store' = IF ok /\ f.write THEN written(f) ELSE store
  BY Zenon DEF settled, Answered, retire, history
<1>2. QueueTyped /\ RowsMatch /\ Sorted /\ f.sequence \in Queued
  BY <1>1 DEF Typed, FlightTyped
<1>3. f.sequence \in DOMAIN ops /\ f.sequence \in 1 .. MaxOps
  BY Answerable DEF Sequences
<1> QED
  BY <1>1, <1>2, <1>3, OneRow, TakenOut, Zenon DEF Settled

LEMMA Admits ==
    ASSUME Assumptions, Typed, NEW w \in Works, admit(w)
    PROVE  /\ UNCHANGED <<state, generation, connection, conns, store, held, flight, ended>>
           /\ ~ended /\ state = "open" /\ connection # 0
           /\ Len(ops) \in Nat /\ Len(ops') = Len(ops) + 1
           /\ Len(ops') \in DOMAIN ops' /\ Len(ops') \notin DOMAIN ops
           /\ DOMAIN ops' = DOMAIN ops \cup {Len(ops')}
           /\ Len(ops') \in 1 .. MaxOps
           /\ ops'[Len(ops')].locks = w.locks /\ ops'[Len(ops')].op = w.op
           /\ ops'[Len(ops')].conn = connection
           /\ \A i \in DOMAIN ops : ops'[i] = ops[i]
           /\ Len(queue) \in Nat /\ Len(queue') = Len(queue) + 1
           /\ Len(queue') \in DOMAIN queue' /\ Len(queue') \notin DOMAIN queue
           /\ DOMAIN queue' = DOMAIN queue \cup {Len(queue')}
           /\ queue'[Len(queue')].sequence = Len(ops')
           /\ queue'[Len(queue')].locks = w.locks /\ queue'[Len(queue')].op = w.op
           /\ queue'[Len(queue')].generation = generation
           /\ ~queue'[Len(queue')].issued /\ ~queue'[Len(queue')].staged
           /\ \A i \in DOMAIN queue : queue'[i] = queue[i] /\ i < Len(queue')
           /\ Queued' = Queued \cup {Len(ops')} /\ Len(ops') \notin Queued
           /\ w.locks \in SUBSET Records
<1> DEFINE s == Len(ops) + 1
           row == [sequence |-> s, op |-> w.op, locks |-> w.locks, generation |-> generation,
                   issued |-> FALSE, staged |-> FALSE]
           rec == [op |-> w.op, locks |-> w.locks, conn |-> connection]
<1> USE Bounds
<1>1. /\ Len(ops) < MaxOps /\ state = "open" /\ ~ended
      /\ ops' = Append(ops, rec) /\ queue' = Append(queue, row)
      /\ UNCHANGED <<state, generation, connection, conns, store, held, flight, ended>>
  BY Zenon DEF admit, external, May
<1>2. /\ QueueTyped /\ RowsMatch /\ StateTyped
  BY DEF Typed
<1>3. w.op \in Kinds /\ w.locks \in SUBSET Records
  BY DEF Assumptions, WorksAssumption, Kinds
<1>4. Len(ops) \in Nat /\ s \in Sequences /\ generation \in Nat /\ connection \in Nat
      /\ connection # 0
  BY <1>1, <1>2, Rows DEF StateTyped, Sequences
<1>5. row \in Pending
  BY <1>3, <1>4 DEF Pending, Kinds
<1>6. rec \in Asked
  BY <1>3, <1>4 DEF Asked
<1>7. /\ rec.op = w.op /\ rec.locks = w.locks /\ rec.conn = connection
      /\ row.op = w.op /\ row.locks = w.locks
      /\ row.sequence = s /\ row.generation = generation /\ ~row.issued /\ ~row.staged
  OBVIOUS
<1> HIDE DEF row, rec
<1>8. /\ Len(ops') = s /\ ops'[s] = rec
      /\ \A i \in 1 .. Len(ops) : ops'[i] = ops[i]
  BY <1>1, <1>2, <1>6, Appended DEF QueueTyped
<1>9. /\ Len(queue') = Len(queue) + 1
      /\ queue'[Len(queue) + 1] = row
      /\ \A i \in 1 .. Len(queue) : queue'[i] = queue[i]
  BY <1>1, <1>2, <1>5, Appended DEF QueueTyped
<1>10. /\ DOMAIN queue = 1 .. Len(queue) /\ Len(queue) \in Nat
       /\ DOMAIN queue' = 1 .. Len(queue) + 1
       /\ DOMAIN ops = 1 .. Len(ops) /\ DOMAIN ops' = 1 .. s
  BY <1>1, <1>2, <1>5, <1>6, Rows, Appended DEF QueueTyped
<1>11. /\ Len(ops') \in DOMAIN ops' /\ Len(ops') \notin DOMAIN ops
       /\ DOMAIN ops' = DOMAIN ops \cup {Len(ops')} /\ Len(ops') \in 1 .. MaxOps
       /\ Len(queue') \in DOMAIN queue' /\ Len(queue') \notin DOMAIN queue
       /\ DOMAIN queue' = DOMAIN queue \cup {Len(queue')}
       /\ \A i \in DOMAIN queue : i < Len(queue')
  BY <1>4, <1>8, <1>9, <1>10 DEF Sequences
<1>12. Len(ops') \notin Queued
  BY <1>2, <1>11, Rows
<1>13. Queued' = Queued \cup {Len(ops')}
  <2>1. queue'[Len(queue')].sequence = Len(ops')
    BY <1>7, <1>8, <1>9
  <2>2. \A i \in DOMAIN queue : queue'[i] = queue[i]
    BY <1>9, <1>10
  <2> HIDE DEF s
  <2> DEFINE n == Len(queue')
             v == Len(ops')
  <2>3. DOMAIN queue' = DOMAIN queue \cup {n} /\ n \in DOMAIN queue' /\ queue'[n].sequence = v
    BY <2>1, <1>11
  <2> HIDE DEF n, v
  <2>4. \A i \in DOMAIN queue' : queue'[i].sequence \in Queued \cup {v}
    BY <2>2, <2>3, Zenon DEF Queued
  <2>5. \A i \in DOMAIN queue : queue[i].sequence \in Queued'
    BY <2>2, <2>3, Zenon DEF Queued
  <2>6. v \in Queued'
    BY <2>3, Zenon DEF Queued
  <2> QED
    BY <2>4, <2>5, <2>6, Zenon DEF Queued, v
<1> HIDE DEF s
<1>14. s = Len(ops) + 1
  BY DEF s
<1> QED
  BY <1>1, <1>3, <1>4, <1>7, <1>8, <1>9, <1>10, <1>11, <1>12, <1>13, <1>14, Zenon

\* Whatever else may happen leaves the operations alone.
still == <<queue, held, flight, store, ops, ended>>
LEMMA Others ==
    ASSUME Next
    PROVE  \/ \E w \in Works : admit(w)
           \/ \E f \in flight, ok \in BOOLEAN : stage_patch(f, ok) \/ settled(f, ok)
           \/ pump \/ finish \/ clear
           \/ UNCHANGED still
<1>1. ASSUME NEW s \in Slots, open(s)
      PROVE  UNCHANGED still
  BY <1>1, Zenon DEF open, still, history
<1>2. ASSUME NEW c \in DOMAIN conns, NEW ok \in BOOLEAN, connected(c, ok) \/ discard(c, ok)
      PROVE  UNCHANGED still
  BY <1>2, Zenon DEF connected, discard, Connects, still, history
<1>3. close \/ flush \/ release_waiters \/ settle \/ GameReturns \/ AnswersLater
        => UNCHANGED still
  BY Zenon DEF close, flush, release_waiters, settle, GameReturns, AnswersLater,
     database, external, history, still
<1> QED
  BY <1>1, <1>2, <1>3, Zenon DEF Next, Inside, Backend, GameCalls

\* What is queued keeps the connection it was admitted on.
LEMMA WorkingStep ==
    ASSUME Assumptions, Calm, Typed, Calmed, Working, Next
    PROVE  Working'
<1> USE Bounds
<1>1. /\ QueueTyped /\ Sorted /\ RowsMatch /\ RowsServed /\ FlightTyped /\ StateTyped
  BY DEF Typed
<1>2. DOMAIN conns = 1 .. Len(conns) /\ Len(conns) \in Nat
  BY <1>1 DEF StateTyped
<1>3. connection # 0 => connection \in DOMAIN conns
  BY <1>1, <1>2 DEF StateTyped
\* What leaves the queue and the connections alone.
<1>4. ASSUME UNCHANGED <<queue, flight, ops, generation, connection, conns>>, Busy => Busy'
      PROVE  Working'
  BY <1>4 DEF Working
<1>5. ASSUME NEW s \in Slots, open(s)
      PROVE  Working'
  <2> DEFINE n == [slot |-> s, is |-> "connecting", closed |-> FALSE,
                   bound |-> IF state = "closed" THEN generation ELSE 0]
  <2>1. /\ UNCHANGED <<queue, flight, ops, generation, connection>>
        /\ conns' = Append(conns, n)
        /\ (state' = "opening" /\ state = "closed") \/ UNCHANGED state
    BY <1>5, Zenon DEF open, history
  <2>2. n.is = "connecting" /\ ~n.closed
    OBVIOUS
  <2>3. n \in Conn
    BY <1>1 DEF Conn, StateTyped
  <2> HIDE DEF n
  <2>4. /\ \A c \in DOMAIN conns : conns'[c] = conns[c]
        /\ \A c \in DOMAIN conns' : c \in DOMAIN conns \/ conns'[c] = n
    BY <2>1, <2>3, <1>1, <1>2 DEF StateTyped
  <2>5. Busy => Busy'
    BY <2>1 DEF Busy
  <2> QED
    BY <2>1, <2>2, <2>4, <2>5, <1>3 DEF Working
<1>6. ASSUME NEW c \in DOMAIN conns, NEW ok \in BOOLEAN, connected(c, ok)
      PROVE  Working'
  <2>1. /\ UNCHANGED <<queue, flight, ops, generation>> /\ state = "opening"
        /\ conns[c].is = "connecting"
        /\ conns' = [conns EXCEPT ![c].is = IF ok THEN "made" ELSE "failed"]
        /\ connection' = IF ok THEN c ELSE 0
    BY <1>6, Zenon DEF connected, Connects, stale, history
  <2>2. /\ DOMAIN conns' = DOMAIN conns
        /\ conns'[c].is = (IF ok THEN "made" ELSE "failed")
        /\ conns'[c].closed = conns[c].closed
        /\ \A d \in DOMAIN conns : d # c => conns'[d] = conns[d]
    <3>1. conns[c] \in Conn
      BY <1>1 DEF StateTyped
    <3> QED
      BY <2>1, <3>1 DEF Conn
  <2>3. queue = <<>>
    BY <2>1 DEF Working, Busy
  <2>4. DOMAIN queue = {}
    BY <2>3
  <2>5. ~conns[c].closed
    BY <2>1 DEF Working
  <2> QED
    BY <2>1, <2>2, <2>3, <2>4, <2>5 DEF Working
<1>7. ASSUME NEW c \in DOMAIN conns, NEW ok \in BOOLEAN, discard(c, ok)
      PROVE  Working'
  <2>1. /\ UNCHANGED <<queue, flight, ops, generation, connection, state>>
        /\ conns[c].is = "connecting"
    BY <1>7, Zenon DEF discard, Connects, history
  <2>2. /\ DOMAIN conns' = DOMAIN conns
        /\ conns'[c].is = (IF ok THEN "made" ELSE "failed")
        /\ \A d \in DOMAIN conns : d # c => conns'[d] = conns[d]
    <3>1. conns[c] \in Conn /\ conns \in Seq(Conn)
      BY <1>1 DEF StateTyped
    <3> QED
      BY <1>7, <3>1 DEF discard, Conn
  <2>3. connection # c
    <3>1. connection = 0 \/ conns[connection].is = "made"
      BY DEF Working
    <3> QED
      BY <2>1, <3>1, <1>2
  <2> QED
    BY <2>1, <2>2, <2>3, <1>3 DEF Working, Busy
<1>8. CASE finish
  <2>1. CASE state # "closing"
    <3>1. UNCHANGED <<state, queue, flight, ops, generation, connection, conns>>
      BY <1>8, <2>1, Zenon DEF finish, database, history
    <3> QED
      BY <3>1, <1>4 DEF Busy
  <2>2. CASE state = "closing"
    <3>1. /\ UNCHANGED <<queue, flight, ops>> /\ connection' = 0
          /\ conns' = [c \in DOMAIN conns |->
                          IF c = connection THEN [conns[c] EXCEPT !.closed = TRUE] ELSE conns[c]]
      BY <1>8, <2>2, Zenon DEF finish, history
    <3>2. queue = <<>>
      <4>1. stack # <<>> /\ top.at = "finish"
        BY <1>8, Zenon DEF finish, TopIs
      <4> QED
        BY <4>1, <2>2, UnderCalm DEF Calmed
    <3>3. DOMAIN queue = {}
      BY <3>2
    <3>4. \A c \in DOMAIN conns : conns[c].is = "connecting" => conns'[c] = conns[c]
      <4>1. connection = 0 \/ conns[connection].is = "made"
        BY DEF Working
      <4> QED
        BY <4>1, <3>1, <1>2
    <3>5. \A c \in DOMAIN conns : conns'[c].is = conns[c].is
      <4>1. \A c \in DOMAIN conns : conns[c] \in Conn
        BY <1>1 DEF StateTyped
      <4> QED
        BY <4>1, <3>1 DEF Conn
    <3>6. DOMAIN conns' = DOMAIN conns
      BY <3>1
    <3> QED
      BY <3>1, <3>2, <3>3, <3>4, <3>5, <3>6 DEF Working
  <2> QED
    BY <2>1, <2>2
<1>9. ASSUME NEW w \in Works, admit(w)
      PROVE  Working'
  <2>1. /\ UNCHANGED <<generation, connection, conns, flight, state>> /\ state = "open"
        /\ connection # 0
        /\ DOMAIN queue' = DOMAIN queue \cup {Len(queue')}
        /\ queue'[Len(queue')].sequence = Len(ops')
        /\ queue'[Len(queue')].generation = generation
        /\ ops'[Len(ops')].conn = connection
        /\ \A i \in DOMAIN queue : queue'[i] = queue[i]
        /\ \A i \in DOMAIN ops : ops'[i] = ops[i]
    BY <1>9, Admits, Zenon
  <2>2. \A i \in DOMAIN queue : queue[i].sequence \in DOMAIN ops
    BY <1>1, Rows
  <2>3. \A f \in flight : f.sequence \in DOMAIN ops
    BY <1>1 DEF FlightTyped
  <2>4. Busy'
    BY <2>1 DEF Busy
  <2>5. ASSUME NEW i \in DOMAIN queue'
        PROVE  queue'[i].generation = generation /\ ops'[queue'[i].sequence].conn = connection
    <3>1. CASE i \in DOMAIN queue
      <4>1. queue[i].generation = generation /\ ops[queue[i].sequence].conn = connection
        BY <3>1 DEF Working
      <4> QED
        BY <3>1, <4>1, <2>1, <2>2
    <3>2. CASE i = Len(queue')
      BY <3>2, <2>1
    <3> QED
      BY <2>1, <3>1, <3>2
  <2>6. \A f \in flight : f.conn = ops'[f.sequence].conn
    BY <2>1, <2>3 DEF Working
  <2> QED
    BY <2>1, <2>4, <2>5, <2>6 DEF Working
\* A row is marked, and the connection in use is asked.
<1>10. ASSUME NEW k \in DOMAIN queue, Same(k), NEW a,
              UNCHANGED <<state, generation, connection, conns, ops>>,
              flight' \subseteq flight \cup {a},
              a.sequence = queue[k].sequence, a.conn = connection
       PROVE  Working'
  <2>1. queue # <<>>
    BY <1>10
  <2>2. connection # 0 /\ Busy'
    BY <2>1, <1>10 DEF Working, Busy
  <2>3. \A i \in DOMAIN queue' :
            queue'[i].generation = generation /\ ops[queue'[i].sequence].conn = connection
    <3>1. /\ DOMAIN queue' = DOMAIN queue
          /\ \A i \in DOMAIN queue : /\ queue'[i].sequence = queue[i].sequence
                                   /\ queue'[i].generation = queue[i].generation
      BY <1>10 DEF Same
    <3>2. \A i \in DOMAIN queue :
              queue[i].generation = generation /\ ops[queue[i].sequence].conn = connection
      BY DEF Working
    <3> QED
      BY <3>1, <3>2
  <2>4. \A f \in flight' : f.conn = ops[f.sequence].conn
    <3>1. a.conn = ops[a.sequence].conn
      BY <1>10 DEF Working
    <3>2. \A f \in flight : f.conn = ops[f.sequence].conn
      BY DEF Working
    <3> QED
      BY <3>1, <3>2, <1>10
  <2> QED
    BY <1>10, <2>2, <2>3, <2>4 DEF Working
<1>11. CASE pump
  <2>1. CASE connection = 0 \/ Issuable(top.row) = {}
    <3>1. UNCHANGED <<state, queue, flight, ops, generation, connection, conns>>
      BY <1>11, <2>1, Idles, Zenon
    <3> QED
      BY <3>1, <1>4 DEF Busy
  <2>2. CASE connection # 0 /\ Issuable(top.row) # {}
    <3>1. /\ chosen \in DOMAIN queue /\ Same(chosen)
          /\ UNCHANGED <<state, generation, connection, conns, ops>>
          /\ flight' = flight \cup {asked}
          /\ asked.sequence = queue[chosen].sequence /\ asked.conn = connection
      BY <1>11, <2>2, Issues, Zenon
    <3>2. flight' \subseteq flight \cup {asked}
      BY <3>1
    <3> QED
      BY <3>1, <3>2, <1>10, Zenon
  <2> QED
    BY <2>1, <2>2
<1>12. ASSUME NEW f \in flight, NEW ok \in BOOLEAN, stage_patch(f, ok)
       PROVE  Working'
  <2> DEFINE k == RowOf(f.sequence)
  <2>1. /\ k \in DOMAIN queue /\ Same(k) /\ queue[k].sequence = f.sequence
        /\ UNCHANGED <<state, generation, connection, conns, ops>>
        /\ flight' = (flight \ {f}) \cup {again(f)}
        /\ again(f).sequence = f.sequence /\ again(f).conn = connection
    <3>1. Restaged(f)
      BY <1>12, Stages
    <3> QED
      BY <3>1, Zenon DEF Restaged
  <2>2. flight' \subseteq flight \cup {again(f)} /\ again(f).sequence = queue[k].sequence
    BY <2>1
  <2> HIDE DEF k
  <2> QED
    BY <2>1, <2>2, <1>10, Zenon
<1>13. ASSUME NEW f \in flight, NEW ok \in BOOLEAN, settled(f, ok)
       PROVE  Working'
  <2> DEFINE k == RowOf(f.sequence)
  <2>1. /\ k \in DOMAIN queue
        /\ UNCHANGED <<state, generation, connection, conns, ops>>
        /\ flight' = flight \ {f}
        /\ \A i \in DOMAIN queue' : Was(i, k) \in DOMAIN queue /\ queue'[i] = queue[Was(i, k)]
    <3>1. Settled(f, ok)
      BY <1>13, Settles
    <3> QED
      BY <3>1, Zenon DEF Settled
  <2>2. queue # <<>>
    BY <2>1
  <2> HIDE DEF k
  <2>3. Busy' /\ connection # 0
    BY <2>1, <2>2 DEF Working, Busy
  <2>4. \A i \in DOMAIN queue' :
            queue'[i].generation = generation /\ ops[queue'[i].sequence].conn = connection
    BY <2>1, Zenon DEF Working
  <2> QED
    BY <2>1, <2>3, <2>4 DEF Working
<1>14. CASE clear
  <2>1. queue' = <<>> /\ UNCHANGED <<flight, ops, generation, connection, conns>>
    BY <1>14, Zenon DEF clear, external, history
  <2>2. DOMAIN queue' = {}
    BY <2>1
  <2> QED
    BY <2>1, <2>2 DEF Working
<1>15. CASE close
  <2>1. /\ UNCHANGED <<queue, flight, ops, generation, connection, conns>> /\ state' = "closing"
    BY <1>15, Zenon DEF close, external
  <2> QED
    BY <2>1, <1>4 DEF Busy
<1>16. ASSUME flush \/ release_waiters \/ settle \/ GameReturns \/ AnswersLater
       PROVE  Working'
  <2>1. UNCHANGED <<state, queue, flight, ops, generation, connection, conns>>
    BY <1>16, Zenon DEF flush, release_waiters, settle, GameReturns, AnswersLater,
       database, external, history
  <2> QED
    BY <2>1, <1>4 DEF Busy
<1> QED
  BY <1>5, <1>6, <1>7, <1>8, <1>9, <1>11, <1>12, <1>13, <1>14, <1>15, <1>16,
     Zenon DEF Next, Inside, Backend, GameCalls

\* An operation that is outstanding is on the connection in use, which is open.
LEMMA WorkingServes ==
    ASSUME Assumptions, Typed, Working, ~ended, NEW f \in flight
    PROVE  /\ f.conn = connection /\ connection # 0 /\ ~conns[f.conn].closed
           /\ f.conn = ops[f.sequence].conn
<1>1. f.sequence \in Queued
  BY DEF Typed, FlightTyped
<1>2. PICK i \in DOMAIN queue : queue[i].sequence = f.sequence
  BY <1>1, Zenon DEF Queued
<1>3. queue # <<>>
  BY <1>2
<1> QED
  BY <1>2, <1>3 DEF Working

-----------------------------------------------------------------------------
(* The locks. *)

\* What is held is held by the issued operation that names it.
Exact ==
    /\ \A i \in DOMAIN queue, r \in Records :
        queue[i].issued /\ r \in queue[i].locks <=> held[r] = queue[i].sequence
    /\ \A r \in Records : held[r] # 0 => held[r] \in Queued

LEMMA ExactStep ==
    ASSUME Assumptions, Calm, Typed, Calmed, Exact, Next
    PROVE  Exact'
<1> USE Bounds
<1>1. /\ QueueTyped /\ Sorted /\ RowsMatch /\ FlightTyped
  BY DEF Typed
<1>2. /\ \A i \in DOMAIN queue : queue[i].sequence # 0 /\ queue[i].sequence \in Queued
                                 /\ queue[i].sequence \in DOMAIN ops
      /\ \A i, j \in DOMAIN queue : queue[i].sequence = queue[j].sequence => i = j
  <2>1. \A i \in DOMAIN queue : queue[i].sequence \in Queued /\ queue[i].sequence \in DOMAIN ops
    BY <1>1, Rows
  <2>2. 0 \notin DOMAIN ops
    BY <1>1, Rows
  <2>3. \A i, j \in DOMAIN queue : queue[i].sequence = queue[j].sequence => i = j
    BY <2>1, <1>1, OneRow
  <2> QED
    BY <2>1, <2>2, <2>3
<1>3. ASSUME UNCHANGED <<queue, held>>
      PROVE  Exact'
  BY <1>3 DEF Exact, Queued
<1>4. ASSUME queue' = <<>>, held' = [r \in Records |-> 0]
      PROVE  Exact'
  <2>1. DOMAIN queue' = {}
    BY <1>4
  <2> QED
    BY <2>1, <1>4 DEF Exact
<1>5. ASSUME NEW w \in Works, admit(w)
      PROVE  Exact'
  <2>1. /\ UNCHANGED held
        /\ DOMAIN queue' = DOMAIN queue \cup {Len(queue')}
        /\ queue'[Len(queue')].sequence = Len(ops')
        /\ ~queue'[Len(queue')].issued
        /\ \A i \in DOMAIN queue : queue'[i] = queue[i]
        /\ Queued' = Queued \cup {Len(ops')} /\ Len(ops') \notin Queued
        /\ Len(ops') \in 1 .. MaxOps
    BY <1>5, Admits, Zenon
  <2>2. \A r \in Records : held[r] # Len(ops')
    <3>1. Len(ops') # 0
      BY <2>1
    <3> QED
      BY <2>1, <3>1 DEF Exact
  <2>3. ASSUME NEW i \in DOMAIN queue', NEW r \in Records
        PROVE  queue'[i].issued /\ r \in queue'[i].locks <=> held'[r] = queue'[i].sequence
    <3>1. CASE i \in DOMAIN queue
      <4>1. queue[i].issued /\ r \in queue[i].locks <=> held[r] = queue[i].sequence
        BY <3>1, Zenon DEF Exact
      <4> QED
        BY <2>1, <3>1, <4>1
    <3>2. CASE i = Len(queue')
      BY <2>1, <2>2, <3>2
    <3> QED
      BY <2>1, <3>1, <3>2
  <2>4. \A r \in Records : held'[r] # 0 => held'[r] \in Queued'
    BY <2>1 DEF Exact
  <2> QED
    BY <2>3, <2>4 DEF Exact
<1>6. CASE pump
  <2>1. CASE connection = 0 \/ Issuable(top.row) = {}
    BY <1>3, <1>6, <2>1, Idles, Zenon
  <2>2. CASE connection # 0 /\ Issuable(top.row) # {}
    <3> DEFINE s == queue[chosen].sequence
    <3>1. /\ chosen \in DOMAIN queue /\ ~queue[chosen].issued /\ Free(queue[chosen])
          /\ held' = [r \in Records |-> IF r \in queue[chosen].locks THEN s ELSE held[r]]
          /\ Same(chosen) /\ queue'[chosen].issued /\ s \in Queued
      BY <1>6, <2>2, Issues, Zenon
    <3>2. \A r \in queue[chosen].locks : held[r] = 0
      BY <3>1, Zenon DEF Free
    <3> HIDE DEF s
    <3>3. ASSUME NEW i \in DOMAIN queue', NEW r \in Records
          PROVE  queue'[i].issued /\ r \in queue'[i].locks <=> held'[r] = queue'[i].sequence
      <4>1. /\ i \in DOMAIN queue /\ queue'[i].sequence = queue[i].sequence
            /\ queue'[i].locks = queue[i].locks
            /\ i # chosen => queue'[i] = queue[i]
        BY <3>1, Zenon DEF Same
      <4>2. /\ queue[i].issued /\ r \in queue[i].locks <=> held[r] = queue[i].sequence
            /\ ~(held[r] = queue[chosen].sequence)
        BY <3>1, <4>1, Zenon DEF Exact
      <4>3. CASE i = chosen
        BY <3>1, <4>1, <4>2, <4>3 DEF s
      <4>4. CASE i # chosen
        <5>1. queue[i].sequence # s /\ queue[i].sequence # 0
          BY <3>1, <4>1, <4>4, <1>2 DEF s
        <5>2. CASE r \in queue[chosen].locks
          BY <3>1, <3>2, <4>1, <4>2, <4>4, <5>1, <5>2
        <5>3. CASE r \notin queue[chosen].locks
          BY <3>1, <4>1, <4>2, <4>4, <5>3
        <5> QED
          BY <5>2, <5>3
      <4> QED
        BY <4>3, <4>4
    <3>4. \A r \in Records : held'[r] # 0 => held'[r] \in Queued'
      BY <3>1, Zenon DEF Exact, Same
    <3> QED
      BY <3>3, <3>4 DEF Exact
  <2> QED
    BY <2>1, <2>2
<1>7. ASSUME NEW f \in flight, NEW ok \in BOOLEAN, stage_patch(f, ok)
      PROVE  Exact'
  <2>1. /\ UNCHANGED held /\ Same(RowOf(f.sequence))
        /\ \A i \in DOMAIN queue : queue'[i].issued = queue[i].issued
    <3>1. Restaged(f)
      BY <1>7, Stages
    <3> QED
      BY <3>1, Zenon DEF Restaged
  <2>2. DOMAIN queue' = DOMAIN queue /\ Queued' = Queued
        /\ \A i \in DOMAIN queue : queue'[i].issued = queue[i].issued
                /\ queue'[i].locks = queue[i].locks /\ queue'[i].sequence = queue[i].sequence
    BY <2>1, Zenon DEF Same
  <2> QED
    BY <2>1, <2>2 DEF Exact
<1>8. ASSUME NEW f \in flight, NEW ok \in BOOLEAN, settled(f, ok)
      PROVE  Exact'
  <2> DEFINE s == f.sequence
             k == RowOf(s)
  <2>1. /\ k \in DOMAIN queue /\ queue[k].sequence = s
        /\ \A i \in DOMAIN queue : queue[i].sequence = s => i = k
        /\ held' = [r \in Records |-> IF r \in ops[s].locks /\ held[r] = s THEN 0 ELSE held[r]]
        /\ Queued' = Queued \ {s}
        /\ \A i \in DOMAIN queue' :
             Was(i, k) \in DOMAIN queue /\ Was(i, k) # k /\ queue'[i] = queue[Was(i, k)]
    <3>1. /\ k \in DOMAIN queue /\ queue[k].sequence = s
          /\ \A i \in DOMAIN queue : queue[i].sequence = s => i = k
          /\ Queued' = Queued \ {s}
      <4>1. Settled(f, ok)
        BY <1>8, Settles
      <4> QED
        BY <4>1, Zenon DEF Settled
    <3>2. held' = [r \in Records |-> IF r \in ops[s].locks /\ held[r] = s THEN 0 ELSE held[r]]
      BY <1>8, Zenon DEF settled, retire
    <3>3. \A i \in DOMAIN queue' :
             /\ Was(i, RowOf(f.sequence)) \in DOMAIN queue
             /\ Was(i, RowOf(f.sequence)) # RowOf(f.sequence)
             /\ queue'[i] = queue[Was(i, RowOf(f.sequence))]
      <4>1. Settled(f, ok)
        BY <1>8, Settles
      <4> QED
        BY <4>1, Zenon DEF Settled
    <3> QED
      BY <3>1, <3>2, <3>3, Zenon
  <2>2. ops[s].locks = queue[k].locks
    BY <2>1, <1>1 DEF RowsMatch
  <2> HIDE DEF k, s
  <2>3. ASSUME NEW i \in DOMAIN queue', NEW r \in Records
        PROVE  queue'[i].issued /\ r \in queue'[i].locks <=> held'[r] = queue'[i].sequence
    <3> DEFINE j == Was(i, k)
    <3>1. j \in DOMAIN queue /\ queue'[i] = queue[j] /\ queue[j].sequence # s
      BY <2>1
    <3> HIDE DEF j
    <3>2. queue[j].issued /\ r \in queue[j].locks <=> held[r] = queue[j].sequence
      BY <3>1, Zenon DEF Exact
    <3>3. held'[r] = queue[j].sequence <=> held[r] = queue[j].sequence
      BY <2>1, <3>1, <1>2
    <3> QED
      BY <3>1, <3>2, <3>3, Zenon
  <2>4. ASSUME NEW r \in Records, held'[r] # 0
        PROVE  held'[r] \in Queued'
    <3>1. held'[r] = held[r] /\ ~(r \in ops[s].locks /\ held[r] = s)
      BY <2>1, <2>4
    <3>2. held[r] \in Queued
      BY <2>4, <3>1 DEF Exact
    <3>3. held[r] # s
      BY <2>1, <2>2, <3>1, Zenon DEF Exact
    <3> QED
      BY <2>1, <3>1, <3>2, <3>3
  <2> QED
    BY <2>3, <2>4, Zenon DEF Exact
<1>9. CASE finish
  <2>1. CASE state # "closing"
    BY <1>3, <1>9, <2>1, Zenon DEF finish, database
  <2>2. CASE state = "closing"
    <3>1. stack # <<>> /\ top.at = "finish"
      BY <1>9, Zenon DEF finish, TopIs
    <3>2. queue = <<>>
      BY <3>1, <2>2, UnderCalm DEF Calmed
    <3>3. queue' = <<>> /\ held' = [r \in Records |-> 0]
      BY <1>9, <2>2, <3>2, Zenon DEF finish
    <3> QED
      BY <3>3, <1>4
  <2> QED
    BY <2>1, <2>2
<1>10. CASE clear
  BY <1>4, <1>10, Zenon DEF clear
<1>11. CASE UNCHANGED still
  BY <1>3, <1>11 DEF still
<1> QED
  BY <1>5, <1>6, <1>7, <1>8, <1>9, <1>10, <1>11, Others, Zenon

LEMMA ExactLocks ==
    ASSUME Assumptions, Typed, Exact
    PROVE  LocksAreExact
<1> SUFFICES ASSUME NEW r \in Records
             PROVE  LET takers == {i \in DOMAIN queue : queue[i].issued /\ r \in queue[i].locks} IN
                    IF held[r] = 0 THEN takers = {}
                    ELSE \E i \in takers : takers = {i} /\ queue[i].sequence = held[r]
  BY DEF LocksAreExact
<1> DEFINE takers == {i \in DOMAIN queue : queue[i].issued /\ r \in queue[i].locks}
<1>1. QueueTyped /\ RowsMatch /\ Sorted
  BY DEF Typed
<1>2. \A i \in takers : held[r] = queue[i].sequence
  BY DEF Exact
<1>3. CASE held[r] = 0
  <2>1. \A i \in DOMAIN queue : queue[i].sequence # 0
    <3>1. \A i \in DOMAIN queue : queue[i].sequence \in DOMAIN ops
      BY <1>1, Rows
    <3>2. 0 \notin DOMAIN ops
      BY <1>1, Rows
    <3> QED
      BY <3>1, <3>2
  <2>2. takers = {}
    BY <2>1, <1>2, <1>3
  <2> QED
    BY <2>2, <1>3
<1>4. CASE held[r] # 0
  <2>1. held[r] \in Queued
    BY <1>4 DEF Exact
  <2>2. PICK i \in DOMAIN queue : queue[i].sequence = held[r]
    BY <2>1, Zenon DEF Queued
  <2>3. i \in takers
    BY <2>2 DEF Exact
  <2>4. \A j \in takers : j = i
    <3>1. \A j \in DOMAIN queue : queue[j].sequence = held[r] => j = RowOf(held[r])
      BY <2>1, <1>1, OneRow
    <3> QED
      BY <2>2, <3>1, <1>2
  <2>5. takers = {i} /\ queue[i].sequence = held[r]
    BY <2>2, <2>3, <2>4
  <2> QED
    BY <2>3, <2>5, <1>4
<1> QED
  BY <1>3, <1>4

\* Two operations that are outstanding name no record of each other.
LEMMA Disjoint ==
    ASSUME Assumptions, Typed, Exact, ~ended, NEW f \in flight, NEW g \in flight, f # g
    PROVE  ops[f.sequence].locks \cap ops[g.sequence].locks = {}
<1>1. QueueTyped /\ RowsMatch /\ FlightTyped
  BY DEF Typed
<1>2. f.sequence # g.sequence
  BY <1>1 DEF FlightTyped
<1>3. ASSUME NEW h \in flight
      PROVE  \A r \in ops[h.sequence].locks : r \in Records /\ held[r] = h.sequence
  <2>1. h.sequence \in Queued
    BY <1>1 DEF FlightTyped
  <2>2. PICK i \in DOMAIN queue : queue[i].sequence = h.sequence
    BY <2>1, Zenon DEF Queued
  <2>3. queue[i].issued
    BY <2>2, <1>1, Zenon DEF FlightTyped
  <2>4. queue[i].locks = ops[h.sequence].locks
    BY <2>2, <1>1, Zenon DEF RowsMatch
  <2>5. ops[h.sequence].locks \in SUBSET Records
    BY Answerable
  <2> QED
    BY <2>2, <2>3, <2>4, <2>5 DEF Exact
<1> QED
  BY <1>2, <1>3

\* The slot of a connection stays what it was.
LEMMA SlotsStay ==
    ASSUME Assumptions, Typed, Next, NEW d \in DOMAIN conns
    PROVE  d \in DOMAIN conns' /\ conns'[d].slot = conns[d].slot
<1>1. conns \in Seq(Conn) /\ \A c \in DOMAIN conns : conns[c] \in Conn
  BY DEF Typed, StateTyped
<1>2. ASSUME NEW s \in Slots, open(s)
      PROVE  d \in DOMAIN conns' /\ conns'[d].slot = conns[d].slot
  <2>1. \E n \in Conn : conns' = Append(conns, n)
    <3> DEFINE n == [slot |-> s, is |-> "connecting", closed |-> FALSE,
                     bound |-> IF state = "closed" THEN generation ELSE 0]
    <3>1. n \in Conn
      BY DEF Conn, Typed, StateTyped
    <3>2. conns' = Append(conns, n)
      BY <1>2, Zenon DEF open
    <3> QED
      BY <3>1, <3>2, Zenon
  <2> QED
    BY <2>1, <1>1
<1>3. ASSUME NEW c \in DOMAIN conns, NEW ok \in BOOLEAN, connected(c, ok) \/ discard(c, ok)
      PROVE  d \in DOMAIN conns' /\ conns'[d].slot = conns[d].slot
  <2>1. conns[c] \in Conn
    BY <1>1
  <2>2. CASE connected(c, ok)
    <3>1. conns' = [conns EXCEPT ![c].is = IF ok THEN "made" ELSE "failed"]
      BY <2>2, Zenon DEF connected
    <3> QED
      BY <2>1, <3>1, <1>1 DEF Conn
  <2>3. CASE discard(c, ok)
    BY <2>1, <2>3, <1>1 DEF discard, Conn
  <2> QED
    BY <2>2, <2>3, <1>3
<1>4. CASE finish
  <2>1. CASE state # "closing"
    BY <1>4, <2>1, Zenon DEF finish
  <2>2. CASE state = "closing"
    <3>1. conns' = [c \in DOMAIN conns |->
                          IF c = connection THEN [conns[c] EXCEPT !.closed = TRUE] ELSE conns[c]]
      BY <1>4, <2>2, Zenon DEF finish
    <3> QED
      BY <3>1, <1>1 DEF Conn
  <2> QED
    BY <2>1, <2>2
<1>5. CASE UNCHANGED conns
  BY <1>5
<1>6. \/ \E s \in Slots : open(s)
      \/ \E c \in DOMAIN conns, ok \in BOOLEAN : connected(c, ok) \/ discard(c, ok)
      \/ finish \/ UNCHANGED conns
  <2>1. ASSUME NEW f \in flight, NEW ok \in BOOLEAN, stage_patch(f, ok) \/ settled(f, ok)
        PROVE  UNCHANGED conns
    BY <2>1, Zenon DEF stage_patch, settled
  <2>2. ASSUME NEW w \in Works, admit(w)
        PROVE  UNCHANGED conns
    BY <2>2, Zenon DEF admit, external
  <2>3. close \/ flush \/ release_waiters \/ pump \/ settle \/ GameReturns \/ AnswersLater \/ clear
            => UNCHANGED conns
    BY Zenon DEF close, flush, release_waiters, pump, settle, GameReturns, AnswersLater, clear,
       external
  <2> QED
    BY <2>1, <2>2, <2>3, Zenon DEF Next, Inside, Backend, GameCalls
<1> QED
  BY <1>2, <1>3, <1>4, <1>5, <1>6, Zenon

\* What a patch read is still there when it is written.
LEMMA PatchStep ==
    ASSUME Assumptions, Calm, Typed, Working, Exact, PatchIsCurrent, Next
    PROVE  PatchIsCurrent'
\* What is outstanding reads the same as long as its record is left alone.
<1>1. ASSUME NEW g \in flight, ops'[g.sequence] = ops[g.sequence],
             store'[conns[g.conn].slot][CHOOSE r \in ops[g.sequence].locks : TRUE]
                = store[conns[g.conn].slot][CHOOSE r \in ops[g.sequence].locks : TRUE]
      PROVE  (ops[g.sequence].op = "patch" /\ g.write => g.base = read(g))'
  <2>1. g.conn \in DOMAIN conns
    BY Answerable
  <2>2. conns'[g.conn].slot = conns[g.conn].slot
    BY <2>1, SlotsStay
  <2>3. read(g)' = read(g)
    BY <2>2, <1>1, Zenon DEF read
  <2>4. ops[g.sequence].op = "patch" /\ g.write => g.base = read(g)
    BY DEF PatchIsCurrent
  <2> QED
    BY <2>3, <2>4, <1>1, Zenon
<1>2. ASSUME flight' \subseteq flight, UNCHANGED store,
             \A g \in flight : ops'[g.sequence] = ops[g.sequence]
      PROVE  PatchIsCurrent'
  BY <1>1, <1>2, Zenon DEF PatchIsCurrent
<1>3. ASSUME NEW w \in Works, admit(w)
      PROVE  PatchIsCurrent'
  <2>1. UNCHANGED <<flight, store>> /\ \A i \in DOMAIN ops : ops'[i] = ops[i]
    BY <1>3, Admits, Zenon
  <2>2. \A g \in flight : g.sequence \in DOMAIN ops
    BY Answerable
  <2>3. flight' \subseteq flight /\ UNCHANGED store
    BY <2>1
  <2> QED
    BY <2>1, <2>2, <2>3, <1>2
<1>4. CASE pump
  <2>1. CASE connection = 0 \/ Issuable(top.row) = {}
    <3>1. UNCHANGED <<flight, store, ops>>
      BY <1>4, <2>1, Idles, Zenon
    <3> QED
      BY <3>1, <1>2
  <2>2. CASE connection # 0 /\ Issuable(top.row) # {}
    <3>1. /\ UNCHANGED <<ops, store>> /\ flight' = flight \cup {asked}
          /\ chosen \in DOMAIN queue /\ asked.sequence = queue[chosen].sequence
          /\ asked.write <=> queue[chosen].op \notin {"read", "patch"}
      BY <1>4, <2>2, Issues, Zenon
    <3>2. queue[chosen].op = ops[asked.sequence].op
      BY <3>1, Zenon DEF Typed, RowsMatch
    <3>3. ~(ops[asked.sequence].op = "patch" /\ asked.write)
      BY <3>1, <3>2
    <3>4. ASSUME NEW g \in flight'
          PROVE  (ops[g.sequence].op = "patch" /\ g.write => g.base = read(g))'
      <4>1. CASE g \in flight
        BY <4>1, <3>1, <1>1, Zenon
      <4>2. CASE g = asked
        BY <4>2, <3>1, <3>3
      <4> QED
        BY <3>1, <4>1, <4>2
    <3> QED
      BY <3>4 DEF PatchIsCurrent
  <2> QED
    BY <2>1, <2>2
<1>5. ASSUME NEW f \in flight, NEW ok \in BOOLEAN, stage_patch(f, ok)
      PROVE  PatchIsCurrent'
  <2>0. PICK a : a = again(f)
    BY Zenon
  <2>1. /\ UNCHANGED <<ops, store, conns>> /\ ~ended
        /\ flight' = (flight \ {f}) \cup {a}
        /\ a.sequence = f.sequence /\ a.conn = connection /\ a.base = read(f)
    <3>1. Restaged(f)
      BY <1>5, Stages
    <3> QED
      BY <2>0, <3>1, Zenon DEF Restaged
  <2>2. f.conn = connection
    BY <2>1, WorkingServes
  <2>3. read(a) = read(f)
    BY <2>1, <2>2 DEF read
  <2>4. read(a)' = read(a)
    BY <2>1, Zenon DEF read
  <2>5. ASSUME NEW g \in flight'
        PROVE  (ops[g.sequence].op = "patch" /\ g.write => g.base = read(g))'
    <3>1. CASE g \in flight
      BY <3>1, <2>1, <1>1, Zenon
    <3>2. CASE g = a
      BY <3>2, <2>1, <2>3, <2>4, Zenon
    <3> QED
      BY <2>1, <3>1, <3>2
  <2> QED
    BY <2>5 DEF PatchIsCurrent
\* A write changes no record of another operation that is outstanding.
<1>6. ASSUME NEW f \in flight, NEW ok \in BOOLEAN, settled(f, ok)
      PROVE  PatchIsCurrent'
  <2> DEFINE s == f.sequence
             slot == conns[f.conn].slot
             row == [r \in Records |->
                        IF r \notin ops[s].locks THEN store[slot][r]
                        ELSE CASE ops[s].op = "erase" -> {}
                               [] ops[s].op = "patch" -> f.base \cup {s}
                               [] OTHER -> {s}]
  <2>1. /\ UNCHANGED <<ops, conns>> /\ ~ended /\ flight' = flight \ {f}
        /\ store' = IF ok /\ f.write THEN written(f) ELSE store
    BY <1>6, Zenon DEF settled, Answered, history
  <2>2. store' = store \/ store' = [store EXCEPT ![slot] = row]
    BY <2>1, Zenon DEF written
  <2>3. ASSUME NEW g \in flight'
        PROVE  (ops[g.sequence].op = "patch" /\ g.write => g.base = read(g))'
    <3> DEFINE q == CHOOSE r \in ops[g.sequence].locks : TRUE
    <3>1. g \in flight /\ g # f
      BY <2>1
    <3>2. /\ q \in ops[g.sequence].locks /\ ops[g.sequence].locks \in SUBSET Records
          /\ conns[g.conn].slot \in Slots
      BY <3>1, Answerable, Zenon
    <3>3. q \notin ops[s].locks
      BY <2>1, <3>1, <3>2, Disjoint, Zenon
    <3>4. q \in Records
      BY <3>2
    <3> HIDE DEF q
    <3>5. row[q] = store[slot][q]
      BY <3>3, <3>4
    <3>6. slot \in Slots /\ store \in [Slots -> [Records -> Content]]
      BY Answerable DEF Typed, StoreTyped
    <3> HIDE DEF row, slot
    <3>7. store'[conns[g.conn].slot][q] = store[conns[g.conn].slot][q]
      <4>1. CASE store' = store
        BY <4>1
      <4>2. CASE store' = [store EXCEPT ![slot] = row]
        BY <4>2, <3>2, <3>5, <3>6
      <4> QED
        BY <2>2, <4>1, <4>2
    <3> QED
      BY <3>1, <3>7, <2>1, <1>1, Zenon DEF q
  <2> QED
    BY <2>3 DEF PatchIsCurrent
<1>7. ASSUME finish \/ clear \/ UNCHANGED still
      PROVE  PatchIsCurrent'
  <2>1. UNCHANGED <<flight, ops, store>>
    BY <1>7, Zenon DEF finish, clear, still, external, history
  <2> QED
    BY <2>1, <1>2
<1> QED
  BY <1>3, <1>4, <1>5, <1>6, <1>7, Others, Zenon

-----------------------------------------------------------------------------
(* The order of the operations. *)

\* The operations the game asks for name the same records or none in common.  Without
\* this a batch that waits for one record is passed by an operation on another of its.
Apart == \A v, w \in Works : v.locks = w.locks \/ v.locks \cap w.locks = {}

\* A walk of the queue that was begun goes on under the answer it waits for, the end of
\* an operation or another walk; an answer is waited for on top.
Resumed(s) ==
    \A n \in 2 .. Len(s) :
        /\ s[n].at # "reply"
        /\ s[n].at = "pump" /\ s[n].row > 1 => s[n - 1].at \in {"settle", "pump", "reply"}
Fresh(s) == s # <<>> => s[1].at # "reply" /\ (s[1].at = "pump" => s[1].row = 1)

\* The rows a walk has passed that are not issued wait for a record that is held.
WalkedIn(q, h, row) ==
    \A i \in DOMAIN q : i < row /\ ~q[i].issued => \E r \in q[i].locks : h[r] # 0
WalkedTop(q, h, s) == s # <<>> /\ s[1].at = "pump" => WalkedIn(q, h, s[1].row)
WalksOn(q, h, s) ==
    WalkedTop(q, h, s) /\ (s # <<>> /\ s[1].at = "reply" => WalkedTop(q, h, Tail(s)))

\* What is behind an operation on one of its records is not issued.
Behind ==
    \A i, j \in DOMAIN queue :
        i < j /\ queue[i].locks \cap queue[j].locks # {} => ~queue[j].issued
Offered == \A s \in DOMAIN ops : \E w \in Works : w.locks = ops[s].locks

Ordered == Resumed(stack) /\ WalksOn(queue, held, stack) /\ Behind /\ Offered

LEMMA ResumedPop ==
    ASSUME NEW s \in Seq(Frame), s # <<>>, Resumed(s)
    PROVE  /\ Resumed(Tail(s))
           /\ Tail(s) # <<>> => Tail(s)[1].at # "reply"
           /\ s[1].at \notin {"settle", "pump", "reply"} => Fresh(Tail(s))
<1> DEFINE t == Tail(s)
<1>1. /\ t \in Seq(Frame) /\ Len(s) \in Nat \ {0} /\ Len(t) = Len(s) - 1
      /\ \A n \in 1 .. Len(s) - 1 : t[n] = s[n + 1]
  BY Popped
<1> HIDE DEF t
<1>2. Resumed(t)
  <2> SUFFICES ASSUME NEW n \in 2 .. Len(t)
               PROVE  /\ t[n].at # "reply"
                      /\ t[n].at = "pump" /\ t[n].row > 1
                           => t[n - 1].at \in {"settle", "pump", "reply"}
    BY DEF Resumed
  <2>1. n + 1 \in 2 .. Len(s) /\ t[n] = s[n + 1] /\ t[n - 1] = s[(n + 1) - 1]
    BY <1>1
  <2> QED
    BY <2>1, Zenon DEF Resumed
<1>3. ASSUME t # <<>>
      PROVE  /\ 2 \in 2 .. Len(s) /\ t[1] = s[2] /\ s[2 - 1] = s[1]
             /\ t[1] \in Frame
  BY <1>1, <1>3
<1>4. t # <<>> => t[1].at # "reply"
  BY <1>3, Zenon DEF Resumed
<1>5. s[1].at \notin {"settle", "pump", "reply"} => Fresh(t)
  <2> SUFFICES ASSUME s[1].at \notin {"settle", "pump", "reply"}, t # <<>>, t[1].at = "pump"
               PROVE  t[1].row = 1
    BY <1>4 DEF Fresh
  <2>1. ~(t[1].row > 1)
    BY <1>3, Zenon DEF Resumed
  <2>2. t[1].row \in Nat /\ t[1].row >= 1
    BY <1>3, Frames, Zenon
  <2> QED
    BY <2>1, <2>2
<1> QED
  BY <1>2, <1>4, <1>5, Zenon DEF t

LEMMA ResumedPush ==
    ASSUME NEW a \in Frame, NEW t \in Seq(Frame), Resumed(t),
           t # <<>> => t[1].at # "reply",
           Fresh(t) \/ a.at \in {"settle", "pump", "reply"}
    PROVE  /\ Resumed(<<a>> \o t)
           /\ <<a>> \o t # <<>> /\ (<<a>> \o t)[1] = a /\ Tail(<<a>> \o t) = t
           /\ a.at # "reply" /\ (a.at = "pump" => a.row = 1) => Fresh(<<a>> \o t)
<1> DEFINE s == <<a>> \o t
<1>1. /\ s \in Seq(Frame) /\ Len(t) \in Nat /\ Len(s) = Len(t) + 1 /\ s # <<>>
      /\ s[1] = a /\ Tail(s) = t
      /\ \A n \in 2 .. Len(t) + 1 : s[n] = t[n - 1]
  BY Pushed
<1> HIDE DEF s
<1>2. Resumed(s)
  <2> SUFFICES ASSUME NEW n \in 2 .. Len(s)
               PROVE  /\ s[n].at # "reply"
                      /\ s[n].at = "pump" /\ s[n].row > 1
                           => s[n - 1].at \in {"settle", "pump", "reply"}
    BY DEF Resumed
  <2>1. n \in 2 .. Len(t) + 1 /\ s[n] = t[n - 1]
    BY <1>1
  <2>2. CASE n = 2
    <3>1. t # <<>> /\ s[n] = t[1] /\ s[n - 1] = a
      BY <2>1, <2>2, <1>1
    <3> QED
      BY <3>1 DEF Fresh
  <2>3. CASE n # 2
    <3>1. n - 1 \in 2 .. Len(t) /\ s[n - 1] = t[(n - 1) - 1]
      BY <2>1, <2>3, <1>1
    <3> QED
      BY <2>1, <3>1, Zenon DEF Resumed
  <2> QED
    BY <2>2, <2>3
<1>3. a.at # "reply" /\ (a.at = "pump" => a.row = 1) => Fresh(s)
  BY <1>1 DEF Fresh
<1> QED
  BY <1>1, <1>2, <1>3, Zenon DEF s

\* A walk that begins has passed nothing.
LEMMA FreshWalks ==
    ASSUME NEW q, DOMAIN q \subseteq Nat \ {0}, NEW h, NEW s, Fresh(s)
    PROVE  WalksOn(q, h, s)
BY DEF Fresh, WalksOn, WalkedTop, WalkedIn

\* The walk passes a row that has to wait ...
LEMMA PumpWalks ==
    ASSUME Assumptions, Typed, pump, connection # 0, Issuable(top.row) # {},
           WalkedIn(queue, held, top.row)
    PROVE  WalkedIn(queue', held', chosen + 1)
<1>1. QueueTyped /\ RowsMatch
  BY DEF Typed
<1>2. /\ chosen \in DOMAIN queue /\ Same(chosen) /\ queue'[chosen].issued
      /\ held' = [r \in Records |->
                IF r \in queue[chosen].locks THEN queue[chosen].sequence ELSE held[r]]
      /\ queue[chosen].sequence \in DOMAIN ops
  BY Issues, Zenon
<1>3. (\A i \in Issuable(top.row) : chosen <= i) /\ top.row \in Nat /\ chosen \in DOMAIN queue
  <2>1. TopIs("pump")
    BY Zenon DEF pump
  <2> QED
    BY <2>1, Issued, Zenon DEF chosen
<1>4. queue[chosen].sequence # 0
  BY <1>1, <1>2, Rows
<1>5. ASSUME NEW i \in DOMAIN queue', i < chosen + 1, ~queue'[i].issued
      PROVE  \E r \in queue'[i].locks : held'[r] # 0
  <2>1. i # chosen
    BY <1>2, <1>5
  <2>2. i \in DOMAIN queue /\ queue'[i] = queue[i]
    BY <1>2, <2>1, Zenon DEF Same
  <2>3. i < chosen /\ i \in Nat /\ i \in 1 .. Len(queue) /\ Len(queue) \in Nat
    <3>1. DOMAIN queue = 1 .. Len(queue) /\ Len(queue) \in Nat
      BY <1>1, Rows
    <3> QED
      BY <1>2, <1>5, <2>1, <2>2, <3>1
  <2>4. \E r \in queue[i].locks : held[r] # 0
    <3>1. CASE i < top.row
      BY <1>5, <2>2, <3>1, Zenon DEF WalkedIn
    <3>2. CASE ~(i < top.row)
      <4>1. i \in top.row .. Len(queue)
        BY <1>3, <2>3, <3>2
      <4>2. i \notin Issuable(top.row)
        <5>1. ~(chosen <= i)
          BY <1>1, <1>3, <2>3, Rows
        <5> QED
          BY <1>3, <5>1, Zenon
      <4>3. ~Free(queue[i])
        BY <1>5, <2>2, <4>1, <4>2, Zenon DEF Issuable
      <4> QED
        BY <4>3, Zenon DEF Free
    <3> QED
      BY <3>1, <3>2
  <2>5. PICK r \in queue[i].locks : held[r] # 0
    BY <2>4
  <2>6. r \in Records
    BY <2>2, <1>1, Rows
  <2>7. held'[r] # 0
    BY <1>2, <1>4, <2>5, <2>6
  <2> QED
    BY <2>2, <2>5, <2>7
<1> QED
  BY <1>5, Zenon DEF WalkedIn

\* ... and ends when every row that is left has to.
LEMMA PumpStops ==
    ASSUME Assumptions, Typed, Working, TopIs("pump"),
           connection = 0 \/ Issuable(top.row) = {}, WalkedIn(queue, held, top.row)
    PROVE  \A row : WalkedIn(queue, held, row)
<1>1. /\ DOMAIN queue = 1 .. Len(queue) /\ Len(queue) \in Nat
  BY Rows DEF Typed
<1>2. top.row \in Nat
  BY Top, Frames, Zenon DEF Typed, TopIs
<1>3. CASE connection = 0
  <2>1. queue = <<>>
    BY <1>3 DEF Working
  <2>2. DOMAIN queue = {}
    BY <2>1
  <2> QED
    BY <2>2, Zenon DEF WalkedIn
<1>4. CASE Issuable(top.row) = {}
  <2>1. ASSUME NEW i \in DOMAIN queue, ~queue[i].issued
        PROVE  \E r \in queue[i].locks : held[r] # 0
    <3>1. CASE i < top.row
      BY <2>1, <3>1, Zenon DEF WalkedIn
    <3>2. CASE ~(i < top.row)
      <4>1. i \in top.row .. Len(queue)
        BY <1>1, <1>2, <3>2
      <4>2. ~Free(queue[i])
        BY <1>4, <2>1, <4>1, Zenon DEF Issuable
      <4> QED
        BY <4>2, Zenon DEF Free
    <3> QED
      BY <3>1, <3>2
  <2> QED
    BY <2>1, Zenon DEF WalkedIn
<1> QED
  BY <1>3, <1>4

\* Operations that are admitted are operations the game may ask for.
LEMMA OfferedStep == ASSUME Assumptions, Typed, Offered, Next PROVE Offered'
<1>1. ASSUME NEW w \in Works, admit(w)
      PROVE  Offered'
  <2>1. /\ DOMAIN ops' = DOMAIN ops \cup {Len(ops')} /\ ops'[Len(ops')].locks = w.locks
        /\ \A i \in DOMAIN ops : ops'[i] = ops[i]
    BY <1>1, Admits, Zenon
  <2> QED
    BY <2>1 DEF Offered
<1>2. CASE UNCHANGED ops
  BY <1>2 DEF Offered
<1>3. (\E w \in Works : admit(w)) \/ UNCHANGED ops
  <2>1. ASSUME NEW f \in flight, NEW ok \in BOOLEAN, stage_patch(f, ok) \/ settled(f, ok)
        PROVE  UNCHANGED ops
    BY <2>1, Zenon DEF stage_patch, settled, history
  <2>2. pump \/ finish \/ clear => UNCHANGED ops
    BY Zenon DEF pump, finish, clear, history
  <2> QED
    BY <2>1, <2>2, Others, Zenon DEF still
<1> QED
  BY <1>1, <1>2, <1>3

\* Operations that share a record name the same records.
LEMMA Alike ==
    ASSUME Assumptions, Apart, Typed, Offered, NEW i \in DOMAIN queue, NEW j \in DOMAIN queue,
           queue[i].locks \cap queue[j].locks # {}
    PROVE  queue[i].locks = queue[j].locks
<1>1. /\ queue[i].sequence \in DOMAIN ops /\ queue[i].locks = ops[queue[i].sequence].locks
      /\ queue[j].sequence \in DOMAIN ops /\ queue[j].locks = ops[queue[j].sequence].locks
  BY Zenon DEF Typed, RowsMatch
<1>2. PICK v \in Works : v.locks = queue[i].locks
  BY <1>1, Zenon DEF Offered
<1>3. PICK w \in Works : w.locks = queue[j].locks
  BY <1>1, Zenon DEF Offered
<1> QED
  BY <1>2, <1>3, Zenon DEF Apart

\* What is issued has nothing before it that it has to wait for.
LEMMA BehindStep ==
    ASSUME Assumptions, Apart, Typed, Exact, Ordered, Next
    PROVE  Behind'
<1>1. QueueTyped /\ RowsMatch /\ Sorted
  BY DEF Typed
<1>2. DOMAIN queue = 1 .. Len(queue) /\ Len(queue) \in Nat
  BY <1>1, Rows
<1>3. ASSUME DOMAIN queue' = DOMAIN queue,
             \A i \in DOMAIN queue : /\ queue'[i].locks = queue[i].locks
                                     /\ queue'[i].issued = queue[i].issued
      PROVE  Behind'
  BY <1>3, Zenon DEF Ordered, Behind
<1>4. ASSUME NEW w \in Works, admit(w)
      PROVE  Behind'
  <2>1. /\ DOMAIN queue' = DOMAIN queue \cup {Len(queue')}
        /\ ~queue'[Len(queue')].issued
        /\ \A i \in DOMAIN queue : queue'[i] = queue[i] /\ i < Len(queue')
        /\ Len(queue') = Len(queue) + 1
    BY <1>4, Admits, Zenon
  <2> SUFFICES ASSUME NEW i \in DOMAIN queue', NEW j \in DOMAIN queue', i < j,
                      queue'[i].locks \cap queue'[j].locks # {}
               PROVE  ~queue'[j].issued
    BY DEF Behind
  <2>2. CASE j = Len(queue')
    BY <2>1, <2>2
  <2>3. CASE j \in DOMAIN queue
    <3>1. i \in DOMAIN queue
      BY <1>2, <2>1, <2>3
    <3> QED
      BY <2>1, <2>3, <3>1, Zenon DEF Ordered, Behind
  <2> QED
    BY <2>1, <2>2, <2>3
<1>5. CASE pump
  <2>1. CASE connection = 0 \/ Issuable(top.row) = {}
    <3>1. UNCHANGED queue
      BY <1>5, <2>1, Idles, Zenon
    <3> QED
      BY <3>1, <1>3
  <2>2. CASE connection # 0 /\ Issuable(top.row) # {}
    <3>1. /\ chosen \in DOMAIN queue /\ ~queue[chosen].issued /\ Free(queue[chosen])
          /\ Same(chosen)
      BY <1>5, <2>2, Issues, Zenon
    <3>2. /\ TopIs("pump") /\ WalkedIn(queue, held, top.row)
          /\ \A i \in Issuable(top.row) : chosen <= i
          /\ top.row \in Nat
      <4>1. TopIs("pump")
        BY <1>5, Zenon DEF pump
      <4>2. top = stack[1] /\ stack # <<>>
        BY <4>1, Top DEF Typed, TopIs
      <4>3. WalkedIn(queue, held, top.row)
        BY <4>1, <4>2, Zenon DEF Ordered, WalksOn, WalkedTop, TopIs
      <4> QED
        BY <2>2, <4>1, <4>3, Issued, Zenon DEF chosen
    \* A conflicting row in front is not issued, so it could be issued first.
    <3>3. ASSUME NEW i \in DOMAIN queue, i < chosen,
                 queue[i].locks \cap queue[chosen].locks # {}
          PROVE  FALSE
      <4>1. queue[i].locks = queue[chosen].locks
        BY <3>1, <3>3, Alike DEF Ordered
      <4>2. Free(queue[i])
        BY <3>1, <4>1 DEF Free
      <4>3. PICK r \in queue[i].locks : TRUE
        BY <3>3
      <4>4. r \in Records /\ queue[i].sequence # 0
        BY <1>1, <4>3, Rows
      <4>5. ~queue[i].issued
        BY <4>2, <4>3, <4>4, Zenon DEF Free, Exact
      <4>6. ~(i < top.row)
        BY <3>2, <4>2, <4>5, Zenon DEF WalkedIn, Free
      <4>7. i \in top.row .. Len(queue)
        BY <1>2, <3>2, <4>6
      <4>8. i \in Issuable(top.row)
        BY <4>2, <4>5, <4>7, Zenon DEF Issuable
      <4>9. chosen <= i
        BY <3>2, <4>8, Zenon
      <4> QED
        BY <1>2, <3>1, <3>3, <4>9
    <3> SUFFICES ASSUME NEW i \in DOMAIN queue', NEW j \in DOMAIN queue', i < j,
                        queue'[i].locks \cap queue'[j].locks # {}
                 PROVE  ~queue'[j].issued
      BY DEF Behind
    <3>4. /\ i \in DOMAIN queue /\ j \in DOMAIN queue
          /\ queue'[i].locks = queue[i].locks /\ queue'[j].locks = queue[j].locks
          /\ j # chosen => queue'[j] = queue[j]
      BY <3>1, Zenon DEF Same
    <3>5. j # chosen
      BY <3>3, <3>4
    <3> QED
      BY <3>4, <3>5, Zenon DEF Ordered, Behind
  <2> QED
    BY <2>1, <2>2
<1>6. ASSUME NEW f \in flight, NEW ok \in BOOLEAN, stage_patch(f, ok)
      PROVE  Behind'
  <2>1. /\ Same(RowOf(f.sequence)) /\ \A i \in DOMAIN queue : queue'[i].issued = queue[i].issued
    <3>1. Restaged(f)
      BY <1>6, Stages
    <3> QED
      BY <3>1, Zenon DEF Restaged
  <2>2. DOMAIN queue' = DOMAIN queue /\ \A i \in DOMAIN queue :
             queue'[i].locks = queue[i].locks /\ queue'[i].issued = queue[i].issued
    BY <2>1, Zenon DEF Same
  <2> QED
    BY <2>2, <1>3, Zenon
<1>7. ASSUME NEW f \in flight, NEW ok \in BOOLEAN, settled(f, ok)
      PROVE  Behind'
  <2> DEFINE k == RowOf(f.sequence)
  <2>1. /\ \A i \in DOMAIN queue' : Was(i, k) \in DOMAIN queue /\ queue'[i] = queue[Was(i, k)]
        /\ \A i, j \in DOMAIN queue' : i < j => Was(i, k) < Was(j, k)
    <3>1. Settled(f, ok)
      BY <1>7, Settles
    <3> QED
      BY <3>1, Zenon DEF Settled
  <2> HIDE DEF k
  <2> SUFFICES ASSUME NEW i \in DOMAIN queue', NEW j \in DOMAIN queue', i < j,
                      queue'[i].locks \cap queue'[j].locks # {}
               PROVE  ~queue'[j].issued
    BY DEF Behind
  <2> QED
    BY <2>1, Zenon DEF Ordered, Behind
<1>8. CASE clear
  <2>1. DOMAIN queue' = {}
    BY <1>8 DEF clear
  <2> QED
    BY <2>1 DEF Behind
<1>9. CASE finish \/ UNCHANGED still
  <2>1. UNCHANGED queue
    BY <1>9, Zenon DEF finish, still, database
  <2> QED
    BY <2>1, <1>3
<1> QED
  BY <1>4, <1>5, <1>6, <1>7, <1>8, <1>9, Others, Zenon

\* A walk that was interrupted goes on where nothing before it can be issued.
LEMMA WalksStep ==
    ASSUME Assumptions, Typed, Working, Ordered, Next
    PROVE  Resumed(stack') /\ WalksOn(queue', held', stack')
<1> USE Bounds
<1> DEFINE Kept == Resumed(stack') /\ WalksOn(queue', held', stack')
<1>1. /\ Pump(1) \in Frame /\ Finish \in Frame /\ Settle \in Frame
      /\ Game(AnswerCalls) \in Frame /\ Game(FlushCalls) \in Frame
      /\ Release(flush_waiters) \in Frame
  BY Frames DEF Typed, FlushTyped
<1>2. /\ Settle.at = "settle" /\ Finish.at = "finish"
      /\ \A calls : Game(calls).at = "game"
      /\ \A r : Pump(r).at = "pump" /\ Pump(r).row = r
      /\ \A left : Release(left).at = "release"
      /\ \A c : Made(c).at = "made"
      /\ \A q : Reply(q).at = "reply"
  BY Frames, Zenon
<1>3. stack \in Seq(Frame) /\ Resumed(stack)
  BY DEF Typed, StackTyped, Ordered
<1>4. ASSUME stack # <<>>
      PROVE  /\ Under \in Seq(Frame) /\ Resumed(Under) /\ top = stack[1] /\ top \in Frame
             /\ Under = Tail(stack)
             /\ Under # <<>> => Under[1].at # "reply"
             /\ top.at \notin {"settle", "pump", "reply"} => Fresh(Under)
  <2>1. Under \in Seq(Frame) /\ top = stack[1] /\ top \in Frame /\ Under = Tail(stack)
    BY <1>3, <1>4, Top, Zenon DEF Typed, Under
  <2> QED
    BY <2>1, <1>3, <1>4, ResumedPop, Zenon
<1>5. Resumed(<<>>) /\ Fresh(<<>>) /\ <<>> \in Seq(Frame)
  BY DEF Resumed, Fresh
<1>6. DOMAIN queue \subseteq Nat \ {0} /\ DOMAIN queue' \subseteq Nat \ {0}
  <2>1. queue \in Seq(Pending) /\ queue' \in Seq(Pending)
    BY ShapedStep DEF Typed, Shaped, QueueTyped
  <2> QED
    BY <2>1
<1>7. ASSUME Resumed(stack'), Fresh(stack')
      PROVE  Kept
  BY <1>6, <1>7, FreshWalks, Zenon
\* What may be put on a stack where no walk was interrupted on top.
<1>8. ASSUME NEW a \in Frame, NEW t \in Seq(Frame), Resumed(t), Fresh(t),
             a.at # "reply", a.at = "pump" => a.row = 1
      PROVE  Resumed(<<a>> \o t) /\ Fresh(<<a>> \o t) /\ <<a>> \o t \in Seq(Frame)
  <2>1. t # <<>> => t[1].at # "reply"
    BY <1>8 DEF Fresh
  <2> QED
    BY <2>1, <1>8, ResumedPush, Pushed, Zenon
\* The game calls from its own loop or inside an answer.
<1>9. ASSUME NEW call, May(call)
      PROVE  Fresh(stack)
  BY <1>4, <1>9 DEF May, TopIs, Fresh
<1>10. ASSUME NEW s \in Slots, open(s)
       PROVE  Kept
  <2> DEFINE m == Made(Len(conns) + 1)
  <2>1. May("open") /\ (stack' = <<m>> \o stack \/ stack' = stack)
    BY <1>10, Zenon DEF open
  <2>2. m \in Frame /\ m.at = "made"
    <3>1. Len(conns) + 1 \in Nat
      BY DEF Typed, StateTyped
    <3> QED
      BY <3>1, Frames, Zenon
  <2> HIDE DEF m
  <2> QED
    BY <2>1, <2>2, <1>3, <1>7, <1>8, <1>9
<1>11. ASSUME NEW w \in Works, admit(w)
       PROVE  Kept
  <2>1. May("submit") /\ stack' = <<Pump(1)>> \o stack
    BY <1>11, Zenon DEF admit
  <2> QED
    BY <2>1, <1>1, <1>2, <1>3, <1>7, <1>8, <1>9
<1>12. CASE close
  <2> DEFINE overtaken == IF state = "opening" THEN <<Game(AnswerCalls)>> ELSE <<>>
             t == overtaken \o stack
             u == <<Finish>> \o t
  <2>1. /\ May("close")
        /\ \/ stack' = <<Release(flush_waiters), Finish>> \o overtaken \o stack
           \/ stack' = t
    BY <1>12, Zenon DEF close
  <2>2. t \in Seq(Frame) /\ Resumed(t) /\ Fresh(t)
    <3>1. CASE state = "opening"
      BY <3>1, <2>1, <1>1, <1>2, <1>3, <1>8, <1>9
    <3>2. CASE state # "opening"
      BY <3>2, <2>1, <1>3, <1>9, PushedNone
    <3> QED
      BY <3>1, <3>2
  <2>3. overtaken \in Seq(Frame)
    BY <1>1
  <2> HIDE DEF overtaken
  <2>4. <<Release(flush_waiters), Finish>> \o overtaken \o stack
           = <<Release(flush_waiters), Finish>> \o t
    <3>1. <<Release(flush_waiters), Finish>> \in Seq(Frame)
      BY <1>1
    <3> QED
      <4>1. Regrouped(<<Release(flush_waiters), Finish>>, overtaken, stack)
        BY <2>3, <3>1, <1>3, Regroups, Zenon
      <4> QED
        BY <4>1, Zenon DEF Regrouped
  <2> HIDE DEF t
  <2>5. <<Release(flush_waiters), Finish>> \o t = <<Release(flush_waiters)>> \o u
    BY <2>2, <1>1, Stacked, Zenon
  <2>6. u \in Seq(Frame) /\ Resumed(u) /\ Fresh(u)
    BY <2>2, <1>1, <1>2, <1>8
  <2> HIDE DEF u
  <2>7. CASE stack' = t
    BY <2>2, <2>7, <1>7
  <2>8. CASE stack' = <<Release(flush_waiters)>> \o u
    BY <2>6, <2>8, <1>1, <1>2, <1>7, <1>8
  <2> QED
    BY <2>1, <2>4, <2>5, <2>7, <2>8
<1>13. ASSUME flush \/ UNCHANGED <<stack, queue, held>>
       PROVE  Kept
  <2>1. UNCHANGED <<stack, queue, held>>
    BY <1>13, Zenon DEF flush
  <2> QED
    BY <2>1 DEF Ordered
<1>14. CASE release_waiters
  <2>1. stack # <<>> /\ top.at = "release"
    BY <1>14, Zenon DEF release_waiters, TopIs
  <2>2. Under \in Seq(Frame) /\ Resumed(Under) /\ Fresh(Under)
    BY <2>1, <1>4
  <2>3. CASE top.left = <<>>
    <3>1. stack' = Under
      BY <2>3, <1>14, Zenon DEF release_waiters
    <3> QED
      BY <3>1, <2>2, <1>7
  <2>4. CASE top.left # <<>>
    <3> DEFINE r == Release(Tail(top.left))
               u == <<r>> \o Under
    <3>1. stack' = <<Game(FlushCalls), r>> \o Under
      BY <2>4, <1>14, Zenon DEF release_waiters
    <3>2. r \in Frame /\ r.at = "release"
      <4>1. top.left \in Seq(Nat)
        BY <2>1, <1>4, Frames, Zenon
      <4>2. Tail(top.left) \in Seq(Nat)
        BY <2>4, <4>1, Popped
      <4> QED
        BY <4>2, <1>2, Frames, Zenon
    <3> HIDE DEF r
    <3>3. stack' = <<Game(FlushCalls)>> \o u
      BY <3>1, <3>2, <2>2, <1>1, Stacked, Zenon
    <3>4. u \in Seq(Frame) /\ Resumed(u) /\ Fresh(u)
      BY <3>2, <2>2, <1>8
    <3> HIDE DEF u
    <3> QED
      BY <3>3, <3>4, <1>1, <1>2, <1>7, <1>8
  <2> QED
    BY <2>3, <2>4
<1>15. CASE finish
  <2>1. /\ stack # <<>> /\ top.at = "finish"
        /\ (stack' = Under \/ stack' = <<Game(AnswerCalls)>> \o Under)
    BY <1>15, Zenon DEF finish, TopIs
  <2>2. Under \in Seq(Frame) /\ Resumed(Under) /\ Fresh(Under)
    BY <2>1, <1>4
  <2> QED
    BY <2>1, <2>2, <1>1, <1>2, <1>7, <1>8
<1>16. CASE GameReturns
  <2>1. stack # <<>> /\ top.at = "game" /\ stack' = Under
    BY <1>16, Zenon DEF GameReturns, TopIs
  <2> QED
    BY <2>1, <1>4, <1>7
<1>17. CASE AnswersLater
  <2>1. stack # <<>> /\ top.at \in {"reply", "made"} /\ stack' = Under /\ UNCHANGED <<queue, held>>
    BY <1>17, Zenon DEF AnswersLater, TopIs, database
  <2>2. CASE top.at = "made"
    BY <2>1, <2>2, <1>4, <1>7
  <2>3. CASE top.at = "reply"
    <3>1. WalkedTop(queue, held, Under)
      BY <2>1, <2>3, <1>4, Zenon DEF Ordered, WalksOn
    <3>2. Under # <<>> => Under[1].at # "reply"
      BY <2>1, <1>4
    <3>3. WalksOn(queue, held, Under)
      BY <3>1, <3>2, Zenon DEF WalksOn
    <3> QED
      BY <2>1, <3>3, <1>4
  <2> QED
    BY <2>1, <2>2, <2>3
<1>18. ASSUME NEW c \in DOMAIN conns, NEW ok \in BOOLEAN, connected(c, ok) \/ discard(c, ok)
       PROVE  Kept
  <2>1. stack # <<>> => top.at = "made"
    BY <1>18, Zenon DEF connected, discard, Connects, TopIs
  <2>2. \/ stack' = rest
        \/ stack' = <<Game(AnswerCalls)>> \o <<>> \o rest
        \/ stack' = <<Game(AnswerCalls)>> \o <<Pump(1)>> \o rest
    BY <1>18, Zenon DEF connected, discard
  <2>3. rest \in Seq(Frame) /\ Resumed(rest) /\ Fresh(rest)
    BY <2>1, <1>4, <1>5 DEF rest
  <2> DEFINE u == <<Pump(1)>> \o rest
  <2>4. u \in Seq(Frame) /\ Resumed(u) /\ Fresh(u)
    BY <2>3, <1>1, <1>2, <1>8
  <2>5. \/ stack' = rest
        \/ stack' = <<Game(AnswerCalls)>> \o rest
        \/ stack' = <<Game(AnswerCalls)>> \o u
    BY <2>2, <2>3, <1>1, Stacked, Zenon
  <2> HIDE DEF u
  <2>6. CASE stack' = rest
    BY <2>3, <2>6, <1>7
  <2>7. CASE stack' = <<Game(AnswerCalls)>> \o rest
    BY <2>3, <2>7, <1>1, <1>2, <1>7, <1>8
  <2>8. CASE stack' = <<Game(AnswerCalls)>> \o u
    BY <2>4, <2>8, <1>1, <1>2, <1>7, <1>8
  <2> QED
    BY <2>5, <2>6, <2>7, <2>8
<1>19. CASE settle
  <2>1. stack # <<>> /\ top.at = "settle"
    BY <1>19, Zenon DEF settle, TopIs
  <2> DEFINE t == <<Pump(1)>> \o Under
             u == <<Finish>> \o t
  <2>2. stack' = t \/ stack' = <<Release(flush_waiters), Finish, Pump(1)>> \o Under
    BY <1>19, Zenon DEF settle
  <2>3. Under \in Seq(Frame) /\ Resumed(Under) /\ (Under # <<>> => Under[1].at # "reply")
    BY <2>1, <1>4
  <2>4. t \in Seq(Frame) /\ Resumed(t) /\ Fresh(t)
    BY <2>3, <1>1, <1>2, ResumedPush, Pushed
  <2>5. stack' = t \/ stack' = <<Release(flush_waiters)>> \o u
    <3>1. Under \in Seq(Frame)
      BY <2>3
    <3>2. <<Release(flush_waiters), Finish, Pump(1)>> \o Under = <<Release(flush_waiters)>> \o u
      BY <3>1, <1>1, StackedSettle
    <3> QED
      BY <2>2, <3>2, Zenon
  <2> HIDE DEF t
  <2>6. u \in Seq(Frame) /\ Resumed(u) /\ Fresh(u)
    BY <2>4, <1>1, <1>2, <1>8
  <2> HIDE DEF u
  <2>7. CASE stack' = t
    BY <2>4, <2>7, <1>7
  <2>8. CASE stack' = <<Release(flush_waiters)>> \o u
    BY <2>6, <2>8, <1>1, <1>2, <1>7, <1>8
  <2> QED
    BY <2>5, <2>7, <2>8
\* What an answer goes back to: a walk that waits for it, or nothing.
<1>20. ASSUME stack = <<>> \/ TopIs("reply")
       PROVE  /\ rest \in Seq(Frame) /\ Resumed(rest)
              /\ rest # <<>> => rest[1].at # "reply"
              /\ WalkedTop(queue, held, rest)
  <2>1. CASE stack = <<>>
    BY <2>1, <1>5 DEF rest, WalkedTop
  <2>2. CASE stack # <<>>
    <3>1. rest = Under /\ top.at = "reply"
      BY <1>20, <2>2 DEF rest, TopIs
    <3>2. WalkedTop(queue, held, Under)
      BY <2>2, <3>1, <1>4, Zenon DEF Ordered, WalksOn
    <3> QED
      BY <2>2, <3>1, <3>2, <1>4
  <2> QED
    BY <2>1, <2>2
<1>21. ASSUME NEW f \in flight, NEW ok \in BOOLEAN, settled(f, ok)
       PROVE  Kept
  <2>1. /\ stack = <<>> \/ TopIs("reply")
        /\ stack' = <<Game(AnswerCalls), Settle>> \o rest
    BY <1>21, Zenon DEF settled, Answered
  <2> DEFINE u == <<Settle>> \o rest
  <2>2. rest \in Seq(Frame) /\ Resumed(rest) /\ (rest # <<>> => rest[1].at # "reply")
    BY <2>1, <1>20
  <2>3. stack' = <<Game(AnswerCalls)>> \o u
    BY <2>1, <2>2, <1>1, Stacked, Zenon
  <2>4. u \in Seq(Frame) /\ Resumed(u) /\ Fresh(u)
    BY <2>2, <1>1, <1>2, ResumedPush, Pushed
  <2> HIDE DEF u
  <2> QED
    BY <2>3, <2>4, <1>1, <1>2, <1>7, <1>8
\* One answer over what was going on, in the states where the backend answers at once.
<1>22. ASSUME NEW s \in Nat, NEW t \in Seq(Frame), Resumed(t), t # <<>> => t[1].at # "reply",
              WalkedTop(queue', held', t), stack' = IF Prompt THEN <<Reply(s)>> \o t ELSE t
       PROVE  Kept
  <2>1. CASE Prompt
    <3>1. Reply(s) \in Frame /\ Reply(s).at = "reply"
      BY Frames, Zenon
    <3>2. stack' = <<Reply(s)>> \o t
      BY <2>1, <1>22
    <3>3. /\ Resumed(<<Reply(s)>> \o t) /\ (<<Reply(s)>> \o t)[1] = Reply(s)
          /\ Tail(<<Reply(s)>> \o t) = t
      BY <3>1, <1>22, ResumedPush, Zenon
    <3>4. WalksOn(queue', held', <<Reply(s)>> \o t)
      BY <3>1, <3>3, <1>22 DEF WalksOn, WalkedTop
    <3> QED
      BY <3>2, <3>3, <3>4
  <2>2. CASE ~Prompt
    <3>1. WalksOn(queue', held', t)
      BY <1>22, Zenon DEF WalksOn
    <3> QED
      BY <2>2, <3>1, <1>22
  <2> QED
    BY <2>1, <2>2
<1>23. ASSUME NEW f \in flight, NEW ok \in BOOLEAN, stage_patch(f, ok)
       PROVE  Kept
  <2>1. /\ stack = <<>> \/ TopIs("reply")
        /\ stack' = Answers(f.sequence) \o rest
    BY <1>23, Zenon DEF stage_patch, Answered
  <2>2. /\ rest \in Seq(Frame) /\ Resumed(rest) /\ (rest # <<>> => rest[1].at # "reply")
        /\ WalkedTop(queue, held, rest)
    BY <2>1, <1>20
  <2>3. f.sequence \in Nat
    BY Answerable DEF Sequences
  <2>4. stack' = IF Prompt THEN <<Reply(f.sequence)>> \o rest ELSE rest
    BY <2>1, <2>2, <2>3, Replied, Zenon
  <2>5. /\ UNCHANGED held /\ Same(RowOf(f.sequence))
        /\ \A i \in DOMAIN queue : queue'[i].issued = queue[i].issued
    <3>1. Restaged(f)
      BY <1>23, Stages
    <3> QED
      BY <3>1, Zenon DEF Restaged
  <2>6. DOMAIN queue' = DOMAIN queue /\ \A i \in DOMAIN queue :
             queue'[i].locks = queue[i].locks /\ queue'[i].issued = queue[i].issued
    BY <2>5, Zenon DEF Same
  <2>7. \A r : WalkedIn(queue, held, r) => WalkedIn(queue', held', r)
    BY <2>5, <2>6, Zenon DEF WalkedIn
  <2>8. WalkedTop(queue', held', rest)
    BY <2>2, <2>7, Zenon DEF WalkedTop
  <2> QED
    BY <2>2, <2>3, <2>4, <2>8, <1>22
<1>24. CASE pump
  <2>1. stack # <<>> /\ top.at = "pump" /\ TopIs("pump")
    BY <1>24, Zenon DEF pump, TopIs
  <2>2. /\ Under \in Seq(Frame) /\ Resumed(Under) /\ (Under # <<>> => Under[1].at # "reply")
        /\ top = stack[1]
    BY <2>1, <1>4
  <2>3. WalkedIn(queue, held, top.row)
    BY <2>1, <2>2, Zenon DEF Ordered, WalksOn, WalkedTop
  <2>4. CASE connection = 0 \/ Issuable(top.row) = {}
    <3>1. UNCHANGED <<queue, held>> /\ stack' = Under
      BY <1>24, <2>4, Idles, Zenon
    <3>2. \A r : WalkedIn(queue, held, r)
      BY <2>1, <2>3, <2>4, PumpStops, Zenon
    <3>3. WalksOn(queue', held', Under)
      BY <2>2, <3>1, <3>2, Zenon DEF WalksOn, WalkedTop
    <3> QED
      BY <2>2, <3>1, <3>3
  <2>5. CASE connection # 0 /\ Issuable(top.row) # {}
    <3> DEFINE s == queue[chosen].sequence
               p == Pump(chosen + 1)
               t == <<p>> \o Under
    <3>1. chosen \in Nat /\ s \in Nat
      <4>1. chosen \in DOMAIN queue /\ s \in 1 .. MaxOps
        BY <1>24, <2>5, Issues, Zenon
      <4> QED
        BY <4>1, <1>6
    <3>2. stack' = Answers(s) \o <<p>> \o Under
      BY <1>24, <2>5, Zenon DEF pump, chosen
    <3>3. p \in Frame /\ p.at = "pump" /\ p.row = chosen + 1
      BY <3>1, Frames
    <3>4. WalkedIn(queue', held', chosen + 1)
      BY <1>24, <2>3, <2>5, PumpWalks
    <3> HIDE DEF p, s
    <3>5. t \in Seq(Frame) /\ Resumed(t) /\ t[1] = p /\ t # <<>>
      BY <2>2, <3>3, ResumedPush, Pushed
    <3>6. stack' = Answers(s) \o t
      BY <2>2, <3>1, <3>2, <3>3, AnswersAssociate, Zenon
    <3> HIDE DEF t
    <3>7. stack' = IF Prompt THEN <<Reply(s)>> \o t ELSE t
      BY <3>1, <3>5, <3>6, Replied, Zenon
    <3>8. WalkedTop(queue', held', t)
      BY <3>3, <3>4, <3>5, Zenon DEF WalkedTop
    <3>9. t # <<>> => t[1].at # "reply"
      BY <3>3, <3>5
    <3> QED
      BY <3>1, <3>5, <3>7, <3>8, <3>9, <1>22
  <2> QED
    BY <2>4, <2>5
<1>25. CASE clear
  <2>1. stack' = <<>>
    BY <1>25, Zenon DEF clear
  <2> QED
    BY <2>1, <1>5, <1>7
<1> QED
  BY <1>10, <1>11, <1>12, <1>13, <1>14, <1>15, <1>16, <1>17, <1>18, <1>19, <1>21, <1>23, <1>24,
     <1>25, Zenon DEF Next, Inside, Backend, GameCalls

\* While an operation waits, so does every later one that names a record of it.
InTurn ==
    \A i, j \in DOMAIN ops :
        i < j /\ ops[i].locks \cap ops[j].locks # {} /\ i \in Queued => j \in Queued

LEMMA InTurnStep ==
    ASSUME Assumptions, Typed, Ordered, InTurn, Next
    PROVE  InTurn'
<1>1. QueueTyped /\ RowsMatch /\ Sorted /\ FlightTyped
  BY DEF Typed
<1>2. DOMAIN queue = 1 .. Len(queue) /\ Len(queue) \in Nat /\ DOMAIN ops = 1 .. Len(ops)
      /\ Len(ops) \in Nat /\ Queued \subseteq DOMAIN ops
  BY <1>1, Rows DEF QueueTyped
<1>3. ASSUME UNCHANGED ops, Queued' = Queued
      PROVE  InTurn'
  BY <1>3 DEF InTurn
<1>4. ASSUME NEW w \in Works, admit(w)
      PROVE  InTurn'
  <2>1. /\ Len(ops') = Len(ops) + 1
        /\ DOMAIN ops' = DOMAIN ops \cup {Len(ops')}
        /\ \A i \in DOMAIN ops : ops'[i] = ops[i]
        /\ Queued' = Queued \cup {Len(ops')}
    BY <1>4, Admits, Zenon
  <2> SUFFICES ASSUME NEW i \in DOMAIN ops', NEW j \in DOMAIN ops', i < j,
                      ops'[i].locks \cap ops'[j].locks # {}, i \in Queued'
               PROVE  j \in Queued'
    BY DEF InTurn
  <2>2. CASE j = Len(ops')
    BY <2>1, <2>2
  <2>3. CASE j \in DOMAIN ops
    <3>1. i \in DOMAIN ops /\ i \in Queued
      BY <1>2, <2>1, <2>3
    <3> QED
      BY <2>1, <2>3, <3>1, Zenon DEF InTurn
  <2> QED
    BY <2>1, <2>2, <2>3
<1>5. ASSUME NEW f \in flight, NEW ok \in BOOLEAN, settled(f, ok)
      PROVE  InTurn'
  <2>1. /\ RowOf(f.sequence) \in DOMAIN queue
        /\ queue[RowOf(f.sequence)].sequence = f.sequence
        /\ UNCHANGED ops /\ ~ended /\ Queued' = Queued \ {f.sequence}
    <3>1. Settled(f, ok)
      BY <1>5, Settles
    <3> QED
      BY <3>1, Zenon DEF Settled
  <2> DEFINE b == RowOf(f.sequence)
  <2>2. b \in DOMAIN queue /\ queue[b].sequence = f.sequence
    BY <2>1
  <2> HIDE DEF b
  <2>3. queue[b].issued
    BY <1>1, <2>1, <2>2, Zenon DEF FlightTyped
  <2> SUFFICES ASSUME NEW i \in DOMAIN ops, NEW j \in DOMAIN ops, i < j,
                      ops[i].locks \cap ops[j].locks # {}, i \in Queued, i # f.sequence
               PROVE  j \in Queued /\ j # f.sequence
    BY <2>1 DEF InTurn
  <2>4. j \in Queued
    BY DEF InTurn
  \* What is answered has nothing before it on its records.
  <2>5. ASSUME j = f.sequence
        PROVE  FALSE
    <3>1. PICK a \in DOMAIN queue : queue[a].sequence = i
      BY Zenon DEF Queued
    <3>2. a < b
      <4>1. ~(b < a)
        BY <1>1, <1>2, <2>2, <2>5, <3>1 DEF Sorted
      <4>2. a # b
        BY <1>2, <2>2, <2>5, <3>1
      <4> QED
        BY <1>2, <2>2, <4>1, <4>2
    <3>3. queue[a].locks = ops[i].locks /\ queue[b].locks = ops[j].locks
      BY <1>1, <2>2, <2>5, <3>1, Zenon DEF RowsMatch
    <3> QED
      BY <2>2, <2>3, <3>2, <3>3, Zenon DEF Ordered, Behind
  <2> QED
    BY <2>4, <2>5
<1>6. ASSUME NEW f \in flight, NEW ok \in BOOLEAN, stage_patch(f, ok)
      PROVE  InTurn'
  <2>1. UNCHANGED ops /\ Same(RowOf(f.sequence))
    <3>1. Restaged(f)
      BY <1>6, Stages
    <3> QED
      BY <3>1, Zenon DEF Restaged
  <2> QED
    BY <2>1, <1>3, Zenon DEF Same
<1>7. CASE pump
  <2>1. CASE connection = 0 \/ Issuable(top.row) = {}
    <3>1. UNCHANGED <<ops, queue>>
      BY <1>7, <2>1, Idles, Zenon
    <3> QED
      BY <3>1, <1>3 DEF Queued
  <2>2. CASE connection # 0 /\ Issuable(top.row) # {}
    <3>1. UNCHANGED ops /\ Same(chosen)
      BY <1>7, <2>2, Issues, Zenon
    <3> QED
      BY <3>1, <1>3, Zenon DEF Same
  <2> QED
    BY <2>1, <2>2
<1>8. CASE clear
  <2>1. DOMAIN queue' = {}
    BY <1>8 DEF clear
  <2>2. Queued' = {}
    BY <2>1 DEF Queued
  <2> QED
    BY <2>2 DEF InTurn
<1>9. CASE finish \/ UNCHANGED still
  <2>1. UNCHANGED <<queue, ops>>
    BY <1>9, Zenon DEF finish, still, database, history
  <2> QED
    BY <2>1, <1>3 DEF Queued
<1> QED
  BY <1>4, <1>5, <1>6, <1>7, <1>8, <1>9, Others, Zenon

\* An operation waits exactly while its answer is owed.
LEMMA TurnsSettle ==
    ASSUME Assumptions, Typed, InTurn
    PROVE  SettlesInOrder
<1> USE Bounds
<1>1. Queued = {s \in Sequences : <<"op", s>> \in owed}
  BY DEF Typed, OwedTyped
<1>2. DOMAIN ops = 1 .. Len(ops) /\ Len(ops) \in Nat
  BY DEF Typed, QueueTyped
<1> SUFFICES ASSUME NEW i \in Sequences, NEW j \in Sequences, i < j, j <= Len(ops),
                    ops[i].locks \cap ops[j].locks # {}, <<"op", i>> \in owed
             PROVE  <<"op", j>> \in owed
  BY DEF SettlesInOrder
<1>3. i \in DOMAIN ops /\ j \in DOMAIN ops
  BY <1>2 DEF Sequences
<1>4. i \in Queued
  BY <1>1
<1>5. j \in Queued
  BY <1>3, <1>4 DEF InTurn
<1> QED
  BY <1>1, <1>5

-----------------------------------------------------------------------------
(* Connections that come, and flushes that wait. *)

\* A connection that was made is in use or closed; one that is awaited is the one the
\* database waits for, or it is known to come for nothing.
Claimed ==
    /\ \A c \in DOMAIN conns :
        /\ conns[c].is = "made" => c = connection \/ conns[c].closed
        /\ conns[c].is = "connecting" =>
            \/ c = connecting /\ conns[c].bound = generation /\ state = "opening"
            \/ <<conns[c].bound, c>> \in abandoned
    /\ \A p \in abandoned : p[1] < generation \/ (p[1] = generation /\ state = "closing")

LEMMA ClaimedStep ==
    ASSUME Assumptions, ~Reopens, Typed, Claimed, Next
    PROVE  Claimed'
<1> USE Bounds
<1>1. StateTyped
  BY DEF Typed
<1>2. /\ DOMAIN conns = 1 .. Len(conns) /\ Len(conns) \in Nat /\ generation \in Nat
      /\ \A c \in DOMAIN conns : conns[c] \in Conn
      /\ abandoned \subseteq (1 .. (MaxCloses + 1)) \X (1 .. MaxOpens)
  BY <1>1 DEF StateTyped
<1>3. /\ state \in {"closed", "opening"} => connection = 0
      /\ connecting # 0 => state = "opening"
  BY <1>1 DEF StateTyped
<1>4. ASSUME UNCHANGED <<state, generation, connection, connecting, abandoned, conns>>
      PROVE  Claimed'
  BY <1>4 DEF Claimed
\* Only a database that is closed is opened.
<1>5. ASSUME NEW s \in Slots, open(s)
      PROVE  Claimed'
  <2> DEFINE n == [slot |-> s, is |-> "connecting", closed |-> FALSE, bound |-> generation]
             l == Len(conns) + 1
  <2>1. state = "closed"
    BY <1>5, Zenon DEF open
  <2>2. /\ conns' = Append(conns, n) /\ state' = "opening" /\ connecting' = l
        /\ UNCHANGED <<generation, connection, abandoned>>
    BY <1>5, <2>1 DEF open
  <2>3. n.is = "connecting" /\ n.bound = generation
    OBVIOUS
  <2> HIDE DEF n
  <2>4. /\ DOMAIN conns' = DOMAIN conns \cup {l} /\ conns'[l] = n
        /\ \A c \in DOMAIN conns : conns'[c] = conns[c]
    BY <2>2, <1>1, <1>2 DEF StateTyped
  <2> HIDE DEF l
  <2>5. ASSUME NEW c \in DOMAIN conns
        PROVE  /\ conns'[c].is = "made" => c = connection' \/ conns'[c].closed
               /\ conns'[c].is = "connecting" => <<conns'[c].bound, c>> \in abandoned'
    BY <2>1, <2>2, <2>4 DEF Claimed
  <2>6. \A p \in abandoned' : p[1] < generation'
    BY <2>1, <2>2 DEF Claimed
  <2> QED
    BY <2>2, <2>3, <2>4, <2>5, <2>6 DEF Claimed
<1>6. ASSUME NEW c \in DOMAIN conns, NEW ok \in BOOLEAN, connected(c, ok)
      PROVE  Claimed'
  <2>1. /\ conns[c].bound = generation /\ state = "opening" /\ conns[c].is = "connecting"
        /\ conns' = [conns EXCEPT ![c].is = IF ok THEN "made" ELSE "failed"]
        /\ connection' = (IF ok THEN c ELSE 0)
        /\ UNCHANGED <<generation, abandoned>>
    BY <1>6, Zenon DEF connected, Connects, stale
  <2>2. \A p \in abandoned : p[1] < generation
    BY <2>1 DEF Claimed
  <2>3. <<conns[c].bound, c>> \notin abandoned
    <3>1. <<conns[c].bound, c>>[1] = generation
      BY <2>1
    <3> QED
      BY <2>2, <3>1, <1>2
  <2>4. c = connecting
    BY <2>1, <2>3 DEF Claimed
  <2>5. /\ DOMAIN conns' = DOMAIN conns
        /\ conns'[c].is = IF ok THEN "made" ELSE "failed"
        /\ \A d \in DOMAIN conns : d # c => conns'[d] = conns[d]
    BY <2>1, <1>2 DEF Conn
  <2>6. ASSUME NEW d \in DOMAIN conns'
        PROVE  /\ conns'[d].is = "made" => d = connection' \/ conns'[d].closed
               /\ conns'[d].is = "connecting" => <<conns'[d].bound, d>> \in abandoned'
    <3>1. CASE d = c
      BY <2>1, <2>5, <3>1
    <3>2. CASE d # c
      <4>1. d \in DOMAIN conns /\ d # connecting /\ d # 0 /\ conns'[d] = conns[d]
        BY <2>4, <2>5, <3>2, <1>2
      <4> QED
        BY <2>1, <4>1, <1>3 DEF Claimed
    <3> QED
      BY <3>1, <3>2
  <2>7. \A p \in abandoned' : p[1] < generation'
    BY <2>1, <2>2
  <2> QED
    BY <2>6, <2>7 DEF Claimed
<1>7. ASSUME NEW c \in DOMAIN conns, NEW ok \in BOOLEAN, discard(c, ok)
      PROVE  Claimed'
  <2>1. /\ stale(c) /\ conns[c].is = "connecting"
        /\ conns' = [conns EXCEPT ![c].is = IF ok THEN "made" ELSE "failed",
                                  ![c].closed = ok /\ <<conns[c].bound, c>> \in abandoned]
        /\ abandoned' = abandoned \ {<<conns[c].bound, c>>}
        /\ UNCHANGED <<generation, connection, connecting, state>>
    BY <1>7, Zenon DEF discard, Connects
  <2>2. <<conns[c].bound, c>> \in abandoned
    BY <2>1 DEF Claimed, stale
  <2>3. /\ DOMAIN conns' = DOMAIN conns
        /\ conns'[c].is = (IF ok THEN "made" ELSE "failed") /\ conns'[c].closed = ok
        /\ \A d \in DOMAIN conns : d # c => conns'[d] = conns[d]
    BY <2>1, <2>2, <1>2 DEF Conn
  <2>4. ASSUME NEW d \in DOMAIN conns'
        PROVE  /\ conns'[d].is = "made" => d = connection' \/ conns'[d].closed
               /\ conns'[d].is = "connecting" =>
                    \/ d = connecting' /\ conns'[d].bound = generation' /\ state' = "opening"
                    \/ <<conns'[d].bound, d>> \in abandoned'
    <3>1. CASE d = c
      BY <2>3, <3>1
    <3>2. CASE d # c
      <4>1. <<conns[d].bound, d>> # <<conns[c].bound, c>>
        BY <3>2
      <4> QED
        BY <2>1, <2>3, <3>2, <4>1 DEF Claimed
    <3> QED
      BY <3>1, <3>2
  <2>5. \A p \in abandoned' : p[1] < generation' \/ (p[1] = generation' /\ state' = "closing")
    BY <2>1 DEF Claimed
  <2> QED
    BY <2>4, <2>5 DEF Claimed
\* What a close overtakes is given up.
<1>8. CASE close
  <2>1. /\ state \in {"opening", "open"} /\ state' = "closing" /\ connecting' = 0
        /\ abandoned' = (IF connecting = 0 THEN abandoned
                         ELSE abandoned \cup {<<generation, connecting>>})
        /\ UNCHANGED <<generation, connection, conns>>
    BY <1>8, Zenon DEF close, external
  <2>2. ASSUME NEW c \in DOMAIN conns, conns[c].is = "connecting"
        PROVE  <<conns[c].bound, c>> \in abandoned'
    <3>1. CASE <<conns[c].bound, c>> \in abandoned
      BY <2>1, <3>1
    <3>2. CASE c = connecting /\ conns[c].bound = generation
      <4>1. connecting # 0
        BY <3>2, <1>2
      <4> QED
        BY <2>1, <3>2, <4>1
    <3> QED
      BY <2>2, <3>1, <3>2 DEF Claimed
  <2>3. \A p \in abandoned' : p[1] < generation' \/ (p[1] = generation' /\ state' = "closing")
    <3>1. <<generation, connecting>>[1] = generation
      OBVIOUS
    <3>2. \A p \in abandoned : p[1] < generation
      BY <2>1 DEF Claimed
    <3> QED
      BY <2>1, <3>1, <3>2
  <2> QED
    BY <2>1, <2>2, <2>3 DEF Claimed
<1>9. CASE finish
  <2>1. CASE state # "closing"
    <3>1. UNCHANGED <<state, generation, connection, connecting, abandoned, conns>>
      BY <1>9, <2>1, Zenon DEF finish, database
    <3> QED
      BY <3>1, <1>4
  <2>2. CASE state = "closing"
    <3>1. /\ generation' = generation + 1
          /\ conns' = [c \in DOMAIN conns |->
                          IF c = connection THEN [conns[c] EXCEPT !.closed = TRUE] ELSE conns[c]]
          /\ UNCHANGED abandoned
      BY <1>9, <2>2, Zenon DEF finish
    <3>2. /\ DOMAIN conns' = DOMAIN conns
          /\ \A c \in DOMAIN conns :
                /\ conns'[c].is = conns[c].is /\ conns'[c].bound = conns[c].bound
                /\ conns[c].closed \/ c = connection => conns'[c].closed
      BY <3>1, <1>2 DEF Conn
    <3>3. \A c \in DOMAIN conns :
            /\ conns'[c].is = "made" => conns'[c].closed
            /\ conns'[c].is = "connecting" => <<conns'[c].bound, c>> \in abandoned'
      BY <2>2, <3>1, <3>2 DEF Claimed
    <3>4. \A p \in abandoned' : p[1] < generation'
      <4>1. \A p \in abandoned : p[1] \in Nat
        BY <1>2
      <4> QED
        BY <2>2, <3>1, <4>1, <1>2 DEF Claimed
    <3> QED
      BY <3>2, <3>3, <3>4 DEF Claimed
  <2> QED
    BY <2>1, <2>2
<1>10. CASE flush \/ release_waiters \/ pump \/ settle \/ GameReturns \/ AnswersLater \/ clear
  <2>1. UNCHANGED <<state, generation, connection, connecting, abandoned, conns>>
    BY <1>10, Zenon DEF flush, release_waiters, pump, settle, GameReturns, AnswersLater, clear,
       database, external
  <2> QED
    BY <2>1, <1>4
<1>11. ASSUME NEW f \in flight, NEW ok \in BOOLEAN, stage_patch(f, ok) \/ settled(f, ok)
       PROVE  Claimed'
  <2>1. UNCHANGED <<state, generation, connection, connecting, abandoned, conns>>
    BY <1>11, Zenon DEF stage_patch, settled
  <2> QED
    BY <2>1, <1>4
<1>12. ASSUME NEW w \in Works, admit(w)
       PROVE  Claimed'
  <2>1. UNCHANGED <<state, generation, connection, connecting, abandoned, conns>>
    BY <1>12, Zenon DEF admit, external
  <2> QED
    BY <2>1, <1>4
<1> QED
  BY <1>5, <1>6, <1>7, <1>8, <1>9, <1>10, <1>11, <1>12, Zenon DEF Next, Inside, Backend, GameCalls

\* The flushes for which no operation waits any more.
done == {n \in DOMAIN flushes : flushes[n] \cap Queued = {}}

Among(left, N) == \A k \in 1 .. Len(left) : left[k] \in N
Freed(s, N) == \A n \in 1 .. Len(s) : s[n].at = "release" => Among(s[n].left, N)

\* What is being released has nothing to wait for, nor has what was answered.
Honest ==
    /\ \A n \in DOMAIN flushes : flushes[n] \subseteq DOMAIN ops
    /\ Among(flush_waiters, DOMAIN flushes)
    /\ Freed(stack, done)
    /\ \A n \in DOMAIN flushes : <<"flush", n>> \notin owed => n \in done

LEMMA FreedPop ==
    ASSUME NEW s \in Seq(Frame), s # <<>>, NEW N, Freed(s, N)
    PROVE  Freed(Tail(s), N) /\ (s[1].at = "release" => Among(s[1].left, N))
<1>1. /\ Len(s) \in Nat \ {0} /\ Len(Tail(s)) = Len(s) - 1
      /\ \A n \in 1 .. Len(s) - 1 : Tail(s)[n] = s[n + 1]
  BY Popped
<1>2. \A n \in 1 .. Len(Tail(s)) : n + 1 \in 1 .. Len(s) /\ Tail(s)[n] = s[n + 1]
  BY <1>1
<1>3. 1 \in 1 .. Len(s)
  BY <1>1
<1> QED
  BY <1>2, <1>3, Zenon DEF Freed

LEMMA FreedPush ==
    ASSUME NEW a \in Frame, NEW t \in Seq(Frame), NEW N, Freed(t, N),
           a.at = "release" => Among(a.left, N)
    PROVE  Freed(<<a>> \o t, N) /\ <<a>> \o t \in Seq(Frame)
<1> DEFINE s == <<a>> \o t
<1>1. /\ s \in Seq(Frame) /\ Len(t) \in Nat /\ Len(s) = Len(t) + 1 /\ s[1] = a
      /\ \A n \in 2 .. Len(t) + 1 : s[n] = t[n - 1]
  BY Pushed
<1> HIDE DEF s
<1>2. ASSUME NEW n \in 1 .. Len(s), s[n].at = "release"
      PROVE  Among(s[n].left, N)
  <2>1. CASE n = 1
    BY <1>1, <1>2, <2>1
  <2>2. CASE n # 1
    <3>1. n - 1 \in 1 .. Len(t) /\ s[n] = t[n - 1]
      BY <1>1, <2>2
    <3> QED
      BY <1>2, <3>1, Zenon DEF Freed
  <2> QED
    BY <2>1, <2>2
<1>3. Freed(s, N)
  BY <1>2, Zenon DEF Freed
<1> QED
  BY <1>1, <1>3 DEF s

\* A flush that is done stays done: what comes later it does not wait for.
LEMMA DoneStays ==
    ASSUME Assumptions, Typed, Honest, Next
    PROVE  /\ done \subseteq done'
           /\ DOMAIN flushes \subseteq DOMAIN flushes'
           /\ \A n \in DOMAIN flushes' : flushes'[n] \subseteq DOMAIN ops'
           /\ flush \/ UNCHANGED flushes
<1>1. QueueTyped /\ RowsMatch /\ FlushTyped
  BY DEF Typed
<1>2. Queued \subseteq DOMAIN ops
  BY <1>1, Rows
<1>3. /\ DOMAIN ops \subseteq DOMAIN ops'
      /\ \A s \in Queued' : s \in Queued \/ s \notin DOMAIN ops
  <2>1. ASSUME NEW w \in Works, admit(w)
        PROVE  /\ DOMAIN ops \subseteq DOMAIN ops'
               /\ \A s \in Queued' : s \in Queued \/ s \notin DOMAIN ops
    <3>1. /\ DOMAIN ops' = DOMAIN ops \cup {Len(ops')} /\ Len(ops') \notin DOMAIN ops
          /\ Queued' = Queued \cup {Len(ops')}
      BY <2>1, Admits, Zenon
    <3> QED
      BY <3>1
  <2>2. ASSUME NEW f \in flight, NEW ok \in BOOLEAN, settled(f, ok)
        PROVE  UNCHANGED ops /\ Queued' \subseteq Queued
    <3>1. UNCHANGED ops /\ Queued' = Queued \ {f.sequence}
      <4>1. Settled(f, ok)
        BY <2>2, Settles
      <4> QED
        BY <4>1, Zenon DEF Settled
    <3> QED
      BY <3>1
  <2>3. ASSUME NEW f \in flight, NEW ok \in BOOLEAN, stage_patch(f, ok)
        PROVE  UNCHANGED ops /\ Queued' \subseteq Queued
    <3>1. Restaged(f)
      BY <2>3, Stages
    <3> QED
      BY <3>1, Zenon DEF Restaged, Same
  <2>4. CASE pump
    <3>1. CASE connection = 0 \/ Issuable(top.row) = {}
      <4>1. UNCHANGED <<ops, queue>>
        BY <2>4, <3>1, Idles, Zenon
      <4> QED
        BY <4>1, <1>2 DEF Queued
    <3>2. CASE connection # 0 /\ Issuable(top.row) # {}
      <4>1. UNCHANGED ops /\ Queued' = Queued
        BY <2>4, <3>2, Issues, Zenon DEF Same
      <4> QED
        BY <4>1, <1>2
    <3> QED
      BY <3>1, <3>2
  <2>5. CASE clear
    <3>1. UNCHANGED ops /\ DOMAIN queue' = {}
      BY <2>5 DEF clear, history
    <3>2. Queued' = {}
      BY <3>1 DEF Queued
    <3> QED
      BY <3>1, <3>2
  <2>6. CASE finish \/ UNCHANGED still
    <3>1. UNCHANGED <<ops, queue>>
      BY <2>6, Zenon DEF finish, still, database, history
    <3> QED
      BY <3>1, <1>2 DEF Queued
  <2> QED
    BY <2>1, <2>2, <2>3, <2>4, <2>5, <2>6, Others
<1>4. flush \/ UNCHANGED flushes
  <2>1. ASSUME NEW f \in flight, NEW ok \in BOOLEAN, stage_patch(f, ok) \/ settled(f, ok)
        PROVE  UNCHANGED flushes
    BY <2>1, Zenon DEF stage_patch, settled, history
  <2>2. ASSUME NEW w \in Works, admit(w)
        PROVE  UNCHANGED flushes
    BY <2>2, Zenon DEF admit
  <2>3. ASSUME NEW s \in Slots, open(s)
        PROVE  UNCHANGED flushes
    BY <2>3, Zenon DEF open, history
  <2>4. ASSUME NEW c \in DOMAIN conns, NEW ok \in BOOLEAN, connected(c, ok) \/ discard(c, ok)
        PROVE  UNCHANGED flushes
    BY <2>4, Zenon DEF connected, discard, Connects, history
  <2>5. close \/ release_waiters \/ finish \/ pump \/ settle \/ GameReturns \/ AnswersLater \/ clear
            => UNCHANGED flushes
    BY Zenon DEF close, release_waiters, finish, pump, settle, GameReturns, AnswersLater, clear,
       history
  <2> QED
    BY <2>1, <2>2, <2>3, <2>4, <2>5, Zenon DEF Next, Inside, Backend, GameCalls
<1>5. /\ DOMAIN flushes \subseteq DOMAIN flushes'
      /\ \A n \in DOMAIN flushes : flushes'[n] = flushes[n]
      /\ \A n \in DOMAIN flushes' : n \notin DOMAIN flushes => flushes'[n] = Queued
  <2>1. CASE flush
    <3>1. flushes' = Append(flushes, Queued)
      BY <2>1, Zenon DEF flush
    <3>2. flushes \in Seq(SUBSET Nat) /\ Queued \in SUBSET Nat
      BY <1>1, <1>2 DEF FlushTyped, QueueTyped
    <3>3. /\ DOMAIN flushes = 1 .. Len(flushes) /\ Len(flushes) \in Nat
          /\ DOMAIN flushes' = 1 .. Len(flushes) + 1 /\ flushes'[Len(flushes) + 1] = Queued
          /\ \A n \in 1 .. Len(flushes) : flushes'[n] = flushes[n]
      BY <3>1, <3>2, Appended
    <3> QED
      BY <3>3
  <2>2. CASE UNCHANGED flushes
    BY <2>2
  <2> QED
    BY <2>1, <2>2, <1>4
<1>6. \A n \in DOMAIN flushes' : flushes'[n] \subseteq DOMAIN ops'
  BY <1>2, <1>3, <1>5 DEF Honest
<1>7. ASSUME NEW n \in done
      PROVE  n \in done'
  <2>1. n \in DOMAIN flushes /\ flushes[n] \cap Queued = {} /\ flushes[n] \subseteq DOMAIN ops
    BY DEF done, Honest
  <2>2. flushes'[n] \cap Queued' = {}
    BY <2>1, <1>3, <1>5
  <2> QED
    BY <2>1, <2>2, <1>5 DEF done
<1> QED
  BY <1>4, <1>5, <1>6, <1>7

LEMMA HonestStep ==
    ASSUME Assumptions, Typed, Honest, Next
    PROVE  Honest'
<1> DEFINE D == done'
<1>1. /\ Pump(1) \in Frame /\ Finish \in Frame /\ Settle \in Frame
      /\ Game(AnswerCalls) \in Frame /\ Game(FlushCalls) \in Frame
      /\ Release(flush_waiters) \in Frame
  BY Frames DEF Typed, FlushTyped
<1>2. /\ Settle.at = "settle" /\ Finish.at = "finish"
      /\ \A calls : Game(calls).at = "game"
      /\ \A r : Pump(r).at = "pump"
      /\ \A left : Release(left).at = "release" /\ Release(left).left = left
      /\ \A c : Made(c).at = "made"
      /\ \A q : Reply(q).at = "reply"
  BY Frames, Zenon
<1>3. /\ done \subseteq D /\ DOMAIN flushes \subseteq DOMAIN flushes'
      /\ \A n \in DOMAIN flushes' : flushes'[n] \subseteq DOMAIN ops'
      /\ flush \/ UNCHANGED flushes
  BY DoneStays
<1> HIDE DEF D
<1>4. stack \in Seq(Frame) /\ Freed(stack, D) /\ Among(flush_waiters, DOMAIN flushes')
  BY <1>3 DEF Typed, StackTyped, Honest, Freed, Among
<1>5. ASSUME stack # <<>>
      PROVE  /\ Under \in Seq(Frame) /\ Freed(Under, D) /\ top = stack[1] /\ top \in Frame
             /\ top.at = "release" => Among(top.left, D) /\ Among(top.left, done)
  <2>1. Under \in Seq(Frame) /\ top = stack[1] /\ top \in Frame /\ Under = Tail(stack)
    BY <1>4, <1>5, Top, Zenon DEF Typed, Under
  <2> QED
    BY <2>1, <1>4, <1>5, FreedPop, Zenon DEF Honest
<1>6. rest \in Seq(Frame) /\ Freed(rest, D)
  <2>1. CASE stack = <<>>
    <3>1. rest = <<>> /\ 1 .. Len(rest) = {} /\ rest \in Seq(Frame)
      BY <2>1 DEF rest
    <3> QED
      BY <3>1 DEF Freed
  <2>2. CASE stack # <<>>
    BY <2>2, <1>5 DEF rest
  <2> QED
    BY <2>1, <2>2
\* A frame that releases nothing.
<1>7. ASSUME NEW a \in Frame, NEW t \in Seq(Frame), Freed(t, D), a.at # "release"
      PROVE  Freed(<<a>> \o t, D) /\ <<a>> \o t \in Seq(Frame)
  BY <1>7, FreedPush, Zenon
\* Waiters that are released over an empty queue.
<1>8. ASSUME queue = <<>>, NEW t \in Seq(Frame), Freed(t, D)
      PROVE  /\ <<Release(flush_waiters)>> \o t \in Seq(Frame)
             /\ Freed(<<Release(flush_waiters)>> \o t, D)
  <2>1. DOMAIN queue = {}
    BY <1>8
  <2>2. Queued = {}
    BY <2>1 DEF Queued
  <2>3. done = DOMAIN flushes
    BY <2>2 DEF done
  <2>4. Among(flush_waiters, D)
    BY <2>3, <1>3 DEF Honest, Among
  <2> QED
    BY <2>4, <1>1, <1>2, <1>8, FreedPush, Zenon
<1>9. ASSUME UNCHANGED flushes, Freed(stack', D),
             flush_waiters' = flush_waiters \/ flush_waiters' = <<>>,
             \A n : <<"flush", n>> \in owed => <<"flush", n>> \in owed'
      PROVE  Honest'
  <2>1. Among(flush_waiters', DOMAIN flushes')
    <3>1. CASE flush_waiters' = <<>>
      <4>1. 1 .. Len(flush_waiters') = {}
        BY <3>1
      <4> QED
        BY <4>1 DEF Among
    <3> QED
      BY <3>1, <1>4, <1>9
  <2>2. \A n \in DOMAIN flushes' : <<"flush", n>> \notin owed' => n \in D
    BY <1>3, <1>9 DEF Honest
  <2> QED
    BY <2>1, <2>2, <1>3, <1>9 DEF Honest, D
<1>10. ASSUME NEW s \in Slots, open(s)
       PROVE  Honest'
  <2> DEFINE m == Made(Len(conns) + 1)
  <2>1. /\ UNCHANGED <<flushes, flush_waiters>>
        /\ (stack' = <<m>> \o stack \/ stack' = stack)
        /\ \A n : <<"flush", n>> \in owed => <<"flush", n>> \in owed'
    <3>1. /\ UNCHANGED <<flushes, flush_waiters>>
          /\ (stack' = <<m>> \o stack \/ stack' = stack)
      BY <1>10, Zenon DEF open, history
    <3>2. owed \subseteq owed'
      <4>1. owed' = owed \/ \E c : owed' = owed \cup {<<"open", c>>}
        BY <1>10, Zenon DEF open
      <4> QED
        BY <4>1
    <3> QED
      BY <3>1, <3>2
  <2>2. m \in Frame /\ m.at # "release"
    <3>1. Len(conns) + 1 \in Nat
      BY DEF Typed, StateTyped
    <3> QED
      BY <3>1, Frames, Zenon
  <2> HIDE DEF m
  <2>3. Freed(stack', D)
    BY <2>1, <2>2, <1>4, <1>7
  <2> QED
    BY <2>1, <2>3, <1>9
<1>11. ASSUME NEW w \in Works, admit(w)
       PROVE  Honest'
  <2>1. /\ UNCHANGED <<flushes, flush_waiters>> /\ stack' = <<Pump(1)>> \o stack
        /\ owed' = owed \cup {<<"op", Len(ops) + 1>>}
    BY <1>11, Zenon DEF admit
  <2>2. Freed(stack', D)
    BY <2>1, <1>1, <1>2, <1>4, <1>7
  <2> QED
    BY <2>1, <2>2, <1>9
<1>12. CASE close
  <2> DEFINE overtaken == IF state = "opening" THEN <<Game(AnswerCalls)>> ELSE <<>>
             t == overtaken \o stack
             u == <<Finish>> \o t
  <2>1. /\ UNCHANGED flushes /\ (flush_waiters' = flush_waiters \/ flush_waiters' = <<>>)
        /\ owed' = (owed \ {<<"open", connecting>>}) \cup {<<"close", closes'>>}
        /\ \/ queue = <<>> /\ stack' = <<Release(flush_waiters), Finish>> \o overtaken \o stack
           \/ stack' = t
    BY <1>12, Zenon DEF close
  <2>2. t \in Seq(Frame) /\ Freed(t, D) /\ overtaken \in Seq(Frame)
    <3>1. CASE state = "opening"
      BY <3>1, <1>1, <1>2, <1>4, <1>7
    <3>2. CASE state # "opening"
      BY <3>2, <1>4, PushedNone
    <3> QED
      BY <3>1, <3>2
  <2> HIDE DEF overtaken
  <2>3. <<Release(flush_waiters), Finish>> \o overtaken \o stack
           = <<Release(flush_waiters), Finish>> \o t
    <3>1. <<Release(flush_waiters), Finish>> \in Seq(Frame)
      BY <1>1
    <3> QED
      <4>1. Regrouped(<<Release(flush_waiters), Finish>>, overtaken, stack)
        BY <2>2, <3>1, <1>4, Regroups, Zenon
      <4> QED
        BY <4>1, Zenon DEF Regrouped
  <2> HIDE DEF t
  <2>4. <<Release(flush_waiters), Finish>> \o t = <<Release(flush_waiters)>> \o u
    BY <2>2, <1>1, Stacked, Zenon
  <2>5. u \in Seq(Frame) /\ Freed(u, D)
    BY <2>2, <1>1, <1>2, <1>7
  <2> HIDE DEF u
  <2>6. Freed(stack', D)
    BY <2>1, <2>2, <2>3, <2>4, <2>5, <1>8
  <2>7. \A n : <<"flush", n>> \in owed => <<"flush", n>> \in owed'
    BY <2>1
  <2> QED
    BY <2>1, <2>6, <2>7, <1>9
<1>13. CASE flush
  <2>1. /\ flushes' = Append(flushes, Queued)
        /\ flush_waiters' = Append(flush_waiters, Len(flushes'))
        /\ owed' = owed \cup {<<"flush", Len(flushes')>>} /\ UNCHANGED stack
    BY <1>13, Zenon DEF flush
  <2>2. flushes \in Seq(SUBSET Nat) /\ Queued \in SUBSET Nat /\ flush_waiters \in Seq(Nat)
    <3>1. Queued \subseteq DOMAIN ops
      BY Rows DEF Typed
    <3> QED
      BY <3>1 DEF Typed, FlushTyped, QueueTyped
  <2>3. /\ Len(flushes) \in Nat /\ Len(flushes') = Len(flushes) + 1
        /\ DOMAIN flushes = 1 .. Len(flushes) /\ DOMAIN flushes' = 1 .. Len(flushes) + 1
    BY <2>1, <2>2, Appended
  <2>4. /\ Len(flush_waiters') = Len(flush_waiters) + 1 /\ Len(flush_waiters) \in Nat
        /\ flush_waiters'[Len(flush_waiters) + 1] = Len(flushes')
        /\ \A i \in 1 .. Len(flush_waiters) : flush_waiters'[i] = flush_waiters[i]
    BY <2>1, <2>2, <2>3, Appended
  <2>5. Among(flush_waiters', DOMAIN flushes')
    <3> SUFFICES ASSUME NEW k \in 1 .. Len(flush_waiters')
                 PROVE  flush_waiters'[k] \in DOMAIN flushes'
      BY DEF Among
    <3>1. CASE k = Len(flush_waiters) + 1
      BY <2>3, <2>4, <3>1
    <3>2. CASE k \in 1 .. Len(flush_waiters)
      BY <2>4, <3>2, <1>4, Zenon DEF Among
    <3> QED
      BY <2>4, <3>1, <3>2
  <2>6. \A n \in DOMAIN flushes' : <<"flush", n>> \notin owed' => n \in D
    <3> SUFFICES ASSUME NEW n \in DOMAIN flushes', <<"flush", n>> \notin owed'
                 PROVE  n \in D
      OBVIOUS
    <3>1. n # Len(flushes')
      BY <2>1
    <3>2. n \in DOMAIN flushes
      BY <2>3, <3>1
    <3>3. <<"flush", n>> \notin owed
      BY <2>1
    <3> QED
      BY <3>2, <3>3, <1>3 DEF Honest
  <2> QED
    BY <2>1, <2>5, <2>6, <1>3, <1>4 DEF Honest, D
<1>14. CASE release_waiters
  <2>1. stack # <<>> /\ top.at = "release" /\ UNCHANGED <<flushes, flush_waiters>>
    BY <1>14, Zenon DEF release_waiters, TopIs, history, database
  <2>2. /\ Under \in Seq(Frame) /\ Freed(Under, D)
        /\ Among(top.left, D) /\ Among(top.left, done) /\ top.left \in Seq(Nat)
    BY <2>1, <1>5, Frames, Zenon
  <2>3. CASE top.left = <<>>
    <3>1. stack' = Under /\ UNCHANGED owed
      BY <2>3, <1>14, Zenon DEF release_waiters
    <3> QED
      BY <3>1, <2>1, <2>2, <1>9
  <2>4. CASE top.left # <<>>
    <3> DEFINE r == Release(Tail(top.left))
               u == <<r>> \o Under
    <3>1. /\ stack' = <<Game(FlushCalls), r>> \o Under
          /\ owed' = owed \ {<<"flush", Head(top.left)>>}
      BY <2>4, <1>14, Zenon DEF release_waiters
    <3>2. /\ Tail(top.left) \in Seq(Nat) /\ Head(top.left) = top.left[1]
          /\ Len(top.left) \in Nat \ {0} /\ Len(Tail(top.left)) = Len(top.left) - 1
          /\ \A k \in 1 .. Len(top.left) - 1 : Tail(top.left)[k] = top.left[k + 1]
      BY <2>2, <2>4, Popped
    <3>3. Among(Tail(top.left), D) /\ Head(top.left) \in D
      BY <2>2, <3>2 DEF Among
    <3>4. r \in Frame /\ r.at = "release" /\ r.left = Tail(top.left)
      BY <3>2, <1>2, Frames, Zenon
    <3> HIDE DEF r
    <3>5. stack' = <<Game(FlushCalls)>> \o u
      BY <3>1, <3>4, <2>2, <1>1, Stacked, Zenon
    <3>6. u \in Seq(Frame) /\ Freed(u, D)
      BY <3>3, <3>4, <2>2, FreedPush, Zenon
    <3> HIDE DEF u
    <3>7. Freed(stack', D)
      BY <3>5, <3>6, <1>1, <1>2, <1>7
    <3>8. \A n \in DOMAIN flushes' : <<"flush", n>> \notin owed' => n \in D
      <4> SUFFICES ASSUME NEW n \in DOMAIN flushes, <<"flush", n>> \notin owed'
                   PROVE  n \in D
        BY <2>1
      <4>1. CASE n = Head(top.left)
        BY <4>1, <3>3
      <4>2. CASE n # Head(top.left)
        <5>1. <<"flush", n>> \notin owed
          BY <4>2, <3>1
        <5> QED
          BY <5>1, <1>3 DEF Honest
      <4> QED
        BY <4>1, <4>2
    <3> QED
      BY <2>1, <3>7, <3>8, <1>3, <1>4 DEF Honest, D
  <2> QED
    BY <2>3, <2>4
<1>15. CASE finish
  <2>1. /\ stack # <<>> /\ UNCHANGED <<flushes, flush_waiters>>
        /\ (stack' = Under \/ stack' = <<Game(AnswerCalls)>> \o Under)
        /\ (owed' = owed \/ owed' = owed \ {<<"close", closes>>})
    BY <1>15, Zenon DEF finish, TopIs, history, database
  <2>2. Freed(stack', D)
    BY <2>1, <1>1, <1>2, <1>5, <1>7
  <2>3. \A n : <<"flush", n>> \in owed => <<"flush", n>> \in owed'
    BY <2>1
  <2> QED
    BY <2>1, <2>2, <2>3, <1>9
<1>16. CASE GameReturns \/ AnswersLater
  <2>1. stack # <<>> /\ stack' = Under /\ UNCHANGED <<flushes, flush_waiters, owed>>
    BY <1>16, Zenon DEF GameReturns, AnswersLater, TopIs, history, database
  <2> QED
    BY <2>1, <1>5, <1>9
<1>17. ASSUME NEW c \in DOMAIN conns, NEW ok \in BOOLEAN, connected(c, ok) \/ discard(c, ok)
       PROVE  Honest'
  <2> DEFINE u == <<Pump(1)>> \o rest
  <2>1. /\ UNCHANGED <<flushes, flush_waiters>>
        /\ (owed' = owed \/ owed' = owed \ {<<"open", c>>})
        /\ \/ stack' = rest
           \/ stack' = <<Game(AnswerCalls)>> \o <<>> \o rest
           \/ stack' = <<Game(AnswerCalls)>> \o <<Pump(1)>> \o rest
    BY <1>17, Zenon DEF connected, discard, Connects, history
  <2>2. u \in Seq(Frame) /\ Freed(u, D)
    BY <1>1, <1>2, <1>6, <1>7
  <2>3. \/ stack' = rest
        \/ stack' = <<Game(AnswerCalls)>> \o rest
        \/ stack' = <<Game(AnswerCalls)>> \o u
    BY <2>1, <1>1, <1>6, Stacked, Zenon
  <2> HIDE DEF u
  <2>4. Freed(stack', D)
    BY <2>2, <2>3, <1>1, <1>2, <1>6, <1>7
  <2>5. \A n : <<"flush", n>> \in owed => <<"flush", n>> \in owed'
    BY <2>1
  <2> QED
    BY <2>1, <2>4, <2>5, <1>9
<1>18. CASE settle
  <2> DEFINE t == <<Pump(1)>> \o Under
             u == <<Finish>> \o t
  <2>1. /\ stack # <<>> /\ UNCHANGED <<flushes, owed>>
        /\ (flush_waiters' = flush_waiters \/ flush_waiters' = <<>>)
        /\ \/ stack' = t
           \/ queue = <<>> /\ stack' = <<Release(flush_waiters), Finish, Pump(1)>> \o Under
    BY <1>18, Zenon DEF settle, TopIs, history
  <2>2. t \in Seq(Frame) /\ Freed(t, D) /\ Under \in Seq(Frame)
    BY <2>1, <1>1, <1>2, <1>5, <1>7
  <2>3. <<Release(flush_waiters), Finish, Pump(1)>> \o Under = <<Release(flush_waiters)>> \o u
    <3>1. Under \in Seq(Frame)
      BY <2>2
    <3> QED
      BY <3>1, <1>1, StackedSettle
  <2> HIDE DEF t
  <2>4. u \in Seq(Frame) /\ Freed(u, D)
    BY <2>2, <1>1, <1>2, <1>7
  <2> HIDE DEF u
  <2>5. Freed(stack', D)
    BY <2>1, <2>2, <2>3, <2>4, <1>8
  <2> QED
    BY <2>1, <2>5, <1>9
<1>19. ASSUME NEW s \in Nat, NEW t \in Seq(Frame), Freed(t, D)
       PROVE  Freed(Answers(s) \o t, D)
  <2>1. Answers(s) \o t = IF Prompt THEN <<Reply(s)>> \o t ELSE t
    BY <1>19, Replied, Zenon
  <2>2. Reply(s) \in Frame
    BY Frames, Zenon
  <2> QED
    BY <2>1, <2>2, <1>2, <1>7, <1>19
<1>20. ASSUME NEW f \in flight, NEW ok \in BOOLEAN, settled(f, ok)
       PROVE  Honest'
  <2> DEFINE u == <<Settle>> \o rest
  <2>1. /\ UNCHANGED <<flushes, flush_waiters>> /\ owed' = owed \ {<<"op", f.sequence>>}
        /\ stack' = <<Game(AnswerCalls), Settle>> \o rest
    BY <1>20, Zenon DEF settled, history
  <2>2. stack' = <<Game(AnswerCalls)>> \o u
    BY <2>1, <1>1, <1>6, Stacked, Zenon
  <2>3. u \in Seq(Frame) /\ Freed(u, D)
    BY <1>1, <1>2, <1>6, <1>7
  <2> HIDE DEF u
  <2>4. Freed(stack', D)
    BY <2>2, <2>3, <1>1, <1>2, <1>7
  <2>5. \A n : <<"flush", n>> \in owed => <<"flush", n>> \in owed'
    BY <2>1
  <2> QED
    BY <2>1, <2>4, <2>5, <1>9
<1>21. ASSUME NEW f \in flight, NEW ok \in BOOLEAN, stage_patch(f, ok)
       PROVE  Honest'
  <2>1. UNCHANGED <<flushes, flush_waiters, owed>> /\ stack' = Answers(f.sequence) \o rest
    BY <1>21, Zenon DEF stage_patch, history
  <2>2. f.sequence \in Nat
    BY Answerable, Bounds DEF Sequences
  <2>3. Freed(stack', D)
    BY <2>1, <2>2, <1>6, <1>19
  <2> QED
    BY <2>1, <2>3, <1>9
<1>22. CASE pump
  <2>1. stack # <<>> /\ UNCHANGED <<flushes, flush_waiters, owed>>
    BY <1>22, Zenon DEF pump, TopIs, history
  <2>2. CASE connection = 0 \/ Issuable(top.row) = {}
    <3>1. stack' = Under
      BY <1>22, <2>2, Idles, Zenon
    <3> QED
      BY <3>1, <2>1, <1>5, <1>9
  <2>3. CASE connection # 0 /\ Issuable(top.row) # {}
    <3> DEFINE s == queue[chosen].sequence
               p == Pump(chosen + 1)
               t == <<p>> \o Under
    <3>1. chosen \in Nat /\ s \in Nat
      <4>1. chosen \in DOMAIN queue /\ s \in 1 .. MaxOps
        BY <1>22, <2>3, Issues, Zenon
      <4>2. queue \in Seq(Pending)
        BY DEF Typed, QueueTyped
      <4> QED
        BY <4>1, <4>2
    <3>2. stack' = Answers(s) \o <<p>> \o Under
      BY <1>22, <2>3, Zenon DEF pump, chosen
    <3>3. p \in Frame /\ p.at = "pump"
      BY <3>1, Frames
    <3> HIDE DEF p, s
    <3>4. t \in Seq(Frame) /\ Freed(t, D) /\ Under \in Seq(Frame)
      BY <2>1, <3>3, <1>5, <1>7
    <3>5. stack' = Answers(s) \o t
      BY <3>1, <3>2, <3>3, <3>4, AnswersAssociate, Zenon
    <3> HIDE DEF t
    <3>6. Freed(stack', D)
      BY <3>1, <3>4, <3>5, <1>19
    <3> QED
      BY <2>1, <3>6, <1>9
  <2> QED
    BY <2>2, <2>3
<1>23. CASE clear
  <2>1. /\ queue' = <<>> /\ flush_waiters' = <<>> /\ stack = <<>> /\ UNCHANGED <<flushes, stack>>
    BY <1>23, Zenon DEF clear, history
  <2>2. DOMAIN queue' = {} /\ 1 .. Len(flush_waiters') = {}
    BY <2>1
  <2>3. Queued' = {}
    BY <2>2 DEF Queued
  <2>4. D = DOMAIN flushes
    BY <2>1, <2>3 DEF D, done
  <2>5. Among(flush_waiters', DOMAIN flushes')
    BY <2>2 DEF Among
  <2> QED
    BY <2>1, <2>4, <2>5, <1>3, <1>4 DEF Honest, D
<1> QED
  BY <1>10, <1>11, <1>12, <1>13, <1>14, <1>15, <1>16, <1>17, <1>18, <1>20, <1>21, <1>22, <1>23,
     Zenon DEF Next, Inside, Backend, GameCalls

\* Nothing moves once the session is gone.
LEMMA EndStays ==
    ASSUME Assumptions, Typed, EndAnswersTheQueue, Next
    PROVE  EndAnswersTheQueue'
<1>1. CASE clear
  <2>1. owed' = {p \in owed : p[1] \notin {"op", "flush"}} /\ owed \subseteq Promise
    BY <1>1, Zenon DEF clear, Typed, OwedTyped
  <2>2. \A p \in Promise : p[1] \in {"op", "open", "flush", "close"}
    BY DEF Promise
  <2> QED
    BY <2>1, <2>2 DEF EndAnswersTheQueue
<1>2. CASE ~clear
  <2>1. ~ended
    <3>1. stack # <<>> => ~ended
      BY DEF Typed, StackTyped
    <3>2. Inside => stack # <<>>
      BY Zenon DEF Inside, release_waiters, finish, pump, settle, GameReturns, AnswersLater, TopIs
    <3>3. Backend => ~ended
      BY Zenon DEF Backend, stage_patch, settled, Answered, connected, discard, Connects
    <3>4. GameCalls => ~ended
      BY Zenon DEF GameCalls, open, admit, close, flush, May
    <3> QED
      BY <1>2, <3>1, <3>2, <3>3, <3>4, Zenon DEF Next
  <2>2. ended' = ended
    <3>1. Inside => ended' = ended
      BY Zenon DEF Inside, release_waiters, finish, pump, settle, GameReturns, AnswersLater
    <3>2. Backend => ended' = ended
      BY Zenon DEF Backend, stage_patch, settled, connected, discard, Connects
    <3>3. GameCalls => ended' = ended
      BY Zenon DEF GameCalls, open, admit, close, flush
    <3> QED
      BY <1>2, <3>1, <3>2, <3>3, Zenon DEF Next
  <2> QED
    BY <2>1, <2>2 DEF EndAnswersTheQueue
<1> QED
  BY <1>1, <1>2

-----------------------------------------------------------------------------
(* The theorems. *)

\* At the start nothing is in progress.
LEMMA NothingYet ==
    ASSUME Assumptions, Init
    PROVE  Calmed /\ Working /\ Exact /\ PatchIsCurrent /\ Ordered /\ InTurn
<1>1. /\ state = "closed" /\ connection = 0 /\ queue = <<>> /\ held = [r \in Records |-> 0]
      /\ flush_waiters = <<>> /\ stack = <<>> /\ conns = <<>> /\ flight = {} /\ ops = <<>>
  BY DEF Init
<1>2. /\ DOMAIN queue = {} /\ DOMAIN ops = {} /\ DOMAIN conns = {}
      /\ 1 .. Len(stack) = {} /\ 2 .. Len(stack) = {}
  BY <1>1
<1>3. Calmed
  BY <1>1, <1>2 DEF Calmed, Chained, QuietAbove, Unprompted, Finishing, Occupied
<1>4. Working
  BY <1>1, <1>2 DEF Working
<1>5. Exact
  BY <1>1, <1>2 DEF Exact
<1>6. PatchIsCurrent /\ InTurn
  BY <1>1, <1>2 DEF PatchIsCurrent, InTurn
<1>7. Ordered
  BY <1>1, <1>2 DEF Ordered, Resumed, WalksOn, WalkedTop, Behind, Offered
<1> QED
  BY <1>3, <1>4, <1>5, <1>6, <1>7

\* The invariants, in the order in which they rest on each other.
Calmly == Typed /\ Calmed /\ Working
Lawful == Calmly /\ Exact /\ PatchIsCurrent /\ Ordered /\ InTurn

LEMMA LawfulStutter == ASSUME Lawful, UNCHANGED vars PROVE Lawful'
<1>1. UNCHANGED <<state, generation, connection, connecting, abandoned, queue, held,
                  flush_waiters, stack, conns, flight, store, ops, flushes, closes, owed, ended>>
  BY DEF vars, database, external, history
<1>2. Typed'
  BY TypedStutter DEF Lawful, Calmly
<1>3. Queued' = Queued
  BY <1>1 DEF Queued
<1>4. Calmed' /\ Working'
  BY <1>1 DEF Lawful, Calmly, Calmed, Working, Busy
<1>5. Exact' /\ InTurn'
  BY <1>1, <1>3 DEF Lawful, Exact, InTurn
<1>6. PatchIsCurrent'
  BY <1>1 DEF Lawful, PatchIsCurrent, read
<1>7. Ordered'
  BY <1>1 DEF Lawful, Ordered, Resumed, Behind, Offered
<1> QED
  BY <1>2, <1>4, <1>5, <1>6, <1>7 DEF Lawful, Calmly

LEMMA LawfulStep ==
    ASSUME Assumptions, Calm, Apart, Lawful, [Next]_vars
    PROVE  Lawful'
<1>1. CASE UNCHANGED vars
  BY <1>1, LawfulStutter
<1>2. CASE Next
  <2>1. Typed /\ Calmed /\ Working /\ Exact /\ PatchIsCurrent /\ Ordered /\ InTurn
    BY DEF Lawful, Calmly
  <2>2. Typed' /\ Calmed' /\ Working'
    BY <1>2, <2>1, TypedStep, CalmedStep, WorkingStep
  <2>3. Exact' /\ PatchIsCurrent' /\ InTurn'
    BY <1>2, <2>1, ExactStep, PatchStep, InTurnStep
  <2>4. Ordered'
    <3>1. Behind' /\ Offered'
      BY <1>2, <2>1, BehindStep, OfferedStep DEF Ordered
    <3>2. Resumed(stack') /\ WalksOn(queue', held', stack')
      BY <1>2, <2>1, WalksStep
    <3> QED
      BY <3>1, <3>2, Zenon DEF Ordered
  <2> QED
    BY <2>2, <2>3, <2>4, Zenon DEF Lawful, Calmly
<1> QED
  BY <1>1, <1>2

(* Every variable keeps its type, an operation is in the queue exactly while its     *)
(* answer is owed, and only what was issued is outstanding, whatever the game calls  *)
(* inside an answer (persist/database.cpp, class Databases).                         *)
THEOREM TypeCorrect == ASSUME Assumptions PROVE Spec => []TypeOK
<1>1. Init => Typed
  BY TypedInit
<1>2. Typed /\ [Next]_vars => Typed'
  BY TypedStep
<1>3. Typed => TypeOK
  BY TypedTypes
<1> QED
  BY <1>1, <1>2, <1>3, PTL DEF Spec

(* The operations on a record take turns: its lock is exact, nothing is written      *)
(* between the read and the write of a patch, and answers come in the order of       *)
(* admission (Databases::pump, stage_patch and retire).                              *)
THEOREM OrderKept == ASSUME Assumptions, Calm, Apart PROVE Spec => []OperationsAreOrdered
<1>1. Init => Lawful
  BY TypedInit, NothingYet DEF Lawful, Calmly
<1>2. Lawful /\ [Next]_vars => Lawful'
  BY LawfulStep
<1>3. Lawful => OperationsAreOrdered
  BY TypedTypes, ExactLocks, TurnsSettle DEF Lawful, Calmly, OperationsAreOrdered
<1> QED
  BY <1>1, <1>2, <1>3, PTL DEF Spec

LEMMA CalmlyKept == ASSUME Assumptions, Calm, Calmly, [Next]_vars PROVE Calmly'
<1>1. Typed /\ Calmed /\ Working /\ Typed'
  BY TypedStep DEF Calmly
<1>2. CASE Next
  BY <1>1, <1>2, CalmedStep, WorkingStep DEF Calmly
<1>3. CASE UNCHANGED vars
  <2>1. UNCHANGED <<state, generation, connection, queue, flush_waiters, stack, conns, flight, ops>>
    BY <1>3 DEF vars, database, external, history
  <2> QED
    BY <1>1, <2>1 DEF Calmly, Calmed, Working, Busy
<1> QED
  BY <1>2, <1>3

(* What is asked of a connection is asked of the one that was open when the          *)
(* operation was admitted, and it is not closed while an operation is on it          *)
(* (Databases::issue, release_waiters).                                              *)
THEOREM WorkServed ==
    ASSUME Assumptions, Calm PROVE Spec => [](ClosesAfterItsWork /\ ReachesItsOwnSlot)
<1>1. Init => Calmly
  BY TypedInit, NothingYet DEF Calmly
<1>2. Calmly /\ [Next]_vars => Calmly'
  BY CalmlyKept
<1>3. Calmly => ClosesAfterItsWork /\ ReachesItsOwnSlot
  <2>1. Calmly => ReachesItsOwnSlot
    BY DEF Calmly, Working, ReachesItsOwnSlot
  <2>2. Calmly => ClosesAfterItsWork
    BY WorkingServes DEF Calmly, ClosesAfterItsWork
  <2> QED
    BY <2>1, <2>2
<1> QED
  BY <1>1, <1>2, <1>3, PTL DEF Spec

(* A connection that was made is the one in use or it was closed, whatever closes    *)
(* overtake the opens; the game opens no database that is open already               *)
(* (Databases::connected, discard, close).                                           *)
THEOREM ConnectionsClosed == ASSUME Assumptions, ~Reopens PROVE Spec => []NoConnectionLeftOpen
<1>1. Init => Typed /\ Claimed
  <2>1. Init => DOMAIN conns = {} /\ abandoned = {}
    BY DEF Init
  <2> QED
    BY <2>1, TypedInit DEF Claimed
<1>2. Typed /\ Claimed /\ [Next]_vars => Typed' /\ Claimed'
  <2>1. ASSUME Claimed, UNCHANGED vars
        PROVE  Claimed'
    BY <2>1 DEF vars, database, external, Claimed
  <2> QED
    BY <2>1, TypedStep, ClaimedStep
<1>3. Claimed => NoConnectionLeftOpen
  BY DEF Claimed, NoConnectionLeftOpen
<1> QED
  BY <1>1, <1>2, <1>3, PTL DEF Spec

(* A flush is not answered before the operations it waits for, whatever the game     *)
(* calls inside the answers, and the end of the session settles what the queue owes  *)
(* (Databases::flush, release_waiters, clear).                                       *)
THEOREM FlushesWait == ASSUME Assumptions PROVE Spec => [](FlushIsHonest /\ EndAnswersTheQueue)
<1>1. Init => Typed /\ Honest /\ EndAnswersTheQueue
  <2> SUFFICES ASSUME Init PROVE Typed /\ Honest /\ EndAnswersTheQueue
    OBVIOUS
  <2>1. /\ DOMAIN flushes = {} /\ 1 .. Len(stack) = {} /\ 1 .. Len(flush_waiters) = {} /\ ~ended
    BY DEF Init
  <2> QED
    BY <2>1, TypedInit DEF Honest, Among, Freed, EndAnswersTheQueue
<1>2. Typed /\ Honest /\ EndAnswersTheQueue /\ [Next]_vars
        => Typed' /\ Honest' /\ EndAnswersTheQueue'
  <2>1. ASSUME Honest, EndAnswersTheQueue, UNCHANGED vars
        PROVE  Honest' /\ EndAnswersTheQueue'
    <3>1. UNCHANGED <<queue, flush_waiters, stack, ops, flushes, owed, ended>>
      BY <2>1 DEF vars, database, history
    <3>2. UNCHANGED done
      BY <3>1 DEF done, Queued
    <3> QED
      BY <2>1, <3>1, <3>2 DEF Honest, Among, Freed, EndAnswersTheQueue
  <2> QED
    BY <2>1, TypedStep, HonestStep, EndStays
<1>3. Honest => FlushIsHonest
  BY DEF Honest, done, FlushIsHonest
<1> QED
  BY <1>1, <1>2, <1>3, PTL DEF Spec

(* Connections, flushes and the end do what was asked of them, as the three          *)
(* theorems above say (persist/database.cpp, class Databases).                       *)
THEOREM ConnectionsSound ==
    ASSUME Assumptions, Calm, ~Reopens PROVE Spec => []ConnectionsAreSound
<1>1. Spec => [](ClosesAfterItsWork /\ ReachesItsOwnSlot)
  BY WorkServed
<1>2. Spec => []NoConnectionLeftOpen
  BY ConnectionsClosed
<1>3. Spec => [](FlushIsHonest /\ EndAnswersTheQueue)
  BY FlushesWait
<1>4. ClosesAfterItsWork /\ ReachesItsOwnSlot /\ NoConnectionLeftOpen
        /\ FlushIsHonest /\ EndAnswersTheQueue => ConnectionsAreSound
  BY Zenon DEF ConnectionsAreSound
<1> QED
  BY <1>1, <1>2, <1>3, <1>4, PTL

=============================================================================

--------------------------- MODULE OpenBasisProofs ---------------------------
(***************************************************************************)
(* Proofs about OpenBasis for every set of lanes, keys, fields and values,   *)
(* every check byte, capacity and number of frames: an OPEN that the reader  *)
(* resolves is the OPEN the writer meant.                                    *)
(***************************************************************************)
EXTENDS OpenBasis, TLAPS, FiniteSetTheorems, SequenceTheorems, WellFoundedInduction

-----------------------------------------------------------------------------
(* Numbers and lists. *)

\* A set of numbers that holds something has a least one.
LEMMA Least ==
    ASSUME NEW T \in SUBSET Nat, T # {}
    PROVE  \E x \in T : \A y \in T : x <= y
<1>1. PICK x \in T : \A y \in T : ~(<<y, x>> \in OpToRel(<, Nat))
  BY NatLessThanWellFounded, WFMin
<1>2. \A y \in T : ~(y < x)
  BY <1>1 DEF OpToRel
<1>3. \A y \in T : x <= y
  BY <1>2
<1> QED
  BY <1>3

\* What holds of 0, and of each number up to n if of the one before, holds of all.
LEMMA Climb ==
    ASSUME NEW n \in Nat, NEW T, 0 \in T, \A i \in 1 .. n : i - 1 \in T => i \in T
    PROVE  \A i \in 0 .. n : i \in T
<1> DEFINE U == {i \in 0 .. n : i \notin T}
<1> SUFFICES ASSUME U # {} PROVE FALSE
  OBVIOUS
<1>1. U \in SUBSET Nat
  OBVIOUS
<1>2. PICK x \in U : \A y \in U : x <= y
  BY <1>1, Least
<1>3. x \in 0 .. n /\ x \notin T
  BY <1>2
<1>4. x - 1 \in 0 .. n /\ x \in 1 .. n
  BY <1>3
<1>5. x - 1 \notin U
  BY <1>2, <1>3
<1> QED
  BY <1>3, <1>4, <1>5

\* A set of numbers up to n that holds something has a greatest one.
LEMMA Greatest ==
    ASSUME NEW n \in Nat, NEW S \in SUBSET (1 .. n), S # {}
    PROVE  Max(S) \in S /\ \A y \in S : y \in Nat /\ y <= Max(S)
<1> DEFINE T == {n - y : y \in S}
<1>1. \A y \in S : y \in Nat /\ y <= n
  OBVIOUS
<1>2. T \in SUBSET Nat /\ T # {}
  BY <1>1
<1>3. PICK x \in T : \A y \in T : x <= y
  BY <1>2, Least
<1>4. PICK z \in S : x = n - z
  BY <1>3
<1>5. \A y \in S : z >= y
  <2> SUFFICES ASSUME NEW y \in S PROVE z >= y
    OBVIOUS
  <2>1. n - y \in T
    OBVIOUS
  <2>2. n - z <= n - y
    BY <1>3, <1>4, <2>1
  <2>3. y \in Nat /\ z \in Nat
    BY <1>4, <1>1
  <2> QED
    BY <2>2, <2>3
<1>6. Max(S) \in S /\ \A y \in S : Max(S) >= y
  BY <1>4, <1>5 DEF Max
<1> QED
  BY <1>6, <1>1

\* What starts in B and is led on by a step from B to B at each number.
LEMMA Runs ==
    ASSUME NEW B, NEW b \in B, NEW n \in Nat, NEW step \in [1 .. n -> [B -> B]]
    PROVE  \E f \in [0 .. n -> B] : /\ f[0] = b
                                    /\ \A i \in 1 .. n : f[i] = step[i][f[i - 1]]
<1> DEFINE P(m) == \E f \in [0 .. m -> B] : /\ f[0] = b
                                            /\ \A i \in 1 .. m : f[i] = step[i][f[i - 1]]
           T == {m \in 0 .. n : P(m)}
<1>1. 0 \in T
  <2> DEFINE f == [i \in 0 .. 0 |-> b]
  <2>1. f \in [0 .. 0 -> B] /\ f[0] = b
    OBVIOUS
  <2>2. \A i \in 1 .. 0 : f[i] = step[i][f[i - 1]]
    OBVIOUS
  <2> HIDE DEF f
  <2> QED
    BY <2>1, <2>2
<1>2. ASSUME NEW x \in 1 .. n, P(x - 1) PROVE P(x)
  <2>1. PICK f \in [0 .. x - 1 -> B] : /\ f[0] = b
                                       /\ \A i \in 1 .. x - 1 : f[i] = step[i][f[i - 1]]
    BY <1>2
  <2> DEFINE g == [i \in 0 .. x |-> IF i = x THEN step[x][f[x - 1]] ELSE f[i]]
  <2>2. step[x][f[x - 1]] \in B
    OBVIOUS
  <2>3. g \in [0 .. x -> B]
    BY <2>2
  <2>4. g[0] = b
    BY <2>1
  <2>5. \A i \in 1 .. x : g[i] = step[i][g[i - 1]]
    <3> SUFFICES ASSUME NEW i \in 1 .. x PROVE g[i] = step[i][g[i - 1]]
      OBVIOUS
    <3>1. i - 1 \in 0 .. x - 1 /\ g[i - 1] = f[i - 1]
      OBVIOUS
    <3>2. CASE i = x
      BY <3>1, <3>2
    <3>3. CASE i # x
      BY <2>1, <3>1, <3>3
    <3> QED
      BY <3>2, <3>3
  <2> QED
    BY <2>3, <2>4, <2>5
<1> HIDE DEF P
<1>3. \A i \in 1 .. n : i - 1 \in T => i \in T
  BY <1>2
<1>4. \A i \in 0 .. n : i \in T
  BY <1>1, <1>3, Climb
<1>5. P(n)
  BY <1>4
<1> QED
  BY <1>5 DEF P

-----------------------------------------------------------------------------
(* Bases. *)

Distinct(list) == \A i, j \in 1 .. Len(list) : list[i] = list[j] => i = j

\* A basis holds at most Capacity keys, each once in its order.
Basis ==
    {b \in [opens : UNION {[S -> Fields] : S \in SUBSET Key}, arrivals : Seq(Key)] :
        /\ DOMAIN b.opens = ToSet(b.arrivals)
        /\ Distinct(b.arrivals)
        /\ Len(b.arrivals) <= Capacity}

LEMMA BasisFacts ==
    ASSUME NEW b \in Basis
    PROVE  /\ b = [opens |-> b.opens, arrivals |-> b.arrivals]
           /\ b.arrivals \in Seq(Key) /\ Distinct(b.arrivals) /\ Len(b.arrivals) <= Capacity
           /\ DOMAIN b.opens = ToSet(b.arrivals)
           /\ DOMAIN b.opens \in SUBSET Key
           /\ \A k \in DOMAIN b.opens : b.opens[k] \in Fields
<1>1. b \in [opens : UNION {[S -> Fields] : S \in SUBSET Key}, arrivals : Seq(Key)]
  BY DEF Basis
<1>2. PICK S \in SUBSET Key : b.opens \in [S -> Fields]
  BY <1>1
<1>3. b.arrivals \in Seq(Key)
  BY <1>1
<1> QED
  BY <1>1, <1>2, <1>3 DEF Basis

LEMMA BasisOf ==
    ASSUME NEW S \in SUBSET Key, NEW opens \in [S -> Fields], NEW list \in Seq(Key),
           S = ToSet(list), Distinct(list), Len(list) <= Capacity
    PROVE  [opens |-> opens, arrivals |-> list] \in Basis
<1>1. [opens |-> opens, arrivals |-> list]
         \in [opens : UNION {[R -> Fields] : R \in SUBSET Key}, arrivals : Seq(Key)]
  OBVIOUS
<1> QED
  BY <1>1 DEF Basis

LEMMA EmptyBasis == ASSUME BoundAssumption PROVE Empty \in Basis
<1>1. <<>> \in Seq(Key) /\ Distinct(<<>>) /\ Len(<<>>) <= Capacity
  BY DEF BoundAssumption, Distinct
<1>2. <<>> \in [{} -> Fields] /\ {} = ToSet(<<>>)
  BY DEF ToSet
<1> QED
  BY <1>1, <1>2, BasisOf DEF Empty

\* A list of distinct keys is as long as they are many.
LEMMA DistinctLen ==
    ASSUME NEW list \in Seq(Key), Distinct(list)
    PROVE  Len(list) = Cardinality(ToSet(list))
<1> DEFINE S == 1 .. Len(list)
           T == ToSet(list)
<1>1. Len(list) \in Nat
  OBVIOUS
<1>2. list \in [S -> T] /\ DOMAIN list = S
  BY DEF ToSet
<1>3. \A x, y \in S : list[x] = list[y] => x = y
  BY DEF Distinct
<1>4. \A t \in T : \E i \in S : list[i] = t
  BY DEF ToSet
<1>5. list \in Bijection(S, T)
  BY <1>2, <1>3, <1>4 DEF Bijection, Injection, Surjection, IsInjective
<1>6. IsFiniteSet(S) /\ Cardinality(S) = Len(list)
  BY <1>1, FS_Interval
<1> HIDE DEF S, T
<1>7. ExistsBijection(S, T)
  BY <1>5 DEF ExistsBijection
<1>8. Cardinality(S) = Cardinality(T)
  BY <1>6, <1>7, FS_Bijection
<1> QED
  BY <1>6, <1>8 DEF T

\* A list of distinct keys without its first.
LEMMA DistinctTail ==
    ASSUME NEW list \in Seq(Key), Distinct(list), list # <<>>
    PROVE  /\ Tail(list) \in Seq(Key) /\ Len(Tail(list)) = Len(list) - 1
           /\ Distinct(Tail(list))
           /\ ToSet(Tail(list)) = ToSet(list) \ {Head(list)}
<1>1. /\ Tail(list) \in Seq(Key) /\ Len(list) \in Nat \ {0}
      /\ Len(Tail(list)) = Len(list) - 1
      /\ \A i \in 1 .. Len(list) - 1 : Tail(list)[i] = list[i + 1]
      /\ Head(list) = list[1]
  OBVIOUS
<1>2. \A i \in 1 .. Len(list) - 1 : i + 1 \in 1 .. Len(list) /\ i + 1 # 1
  BY <1>1
<1>3. Distinct(Tail(list))
  BY <1>1, <1>2 DEF Distinct
<1>4. ASSUME NEW k \in ToSet(Tail(list)) PROVE k \in ToSet(list) \ {Head(list)}
  <2>1. PICK i \in 1 .. Len(list) - 1 : k = list[i + 1]
    BY <1>1, <1>4 DEF ToSet
  <2>2. i + 1 \in 1 .. Len(list) /\ i + 1 # 1 /\ 1 \in 1 .. Len(list)
    BY <1>1
  <2> QED
    BY <1>1, <2>1, <2>2 DEF Distinct, ToSet
<1>5. ASSUME NEW k \in ToSet(list) \ {Head(list)} PROVE k \in ToSet(Tail(list))
  <2>1. PICK i \in 1 .. Len(list) : k = list[i]
    BY <1>5 DEF ToSet
  <2>2. i - 1 \in 1 .. Len(list) - 1 /\ (i - 1) + 1 = i
    BY <1>1, <1>5, <2>1
  <2>3. Tail(list)[i - 1] = k
    BY <1>1, <2>1, <2>2
  <2>4. i - 1 \in DOMAIN Tail(list)
    BY <1>1, <2>2
  <2> QED
    BY <2>3, <2>4 DEF ToSet
<1> QED
  BY <1>1, <1>3, <1>4, <1>5

\* A list of distinct keys and one that is not in it.
LEMMA DistinctAppend ==
    ASSUME NEW list \in Seq(Key), Distinct(list), NEW key \in Key, key \notin ToSet(list)
    PROVE  /\ Append(list, key) \in Seq(Key) /\ Len(Append(list, key)) = Len(list) + 1
           /\ Distinct(Append(list, key))
           /\ ToSet(Append(list, key)) = ToSet(list) \cup {key}
<1>1. /\ Append(list, key) \in Seq(Key) /\ Len(list) \in Nat
      /\ Len(Append(list, key)) = Len(list) + 1
      /\ \A i \in 1 .. Len(list) : Append(list, key)[i] = list[i]
      /\ Append(list, key)[Len(list) + 1] = key
  OBVIOUS
<1>2. \A i \in 1 .. Len(list) : list[i] # key
  BY DEF ToSet
<1>3. Distinct(Append(list, key))
  BY <1>1, <1>2 DEF Distinct
<1>4. ToSet(Append(list, key)) = ToSet(list) \cup {key}
  <2>1. DOMAIN Append(list, key) = 1 .. Len(list) + 1 /\ DOMAIN list = 1 .. Len(list)
    BY <1>1
  <2>2. ASSUME NEW k \in ToSet(Append(list, key)) PROVE k \in ToSet(list) \cup {key}
    BY <1>1, <2>1, <2>2 DEF ToSet
  <2>3. ASSUME NEW k \in ToSet(list) PROVE k \in ToSet(Append(list, key))
    BY <1>1, <2>1, <2>3 DEF ToSet
  <2>4. key \in ToSet(Append(list, key))
    BY <1>1, <2>1 DEF ToSet
  <2> QED
    BY <2>2, <2>3, <2>4
<1> QED
  BY <1>1, <1>3, <1>4

\* note, one key at a time: the key holds what was noted, others hold what they
\* held or are evicted.
LEMMA NotedKeeps ==
    ASSUME BoundAssumption, NEW b \in Basis, NEW key \in Key, NEW held \in Fields
    PROVE  LET next == Noted(b, key, held) IN
           /\ next \in Basis
           /\ Holds(next, key) /\ next.opens[key] = held
           /\ \A k : k # key /\ Holds(next, k) =>
                 Holds(b, k) /\ next.opens[k] = b.opens[k]
<1> DEFINE full == Len(b.arrivals) >= Capacity
           kept == IF Holds(b, key) \/ ~full
                   THEN DOMAIN b.opens
                   ELSE DOMAIN b.opens \ {Head(b.arrivals)}
           opens == [k \in kept \cup {key} |-> IF k = key THEN held ELSE b.opens[k]]
           list == IF Holds(b, key)
                   THEN b.arrivals
                   ELSE Append(IF full THEN Tail(b.arrivals) ELSE b.arrivals, key)
<1>1. Noted(b, key, held) = [opens |-> opens, arrivals |-> list]
  BY DEF Noted
<1>2. /\ b.arrivals \in Seq(Key) /\ Distinct(b.arrivals) /\ Len(b.arrivals) <= Capacity
      /\ DOMAIN b.opens = ToSet(b.arrivals)
      /\ DOMAIN b.opens \in SUBSET Key
      /\ \A k \in DOMAIN b.opens : b.opens[k] \in Fields
  BY BasisFacts
<1>3. Capacity \in Nat \ {0} /\ Len(b.arrivals) \in Nat
  BY <1>2 DEF BoundAssumption
<1>4. kept \subseteq DOMAIN b.opens
  OBVIOUS
<1>5. opens \in [kept \cup {key} -> Fields] /\ kept \cup {key} \in SUBSET Key
  BY <1>2, <1>4
<1>6. /\ list \in Seq(Key) /\ Distinct(list) /\ Len(list) <= Capacity
      /\ kept \cup {key} = ToSet(list)
  <2>1. CASE Holds(b, key)
    BY <1>2, <2>1 DEF Holds
  <2>2. CASE ~Holds(b, key) /\ ~full
    <3>1. key \notin ToSet(b.arrivals)
      BY <1>2, <2>2 DEF Holds
    <3> QED
      BY <1>2, <1>3, <2>2, <3>1, DistinctAppend
  <2>3. CASE ~Holds(b, key) /\ full
    <3>1. b.arrivals # <<>>
      BY <1>3, <2>3
    <3>2. /\ Tail(b.arrivals) \in Seq(Key) /\ Len(Tail(b.arrivals)) = Len(b.arrivals) - 1
          /\ Distinct(Tail(b.arrivals))
          /\ ToSet(Tail(b.arrivals)) = ToSet(b.arrivals) \ {Head(b.arrivals)}
      BY <1>2, <3>1, DistinctTail
    <3>3. key \notin ToSet(Tail(b.arrivals))
      BY <1>2, <2>3, <3>2 DEF Holds
    <3>4. list = Append(Tail(b.arrivals), key)
      BY <2>3
    <3>5. /\ list \in Seq(Key) /\ Len(list) = Len(Tail(b.arrivals)) + 1
          /\ Distinct(list)
          /\ ToSet(list) = ToSet(Tail(b.arrivals)) \cup {key}
      BY <3>2, <3>3, <3>4, DistinctAppend
    <3> QED
      BY <1>2, <1>3, <2>3, <3>2, <3>5
  <2> QED
    BY <2>1, <2>2, <2>3
<1>7. [opens |-> opens, arrivals |-> list] \in Basis
  <2> HIDE DEF opens, list, kept
  <2> QED
    BY <1>5, <1>6, BasisOf
<1>8. /\ Noted(b, key, held).opens = opens
      /\ DOMAIN opens = kept \cup {key}
  BY <1>1
<1>9. opens[key] = held /\ \A k \in kept : k # key => opens[k] = b.opens[k]
  OBVIOUS
<1> HIDE DEF opens, list, kept
<1> QED
  BY <1>1, <1>4, <1>7, <1>8, <1>9 DEF Holds

-----------------------------------------------------------------------------
(* What the reader and the writer do with a frame, one OPEN at a time. *)

\* An OPEN on the link, and an answer.
Sent == [lane : Lane, request : 1 .. MaxRequest, meant : Fields, stated : SUBSET Field]
Answer == [tag : {"READY", "RESET"}, request : 1 .. MaxRequest]

KeyAt(opens, i) == KeyOf[opens[i].lane]

LEMMA KeyAtTyped ==
    ASSUME LaneAssumption, NEW opens \in Seq(Open) \cup Seq(Sent), NEW i \in 1 .. Len(opens)
    PROVE  /\ opens[i].lane \in Lane /\ opens[i].meant \in Fields
           /\ opens[i].request \in 1 .. MaxRequest
           /\ KeyAt(opens, i) \in Key
<1>1. opens[i] \in Open \/ opens[i] \in Sent
  OBVIOUS
<1>2. opens[i].lane \in Lane /\ opens[i].meant \in Fields /\ opens[i].request \in 1 .. MaxRequest
  BY <1>1 DEF Open, Sent
<1> QED
  BY <1>2 DEF KeyAt, LaneAssumption

\* append folds the OPENs of a frame into the basis.
LEMMA WritesRun ==
    ASSUME LaneAssumption, BoundAssumption, sent \in Basis,
           NEW opens, opens \in Seq(Open)
    PROVE  LET after == BasesWhile(opens) IN
           /\ after \in [0 .. Len(opens) -> Basis]
           /\ after[0] = sent
           /\ \A i \in 1 .. Len(opens) :
                 after[i] = Noted(after[i - 1], KeyAt(opens, i), opens[i].meant)
<1> DEFINE n == Len(opens)
           step == [i \in 1 .. n |->
                       [b \in Basis |-> Noted(b, KeyAt(opens, i), opens[i].meant)]]
           Is(f) == f = [i \in 0 .. n |->
                            IF i = 0 THEN sent
                            ELSE Noted(f[i - 1], KeyOf[opens[i].lane], opens[i].meant)]
<1>1. n \in Nat
  OBVIOUS
<1>2. step \in [1 .. n -> [Basis -> Basis]]
  <2> SUFFICES ASSUME NEW i \in 1 .. n, NEW b \in Basis
               PROVE  Noted(b, KeyAt(opens, i), opens[i].meant) \in Basis
    OBVIOUS
  <2>1. KeyAt(opens, i) \in Key /\ opens[i].meant \in Fields
    BY KeyAtTyped
  <2> QED
    BY <2>1, NotedKeeps
<1>3. \A i \in 1 .. n : \A b \in Basis :
         step[i][b] = Noted(b, KeyAt(opens, i), opens[i].meant)
  OBVIOUS
<1> HIDE DEF step, n
<1>4. PICK f \in [0 .. n -> Basis] : /\ f[0] = sent
                                     /\ \A i \in 1 .. n : f[i] = step[i][f[i - 1]]
  <2> HIDE DEF Is
  <2>1. \A s \in [1 .. n -> [Basis -> Basis]] :
           \E f \in [0 .. n -> Basis] : /\ f[0] = sent
                                        /\ \A i \in 1 .. n : f[i] = s[i][f[i - 1]]
    BY ONLY <1>1, sent \in Basis, Runs
  <2> QED
    BY <1>2, <2>1
<1>5. \A i \in 1 .. n : i - 1 \in 0 .. n
  BY <1>1
<1>6. \A i \in 1 .. n : f[i] = Noted(f[i - 1], KeyAt(opens, i), opens[i].meant)
  BY <1>3, <1>4, <1>5
<1>7. Is(f)
  <2>1. \A i \in 0 .. n : i # 0 => i \in 1 .. n
    BY <1>1
  <2>2. \A i \in 0 .. n : f[i] = IF i = 0 THEN sent
                                 ELSE Noted(f[i - 1], KeyOf[opens[i].lane], opens[i].meant)
    BY <1>4, <1>6, <2>1 DEF KeyAt
  <2> QED
    BY <1>4, <2>2
<1>8. BasesWhile(opens) = CHOOSE g : Is(g)
  BY Zenon DEF BasesWhile, n
<1>9. Is(BasesWhile(opens))
  <2> HIDE DEF Is
  <2> QED
    BY <1>7, <1>8
<1> DEFINE after == BasesWhile(opens)
<1>10. /\ after[0] = sent
       /\ \A i \in 1 .. n : after[i] = Noted(after[i - 1], KeyAt(opens, i), opens[i].meant)
       /\ DOMAIN after = 0 .. n
       /\ after = [i \in 0 .. n |-> after[i]]
  <2> HIDE DEF after
  <2>1. Is(after)
    BY <1>9 DEF after
  <2>2. \A i \in 1 .. n : i \in 0 .. n /\ i # 0
    BY <1>1
  <2>3. 0 \in 0 .. n
    BY <1>1
  <2> QED
    BY <2>1, <2>2, <2>3 DEF KeyAt
<1> HIDE DEF after
<1>11. \A i \in 0 .. n : after[i] \in Basis
  <2> DEFINE T == {i \in 0 .. n : after[i] \in Basis}
  <2>1. 0 \in T
    BY <1>1, <1>10
  <2>2. ASSUME NEW i \in 1 .. n, i - 1 \in T PROVE i \in T
    <3>1. KeyAt(opens, i) \in Key /\ opens[i].meant \in Fields
      BY KeyAtTyped DEF n
    <3>2. Noted(after[i - 1], KeyAt(opens, i), opens[i].meant) \in Basis
      BY <2>2, <3>1, NotedKeeps
    <3> QED
      BY <1>1, <1>10, <3>2
  <2> HIDE DEF T
  <2>3. \A i \in 0 .. n : i \in T
    BY <1>1, <2>1, <2>2, Climb
  <2> QED
    BY <2>3 DEF T
<1> QED
  BY <1>10, <1>11 DEF after, n

\* read_control_frame notes, in turn, the OPENs of a frame that were resolved.
LEMMA ReadsRun ==
    ASSUME LaneAssumption, BoundAssumption, heard \in Basis,
           NEW frame, frame \in Seq(Sent),
           NEW R, R = Resolution(frame),
           \A i \in 1 .. Len(frame) : R[i] \in Fields \cup {Unresolved}
    PROVE  \E after \in [0 .. Len(frame) -> Basis] :
              /\ after[0] = heard
              /\ \A i \in 1 .. Len(frame) :
                    after[i] = IF R[i] = Unresolved
                               THEN after[i - 1]
                               ELSE Noted(after[i - 1], KeyAt(frame, i), R[i])
              /\ HeardAfter(frame) = after[Len(frame)]
<1> DEFINE n == Len(frame)
           Onward(b, i) == IF R[i] = Unresolved THEN b ELSE Noted(b, KeyAt(frame, i), R[i])
           step == [i \in 1 .. n |-> [b \in Basis |-> Onward(b, i)]]
           Is(f) == f = [i \in 0 .. n |->
                            IF i = 0
                            THEN heard
                            ELSE IF R[i] = Unresolved
                            THEN f[i - 1]
                            ELSE Noted(f[i - 1], KeyOf[frame[i].lane], R[i])]
<1>1. n \in Nat
  OBVIOUS
<1>2. \A i \in 1 .. n : \A b \in Basis : Onward(b, i) \in Basis
  <2> SUFFICES ASSUME NEW i \in 1 .. n, NEW b \in Basis PROVE Onward(b, i) \in Basis
    OBVIOUS
  <2>1. KeyAt(frame, i) \in Key
    BY KeyAtTyped
  <2>2. CASE R[i] = Unresolved
    BY <2>2
  <2>3. CASE R[i] # Unresolved
    <3>1. R[i] \in Fields
      BY <2>3
    <3>2. Noted(b, KeyAt(frame, i), R[i]) \in Basis
      BY <2>1, <3>1, NotedKeeps
    <3> QED
      BY <2>3, <3>2
  <2> QED
    BY <2>2, <2>3
<1>3. step \in [1 .. n -> [Basis -> Basis]]
  <2> HIDE DEF Onward
  <2> QED
    BY <1>2
<1>4. \A i \in 1 .. n : \A b \in Basis : step[i][b] = Onward(b, i)
  OBVIOUS
<1> HIDE DEF step, n, Onward
<1>5. PICK f \in [0 .. n -> Basis] : /\ f[0] = heard
                                     /\ \A i \in 1 .. n : f[i] = step[i][f[i - 1]]
  <2> HIDE DEF Is
  <2>1. \A s \in [1 .. n -> [Basis -> Basis]] :
           \E f \in [0 .. n -> Basis] : /\ f[0] = heard
                                        /\ \A i \in 1 .. n : f[i] = s[i][f[i - 1]]
    BY ONLY <1>1, heard \in Basis, Runs
  <2> QED
    BY <1>3, <2>1
<1>6. \A i \in 1 .. n : i - 1 \in 0 .. n
  BY <1>1
<1>7. \A i \in 1 .. n : f[i] = Onward(f[i - 1], i)
  BY <1>4, <1>5, <1>6
<1>8. Is(f)
  <2>1. \A i \in 0 .. n : i # 0 => i \in 1 .. n
    BY <1>1
  <2>2. \A i \in 0 .. n : f[i] = IF i = 0 THEN heard ELSE Onward(f[i - 1], i)
    BY <1>5, <1>7, <2>1
  <2> QED
    BY <1>5, <2>2 DEF KeyAt, Onward
<1> DEFINE after == CHOOSE g : Is(g)
<1>9. HeardAfter(frame) = after[n]
  BY Zenon DEF HeardAfter, n
<1>10. Is(after)
  <2> HIDE DEF Is
  <2> QED
    BY <1>8
<1> HIDE DEF after
<1>11. /\ after[0] = heard
       /\ \A i \in 1 .. n : after[i] = Onward(after[i - 1], i)
       /\ DOMAIN after = 0 .. n
       /\ after = [i \in 0 .. n |-> after[i]]
  <2>1. \A i \in 1 .. n : i \in 0 .. n /\ i # 0
    BY <1>1
  <2>2. 0 \in 0 .. n
    BY <1>1
  <2> QED
    BY <1>10, <2>1, <2>2 DEF KeyAt, Onward
<1>12. \A i \in 0 .. n : after[i] \in Basis
  <2> DEFINE T == {i \in 0 .. n : after[i] \in Basis}
  <2>1. 0 \in T
    BY <1>1, <1>11
  <2>2. ASSUME NEW i \in 1 .. n, i - 1 \in T PROVE i \in T
    <3>1. i \in 0 .. n /\ after[i - 1] \in Basis
      BY <1>1, <2>2
    <3>2. Onward(after[i - 1], i) \in Basis
      BY <1>2, <3>1
    <3>3. after[i] = Onward(after[i - 1], i)
      BY <1>11
    <3> QED
      BY <3>1, <3>2, <3>3
  <2> HIDE DEF T
  <2>3. \A i \in 0 .. n : i \in T
    BY <1>1, <2>1, <2>2, Climb
  <2> QED
    BY <2>3 DEF T
<1>13. after \in [0 .. n -> Basis]
  BY <1>11, <1>12
<1> QED
  BY <1>9, <1>11, <1>13 DEF n, Onward

\* The answers of a frame are answers.
LEMMA AnsweredTyped ==
    ASSUME readerOut \in Seq(Answer), NEW frame, frame \in Seq(Sent),
           NEW outcome \in [DOMAIN frame -> {"READY", "RESET", "PARK", "NONE"}]
    PROVE  Answered(frame, outcome) \in Seq(Answer)
<1> DEFINE n == Len(frame)
           B == Seq(Answer)
           Onward(b, i) == IF outcome[i] \in {"READY", "RESET"}
                          THEN QueuedAnswer(b, [tag |-> outcome[i],
                                                request |-> frame[i].request])
                          ELSE b
           step == [i \in 1 .. n |-> [b \in B |-> Onward(b, i)]]
           Is(f) == f = [i \in 0 .. n |->
                            IF i = 0
                            THEN readerOut
                            ELSE IF outcome[i] \in {"READY", "RESET"}
                            THEN QueuedAnswer(f[i - 1], [tag |-> outcome[i],
                                                         request |-> frame[i].request])
                            ELSE f[i - 1]]
<1>1. n \in Nat /\ DOMAIN frame = 1 .. n
  OBVIOUS
<1>2. \A i \in 1 .. n : \A b \in B : Onward(b, i) \in B
  <2> SUFFICES ASSUME NEW i \in 1 .. n, NEW b \in B PROVE Onward(b, i) \in B
    OBVIOUS
  <2>1. frame[i].request \in 1 .. MaxRequest
    <3>1. frame[i] \in Sent
      OBVIOUS
    <3> QED
      BY <3>1 DEF Sent
  <2>2. CASE outcome[i] \in {"READY", "RESET"}
    <3> DEFINE answer == [tag |-> outcome[i], request |-> frame[i].request]
    <3>1. answer \in Answer
      BY <2>1, <2>2 DEF Answer
    <3>2. Onward(b, i) = QueuedAnswer(b, answer)
      BY <2>2
    <3> HIDE DEF answer
    <3>3. Append(b, answer) \in B
      BY <3>1
    <3> QED
      BY <3>2, <3>3 DEF QueuedAnswer
  <2>3. CASE outcome[i] \notin {"READY", "RESET"}
    BY <2>3
  <2> QED
    BY <2>2, <2>3
<1>3. readerOut \in B
  OBVIOUS
<1> HIDE DEF B
<1>4. step \in [1 .. n -> [B -> B]]
  <2> HIDE DEF Onward
  <2> QED
    BY <1>2
<1>5. \A i \in 1 .. n : \A b \in B : step[i][b] = Onward(b, i)
  OBVIOUS
<1> HIDE DEF step, n, Onward
<1>6. PICK f \in [0 .. n -> B] : /\ f[0] = readerOut
                                 /\ \A i \in 1 .. n : f[i] = step[i][f[i - 1]]
  <2> HIDE DEF Is
  <2>1. \A s \in [1 .. n -> [B -> B]] :
           \E f \in [0 .. n -> B] : /\ f[0] = readerOut
                                    /\ \A i \in 1 .. n : f[i] = s[i][f[i - 1]]
    BY ONLY <1>1, <1>3, Runs
  <2> QED
    BY <1>4, <2>1
<1>7. \A i \in 1 .. n : i - 1 \in 0 .. n
  BY <1>1
<1>8. \A i \in 1 .. n : f[i] = Onward(f[i - 1], i)
  BY <1>5, <1>6, <1>7
<1>9. Is(f)
  <2>1. \A i \in 0 .. n : i # 0 => i \in 1 .. n
    BY <1>1
  <2>2. \A i \in 0 .. n : f[i] = IF i = 0 THEN readerOut ELSE Onward(f[i - 1], i)
    BY <1>6, <1>8, <2>1
  <2> QED
    BY <1>6, <2>2 DEF Onward
<1> DEFINE after == CHOOSE g : Is(g)
<1>10. Answered(frame, outcome) = after[n]
  BY Zenon DEF Answered, n
<1>11. Is(after)
  <2> HIDE DEF Is
  <2> QED
    BY <1>9
<1> HIDE DEF after
<1>12. /\ after[0] = readerOut
       /\ \A i \in 1 .. n : after[i] = Onward(after[i - 1], i)
  <2>1. \A i \in 1 .. n : i \in 0 .. n /\ i # 0
    BY <1>1
  <2>2. 0 \in 0 .. n
    BY <1>1
  <2> QED
    BY <1>11, <2>1, <2>2 DEF Onward
<1> DEFINE T == {i \in 0 .. n : after[i] \in B}
<1>13. 0 \in T
  BY <1>1, <1>3, <1>12
<1>14. ASSUME NEW i \in 1 .. n, i - 1 \in T PROVE i \in T
  BY <1>1, <1>2, <1>12, <1>14
<1> HIDE DEF T
<1>15. \A i \in 0 .. n : i \in T
  BY <1>1, <1>13, <1>14, Climb
<1>16. after[n] \in B
  BY <1>1, <1>15 DEF T
<1> QED
  BY <1>10, <1>16 DEF B

-----------------------------------------------------------------------------
(* What the writer meant, and what the reader resolves. *)

\* read_open, of one OPEN, when those before it were resolved as R says.
ReadAt(R, frame, i) ==
    LET key == KeyOf[frame[i].lane]
        staged == {j \in 1 .. i - 1 : /\ KeyOf[frame[j].lane] = key
                                      /\ R[j] # Unresolved}
        held == IF staged # {} THEN R[Max(staged)]
                ELSE IF Holds(heard, key) THEN heard.opens[key]
                ELSE Unresolved
        read == [x \in Field |-> IF x \in frame[i].stated \/ held = Unresolved
                                 THEN frame[i].meant[x]
                                 ELSE held[x]]
    IN  IF \/ frame[i].stated = Field
           \/ /\ held # Unresolved
              /\ CheckOf[read] = CheckOf[frame[i].meant]
        THEN read
        ELSE Unresolved

\* It looks at those before it only.
LEMMA ReadsBack ==
    ASSUME NEW f, NEW g, NEW frame, NEW i \in Nat,
           \A j \in 1 .. i - 1 : f[j] = g[j]
    PROVE  ReadAt(f, frame, i) = ReadAt(g, frame, i)
<1> DEFINE key == KeyOf[frame[i].lane]
           staged(R) == {j \in 1 .. i - 1 : /\ KeyOf[frame[j].lane] = key
                                            /\ R[j] # Unresolved}
           held(R) == IF staged(R) # {} THEN R[Max(staged(R))]
                      ELSE IF Holds(heard, key) THEN heard.opens[key]
                      ELSE Unresolved
<1>1. staged(f) = staged(g)
  OBVIOUS
<1>2. held(f) = held(g)
  <2>1. CASE staged(f) = {}
    BY <1>1, <2>1
  <2>2. CASE staged(f) # {}
    <3> DEFINE S == staged(f)
    <3>1. CASE i = 0
      BY <2>2, <3>1
    <3>2. CASE i # 0
      <4>1. i - 1 \in Nat
        BY <3>2
      <4>2. S \in SUBSET (1 .. i - 1) /\ S # {}
        BY <2>2
      <4> HIDE DEF S
      <4>3. Max(S) \in 1 .. i - 1
        BY <4>1, <4>2, Greatest
      <4>4. f[Max(S)] = g[Max(S)]
        BY <4>3
      <4> QED
        BY <1>1, <2>2, <4>4 DEF S
    <3> QED
      BY <3>1, <3>2
  <2> QED
    BY <2>1, <2>2
<1> DEFINE Body(h) ==
              LET read == [x \in Field |-> IF x \in frame[i].stated \/ h = Unresolved
                                           THEN frame[i].meant[x]
                                           ELSE h[x]]
              IN  IF \/ frame[i].stated = Field
                     \/ /\ h # Unresolved
                        /\ CheckOf[read] = CheckOf[frame[i].meant]
                  THEN read
                  ELSE Unresolved
<1>3. ReadAt(f, frame, i) = Body(held(f)) /\ ReadAt(g, frame, i) = Body(held(g))
  BY Zenon DEF ReadAt
<1> HIDE DEF held, Body
<1> QED
  BY <1>2, <1>3

\* So there is a resolution of each frame, OPEN by OPEN.
LEMMA ResolutionRuns ==
    ASSUME NEW frame, frame \in Seq(Sent)
    PROVE  \A i \in 1 .. Len(frame) :
              Resolution(frame)[i] = ReadAt(Resolution(frame), frame, i)
<1> DEFINE n == Len(frame)
           Is(f) == f = [i \in DOMAIN frame |-> ReadAt(f, frame, i)]
           P(m) == \E f : \A i \in 1 .. m : f[i] = ReadAt(f, frame, i)
           T == {m \in 0 .. n : P(m)}
<1>1. n \in Nat /\ DOMAIN frame = 1 .. n
  OBVIOUS
<1>2. 0 \in T
  OBVIOUS
<1>3. ASSUME NEW m \in 1 .. n, P(m - 1) PROVE P(m)
  <2>1. PICK f : \A i \in 1 .. m - 1 : f[i] = ReadAt(f, frame, i)
    BY <1>3
  <2> DEFINE g == [i \in 1 .. m |-> IF i = m THEN ReadAt(f, frame, m) ELSE f[i]]
  <2>2. \A i \in 1 .. m - 1 : g[i] = f[i]
    OBVIOUS
  <2>3. g[m] = ReadAt(f, frame, m)
    OBVIOUS
  <2> HIDE DEF g
  <2>4. ASSUME NEW i \in 1 .. m PROVE g[i] = ReadAt(g, frame, i)
    <3>1. i \in Nat /\ \A j \in 1 .. i - 1 : g[j] = f[j]
      BY <2>2
    <3>2. ReadAt(g, frame, i) = ReadAt(f, frame, i)
      BY <3>1, ReadsBack
    <3>3. CASE i = m
      BY <2>3, <3>2, <3>3
    <3>4. CASE i # m
      BY <2>1, <2>2, <3>2, <3>4
    <3> QED
      BY <3>3, <3>4
  <2> QED
    BY <2>4
<1> HIDE DEF P
<1>4. \A i \in 1 .. n : i - 1 \in T => i \in T
  BY <1>3
<1>5. \A i \in 0 .. n : i \in T
  BY <1>1, <1>2, <1>4, Climb
<1>6. P(n)
  BY <1>1, <1>5
<1>7. \E f : Is(f)
  <2>1. PICK f : \A i \in 1 .. n : f[i] = ReadAt(f, frame, i)
    BY <1>6 DEF P
  <2> DEFINE g == [i \in 1 .. n |-> f[i]]
  <2>2. \A i \in 1 .. n : ReadAt(g, frame, i) = ReadAt(f, frame, i)
    <3> SUFFICES ASSUME NEW i \in 1 .. n PROVE ReadAt(g, frame, i) = ReadAt(f, frame, i)
      OBVIOUS
    <3>1. i \in Nat /\ \A j \in 1 .. i - 1 : g[j] = f[j]
      BY <1>1
    <3> HIDE DEF g
    <3> QED
      BY <3>1, ReadsBack
  <2>3. g = [i \in 1 .. n |-> ReadAt(f, frame, i)]
    BY <2>1
  <2>4. [i \in 1 .. n |-> ReadAt(f, frame, i)] = [i \in 1 .. n |-> ReadAt(g, frame, i)]
    BY <2>2
  <2> QED
    BY <1>1, <2>3, <2>4
<1>8. Resolution(frame) = CHOOSE g : Is(g)
  BY Zenon DEF Resolution, ReadAt
<1>9. Is(Resolution(frame))
  <2> HIDE DEF Is
  <2> QED
    BY <1>7, <1>8
<1> DEFINE R == Resolution(frame)
<1>10. R = [i \in 1 .. n |-> ReadAt(R, frame, i)]
  BY <1>1, <1>9
<1> HIDE DEF R
<1>11. \A i \in 1 .. n : R[i] = ReadAt(R, frame, i)
  BY <1>10
<1> QED
  BY <1>11 DEF R

\* What the writer last meant for each key; for a key it never named, nothing
\* in particular.
Image == [Key -> Fields \cup {Unresolved}]

\* An OPEN states what differs from what was meant before it.
Tells(before, open, after) ==
    /\ after = [before EXCEPT ![KeyOf[open.lane]] = open.meant]
    /\ \A x \in Field \ open.stated : before[KeyOf[open.lane]][x] = open.meant[x]

\* The OPENs of a frame lead from one image to another.
Through(inner, frame) ==
    /\ inner \in [0 .. Len(frame) -> Image]
    /\ \A i \in 1 .. Len(frame) : Tells(inner[i - 1], frame[i], inner[i])

\* A basis holds what was meant.
Recalls(image, basis) == \A k \in DOMAIN basis.opens : image[k] = basis.opens[k]

LEMMA ToldStep ==
    ASSUME LaneAssumption, NEW frame, frame \in Seq(Sent), NEW inner, Through(inner, frame),
           NEW i \in 1 .. Len(frame)
    PROVE  /\ i - 1 \in 0 .. Len(frame) /\ i \in 0 .. Len(frame)
           /\ KeyAt(frame, i) \in Key
           /\ inner[i - 1] \in Image /\ inner[i] \in Image
           /\ inner[i][KeyAt(frame, i)] = frame[i].meant
           /\ \A k \in Key : k # KeyAt(frame, i) => inner[i][k] = inner[i - 1][k]
           /\ \A x \in Field \ frame[i].stated :
                 inner[i - 1][KeyAt(frame, i)][x] = frame[i].meant[x]
<1>1. i - 1 \in 0 .. Len(frame) /\ i \in 0 .. Len(frame)
  OBVIOUS
<1>2. KeyAt(frame, i) \in Key
  BY KeyAtTyped
<1>3. inner[i - 1] \in Image /\ inner[i] \in Image
  BY <1>1 DEF Through
<1>4. Tells(inner[i - 1], frame[i], inner[i])
  BY DEF Through
<1>5. /\ inner[i] = [inner[i - 1] EXCEPT ![KeyAt(frame, i)] = frame[i].meant]
      /\ \A x \in Field \ frame[i].stated :
            inner[i - 1][KeyAt(frame, i)][x] = frame[i].meant[x]
  BY <1>4 DEF Tells, KeyAt
<1>6. DOMAIN inner[i - 1] = Key
  BY <1>3 DEF Image
<1>7. inner[i][KeyAt(frame, i)] = frame[i].meant
  BY <1>2, <1>5, <1>6
<1>8. \A k \in Key : k # KeyAt(frame, i) => inner[i][k] = inner[i - 1][k]
  BY <1>5, <1>6
<1> QED
  BY <1>1, <1>2, <1>3, <1>5, <1>7, <1>8

\* What is meant for a key stays while no OPEN names the key.
LEMMA Unnamed ==
    ASSUME LaneAssumption, NEW frame, frame \in Seq(Sent), NEW inner, Through(inner, frame),
           NEW k \in Key, NEW a \in 0 .. Len(frame), NEW b \in 0 .. Len(frame), a <= b,
           \A i \in 1 .. Len(frame) : a < i /\ i <= b => KeyAt(frame, i) # k
    PROVE  inner[b][k] = inner[a][k]
<1> DEFINE n == b - a
           T == {d \in 0 .. n : inner[a + d][k] = inner[a][k]}
<1>1. n \in Nat /\ a + 0 = a /\ a + n = b /\ a \in Nat /\ Len(frame) \in Nat
  OBVIOUS
<1>2. 0 \in T
  BY <1>1
<1>3. ASSUME NEW d \in 1 .. n, d - 1 \in T PROVE d \in T
  <2>1. /\ a + d \in 1 .. Len(frame) /\ a < a + d /\ a + d <= b
        /\ (a + d) - 1 = a + (d - 1) /\ d \in 0 .. n
    BY <1>1
  <2>2. KeyAt(frame, a + d) # k
    BY <2>1
  <2>3. inner[a + d][k] = inner[(a + d) - 1][k]
    BY <2>1, <2>2, ToldStep
  <2> QED
    BY <1>3, <2>1, <2>3
<1> HIDE DEF T
<1>4. \A d \in 0 .. n : d \in T
  BY <1>1, <1>2, <1>3, Climb
<1>5. n \in T
  BY <1>1, <1>4
<1> QED
  BY <1>1, <1>5 DEF T

\* The reader resolves an OPEN to what was meant or not at all; not at all only
\* if it holds nothing of the key and has read nothing of it in this frame.
LEMMA ResolvesMeant ==
    ASSUME LaneAssumption, heard \in Basis, NEW frame, frame \in Seq(Sent),
           NEW inner, Through(inner, frame), Recalls(inner[0], heard),
           NEW R, R = Resolution(frame)
    PROVE  \A i \in 1 .. Len(frame) :
              /\ R[i] \in {frame[i].meant, Unresolved}
              /\ R[i] = Unresolved =>
                    /\ ~Holds(heard, KeyAt(frame, i))
                    /\ \A j \in 1 .. i - 1 :
                          KeyAt(frame, j) = KeyAt(frame, i) => R[j] = Unresolved
<1> DEFINE n == Len(frame)
           Good(i) == /\ R[i] \in {frame[i].meant, Unresolved}
                      /\ R[i] = Unresolved =>
                            /\ ~Holds(heard, KeyAt(frame, i))
                            /\ \A j \in 1 .. i - 1 :
                                  KeyAt(frame, j) = KeyAt(frame, i) => R[j] = Unresolved
           T == {m \in 0 .. n : \A i \in 1 .. m : Good(i)}
<1>1. n \in Nat
  OBVIOUS
<1>2. 0 \in T
  BY <1>1
<1>3. ASSUME NEW m \in 1 .. n, \A i \in 1 .. m - 1 : Good(i) PROVE Good(m)
  <2> DEFINE key == KeyAt(frame, m)
             staged == {j \in 1 .. m - 1 : KeyAt(frame, j) = key /\ R[j] # Unresolved}
             held == IF staged # {} THEN R[Max(staged)]
                     ELSE IF Holds(heard, key) THEN heard.opens[key]
                     ELSE Unresolved
             read == [x \in Field |-> IF x \in frame[m].stated \/ held = Unresolved
                                      THEN frame[m].meant[x]
                                      ELSE held[x]]
  <2>1. R[m] = IF \/ frame[m].stated = Field
                  \/ /\ held # Unresolved
                     /\ CheckOf[read] = CheckOf[frame[m].meant]
               THEN read
               ELSE Unresolved
    <3>1. R[m] = ReadAt(R, frame, m)
      BY ResolutionRuns
    <3> QED
      BY Zenon, <3>1 DEF ReadAt, KeyAt
  <2>2. key \in Key /\ frame[m].meant \in Fields /\ frame[m].meant # Unresolved
    BY KeyAtTyped DEF LaneAssumption
  <2>3. m - 1 \in 0 .. n /\ m - 1 \in Nat /\ m \in Nat
    BY <1>1
  <2>4. ASSUME staged # {}
        PROVE  held = inner[m - 1][key] /\ held \in Fields
    <3> DEFINE last == Max(staged)
    <3>1. staged \in SUBSET (1 .. m - 1)
      OBVIOUS
    <3>2. last \in staged /\ \A j \in staged : j <= last
      <4> HIDE DEF staged
      <4> QED
        BY <2>3, <2>4, <3>1, Greatest
    <3>3. held = R[last]
      BY <2>4
    <3> HIDE DEF last
    <3>4. /\ last \in 1 .. m - 1 /\ last \in 0 .. n /\ last \in 1 .. n
          /\ KeyAt(frame, last) = key /\ R[last] # Unresolved
      BY <3>2, <2>3
    <3>5. R[last] = frame[last].meant /\ frame[last].meant \in Fields
      BY <1>3, <3>4, KeyAtTyped
    <3>6. ASSUME NEW i \in 1 .. n, last < i, i <= m - 1, KeyAt(frame, i) = key PROVE FALSE
      <4>1. i \in 1 .. m - 1 /\ last \in 1 .. i - 1 /\ ~(i <= last)
        BY <2>3, <3>4, <3>6
      <4>2. i \notin staged
        BY <3>2, <4>1
      <4>3. R[i] = Unresolved
        BY <3>6, <4>1, <4>2
      <4>4. Good(i)
        BY <1>3, <4>1
      <4>5. R[last] = Unresolved
        BY <3>4, <3>6, <4>1, <4>3, <4>4
      <4> QED
        BY <3>4, <4>5
    <3>7. inner[m - 1][key] = inner[last][key]
      <4>1. \A i \in 1 .. Len(frame) : last < i /\ i <= m - 1 => KeyAt(frame, i) # key
        BY <3>6
      <4>2. last <= m - 1
        BY <3>4
      <4> HIDE DEF key
      <4> QED
        BY <2>2, <2>3, <3>4, <4>1, <4>2, Unnamed
    <3>8. inner[last][key] = frame[last].meant
      BY <3>4, ToldStep
    <3>9. held = inner[m - 1][key] /\ held \in Fields
      BY <3>3, <3>5, <3>7, <3>8
    <3> QED
      BY <3>9
  <2>5. ASSUME staged = {}, Holds(heard, key)
        PROVE  held = inner[m - 1][key] /\ held \in Fields
    <3>1. held = heard.opens[key] /\ held \in Fields
      BY <2>5, BasisFacts DEF Holds
    <3>2. inner[0][key] = heard.opens[key]
      BY <2>5 DEF Recalls, Holds
    <3>3. ASSUME NEW i \in 1 .. n, 0 < i, i <= m - 1, KeyAt(frame, i) = key PROVE FALSE
      <4>1. i \in 1 .. m - 1
        BY <2>3, <3>3
      <4>2. R[i] = Unresolved
        BY <2>5, <3>3, <4>1
      <4>3. Good(i)
        BY <1>3, <4>1
      <4> QED
        BY <2>5, <3>3, <4>2, <4>3
    <3>4. inner[m - 1][key] = inner[0][key]
      <4>1. \A i \in 1 .. Len(frame) : 0 < i /\ i <= m - 1 => KeyAt(frame, i) # key
        BY <3>3
      <4>2. 0 \in 0 .. n /\ 0 <= m - 1
        BY <1>1, <2>3
      <4> HIDE DEF key
      <4> QED
        BY <2>2, <2>3, <4>1, <4>2, Unnamed
    <3> QED
      BY <3>1, <3>2, <3>4
  <2>6. CASE staged # {} \/ Holds(heard, key)
    <3>1. held = inner[m - 1][key] /\ held \in Fields
      BY <2>4, <2>5, <2>6
    <3>2. held # Unresolved
      BY <3>1 DEF LaneAssumption
    <3>3. \A x \in Field \ frame[m].stated : inner[m - 1][key][x] = frame[m].meant[x]
      BY ToldStep
    <3> HIDE DEF held
    <3>4. read = [x \in Field |-> frame[m].meant[x]]
      BY <3>1, <3>2, <3>3
    <3>5. frame[m].meant = [x \in Field |-> frame[m].meant[x]]
      BY <2>2 DEF Fields
    <3>6. read = frame[m].meant
      BY <3>4, <3>5
    <3> HIDE DEF read
    <3>7. R[m] = frame[m].meant
      BY <2>1, <3>2, <3>6
    <3> QED
      BY <2>2, <3>7
  <2>7. CASE staged = {} /\ ~Holds(heard, key)
    <3>1. held = Unresolved
      BY <2>7
    <3> HIDE DEF held
    <3>2. read = [x \in Field |-> frame[m].meant[x]]
      BY <3>1
    <3>3. frame[m].meant = [x \in Field |-> frame[m].meant[x]]
      BY <2>2 DEF Fields
    <3>4. R[m] \in {frame[m].meant, Unresolved}
      BY <2>1, <3>2, <3>3
    <3>5. \A j \in 1 .. m - 1 : KeyAt(frame, j) = key => R[j] = Unresolved
      BY <2>7
    <3> QED
      BY <2>7, <3>4, <3>5
  <2> QED
    BY <2>6, <2>7
<1> HIDE DEF Good
<1>4. \A m \in 1 .. n : m - 1 \in T => m \in T
  <2> SUFFICES ASSUME NEW m \in 1 .. n, m - 1 \in T PROVE m \in T
    OBVIOUS
  <2>1. \A i \in 1 .. m - 1 : Good(i)
    OBVIOUS
  <2>2. Good(m)
    BY <1>3, <2>1
  <2>3. \A i \in 1 .. m : i \in 1 .. m - 1 \/ i = m
    OBVIOUS
  <2> QED
    BY <1>1, <2>1, <2>2, <2>3
<1>5. \A m \in 0 .. n : m \in T
  <2> HIDE DEF T
  <2> QED
    BY <1>1, <1>2, <1>4, Climb
<1>6. \A i \in 1 .. n : Good(i)
  BY <1>1, <1>5
<1> QED
  BY <1>6 DEF Good, n

\* What the reader's basis holds once a frame is read is what the frame meant.
LEMMA HeardRecalls ==
    ASSUME LaneAssumption, BoundAssumption, heard \in Basis,
           NEW frame, frame \in Seq(Sent),
           NEW inner, Through(inner, frame), Recalls(inner[0], heard)
    PROVE  /\ HeardAfter(frame) \in Basis
           /\ Recalls(inner[Len(frame)], HeardAfter(frame))
<1> DEFINE n == Len(frame)
           R == Resolution(frame)
<1>1. n \in Nat
  OBVIOUS
<1>2. R = Resolution(frame)
  OBVIOUS
<1> HIDE DEF R
<1>3. \A i \in 1 .. n :
         /\ R[i] \in {frame[i].meant, Unresolved}
         /\ R[i] = Unresolved =>
               /\ ~Holds(heard, KeyAt(frame, i))
               /\ \A j \in 1 .. i - 1 :
                     KeyAt(frame, j) = KeyAt(frame, i) => R[j] = Unresolved
  BY <1>2, ResolvesMeant
<1>4. \A i \in 1 .. n : frame[i].meant \in Fields /\ KeyAt(frame, i) \in Key
  BY KeyAtTyped
<1>5. \A i \in 1 .. n : R[i] \in Fields \cup {Unresolved}
  BY <1>3, <1>4
<1>6. PICK after \in [0 .. n -> Basis] :
         /\ after[0] = heard
         /\ \A i \in 1 .. n :
               after[i] = IF R[i] = Unresolved
                          THEN after[i - 1]
                          ELSE Noted(after[i - 1], KeyAt(frame, i), R[i])
         /\ HeardAfter(frame) = after[n]
  BY <1>2, <1>5, ReadsRun
<1> DEFINE Known(k, i) == \/ Holds(heard, k)
                          \/ \E j \in 1 .. i : KeyAt(frame, j) = k /\ R[j] # Unresolved
           Good(i) == \A k : Holds(after[i], k) =>
                         /\ k \in Key
                         /\ after[i].opens[k] = inner[i][k]
                         /\ Known(k, i)
           T == {i \in 0 .. n : Good(i)}
<1>7. 0 \in T
  <2>1. \A k : Holds(heard, k) => k \in Key /\ heard.opens[k] = inner[0][k]
    BY BasisFacts DEF Holds, Recalls
  <2> QED
    BY <1>1, <1>6, <2>1
<1>8. ASSUME NEW i \in 1 .. n, Good(i - 1) PROVE Good(i)
  <2> DEFINE key == KeyAt(frame, i)
  <2>1. i - 1 \in 0 .. n /\ after[i - 1] \in Basis
    BY <1>1, <1>6
  <2>2. \A k \in Key : k # key => inner[i][k] = inner[i - 1][k]
    BY ToldStep
  <2>3. inner[i][key] = frame[i].meant
    BY ToldStep
  <2>4. \A k : Known(k, i - 1) => Known(k, i)
    <3>1. \A j \in 1 .. i - 1 : j \in 1 .. i
      OBVIOUS
    <3> QED
      BY <3>1
  <2>5. CASE R[i] = Unresolved
    <3>1. after[i] = after[i - 1]
      BY <1>6, <2>5
    <3>2. ~Known(key, i - 1)
      BY <1>3, <2>5
    <3> HIDE DEF Known, key
    <3> QED
      BY <1>8, <2>2, <2>4, <3>1, <3>2
  <2>6. CASE R[i] # Unresolved
    <3>1. R[i] = frame[i].meant /\ R[i] \in Fields /\ key \in Key
      BY <1>3, <1>4, <2>6
    <3>2. after[i] = Noted(after[i - 1], key, R[i])
      BY <1>6, <2>6
    <3>3. /\ after[i].opens[key] = R[i]
          /\ \A k : k # key /\ Holds(after[i], k) =>
                Holds(after[i - 1], k) /\ after[i].opens[k] = after[i - 1].opens[k]
      BY <2>1, <3>1, <3>2, NotedKeeps
    <3>4. Known(key, i)
      BY <2>6
    <3> HIDE DEF Known, key
    <3> QED
      BY <1>8, <2>2, <2>3, <2>4, <3>1, <3>3, <3>4
  <2> QED
    BY <2>5, <2>6
<1> HIDE DEF Good
<1>9. \A i \in 1 .. n : i - 1 \in T => i \in T
  BY <1>1, <1>8
<1>10. \A i \in 0 .. n : i \in T
  <2> HIDE DEF T
  <2> QED
    BY <1>1, <1>7, <1>9, Climb
<1>11. Good(n) /\ after[n] \in Basis
  BY <1>1, <1>6, <1>10
<1> QED
  BY <1>6, <1>11 DEF Good, n, Recalls, Holds

-----------------------------------------------------------------------------
(* The frames on their way lead what the reader recalls to what the writer    *)
(* recalls.                                                                   *)

Carries(before, frame, after) ==
    \E inner : /\ Through(inner, frame)
               /\ inner[0] = before /\ inner[Len(frame)] = after

Linked(frames, reader, writer) ==
    \E past \in [0 .. Len(frames) -> Image] :
        /\ Recalls(past[0], reader)
        /\ Recalls(past[Len(frames)], writer)
        /\ \A f \in 1 .. Len(frames) : Carries(past[f - 1], frames[f], past[f])

\* A frame that is packed tells what it means, and the writer's basis follows.
LEMMA FramedCarries ==
    ASSUME LaneAssumption, BoundAssumption, sent \in Basis,
           NEW opens, opens \in Seq(Open),
           NEW image, image \in Image, Recalls(image, sent)
    PROVE  \E next \in Image :
              /\ Carries(image, Framed(opens), next)
              /\ Recalls(next, BasesWhile(opens)[Len(opens)])
<1> DEFINE n == Len(opens)
           after == BasesWhile(opens)
           frame == Framed(opens)
           step == [i \in 1 .. n |->
                       [m \in Image |-> [m EXCEPT ![KeyAt(opens, i)] = opens[i].meant]]]
<1>1. n \in Nat /\ DOMAIN opens = 1 .. n
  OBVIOUS
<1>2. /\ after \in [0 .. n -> Basis]
      /\ after[0] = sent
      /\ \A i \in 1 .. n : after[i] = Noted(after[i - 1], KeyAt(opens, i), opens[i].meant)
  BY WritesRun
<1>3. /\ Len(frame) = n
      /\ \A i \in 1 .. n :
            /\ frame[i].lane = opens[i].lane /\ frame[i].meant = opens[i].meant
            /\ frame[i].stated = Stated(after[i - 1], opens[i])
  <2>1. frame = [i \in 1 .. n |->
                    [lane |-> opens[i].lane, request |-> opens[i].request,
                     meant |-> opens[i].meant, stated |-> Stated(after[i - 1], opens[i])]]
    BY <1>1 DEF Framed
  <2> HIDE DEF frame, after
  <2> QED
    BY <1>1, <2>1
<1>4. \A i \in 1 .. n : opens[i].meant \in Fields /\ KeyAt(opens, i) \in Key
  BY KeyAtTyped
<1>5. step \in [1 .. n -> [Image -> Image]]
  <2> SUFFICES ASSUME NEW i \in 1 .. n, NEW m \in Image
               PROVE  [m EXCEPT ![KeyAt(opens, i)] = opens[i].meant] \in Image
    OBVIOUS
  <2> QED
    BY <1>4 DEF Image
<1>6. \A i \in 1 .. n : \A m \in Image :
         step[i][m] = [m EXCEPT ![KeyAt(opens, i)] = opens[i].meant]
  OBVIOUS
<1> HIDE DEF step, n, after, frame
<1>7. PICK inner \in [0 .. n -> Image] :
         /\ inner[0] = image
         /\ \A i \in 1 .. n : inner[i] = step[i][inner[i - 1]]
  <2>1. \A s \in [1 .. n -> [Image -> Image]] :
           \E f \in [0 .. n -> Image] : /\ f[0] = image
                                        /\ \A i \in 1 .. n : f[i] = s[i][f[i - 1]]
    BY ONLY <1>1, image \in Image, Runs
  <2> QED
    BY <1>5, <2>1
<1>8. \A i \in 1 .. n : i - 1 \in 0 .. n /\ i \in 0 .. n
  BY <1>1
<1>9. \A i \in 1 .. n :
         inner[i] = [inner[i - 1] EXCEPT ![KeyAt(opens, i)] = opens[i].meant]
  BY <1>6, <1>7, <1>8
<1>10. \A i \in 1 .. n :
          /\ inner[i][KeyAt(opens, i)] = opens[i].meant
          /\ \A k \in Key : k # KeyAt(opens, i) => inner[i][k] = inner[i - 1][k]
  <2> SUFFICES ASSUME NEW i \in 1 .. n
               PROVE  /\ inner[i][KeyAt(opens, i)] = opens[i].meant
                      /\ \A k \in Key : k # KeyAt(opens, i) => inner[i][k] = inner[i - 1][k]
    OBVIOUS
  <2>1. DOMAIN inner[i - 1] = Key
    BY <1>7, <1>8 DEF Image
  <2> QED
    BY <1>4, <1>9, <2>1
<1> DEFINE T == {i \in 0 .. n : Recalls(inner[i], after[i])}
<1>11. 0 \in T
  BY <1>1, <1>2, <1>7
<1>12. ASSUME NEW i \in 1 .. n, i - 1 \in T PROVE i \in T
  <2> DEFINE key == KeyAt(opens, i)
  <2>1. after[i - 1] \in Basis /\ after[i] \in Basis
    BY <1>2, <1>8
  <2>2. key \in Key /\ opens[i].meant \in Fields
    BY <1>4
  <2>3. after[i] = Noted(after[i - 1], key, opens[i].meant)
    BY <1>2
  <2>4. /\ after[i].opens[key] = opens[i].meant
        /\ \A k : k # key /\ Holds(after[i], k) =>
              Holds(after[i - 1], k) /\ after[i].opens[k] = after[i - 1].opens[k]
    BY <2>1, <2>2, <2>3, NotedKeeps
  <2>5. \A k \in DOMAIN after[i].opens : k \in Key
    BY <2>1, BasisFacts
  <2>6. Recalls(inner[i - 1], after[i - 1])
    BY <1>12
  <2>7. \A k \in DOMAIN after[i].opens : inner[i][k] = after[i].opens[k]
    BY <1>10, <2>4, <2>5, <2>6 DEF Recalls, Holds
  <2> QED
    BY <1>8, <2>7 DEF Recalls
<1>13. \A i \in 0 .. n : i \in T
  <2> HIDE DEF T
  <2> QED
    BY <1>1, <1>11, <1>12, Climb
<1>14. Through(inner, frame)
  <2> SUFFICES ASSUME NEW i \in 1 .. n PROVE Tells(inner[i - 1], frame[i], inner[i])
    BY <1>3, <1>7 DEF Through
  <2> DEFINE key == KeyAt(opens, i)
  <2>1. KeyOf[frame[i].lane] = key /\ frame[i].meant = opens[i].meant
    BY <1>3 DEF KeyAt
  <2>2. Recalls(inner[i - 1], after[i - 1])
    BY <1>8, <1>13
  <2>3. ASSUME NEW x \in Field \ frame[i].stated PROVE inner[i - 1][key][x] = opens[i].meant[x]
    <3>1. x \in Field /\ x \notin Stated(after[i - 1], opens[i])
      BY <1>3, <2>3
    <3>2. Holds(after[i - 1], key) /\ after[i - 1].opens[key][x] = opens[i].meant[x]
      BY <3>1 DEF Stated, KeyAt
    <3> QED
      BY <2>2, <3>2 DEF Recalls, Holds
  <2>4. inner[i] = [inner[i - 1] EXCEPT ![key] = opens[i].meant]
    BY <1>9
  <2> QED
    BY <2>1, <2>3, <2>4 DEF Tells
<1>15. inner[n] \in Image /\ Recalls(inner[n], after[n])
  BY <1>1, <1>7, <1>13
<1>16. Carries(image, frame, inner[n])
  BY <1>3, <1>7, <1>14 DEF Carries
<1> QED
  BY <1>15, <1>16 DEF after, frame, n

LEMMA FramedTyped ==
    ASSUME NEW opens, opens \in Seq(Open)
    PROVE  Framed(opens) \in Seq(Sent)
<1> DEFINE n == Len(opens)
           Frame(i) == [lane |-> opens[i].lane, request |-> opens[i].request,
                        meant |-> opens[i].meant,
                        stated |-> Stated(BasesWhile(opens)[i - 1], opens[i])]
<1>1. n \in Nat /\ DOMAIN opens = 1 .. n
  OBVIOUS
<1>2. ASSUME NEW i \in 1 .. n PROVE Frame(i) \in Sent
  <2>1. opens[i] \in Open
    OBVIOUS
  <2>2. /\ opens[i].lane \in Lane /\ opens[i].request \in 1 .. MaxRequest
        /\ opens[i].meant \in Fields
    BY <2>1 DEF Open
  <2>3. \A b : Stated(b, opens[i]) \in SUBSET Field
    BY DEF Stated
  <2> QED
    BY <2>2, <2>3 DEF Sent
<1>3. Framed(opens) = [i \in 1 .. n |-> Frame(i)]
  BY <1>1 DEF Framed
<1> HIDE DEF Frame, n
<1>4. [i \in 1 .. n |-> Frame(i)] \in [1 .. n -> Sent]
  BY <1>2
<1> QED
  BY <1>1, <1>3, <1>4

\* One more frame leads on from what the writer recalled before it.
LEMMA LinkedOn ==
    ASSUME NEW S, NEW frames, frames \in Seq(S), NEW frame \in S,
           NEW reader, NEW writer, NEW now,
           Linked(frames, reader, writer),
           \A image \in Image : Recalls(image, writer) =>
              \E next \in Image : Carries(image, frame, next) /\ Recalls(next, now)
    PROVE  Linked(Append(frames, frame), reader, now)
<1> DEFINE n == Len(frames)
           more == Append(frames, frame)
<1>1. /\ n \in Nat /\ Len(more) = n + 1
      /\ \A i \in 1 .. n : more[i] = frames[i]
      /\ more[n + 1] = frame
  OBVIOUS
<1>2. PICK past \in [0 .. n -> Image] :
         /\ Recalls(past[0], reader)
         /\ Recalls(past[n], writer)
         /\ \A f \in 1 .. n : Carries(past[f - 1], frames[f], past[f])
  BY DEF Linked
<1>3. past[n] \in Image
  BY <1>1, <1>2
<1>4. PICK next \in Image : Carries(past[n], frame, next) /\ Recalls(next, now)
  BY <1>2, <1>3
<1> DEFINE new == [f \in 0 .. n + 1 |-> IF f = n + 1 THEN next ELSE past[f]]
<1>5. new \in [0 .. n + 1 -> Image]
  BY <1>1
<1>6. new[0] = past[0] /\ new[n + 1] = next /\ \A f \in 0 .. n : new[f] = past[f]
  BY <1>1
<1> HIDE DEF new, more, n
<1>7. ASSUME NEW f \in 1 .. n + 1 PROVE Carries(new[f - 1], more[f], new[f])
  <2>1. f - 1 \in 0 .. n
    BY <1>1
  <2>2. CASE f = n + 1
    <3>1. f - 1 = n
      BY <1>1, <2>2
    <3> QED
      BY <1>1, <1>4, <1>6, <2>1, <2>2, <3>1
  <2>3. CASE f # n + 1
    <3>1. f \in 1 .. n /\ f \in 0 .. n
      BY <1>1, <2>3
    <3> QED
      BY <1>1, <1>2, <1>6, <2>1, <3>1
  <2> QED
    BY <2>2, <2>3
<1>8. Recalls(new[0], reader) /\ Recalls(new[n + 1], now)
  BY <1>2, <1>4, <1>6
<1> QED
  BY <1>1, <1>5, <1>7, <1>8 DEF Linked, more

\* The first frame is read.
LEMMA LinkedPast ==
    ASSUME NEW S, NEW frames, frames \in Seq(S), frames # <<>>,
           NEW reader, NEW writer, NEW now,
           Linked(frames, reader, writer),
           \A image \in Image : \A next \in Image :
              Recalls(image, reader) /\ Carries(image, Head(frames), next)
                 => Recalls(next, now)
    PROVE  Linked(Tail(frames), now, writer)
<1> DEFINE n == Len(frames)
           rest == Tail(frames)
<1>1. /\ n \in Nat \ {0} /\ Len(rest) = n - 1
      /\ \A i \in 1 .. n - 1 : rest[i] = frames[i + 1]
      /\ Head(frames) = frames[1]
  OBVIOUS
<1>2. PICK past \in [0 .. n -> Image] :
         /\ Recalls(past[0], reader)
         /\ Recalls(past[n], writer)
         /\ \A f \in 1 .. n : Carries(past[f - 1], frames[f], past[f])
  BY DEF Linked
<1>3. past[0] \in Image /\ past[1] \in Image /\ Carries(past[1 - 1], frames[1], past[1])
  BY <1>1, <1>2
<1>4. Recalls(past[1], now)
  BY <1>1, <1>2, <1>3
<1> DEFINE new == [f \in 0 .. n - 1 |-> past[f + 1]]
<1>5. new \in [0 .. n - 1 -> Image]
  BY <1>1
<1>6. \A f \in 0 .. n - 1 : new[f] = past[f + 1]
  OBVIOUS
<1> HIDE DEF new, rest, n
<1>7. ASSUME NEW f \in 1 .. n - 1 PROVE Carries(new[f - 1], rest[f], new[f])
  <2>1. f - 1 \in 0 .. n - 1 /\ f \in 0 .. n - 1 /\ f + 1 \in 1 .. n
        /\ (f - 1) + 1 = f /\ (f + 1) - 1 = f
    BY <1>1
  <2>2. Carries(past[(f + 1) - 1], frames[f + 1], past[f + 1])
    BY <1>2, <2>1
  <2>3. new[f - 1] = past[f] /\ new[f] = past[f + 1] /\ rest[f] = frames[f + 1]
    BY <1>1, <1>6, <2>1
  <2> QED
    BY <2>1, <2>2, <2>3
<1>8. Recalls(new[0], now) /\ Recalls(new[n - 1], writer)
  <2>1. 0 \in 0 .. n - 1 /\ n - 1 \in 0 .. n - 1 /\ 0 + 1 = 1 /\ (n - 1) + 1 = n
    BY <1>1
  <2>2. new[0] = past[1] /\ new[n - 1] = past[n]
    BY <1>6, <2>1
  <2> QED
    BY <1>2, <1>4, <2>2
<1> QED
  BY <1>1, <1>5, <1>7, <1>8 DEF Linked, rest

\* A writer that forgot recalls nothing wrong.
LEMMA LinkedForgets ==
    ASSUME NEW frames, NEW reader, NEW writer, Linked(frames, reader, writer)
    PROVE  Linked(frames, reader, Empty)
<1>1. \A image : Recalls(image, Empty)
  BY DEF Recalls, Empty
<1> QED
  BY <1>1 DEF Linked

\* What is meant for a key stays over the frames that do not name it.
LEMMA UnnamedByAny ==
    ASSUME LaneAssumption, NEW frames, frames \in Seq(Seq(Sent)),
           NEW past \in [0 .. Len(frames) -> Image],
           \A f \in 1 .. Len(frames) : Carries(past[f - 1], frames[f], past[f]),
           NEW k \in Key,
           \A f \in 1 .. Len(frames) : \A i \in 1 .. Len(frames[f]) :
              KeyAt(frames[f], i) # k
    PROVE  past[Len(frames)][k] = past[0][k]
<1> DEFINE n == Len(frames)
           T == {f \in 0 .. n : past[f][k] = past[0][k]}
<1>1. n \in Nat
  OBVIOUS
<1>2. 0 \in T
  BY <1>1
<1>3. ASSUME NEW f \in 1 .. n, f - 1 \in T PROVE f \in T
  <2> DEFINE frame == frames[f]
  <2>1. frame \in Seq(Sent) /\ f \in 0 .. n
    BY <1>1
  <2>2. PICK inner : /\ Through(inner, frame)
                     /\ inner[0] = past[f - 1] /\ inner[Len(frame)] = past[f]
    BY DEF Carries
  <2>3. \A i \in 1 .. Len(frame) : 0 < i /\ i <= Len(frame) => KeyAt(frame, i) # k
    OBVIOUS
  <2> HIDE DEF frame
  <2>4. 0 \in 0 .. Len(frame) /\ Len(frame) \in 0 .. Len(frame) /\ 0 <= Len(frame)
    BY <2>1
  <2>5. inner[Len(frame)][k] = inner[0][k]
    <3>1. Through(inner, frame)
      BY <2>2
    <3> QED
      BY ONLY LaneAssumption, <2>1, <2>3, <2>4, <3>1, k \in Key, Unnamed
  <2> QED
    BY <1>3, <2>1, <2>2, <2>5
<1> HIDE DEF T
<1>4. \A f \in 0 .. n : f \in T
  BY <1>1, <1>2, <1>3, Climb
<1>5. n \in T
  BY <1>1, <1>4
<1> QED
  BY <1>5 DEF T

-----------------------------------------------------------------------------
(* The inductive invariant. *)

\* The variables of both ends, the queues typed entry by entry.
Typed ==
    /\ fields \in [Lane -> Fields]
    /\ opened \in [Lane -> Fields]
    /\ stream \in [Lane -> {"NONE", "OPENING", "READY"}]
    /\ request \in [Lane -> 0 .. MaxRequest]
    /\ lastRequest \in 0 .. MaxRequest
    /\ parked \in [Lane -> 0 .. MaxRequest]
    /\ writerOut \in Seq(Open)
    /\ toReader \in Seq(Seq(Sent))
    /\ readerOut \in Seq(Answer)
    /\ toWriter \in Seq(Answer)
    /\ \A l \in Lane : stream[l] # "NONE" => request[l] # 0

Based ==
    /\ sent \in Basis
    /\ heard \in Basis
    /\ Linked(toReader, heard, sent)

Inv == Typed /\ Based

\* An OPEN that joins the queue of the writer.
LEMMA QueuedTyped ==
    ASSUME NEW queue \in Seq(Open), NEW open \in Open
    PROVE  QueuedOpen(queue, open) \in Seq(Open)
<1>1. CASE \E i \in DOMAIN queue : queue[i].lane = open.lane
  <2>1. QueuedOpen(queue, open) =
           [i \in DOMAIN queue |-> IF queue[i].lane = open.lane THEN open ELSE queue[i]]
    BY <1>1 DEF QueuedOpen
  <2>2. DOMAIN queue = 1 .. Len(queue) /\ Len(queue) \in Nat
    OBVIOUS
  <2>3. [i \in DOMAIN queue |-> IF queue[i].lane = open.lane THEN open ELSE queue[i]]
           \in [1 .. Len(queue) -> Open]
    BY <2>2
  <2> QED
    BY <2>1, <2>2, <2>3
<1>2. CASE ~\E i \in DOMAIN queue : queue[i].lane = open.lane
  <2>1. QueuedOpen(queue, open) = Append(queue, open)
    BY <1>2 DEF QueuedOpen
  <2> QED
    BY <2>1
<1> QED
  BY <1>1, <1>2

LEMMA AnswerQueued ==
    ASSUME NEW queue \in Seq(Answer), NEW answer \in Answer
    PROVE  QueuedAnswer(queue, answer) \in Seq(Answer)
<1>1. Append(queue, answer) \in Seq(Answer)
  OBVIOUS
<1> QED
  BY <1>1 DEF QueuedAnswer

LEMMA InitInv == Assumptions /\ Init => Inv
<1> SUFFICES ASSUME Assumptions, Init PROVE Inv
  OBVIOUS
<1> USE DEF Init, Assumptions
<1>1. MaxRequest \in Nat
  BY DEF BoundAssumption
<1>2. Typed
  BY <1>1 DEF Typed
<1>3. Empty \in Basis
  BY EmptyBasis
<1>4. Linked(<<>>, Empty, Empty)
  <2> DEFINE image == [k \in Key |-> Unresolved]
             past == [f \in 0 .. 0 |-> image]
  <2>1. image \in Image
    BY DEF Image
  <2>2. Recalls(image, Empty)
    BY DEF Recalls, Empty
  <2> HIDE DEF image
  <2>3. past \in [0 .. 0 -> Image] /\ past[0] = image
    BY <2>1
  <2> HIDE DEF past
  <2>4. Len(<<>>) = 0
    OBVIOUS
  <2> QED
    BY <2>2, <2>3, <2>4 DEF Linked
<1>5. Based
  BY <1>3, <1>4 DEF Based
<1> QED
  BY <1>2, <1>5 DEF Inv

-----------------------------------------------------------------------------
(* Steps that leave the bases and the frames alone. *)

LEMMA BasedKept ==
    ASSUME Based, UNCHANGED <<sent, heard, toReader>>
    PROVE  Based'
BY DEF Based

LEMMA AskInv ==
    ASSUME Assumptions, Inv, NEW l \in Lane, Ask(l)
    PROVE  Inv'
<1> USE DEF Inv
<1>1. MaxRequest \in Nat /\ lastRequest + 1 \in 1 .. MaxRequest
  BY DEF Typed, Ask, Assumptions, BoundAssumption
<1>2. Opening(l, lastRequest + 1) \in Open
  BY <1>1 DEF Typed, Opening, Open
<1>3. writerOut' \in Seq(Open)
  BY <1>2, QueuedTyped DEF Typed, Ask
<1>4. Typed'
  BY <1>1, <1>3 DEF Typed, Ask
<1>5. Based'
  BY BasedKept DEF Ask
<1> QED
  BY <1>4, <1>5

LEMMA AskAgainInv ==
    ASSUME Assumptions, Inv, NEW l \in Lane, AskAgain(l)
    PROVE  Inv'
<1> USE DEF Inv
<1>1. request[l] \in 1 .. MaxRequest
  BY DEF Typed, AskAgain, Assumptions, BoundAssumption
<1>2. Opening(l, request[l]) \in Open
  BY <1>1 DEF Typed, Opening, Open
<1>3. writerOut' \in Seq(Open)
  BY <1>2, QueuedTyped DEF Typed, AskAgain
<1>4. Typed'
  BY <1>3 DEF Typed, AskAgain
<1>5. Based'
  BY BasedKept DEF AskAgain
<1> QED
  BY <1>4, <1>5

LEMMA BindInv ==
    ASSUME Assumptions, Inv, NEW l \in Lane, Bind(l) \/ Retire(l)
    PROVE  Inv'
<1> USE DEF Inv
<1>1. CASE Bind(l)
  <2>1. fields' \in [Lane -> Fields]
    BY <1>1 DEF Typed, Bind
  <2>2. Typed'
    BY <1>1, <2>1 DEF Typed, Bind
  <2> QED
    BY <1>1, <2>2, BasedKept DEF Bind
<1>2. CASE Retire(l)
  <2>1. fields' \in [Lane -> Fields]
    BY <1>2 DEF Typed, Retire
  <2>2. MaxRequest \in Nat
    BY DEF Assumptions, BoundAssumption
  <2>3. Typed'
    BY <1>2, <2>1, <2>2 DEF Typed, Retire
  <2> QED
    BY <1>2, <2>3, BasedKept DEF Retire
<1> QED
  BY <1>1, <1>2

LEMMA DecideInv ==
    ASSUME Assumptions, Inv, NEW l \in Lane, Decide(l) \/ Expire(l)
    PROVE  Inv'
<1> USE DEF Inv
<1>1. MaxRequest \in Nat /\ parked[l] \in 1 .. MaxRequest
  BY DEF Typed, Decide, Expire, Assumptions, BoundAssumption
<1>2. /\ [tag |-> "READY", request |-> parked[l]] \in Answer
      /\ [tag |-> "RESET", request |-> parked[l]] \in Answer
  BY <1>1 DEF Answer
<1>3. readerOut' \in Seq(Answer)
  BY <1>2, AnswerQueued DEF Typed, Decide, Expire
<1>4. parked' \in [Lane -> 0 .. MaxRequest]
  <2>1. parked' = [parked EXCEPT ![l] = 0]
    BY DEF Decide, Expire
  <2>2. parked \in [Lane -> 0 .. MaxRequest] /\ 0 \in 0 .. MaxRequest
    BY <1>1 DEF Typed
  <2> QED
    BY <2>1, <2>2
<1>5. Typed'
  BY <1>3, <1>4 DEF Typed, Decide, Expire
<1>6. Based'
  BY BasedKept DEF Decide, Expire
<1> QED
  BY <1>5, <1>6

LEMMA FlushAnswerInv == ASSUME Assumptions, Inv, FlushAnswer PROVE Inv'
<1> USE DEF Inv
<1>1. readerOut \in Seq(Answer) /\ readerOut # <<>> /\ toWriter \in Seq(Answer)
  BY DEF Typed, FlushAnswer
<1>2. Head(readerOut) \in Answer /\ Tail(readerOut) \in Seq(Answer)
  BY <1>1
<1>3. Append(toWriter, Head(readerOut)) \in Seq(Answer)
  BY <1>1, <1>2
<1>4. Typed'
  BY <1>2, <1>3 DEF Typed, FlushAnswer
<1>5. Based'
  BY BasedKept DEF FlushAnswer
<1> QED
  BY <1>4, <1>5

\* The answer at the head of the link.
LEMMA HeadAnswer ==
    ASSUME Assumptions, Typed, toWriter # <<>>
    PROVE  /\ Head(toWriter).request \in 1 .. MaxRequest
           /\ Head(toWriter).request # 0
           /\ Tail(toWriter) \in Seq(Answer)
<1>1. Head(toWriter) \in Answer /\ Tail(toWriter) \in Seq(Answer)
  BY DEF Typed
<1> QED
  BY <1>1 DEF Answer, Assumptions, BoundAssumption

LEMMA HearReadyInv == ASSUME Assumptions, Inv, HearReady PROVE Inv'
<1> USE DEF Inv
<1>1. /\ Head(toWriter).request # 0
      /\ Tail(toWriter) \in Seq(Answer)
  BY HeadAnswer DEF HearReady
<1>2. stream' \in [Lane -> {"NONE", "OPENING", "READY"}]
  BY DEF Typed, HearReady
<1>3. \A l \in Lane : stream'[l] # "NONE" => request[l] # 0
  BY <1>1 DEF Typed, HearReady
<1>4. Typed'
  BY <1>1, <1>2, <1>3 DEF Typed, HearReady
<1>5. Based'
  BY BasedKept DEF HearReady
<1> QED
  BY <1>4, <1>5

LEMMA HearResetInv == ASSUME Assumptions, Inv, HearReset PROVE Inv'
<1> USE DEF Inv
<1>1. Tail(toWriter) \in Seq(Answer) /\ MaxRequest \in Nat
  BY HeadAnswer DEF HearReset, Assumptions, BoundAssumption
<1> DEFINE named == {l \in Lane : stream[l] = "OPENING" /\ request[l] = Head(toWriter).request}
<1>2. /\ stream' = [l \in Lane |-> IF l \in named THEN "NONE" ELSE stream[l]]
      /\ request' = [l \in Lane |-> IF l \in named THEN 0 ELSE request[l]]
      /\ toWriter' = Tail(toWriter) /\ sent' = Empty
      /\ UNCHANGED <<fields, opened, lastRequest, writerOut, toReader, heard, readerOut,
                     parked>>
  BY DEF HearReset
<1> HIDE DEF named
<1>3. /\ stream' \in [Lane -> {"NONE", "OPENING", "READY"}]
      /\ request' \in [Lane -> 0 .. MaxRequest]
      /\ \A l \in Lane : stream'[l] # "NONE" => request'[l] # 0
  BY <1>1, <1>2 DEF Typed
<1>4. Typed'
  BY <1>1, <1>2, <1>3 DEF Typed
<1>5. Empty \in Basis
  BY EmptyBasis DEF Assumptions
<1>6. Linked(toReader, heard, Empty)
  BY LinkedForgets DEF Based
<1>7. Based'
  BY <1>2, <1>5, <1>6 DEF Based
<1> QED
  BY <1>4, <1>7

-----------------------------------------------------------------------------
(* Frames. *)

LEMMA FlushInv == ASSUME Assumptions, Inv, Flush PROVE Inv'
<1> USE DEF Inv
<1>1. PICK n \in 1 .. Len(writerOut) :
         /\ toReader' = Append(toReader, Framed(SubSeq(writerOut, 1, n)))
         /\ sent' = BasesWhile(SubSeq(writerOut, 1, n))[n]
         /\ writerOut' = SubSeq(writerOut, n + 1, Len(writerOut))
  BY DEF Flush
<1> DEFINE opens == SubSeq(writerOut, 1, n)
           frame == Framed(opens)
<1>2. writerOut \in Seq(Open) /\ n \in Nat /\ n <= Len(writerOut)
  BY DEF Typed
<1>3. opens \in Seq(Open) /\ Len(opens) = n
  BY <1>2
<1>4. writerOut' \in Seq(Open)
  BY <1>1, <1>2
<1> HIDE DEF opens
<1>5. frame \in Seq(Sent)
  BY <1>3, FramedTyped
<1>6. LaneAssumption /\ BoundAssumption /\ sent \in Basis
  BY DEF Assumptions, Based
<1>7. sent' \in Basis
  <2>1. BasesWhile(opens) \in [0 .. n -> Basis]
    BY <1>3, <1>6, WritesRun
  <2> QED
    BY <1>1, <1>2, <2>1 DEF opens
<1>8. \A image \in Image : Recalls(image, sent) =>
         \E next \in Image : Carries(image, frame, next) /\ Recalls(next, sent')
  BY <1>1, <1>3, <1>6, FramedCarries DEF opens
<1> HIDE DEF frame
<1>9. toReader' = Append(toReader, frame) /\ toReader \in Seq(Seq(Sent))
  BY <1>1 DEF frame, opens, Typed
<1>10. Linked(Append(toReader, frame), heard, sent')
  <2>1. Linked(toReader, heard, sent)
    BY DEF Based
  <2> QED
    BY <1>5, <1>8, <1>9, <2>1, LinkedOn
<1>11. heard' = heard /\ heard \in Basis
  BY DEF Flush, Based
<1>12. Based'
  BY <1>7, <1>9, <1>10, <1>11 DEF Based
<1>13. toReader' \in Seq(Seq(Sent))
  BY <1>5, <1>9
<1>14. Typed'
  BY <1>4, <1>13 DEF Typed, Flush
<1> QED
  BY <1>12, <1>14

LEMMA ReadFrameInv == ASSUME Assumptions, Inv, ReadFrame PROVE Inv'
<1> USE DEF Inv
<1> DEFINE frame == Head(toReader)
<1>1. /\ toReader # <<>> /\ toReader' = Tail(toReader)
      /\ heard' = HeardAfter(frame)
      /\ UNCHANGED <<fields, opened, stream, request, lastRequest, writerOut, sent, toWriter>>
  BY DEF ReadFrame
<1>2. PICK outcome \in [DOMAIN frame -> {"READY", "RESET", "PARK", "NONE"}] :
         /\ readerOut' = Answered(frame, outcome)
         /\ parked' = [l \in Lane |->
               LET mine == {i \in DOMAIN frame : frame[i].lane = l}
               IN  IF \E i \in mine : outcome[i] = "PARK"
                   THEN frame[CHOOSE i \in mine : TRUE].request
                   ELSE IF \E i \in mine : outcome[i] = "READY"
                   THEN 0
                   ELSE parked[l]]
  BY DEF ReadFrame
<1>3. toReader \in Seq(Seq(Sent))
  BY DEF Typed
<1>4. frame \in Seq(Sent) /\ Tail(toReader) \in Seq(Seq(Sent))
  BY <1>1, <1>3
<1> HIDE DEF frame
<1>5. readerOut' \in Seq(Answer)
  BY <1>2, <1>4, AnsweredTyped DEF Typed
<1>6. parked' \in [Lane -> 0 .. MaxRequest]
  <2> SUFFICES ASSUME NEW l \in Lane PROVE parked'[l] \in 0 .. MaxRequest
    BY <1>2
  <2> DEFINE mine == {i \in DOMAIN frame : frame[i].lane = l}
  <2>1. parked[l] \in 0 .. MaxRequest /\ MaxRequest \in Nat
    BY DEF Typed, Assumptions, BoundAssumption
  <2>2. parked'[l] = IF \E i \in mine : outcome[i] = "PARK"
                     THEN frame[CHOOSE i \in mine : TRUE].request
                     ELSE IF \E i \in mine : outcome[i] = "READY"
                     THEN 0
                     ELSE parked[l]
    BY <1>2
  <2>3. \A i \in mine : frame[i].request \in 0 .. MaxRequest
    <3>1. \A i \in DOMAIN frame : frame[i] \in Sent
      BY <1>4
    <3> QED
      BY <2>1, <3>1 DEF Sent
  <2>4. CASE \E i \in mine : outcome[i] = "PARK"
    <3>1. (CHOOSE i \in mine : TRUE) \in mine
      BY <2>4
    <3> HIDE DEF mine
    <3> QED
      BY <2>2, <2>3, <2>4, <3>1
  <2> HIDE DEF mine
  <2>5. CASE ~\E i \in mine : outcome[i] = "PARK"
    BY <2>1, <2>2, <2>5
  <2> QED
    BY <2>4, <2>5
<1>7. Typed'
  BY <1>1, <1>4, <1>5, <1>6 DEF Typed
<1>8. LaneAssumption /\ BoundAssumption /\ heard \in Basis
  BY DEF Assumptions, Based
<1>9. \A image \in Image : \A next \in Image :
         Recalls(image, heard) /\ Carries(image, frame, next)
            => Recalls(next, HeardAfter(frame))
  <2> SUFFICES ASSUME NEW image \in Image, NEW next \in Image,
                      Recalls(image, heard), Carries(image, frame, next)
               PROVE  Recalls(next, HeardAfter(frame))
    OBVIOUS
  <2>1. PICK inner : /\ Through(inner, frame)
                     /\ inner[0] = image /\ inner[Len(frame)] = next
    BY DEF Carries
  <2> QED
    BY <1>4, <1>8, <2>1, HeardRecalls
<1>10. HeardAfter(frame) \in Basis
  <2>1. PICK past \in [0 .. Len(toReader) -> Image] :
           /\ Recalls(past[0], heard)
           /\ \A f \in 1 .. Len(toReader) : Carries(past[f - 1], toReader[f], past[f])
    BY DEF Based, Linked
  <2>2. 1 \in 1 .. Len(toReader) /\ frame = toReader[1] /\ 1 - 1 = 0
    BY <1>1, <1>3 DEF frame
  <2>3. Carries(past[0], frame, past[1])
    BY <2>1, <2>2
  <2>4. PICK inner : Through(inner, frame) /\ inner[0] = past[0]
    BY <2>3 DEF Carries
  <2>5. Recalls(inner[0], heard)
    BY <2>1, <2>4
  <2>6. Through(inner, frame)
    BY <2>4
  <2> QED
    BY <1>4, <1>8, <2>5, <2>6, HeardRecalls
<1>11. Linked(Tail(toReader), HeardAfter(frame), sent)
  <2>1. Linked(toReader, heard, sent)
    BY DEF Based
  <2>2. \A image \in Image : \A next \in Image :
           Recalls(image, heard) /\ Carries(image, Head(toReader), next)
              => Recalls(next, HeardAfter(frame))
    BY <1>9 DEF frame
  <2> QED
    BY <1>1, <1>3, <2>1, <2>2, LinkedPast
<1>12. Based'
  BY <1>1, <1>10, <1>11 DEF Based
<1> QED
  BY <1>7, <1>12

LEMMA NextInv == ASSUME Assumptions PROVE Inv /\ [Next]_vars => Inv'
<1> SUFFICES ASSUME Inv, [Next]_vars PROVE Inv'
  OBVIOUS
<1>1. ASSUME NEW l \in Lane, Ask(l) PROVE Inv'
  BY <1>1, AskInv
<1>2. ASSUME NEW l \in Lane, AskAgain(l) PROVE Inv'
  BY <1>2, AskAgainInv
<1>3. ASSUME NEW l \in Lane, Bind(l) \/ Retire(l) PROVE Inv'
  BY <1>3, BindInv
<1>4. ASSUME NEW l \in Lane, Decide(l) \/ Expire(l) PROVE Inv'
  BY <1>4, DecideInv
<1>5. ASSUME Flush PROVE Inv'
  BY <1>5, FlushInv
<1>6. ASSUME ReadFrame PROVE Inv'
  BY <1>6, ReadFrameInv
<1>7. ASSUME FlushAnswer PROVE Inv'
  BY <1>7, FlushAnswerInv
<1>8. ASSUME HearReady PROVE Inv'
  BY <1>8, HearReadyInv
<1>9. ASSUME HearReset PROVE Inv'
  BY <1>9, HearResetInv
<1>10. ASSUME UNCHANGED vars PROVE Inv'
  BY <1>10 DEF Inv, Typed, Based, vars
<1> QED
  BY <1>1, <1>2, <1>3, <1>4, <1>5, <1>6, <1>7, <1>8, <1>9, <1>10 DEF Next

-----------------------------------------------------------------------------
(* Theorems. *)

\* The frames on their way lead from what the reader's basis holds to what the
\* writer's basis holds, whatever either of them evicted or forgot.
THEOREM Invariant == ASSUME Assumptions PROVE Spec => []Inv
<1>1. Init => Inv
  BY InitInv
<1>2. Inv /\ [Next]_vars => Inv'
  BY NextInv
<1> QED
  BY <1>1, <1>2, PTL DEF Spec

LEMMA InvTypeOK == Inv => TypeOK
<1> SUFFICES ASSUME Inv PROVE TypeOK
  OBVIOUS
<1> USE DEF Inv
<1>1. ASSUME NEW b \in {sent, heard}
      PROVE  /\ DOMAIN b.opens = ToSet(b.arrivals)
             /\ Len(b.arrivals) = Cardinality(DOMAIN b.opens)
             /\ Len(b.arrivals) <= Capacity
             /\ \A k \in DOMAIN b.opens : b.opens[k] \in Fields
  <2>1. b \in Basis
    BY DEF Based
  <2>2. /\ b.arrivals \in Seq(Key) /\ Distinct(b.arrivals) /\ Len(b.arrivals) <= Capacity
        /\ DOMAIN b.opens = ToSet(b.arrivals)
        /\ \A k \in DOMAIN b.opens : b.opens[k] \in Fields
    BY <2>1, BasisFacts
  <2> QED
    BY <2>2, DistinctLen
<1>2. \A open \in ToSet(writerOut) : open \in Open
  BY DEF Typed, ToSet
<1> QED
  BY <1>1, <1>2 DEF Typed, TypeOK

LEMMA InvResolves == ASSUME Assumptions PROVE Inv => ResolvesExactly
<1> SUFFICES ASSUME Inv, toReader # <<>>, NEW i \in DOMAIN Head(toReader)
             PROVE  Resolution(Head(toReader))[i] \in {Unresolved, Head(toReader)[i].meant}
  BY DEF ResolvesExactly
<1> DEFINE frame == Head(toReader)
<1>1. toReader \in Seq(Seq(Sent))
  BY DEF Inv, Typed
<1>2. frame \in Seq(Sent) /\ 1 \in 1 .. Len(toReader) /\ frame = toReader[1] /\ 1 - 1 = 0
  BY <1>1
<1>3. PICK past \in [0 .. Len(toReader) -> Image] :
         /\ Recalls(past[0], heard)
         /\ \A f \in 1 .. Len(toReader) : Carries(past[f - 1], toReader[f], past[f])
  BY DEF Inv, Based, Linked
<1>4. i \in 1 .. Len(frame)
  BY <1>2
<1> HIDE DEF frame
<1>5. Carries(past[0], frame, past[1])
  BY <1>2, <1>3
<1>6. PICK inner : Through(inner, frame) /\ inner[0] = past[0]
  BY <1>5 DEF Carries
<1>7. Through(inner, frame) /\ Recalls(inner[0], heard)
  BY <1>3, <1>6
<1>8. LaneAssumption /\ heard \in Basis
  BY DEF Assumptions, Inv, Based
<1>9. Resolution(frame)[i] \in {frame[i].meant, Unresolved}
  BY <1>2, <1>4, <1>7, <1>8, ResolvesMeant
<1> QED
  BY <1>9 DEF frame

LEMMA InvAlike == ASSUME Assumptions PROVE Inv => HeldAlike
<1> SUFFICES ASSUME Inv, NEW k \in DOMAIN sent.opens \cap DOMAIN heard.opens,
                    ~\E frame \in ToSet(toReader) :
                        \E i \in DOMAIN frame : KeyOf[frame[i].lane] = k
             PROVE  sent.opens[k] = heard.opens[k]
  BY DEF HeldAlike
<1>1. toReader \in Seq(Seq(Sent)) /\ LaneAssumption /\ sent \in Basis
  BY DEF Assumptions, Inv, Typed, Based
<1>2. k \in Key
  BY <1>1, BasisFacts
<1>3. PICK past \in [0 .. Len(toReader) -> Image] :
         /\ Recalls(past[0], heard)
         /\ Recalls(past[Len(toReader)], sent)
         /\ \A f \in 1 .. Len(toReader) : Carries(past[f - 1], toReader[f], past[f])
  BY DEF Inv, Based, Linked
<1>4. ASSUME NEW f \in 1 .. Len(toReader), NEW i \in 1 .. Len(toReader[f])
      PROVE  KeyAt(toReader[f], i) # k
  <2>1. toReader[f] \in ToSet(toReader) /\ toReader[f] \in Seq(Sent)
    BY <1>1 DEF ToSet
  <2>2. i \in DOMAIN toReader[f]
    BY <2>1
  <2> QED
    BY <2>1, <2>2 DEF KeyAt
<1>5. past[Len(toReader)][k] = past[0][k]
  BY <1>1, <1>2, <1>3, <1>4, UnnamedByAny
<1> QED
  BY <1>3, <1>5 DEF Recalls

\* wire/control_record.cpp: an OPEN that is resolved is resolved to what the writer
\* meant, even if the check byte tells nothing apart, and where no frame on the
\* link names a key that both ends hold, they hold the same of it.
THEOREM NeverLedAstray == ASSUME Assumptions PROVE Spec => []BasesAgree
<1>1. Inv => BasesAgree
  BY InvTypeOK, InvResolves, InvAlike DEF BasesAgree
<1> QED
  BY <1>1, Invariant, PTL
=============================================================================

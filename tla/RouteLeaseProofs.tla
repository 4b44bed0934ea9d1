-------------------------- MODULE RouteLeaseProofs --------------------------
(***************************************************************************)
(* Proofs about RouteLease for every number of peers, block, mint, join and  *)
(* move: the leases are sound, and give out no route twice, which is the     *)
(* refinement of RouteIds.  Both ask that a report goes out whole in the     *)
(* poll of the move and that no route is claimed while the reports are       *)
(* awaited; without these the code breaks them.                              *)
(***************************************************************************)
EXTENDS RouteLease, TLAPS, SequenceTheorems, FiniteSetTheorems, WellFoundedInduction

\* No report is cut in two polls, and nobody claims routes during a halt.
Prompt == ReportFits /\ MaxClaims = 0

-----------------------------------------------------------------------------
(* The inductive invariant, peer by peer.                                   *)

\* Blocks follow one another.
Spaced(bs) == \A m, n \in DOMAIN bs : m < n => bs[m].end <= bs[n].next

\* What a peer with the lease L may mint while T is on its way to it.
Held(L, T) == Spans(L) \cup Spans(T)

\* The blocks on their way are beyond those of the lease, of which only the first
\* may be used up.
InLine(L, T) ==
    /\ Spaced(L) /\ Spaced(T)
    /\ \A m \in DOMAIN L : /\ L[m].next <= L[m].end
                           /\ m > 1 => L[m].next < L[m].end
    /\ \A n \in DOMAIN T : T[n].next < T[n].end
    /\ \A m \in DOMAIN L, n \in DOMAIN T : L[m].end <= T[n].next

\* What a peer has, knows or was granted is not beyond the route b.
Below(b, L, G, T, B) ==
    /\ \A r \in B : r <= b
    /\ \A n \in DOMAIN L : L[n].end <= b + 1
    /\ \A n \in DOMAIN G : G[n].end <= b + 1
    /\ \A n \in DOMAIN T : T[n].end <= b + 1

\* What a peer minted and did not see admitted is below what it may still mint.
MintedBefore(L, T, B, A, M) ==
    /\ ToSet(A) \subseteq B
    /\ \A n \in DOMAIN M : M[n].kind = "spawn" => M[n].route \in B
    /\ \A x \in Held(L, T) :
           /\ \A r \in ToSet(A) : r < x
           /\ \A n \in DOMAIN M : M[n].kind = "spawn" => M[n].route < x

\* A peer of lease L, grants G, leases T on their way to it, bound routes B, armed
\* routes A and frames M on their way to the server.
PeerSound(b, L, G, T, B, A, M) ==
    InLine(L, T) /\ Spaced(G) /\ Below(b, L, G, T, B) /\ MintedBefore(L, T, B, A, M)

\* The frames of a peer that is awaited: its report, then spawns.  It was granted
\* nothing since, and reported all it may mint.
Reports(M, L, G, T) ==
    /\ M # <<>> /\ Head(M).kind = "resync" /\ Head(M).last
    /\ \A n \in DOMAIN M : n > 1 => M[n].kind = "spawn"
    /\ Spaced(Head(M).leases) /\ Spans(L) \subseteq Spans(Head(M).leases)
    /\ \A n \in DOMAIN Head(M).leases : Head(M).leases[n].end <= Head(M).route_floor + 1
    /\ G = <<>> /\ T = <<>>

\* Those of any other peer are spawns, and the server holds it to own what it may mint.
Heard(M, L, G, T) ==
    /\ \A n \in DOMAIN M : M[n].kind = "spawn"
    /\ Held(L, T) \subseteq Spans(G)

\* Nothing at the peer is beyond the counter of the server and what it reports.
Greater(m, n) == IF m >= n THEN m ELSE n
Ceiling(p) ==
    IF p \in awaited THEN Greater(counter[server], Head(to_server[p]).route_floor)
    ELSE counter[server]

PeerOK(p) ==
    /\ PeerSound(Ceiling(p), lease[p], grants[p], to_client[p], by_route[p], armed[p],
                 to_server[p])
    /\ IF p \in awaited THEN Reports(to_server[p], lease[p], grants[p], to_client[p])
       ELSE Heard(to_server[p], lease[p], grants[p], to_client[p])

PeersSound == \A p \in Peers : PeerOK(p)

\* No route is held by two, and nobody knows a route that another may still mint.
Distinct ==
    /\ \A p, q \in Peers : p # q => Mintable(p) \cap Mintable(q) = {}
    /\ \A p, q \in Peers : by_route[p] \cap Mintable(q) = {}

Quiet ==
    /\ outbox = [p \in Peers |-> <<>>]
    /\ \A p \in Peers \ Clients : to_server[p] = <<>>
    /\ \A p \in Peers \ members : by_route[p] = {}

IInv == TypeOK /\ Quiet /\ PeersSound /\ Distinct

-----------------------------------------------------------------------------
(* Sequences, and the least and the greatest of a set.                      *)

LEMMA Grows ==
    ASSUME NEW S, NEW q \in Seq(S), NEW r \in S
    PROVE  /\ Append(q, r) \in Seq(S)
           /\ Len(q) \in Nat /\ DOMAIN q = 1 .. Len(q)
           /\ DOMAIN Append(q, r) = 1 .. Len(q) + 1
           /\ \A i \in 1 .. Len(q) : Append(q, r)[i] = q[i]
           /\ Append(q, r)[Len(q) + 1] = r
           /\ ToSet(Append(q, r)) = ToSet(q) \cup {r}
<1>1. /\ Append(q, r) \in Seq(S)
      /\ Len(Append(q, r)) = Len(q) + 1
      /\ \A i \in 1 .. Len(q) : Append(q, r)[i] = q[i]
      /\ Append(q, r)[Len(q) + 1] = r
  BY AppendProperties
<1>2. /\ DOMAIN Append(q, r) = 1 .. Len(q) + 1
      /\ DOMAIN q = 1 .. Len(q)
      /\ Len(q) \in Nat
  BY <1>1, LenProperties
<1>3. ToSet(Append(q, r)) = ToSet(q) \cup {r}
  BY <1>1, <1>2 DEF ToSet
<1> QED
  BY <1>1, <1>2, <1>3

LEMMA Shrinks ==
    ASSUME NEW S, NEW q \in Seq(S), q # <<>>
    PROVE  /\ Head(q) \in S /\ Head(q) = q[1] /\ 1 \in DOMAIN q
           /\ Tail(q) \in Seq(S)
           /\ Len(q) \in Nat /\ DOMAIN q = 1 .. Len(q)
           /\ DOMAIN Tail(q) = 1 .. Len(q) - 1
           /\ \A i \in DOMAIN Tail(q) : i + 1 \in DOMAIN q /\ Tail(q)[i] = q[i + 1]
           /\ ToSet(Tail(q)) \subseteq ToSet(q)
<1>1. /\ Head(q) \in S
      /\ Tail(q) \in Seq(S)
      /\ Len(Tail(q)) = Len(q) - 1
      /\ \A i \in 1 .. Len(Tail(q)) : Tail(q)[i] = q[i + 1]
  BY HeadTailProperties
<1>2. Len(q) \in Nat \ {0} /\ DOMAIN q = 1 .. Len(q)
  BY EmptySeq, LenProperties
<1>3. DOMAIN Tail(q) = 1 .. Len(q) - 1
  BY <1>1, LenProperties
<1>4. Head(q) = q[1]
  OBVIOUS
<1>5. \A i \in DOMAIN Tail(q) : i + 1 \in DOMAIN q /\ Tail(q)[i] = q[i + 1]
  BY <1>1, <1>2, <1>3
<1>6. ToSet(Tail(q)) \subseteq ToSet(q)
  BY <1>5 DEF ToSet
<1> QED
  BY <1>1, <1>2, <1>3, <1>4, <1>5, <1>6

LEMMA Least ==
    ASSUME NEW T \in SUBSET Nat, T # {}
    PROVE  Min(T) \in T /\ \A x \in T : Min(T) <= x
<1>1. PICK x \in T : \A y \in T : ~(<<y, x>> \in OpToRel(<, Nat))
  BY NatLessThanWellFounded, WFMin
<1>2. \A y \in T : ~(y < x)
  BY <1>1 DEF OpToRel
<1>3. \A y \in T : x <= y
  BY <1>2
<1>4. \E z \in T : \A y \in T : z <= y
  BY <1>3
<1> QED
  BY <1>4, Zenon DEF Min

\* Whatever bounds a set of numbers, its greatest is one of them and bounds it too.
LEMMA Greatest ==
    ASSUME NEW T \in SUBSET Nat, T # {}, NEW b \in Nat, \A x \in T : x <= b
    PROVE  Max(T) \in T /\ \A x \in T : x <= Max(T)
<1> DEFINE R == {b - x : x \in T}
<1>1. R \in SUBSET Nat
  <2> SUFFICES ASSUME NEW x \in T PROVE b - x \in Nat
    OBVIOUS
  <2> QED
    OBVIOUS
<1>2. R # {}
  OBVIOUS
<1>3. Min(R) \in R /\ \A x \in R : Min(R) <= x
  BY <1>1, <1>2, Least, Zenon
<1>4. PICK x \in T : Min(R) = b - x
  BY <1>3
<1>5. \A y \in T : y <= x
  <2> SUFFICES ASSUME NEW y \in T PROVE y <= x
    OBVIOUS
  <2>1. b - x <= b - y
    BY <1>3, <1>4
  <2> QED
    BY <2>1
<1>6. \E z \in T : \A y \in T : z >= y
  BY <1>5
<1> QED
  BY <1>6, Zenon DEF Max

-----------------------------------------------------------------------------
(* Blocks and the routes they hold.                                         *)

LEMMA SpansHold ==
    ASSUME NEW bs \in Seq(Blocks)
    PROVE  /\ Spans(bs) \subseteq Nat \ {0}
           /\ \A x : x \in Spans(bs) <=>
                  x \in Nat /\ \E n \in DOMAIN bs : bs[n].next <= x /\ x < bs[n].end
<1>1. \A n \in DOMAIN bs : bs[n].next \in Nat \ {0} /\ bs[n].end \in Nat \ {0}
  <2>1. \A n \in DOMAIN bs : bs[n] \in Blocks
    BY LenProperties, ElementOfSeq
  <2> QED
    BY <2>1 DEF Blocks
<1>2. \A n \in DOMAIN bs : \A x : x \in SpanOf(bs[n]) <=> x \in Nat /\ bs[n].next <= x /\ x < bs[n].end
  BY <1>1 DEF SpanOf
<1>3. \A x : x \in Spans(bs) <=> \E n \in DOMAIN bs : x \in SpanOf(bs[n])
  BY DEF Spans
<1>4. \A x \in Spans(bs) : x \in Nat \ {0}
  BY <1>1, <1>2, <1>3
<1> QED
  BY <1>2, <1>3, <1>4

LEMMA SpansGrow ==
    ASSUME NEW bs \in Seq(Blocks), NEW b \in Blocks
    PROVE  Spans(Append(bs, b)) = Spans(bs) \cup SpanOf(b)
<1>1. /\ Len(bs) \in Nat /\ DOMAIN bs = 1 .. Len(bs)
      /\ DOMAIN Append(bs, b) = 1 .. Len(bs) + 1
      /\ \A i \in 1 .. Len(bs) : Append(bs, b)[i] = bs[i]
      /\ Append(bs, b)[Len(bs) + 1] = b
  BY Grows
<1>2. \A n : n \in 1 .. Len(bs) + 1 <=> n \in 1 .. Len(bs) \/ n = Len(bs) + 1
  BY <1>1
<1> QED
  BY <1>1, <1>2 DEF Spans

LEMMA SpansShrink ==
    ASSUME NEW bs \in Seq(Blocks), bs # <<>>
    PROVE  Spans(bs) = SpanOf(Head(bs)) \cup Spans(Tail(bs))
<1>1. /\ Head(bs) = bs[1] /\ 1 \in DOMAIN bs
      /\ Len(bs) \in Nat /\ DOMAIN bs = 1 .. Len(bs)
      /\ DOMAIN Tail(bs) = 1 .. Len(bs) - 1
      /\ \A i \in DOMAIN Tail(bs) : i + 1 \in DOMAIN bs /\ Tail(bs)[i] = bs[i + 1]
  BY Shrinks
<1>2. ASSUME NEW n \in DOMAIN bs, n # 1
      PROVE  n - 1 \in DOMAIN Tail(bs) /\ Tail(bs)[n - 1] = bs[n]
  <2>1. n - 1 \in DOMAIN Tail(bs) /\ (n - 1) + 1 = n
    BY <1>1, <1>2
  <2> QED
    BY <2>1, <1>1
<1> QED
  BY <1>1, <1>2 DEF Spans

LEMMA SpansNone == Spans(<<>>) = {} /\ Spaced(<<>>)
BY DEF Spans, Spaced

LEMMA SpacedGrows ==
    ASSUME NEW bs \in Seq(Blocks), NEW b \in Blocks,
           Spaced(bs), \A n \in DOMAIN bs : bs[n].end <= b.next
    PROVE  Spaced(Append(bs, b))
<1>1. /\ Len(bs) \in Nat /\ DOMAIN bs = 1 .. Len(bs)
      /\ DOMAIN Append(bs, b) = 1 .. Len(bs) + 1
      /\ \A i \in 1 .. Len(bs) : Append(bs, b)[i] = bs[i]
      /\ Append(bs, b)[Len(bs) + 1] = b
  BY Grows
<1>2. ASSUME NEW m \in 1 .. Len(bs) + 1, NEW n \in 1 .. Len(bs) + 1, m < n
      PROVE  Append(bs, b)[m].end <= Append(bs, b)[n].next
  <2>1. m \in 1 .. Len(bs)
    BY <1>1, <1>2
  <2>2. CASE n \in 1 .. Len(bs)
    BY <1>1, <1>2, <2>1, <2>2 DEF Spaced
  <2>3. CASE n = Len(bs) + 1
    BY <1>1, <2>1, <2>3
  <2> QED
    BY <1>1, <2>2, <2>3
<1> QED
  BY <1>1, <1>2 DEF Spaced

LEMMA SpacedShrinks ==
    ASSUME NEW bs \in Seq(Blocks), bs # <<>>, Spaced(bs)
    PROVE  /\ Spaced(Tail(bs))
           /\ \A n \in DOMAIN Tail(bs) : Head(bs).end <= Tail(bs)[n].next
<1>1. /\ Head(bs) = bs[1] /\ 1 \in DOMAIN bs
      /\ Len(bs) \in Nat /\ DOMAIN bs = 1 .. Len(bs)
      /\ DOMAIN Tail(bs) = 1 .. Len(bs) - 1
      /\ \A i \in DOMAIN Tail(bs) : i + 1 \in DOMAIN bs /\ Tail(bs)[i] = bs[i + 1]
  BY Shrinks
<1>2. \A m, n \in DOMAIN Tail(bs) : m < n => m + 1 < n + 1
  BY <1>1
<1>3. \A n \in DOMAIN Tail(bs) : 1 < n + 1
  BY <1>1
<1> QED
  BY <1>1, <1>2, <1>3 DEF Spaced

-----------------------------------------------------------------------------
(* What becomes of a lease and of what is on its way.                       *)

\* A block that is granted comes last.
LEMMA LineGrows ==
    ASSUME NEW L \in Seq(Blocks), NEW T \in Seq(Blocks), NEW b \in Blocks,
           InLine(L, T), b.next < b.end,
           \A n \in DOMAIN L : L[n].end <= b.next,
           \A n \in DOMAIN T : T[n].end <= b.next
    PROVE  /\ Append(T, b) \in Seq(Blocks)
           /\ InLine(L, Append(T, b))
           /\ Held(L, Append(T, b)) = Held(L, T) \cup SpanOf(b)
<1>1. /\ Append(T, b) \in Seq(Blocks)
      /\ Len(T) \in Nat /\ DOMAIN T = 1 .. Len(T)
      /\ DOMAIN Append(T, b) = 1 .. Len(T) + 1
      /\ \A i \in 1 .. Len(T) : Append(T, b)[i] = T[i]
      /\ Append(T, b)[Len(T) + 1] = b
  BY Grows
<1>2. \A n \in DOMAIN Append(T, b) : n \in DOMAIN T \/ n = Len(T) + 1
  BY <1>1
<1>3. Spaced(Append(T, b))
  BY SpacedGrows DEF InLine
<1>4. \A n \in DOMAIN Append(T, b) : Append(T, b)[n].next < Append(T, b)[n].end
  BY <1>1, <1>2 DEF InLine
<1>5. \A m \in DOMAIN L, n \in DOMAIN Append(T, b) : L[m].end <= Append(T, b)[n].next
  BY <1>1, <1>2 DEF InLine
<1>6. Held(L, Append(T, b)) = Held(L, T) \cup SpanOf(b)
  BY SpansGrow DEF Held
<1> QED
  BY <1>1, <1>3, <1>4, <1>5, <1>6 DEF InLine

\* A lease that comes is put behind what is left.
LEMMA LineComes ==
    ASSUME NEW L \in Seq(Blocks), NEW T \in Seq(Blocks), T # <<>>, InLine(L, T)
    PROVE  /\ Append(L, Head(T)) \in Seq(Blocks) /\ Tail(T) \in Seq(Blocks)
           /\ InLine(Append(L, Head(T)), Tail(T))
           /\ Held(Append(L, Head(T)), Tail(T)) = Held(L, T)
<1> DEFINE b == Head(T)
<1>1. /\ b \in Blocks /\ b = T[1] /\ 1 \in DOMAIN T
      /\ Tail(T) \in Seq(Blocks)
      /\ \A i \in DOMAIN Tail(T) : i + 1 \in DOMAIN T /\ Tail(T)[i] = T[i + 1]
  BY Shrinks
<1>2. /\ Spaced(Tail(T))
      /\ \A n \in DOMAIN Tail(T) : b.end <= Tail(T)[n].next
  BY SpacedShrinks DEF InLine
<1>3. Spans(T) = SpanOf(b) \cup Spans(Tail(T))
  BY SpansShrink
<1>4. b.next < b.end /\ \A n \in DOMAIN L : L[n].end <= b.next
  BY <1>1 DEF InLine
<1> HIDE DEF b
<1>5. /\ Append(L, b) \in Seq(Blocks)
      /\ Len(L) \in Nat /\ DOMAIN L = 1 .. Len(L)
      /\ DOMAIN Append(L, b) = 1 .. Len(L) + 1
      /\ \A i \in 1 .. Len(L) : Append(L, b)[i] = L[i]
      /\ Append(L, b)[Len(L) + 1] = b
  BY <1>1, Grows
<1>6. Spans(Append(L, b)) = Spans(L) \cup SpanOf(b)
  BY <1>1, SpansGrow
<1>7. Spaced(Append(L, b))
  BY <1>1, <1>4, SpacedGrows DEF InLine
<1>8. \A n \in DOMAIN Append(L, b) : n \in DOMAIN L \/ n = Len(L) + 1
  BY <1>5
<1>9. b.next <= b.end
  <2>1. b.next \in Nat /\ b.end \in Nat
    BY <1>1 DEF Blocks
  <2> QED
    BY <2>1, <1>4
<1>10. \A m \in DOMAIN Append(L, b) :
           /\ Append(L, b)[m].next <= Append(L, b)[m].end
           /\ m > 1 => Append(L, b)[m].next < Append(L, b)[m].end
  BY <1>4, <1>5, <1>8, <1>9 DEF InLine
<1>11. \A n \in DOMAIN Tail(T) : Tail(T)[n].next < Tail(T)[n].end
  BY <1>1 DEF InLine
<1>12. \A m \in DOMAIN Append(L, b), n \in DOMAIN Tail(T) : Append(L, b)[m].end <= Tail(T)[n].next
  BY <1>1, <1>2, <1>5, <1>8 DEF InLine
<1>13. Held(Append(L, b), Tail(T)) = Held(L, T)
  BY <1>3, <1>6 DEF Held
<1> QED
  BY <1>1, <1>2, <1>5, <1>7, <1>10, <1>11, <1>12, <1>13 DEF InLine, b

\* What is left of a lease: its blocks, without the first where that is used up.
LEMMA LeaseSpans ==
    ASSUME NEW L \in Seq(Blocks), NEW T, InLine(L, T)
    PROVE  /\ lease_spans(L) \in Seq(Blocks)
           /\ Spaced(lease_spans(L))
           /\ Spans(lease_spans(L)) = Spans(L)
           /\ \A n \in DOMAIN lease_spans(L) :
                  /\ lease_spans(L)[n].next < lease_spans(L)[n].end
                  /\ \E m \in DOMAIN L : lease_spans(L)[n] = L[m]
<1>1. CASE L = <<>>
  BY <1>1 DEF lease_spans, InLine
<1>2. CASE L # <<>>
  <2>1. /\ Head(L) \in Blocks /\ Head(L) = L[1] /\ 1 \in DOMAIN L
        /\ Tail(L) \in Seq(Blocks)
        /\ Len(L) \in Nat /\ DOMAIN L = 1 .. Len(L)
        /\ DOMAIN Tail(L) = 1 .. Len(L) - 1
        /\ \A i \in DOMAIN Tail(L) : i + 1 \in DOMAIN L /\ Tail(L)[i] = L[i + 1]
    BY <1>2, Shrinks
  <2>2. Head(L).next \in Nat /\ Head(L).end \in Nat /\ Head(L).next <= Head(L).end
    BY <2>1 DEF Blocks, InLine
  <2>3. CASE Head(L).next = Head(L).end
    <3>1. lease_spans(L) = Tail(L)
      BY <1>2, <2>3 DEF lease_spans
    <3>2. SpanOf(Head(L)) = {}
      BY <2>2, <2>3 DEF SpanOf
    <3>3. Spans(Tail(L)) = Spans(L)
      BY <1>2, <3>2, SpansShrink
    <3>4. Spaced(Tail(L))
      BY <1>2, SpacedShrinks DEF InLine
    <3>5. \A n \in DOMAIN Tail(L) : n + 1 > 1
      BY <2>1
    <3>6. \A n \in DOMAIN Tail(L) : Tail(L)[n].next < Tail(L)[n].end
      BY <2>1, <3>5 DEF InLine
    <3> QED
      BY <2>1, <3>1, <3>3, <3>4, <3>6
  <2>4. CASE Head(L).next # Head(L).end
    <3>1. lease_spans(L) = L
      BY <2>4 DEF lease_spans
    <3>2. L[1].next < L[1].end
      BY <2>1, <2>2, <2>4
    <3>3. \A n \in DOMAIN L : n = 1 \/ n > 1
      BY <2>1
    <3>4. \A n \in DOMAIN L : L[n].next < L[n].end
      BY <3>2, <3>3 DEF InLine
    <3> QED
      BY <3>1, <3>4 DEF InLine
  <2> QED
    BY <2>3, <2>4
<1> QED
  BY <1>1, <1>2

\* What a client keeps of its lease once it minted the first route left.
Minting(L) == [lease_spans(L) EXCEPT ![1].next = Head(lease_spans(L)).next + 1]

LEMMA LineMints ==
    ASSUME NEW L \in Seq(Blocks), NEW T \in Seq(Blocks), InLine(L, T),
           lease_remaining(L) > 0,
           NEW r, r = Head(lease_spans(L)).next
    PROVE  /\ Minting(L) \in Seq(Blocks)
           /\ InLine(Minting(L), T)
           /\ r \in Spans(L) /\ r \in Nat \ {0}
           /\ Spans(Minting(L)) = Spans(L) \ {r}
           /\ \A x \in Held(Minting(L), T) : r < x
           /\ \A n \in DOMAIN Minting(L) : \E m \in DOMAIN L : Minting(L)[n].end = L[m].end
<1> DEFINE left == lease_spans(L)
           first == [left[1] EXCEPT !.next = r + 1]
           kept == [left EXCEPT ![1] = first]
<1>1. /\ left \in Seq(Blocks) /\ Spaced(left) /\ Spans(left) = Spans(L)
      /\ \A n \in DOMAIN left : /\ left[n].next < left[n].end
                                /\ \E m \in DOMAIN L : left[n] = L[m]
  BY LeaseSpans
<1>2. left # <<>>
  <2>1. Spans(L) # {}
    <3>1. Spans(L) = {} => lease_remaining(L) = 0
      BY FS_EmptySet, Zenon DEF lease_remaining
    <3> QED
      BY <3>1
  <2> QED
    BY <1>1, <2>1, SpansNone
<1> HIDE DEF left
<1>3. /\ left[1] \in Blocks /\ Head(left) = left[1] /\ 1 \in DOMAIN left
      /\ Len(left) \in Nat /\ DOMAIN left = 1 .. Len(left)
  BY <1>1, <1>2, Shrinks
<1>4. r = left[1].next /\ r \in Nat \ {0} /\ left[1].end \in Nat \ {0} /\ r < left[1].end
  BY <1>1, <1>3 DEF left, Blocks
<1>5. first \in Blocks /\ first.next = r + 1 /\ first.end = left[1].end
  <2>1. r + 1 \in Nat \ {0}
    BY <1>4
  <2>2. left[1] \in [next : Nat \ {0}, end : Nat \ {0}]
    BY <1>3 DEF Blocks
  <2> HIDE DEF Blocks
  <2>3. first \in [next : Nat \ {0}, end : Nat \ {0}] /\ first.next = r + 1 /\ first.end = left[1].end
    BY <2>1, <2>2
  <2> QED
    BY <2>3 DEF Blocks
<1>6. Minting(L) = kept
  BY <1>3, <1>4 DEF Minting, left
<1> HIDE DEF first
<1>7. /\ kept \in Seq(Blocks)
      /\ DOMAIN kept = DOMAIN left
      /\ kept[1] = first
      /\ \A n \in DOMAIN left : n # 1 => kept[n] = left[n]
  BY <1>1, <1>3, <1>5, ExceptSeq
<1> HIDE DEF kept
<1>8. \A n \in DOMAIN left : kept[n].end = left[n].end
  BY <1>5, <1>7
<1>9. \A n \in DOMAIN left : n > 1 => n # 1
  BY <1>3
<1>10. Spaced(kept)
  <2> SUFFICES ASSUME NEW m \in DOMAIN left, NEW n \in DOMAIN left, m < n
               PROVE  kept[m].end <= kept[n].next
    BY <1>7 DEF Spaced
  <2>1. n # 1
    BY <1>3
  <2>2. left[m].end <= left[n].next
    BY <1>1 DEF Spaced
  <2> QED
    BY <1>7, <1>8, <2>1, <2>2
<1>11. \A m \in DOMAIN kept : /\ kept[m].next <= kept[m].end
                              /\ m > 1 => kept[m].next < kept[m].end
  <2> SUFFICES ASSUME NEW m \in DOMAIN left
               PROVE  /\ kept[m].next <= kept[m].end
                      /\ m > 1 => kept[m].next < kept[m].end
    BY <1>7
  <2>1. CASE m = 1
    BY <2>1, <1>4, <1>5, <1>7
  <2>2. CASE m # 1
    <3>1. kept[m] = left[m] /\ left[m].next < left[m].end
      BY <2>2, <1>1, <1>7
    <3>2. left[m] \in Blocks
      BY <1>1, <1>3, ElementOfSeq
    <3>3. left[m].next <= left[m].end
      BY <3>1, <3>2 DEF Blocks
    <3> QED
      BY <3>1, <3>3
  <2> QED
    BY <2>1, <2>2
<1>12. \A m \in DOMAIN kept, n \in DOMAIN T : kept[m].end <= T[n].next
  BY <1>1, <1>7, <1>8 DEF InLine
<1>13. InLine(kept, T)
  BY <1>10, <1>11, <1>12 DEF InLine
<1>14. \A x : x \in Spans(kept) <=> x \in Spans(left) /\ x # r
  <2> SUFFICES ASSUME NEW x \in Nat
               PROVE  (\E n \in DOMAIN kept : kept[n].next <= x /\ x < kept[n].end)
                        <=> x # r /\ \E n \in DOMAIN left : left[n].next <= x /\ x < left[n].end
    BY <1>1, <1>7, SpansHold
  <2>1. ASSUME NEW n \in DOMAIN left, n # 1, left[n].next <= x
        PROVE  x # r
    <3>1. left[1].end <= left[n].next
      <4>1. 1 < n
        BY <1>3, <2>1
      <4> QED
        BY <1>1, <1>3, <4>1 DEF Spaced
    <3>2. left[n].next \in Nat
      <4>1. left[n] \in Blocks
        BY <1>1, <1>3, ElementOfSeq
      <4> QED
        BY <4>1 DEF Blocks
    <3> QED
      BY <3>1, <3>2, <2>1, <1>4
  <2>2. first.next <= x /\ x < first.end <=> x # r /\ left[1].next <= x /\ x < left[1].end
    BY <1>4, <1>5
  <2>3. ASSUME NEW n \in DOMAIN left
        PROVE  kept[n].next <= x /\ x < kept[n].end
                 <=> x # r /\ left[n].next <= x /\ x < left[n].end
    <3>1. CASE n = 1
      BY <3>1, <2>2, <1>7
    <3>2. CASE n # 1
      BY <3>2, <2>1, <1>7
    <3> QED
      BY <3>1, <3>2
  <2> QED
    BY <2>3, <1>7
<1>15. r \in Spans(left)
  <2>1. r \in Nat /\ left[1].next <= r /\ r < left[1].end
    BY <1>4
  <2> QED
    BY <2>1, <1>1, <1>3, SpansHold
<1>16. ASSUME NEW x \in Held(kept, T)
       PROVE  r < x
  <2>1. \A n \in DOMAIN left : kept[n].next \in Nat /\ left[n].next \in Nat
    <3>1. \A n \in DOMAIN left : left[n] \in Blocks /\ kept[n] \in Blocks
      BY <1>1, <1>3, <1>7, LenProperties, ElementOfSeq
    <3> QED
      BY <3>1 DEF Blocks
  <2>2. \A n \in DOMAIN left : r < kept[n].next
    <3> SUFFICES ASSUME NEW n \in DOMAIN left, n # 1 PROVE r < kept[n].next
      BY <1>4, <1>5, <1>7
    <3>1. 1 < n
      BY <1>3
    <3>2. left[1].end <= kept[n].next
      BY <1>1, <1>3, <1>7, <3>1 DEF Spaced
    <3> QED
      BY <1>4, <2>1, <3>2
  <2>3. CASE x \in Spans(kept)
    <3>1. PICK n \in DOMAIN left : x \in Nat /\ kept[n].next <= x
      BY <2>3, <1>7, SpansHold
    <3> QED
      BY <3>1, <2>1, <2>2, <1>4
  <2>4. CASE x \in Spans(T)
    <3>1. PICK n \in DOMAIN T : x \in Nat /\ T[n].next <= x
      BY <2>4, SpansHold
    <3>2. T[n].next \in Nat
      <4>1. T[n] \in Blocks
        BY LenProperties, ElementOfSeq
      <4> QED
        BY <4>1 DEF Blocks
    <3>3. left[1].end <= T[n].next
      BY <1>3, <1>7, <1>8, <1>12
    <3> QED
      BY <3>1, <3>2, <3>3, <1>4
  <2> QED
    BY <2>3, <2>4 DEF Held
<1> QED
  BY <1>1, <1>4, <1>6, <1>7, <1>8, <1>13, <1>14, <1>15, <1>16

\* What the server holds a client to own once it admitted the route r.
LEMMA Spends ==
    ASSUME NEW G \in Seq(Blocks), Spaced(G), NEW r \in Nat, lease_holds(G, r)
    PROVE  /\ spend_lease(G, r) \in Seq(Blocks)
           /\ Spaced(spend_lease(G, r))
           /\ \A x \in Spans(G) : r < x => x \in Spans(spend_lease(G, r))
           /\ \A n \in DOMAIN spend_lease(G, r) :
                  \E m \in DOMAIN G : spend_lease(G, r)[n].end = G[m].end
<1> DEFINE found == Min(Holding(G, r))
           later == SubSeq(G, found + 1, Len(G))
           first == [G[found] EXCEPT !.next = r + 1]
           left == spend_lease(G, r)
<1>1. /\ Len(G) \in Nat /\ DOMAIN G = 1 .. Len(G)
      /\ \A n \in 1 .. Len(G) : /\ G[n] \in Blocks
                                /\ G[n].next \in Nat \ {0} /\ G[n].end \in Nat \ {0}
  <2>1. /\ Len(G) \in Nat /\ DOMAIN G = 1 .. Len(G)
        /\ \A n \in 1 .. Len(G) : G[n] \in Blocks
    BY LenProperties, ElementOfSeq
  <2> QED
    BY <2>1 DEF Blocks
<1>2. Holding(G, r) \in SUBSET Nat /\ Holding(G, r) # {}
  BY <1>1 DEF Holding, lease_holds
<1>3. found \in DOMAIN G /\ r \in SpanOf(G[found])
  <2>1. found \in Holding(G, r)
    BY <1>2, Least, Zenon
  <2> QED
    BY <2>1 DEF Holding
<1>4. found \in 1 .. Len(G) /\ G[found].next <= r /\ r < G[found].end
  BY <1>1, <1>3 DEF SpanOf
<1>5. left = IF G[found].end = r + 1 THEN later ELSE <<first>> \o later
  BY DEF spend_lease
<1> HIDE DEF found, left
<1>6. /\ later \in Seq(Blocks)
      /\ DOMAIN later = 1 .. Len(G) - found
      /\ Len(later) = Len(G) - found
      /\ \A i \in 1 .. Len(G) - found : later[i] = G[found + i]
  <2>1. \A i \in found + 1 .. Len(G) : G[i] \in Blocks
    BY <1>1, <1>4
  <2>2. /\ later \in Seq(Blocks)
        /\ Len(later) = IF found + 1 <= Len(G) THEN Len(G) - (found + 1) + 1 ELSE 0
        /\ \A i \in 1 .. Len(G) - (found + 1) + 1 : later[i] = G[(found + 1) + i - 1]
    BY <2>1, <1>1, <1>4, SubSeqProperties
  <2> HIDE DEF later
  <2>3. Len(G) - (found + 1) + 1 = Len(G) - found
    BY <1>1, <1>4
  <2>4. Len(later) = Len(G) - found
    <3>1. CASE found + 1 <= Len(G)
      BY <3>1, <2>2, <2>3
    <3>2. CASE found = Len(G)
      <4>1. Len(later) = 0
        BY <3>2, <2>2, <1>1
      <4> QED
        BY <4>1, <3>2, <1>1
    <3> QED
      BY <3>1, <3>2, <1>1, <1>4
  <2>5. \A i \in 1 .. Len(G) - found : (found + 1) + i - 1 = found + i
    BY <1>1, <1>4
  <2>6. DOMAIN later = 1 .. Len(later)
    BY <2>2, LenProperties
  <2> QED
    BY <2>2, <2>3, <2>4, <2>5, <2>6
<1> HIDE DEF later
<1>7. \A i \in DOMAIN later : found + i \in 1 .. Len(G) /\ found < found + i /\ later[i] = G[found + i]
  BY <1>1, <1>4, <1>6
<1>8. Spaced(later)
  <2> SUFFICES ASSUME NEW m \in DOMAIN later, NEW n \in DOMAIN later, m < n
               PROVE  later[m].end <= later[n].next
    BY DEF Spaced
  <2>1. found + m < found + n
    BY <1>4, <1>6
  <2>2. G[found + m].end <= G[found + n].next
    BY <1>1, <1>7, <2>1 DEF Spaced
  <2> QED
    BY <1>7, <2>2
<1>9. \A i \in DOMAIN later : G[found].end <= later[i].next
  BY <1>1, <1>4, <1>7 DEF Spaced
<1>10. \A x \in Spans(G) : r < x => x \in Spans(later) \/ x \in SpanOf(G[found])
  <2> SUFFICES ASSUME NEW x \in Spans(G), r < x, x \notin SpanOf(G[found])
               PROVE  x \in Spans(later)
    OBVIOUS
  <2>1. PICK n \in 1 .. Len(G) : x \in Nat /\ G[n].next <= x /\ x < G[n].end
    BY <1>1, SpansHold
  <2>2. G[found].end <= x
    BY <1>1, <1>4, <2>1 DEF SpanOf
  <2>3. n > found
    <3>1. n # found
      BY <2>1, <2>2, <1>1, <1>4
    <3>2. CASE n < found
      <4>1. G[n].end <= G[found].next
        BY <3>2, <1>1, <1>4 DEF Spaced
      <4> QED
        BY <4>1, <2>1, <2>2, <1>1, <1>4
    <3> QED
      BY <3>1, <3>2, <1>4
  <2>4. n - found \in DOMAIN later /\ found + (n - found) = n
    BY <1>1, <1>4, <1>6, <2>3
  <2>5. later[n - found] = G[n]
    BY <1>7, <2>4
  <2> QED
    BY <1>6, <2>1, <2>4, <2>5, SpansHold
<1>11. CASE G[found].end = r + 1
  <2>1. left = later
    BY <1>5, <1>11
  <2>2. \A x \in SpanOf(G[found]) : ~(r < x)
    BY <1>1, <1>4, <1>11 DEF SpanOf
  <2>3. \A n \in DOMAIN left : \E m \in DOMAIN G : left[n].end = G[m].end
    BY <1>1, <1>7, <2>1
  <2> QED
    BY <1>6, <1>8, <1>10, <2>1, <2>2, <2>3 DEF left
<1>12. CASE G[found].end # r + 1
  <2>1. left = <<first>> \o later
    BY <1>5, <1>12
  <2>2. first \in Blocks /\ first.next = r + 1 /\ first.end = G[found].end
    <3>1. r + 1 \in Nat \ {0}
      OBVIOUS
    <3>2. G[found] \in [next : Nat \ {0}, end : Nat \ {0}]
      BY <1>1, <1>4 DEF Blocks
    <3> HIDE DEF Blocks
    <3>3. /\ first \in [next : Nat \ {0}, end : Nat \ {0}]
          /\ first.next = r + 1 /\ first.end = G[found].end
      BY <3>1, <3>2
    <3> QED
      BY <3>3 DEF Blocks
  <2> HIDE DEF first
  <2>3. <<first>> \in Seq(Blocks) /\ Len(<<first>>) = 1 /\ <<first>>[1] = first
    BY <2>2
  <2>4. /\ left \in Seq(Blocks)
        /\ Len(left) = 1 + Len(later)
        /\ \A i \in 1 .. 1 + Len(later) : left[i] = IF i <= 1 THEN <<first>>[i] ELSE later[i - 1]
    <3> DEFINE one == <<first>>
    <3>1. /\ one \in Seq(Blocks) /\ later \in Seq(Blocks) /\ Len(one) = 1
          /\ left = one \o later
      BY <1>6, <2>1, <2>3
    <3> HIDE DEF one
    <3>2. /\ one \o later \in Seq(Blocks)
          /\ Len(one \o later) = Len(one) + Len(later)
          /\ \A i \in 1 .. Len(one) + Len(later) :
                 (one \o later)[i] = IF i <= Len(one) THEN one[i] ELSE later[i - Len(one)]
      BY <3>1, ConcatProperties, Zenon
    <3>3. /\ left \in Seq(Blocks)
          /\ Len(left) = 1 + Len(later)
          /\ \A i \in 1 .. 1 + Len(later) : left[i] = IF i <= 1 THEN one[i] ELSE later[i - 1]
      BY <3>1, <3>2, Zenon
    <3> QED
      BY <3>3, Zenon DEF one
  <2>5. DOMAIN left = 1 .. 1 + Len(later) /\ Len(later) \in Nat /\ DOMAIN later = 1 .. Len(later)
    BY <1>6, <2>4, LenProperties
  <2>6. /\ left[1] = first /\ 1 \in DOMAIN left
        /\ \A i \in DOMAIN left : i = 1 \/ (i > 1 /\ i - 1 \in DOMAIN later /\ left[i] = later[i - 1])
    BY <2>3, <2>4, <2>5
  <2>7. Spaced(left)
    <3> SUFFICES ASSUME NEW m \in DOMAIN left, NEW n \in DOMAIN left, m < n
                 PROVE  left[m].end <= left[n].next
      BY DEF Spaced
    <3>1. n - 1 \in DOMAIN later /\ left[n] = later[n - 1]
      BY <2>5, <2>6
    <3>2. CASE m = 1
      BY <3>1, <3>2, <2>2, <2>6, <1>9
    <3>3. CASE m # 1
      <4>1. m - 1 \in DOMAIN later /\ left[m] = later[m - 1] /\ m - 1 < n - 1
        BY <3>3, <2>5, <2>6
      <4> QED
        BY <4>1, <3>1, <1>8 DEF Spaced
    <3> QED
      BY <3>2, <3>3
  <2>8. \A x \in Spans(later) : x \in Spans(left)
    <3> SUFFICES ASSUME NEW x \in Spans(later) PROVE x \in Spans(left)
      OBVIOUS
    <3>1. PICK i \in DOMAIN later : x \in Nat /\ later[i].next <= x /\ x < later[i].end
      BY <1>6, SpansHold
    <3>2. i + 1 \in DOMAIN left /\ left[i + 1] = later[i]
      <4>1. i + 1 \in DOMAIN left /\ i + 1 # 1 /\ (i + 1) - 1 = i
        BY <2>5
      <4> QED
        BY <4>1, <2>6
    <3> QED
      BY <3>1, <3>2, <2>4, SpansHold
  <2>9. \A x \in SpanOf(G[found]) : r < x => x \in Spans(left)
    <3> SUFFICES ASSUME NEW x \in SpanOf(G[found]), r < x PROVE x \in Spans(left)
      OBVIOUS
    <3>1. x \in Nat /\ r + 1 <= x /\ x < G[found].end
      BY <1>1, <1>4 DEF SpanOf
    <3> QED
      BY <3>1, <2>2, <2>4, <2>6, SpansHold
  <2>10. \A n \in DOMAIN left : \E m \in DOMAIN G : left[n].end = G[m].end
    BY <1>1, <1>3, <1>7, <2>2, <2>6
  <2> QED
    BY <2>4, <2>7, <2>8, <2>9, <2>10, <1>10 DEF left
<1> QED
  BY <1>11, <1>12

-----------------------------------------------------------------------------
(* What a step does to one peer.                                            *)

Frames == SpawnFrame \cup ReportFrame

\* The types of what PeerSound speaks of.
PeerTyped(L, G, T, B, A, M) ==
    /\ L \in Seq(Blocks) /\ G \in Seq(Blocks) /\ T \in Seq(Blocks)
    /\ B \in SUBSET (Nat \ {0}) /\ A \in Seq(Nat \ {0}) /\ M \in Seq(Frames)

LEMMA BlockNumbers ==
    ASSUME NEW bs \in Seq(Blocks)
    PROVE  \A n \in DOMAIN bs : /\ bs[n] \in Blocks
                                /\ bs[n].next \in Nat \ {0} /\ bs[n].end \in Nat \ {0}
<1>1. \A n \in DOMAIN bs : bs[n] \in Blocks
  BY LenProperties, ElementOfSeq
<1> QED
  BY <1>1 DEF Blocks

\* The bound may be raised.
LEMMA PeerRaised ==
    ASSUME NEW L, NEW G, NEW T, NEW B, NEW A, NEW M, PeerTyped(L, G, T, B, A, M),
           NEW b \in Nat, NEW d \in Nat, b <= d, PeerSound(b, L, G, T, B, A, M)
    PROVE  PeerSound(d, L, G, T, B, A, M)
<1>1. \A r \in B : r \in Nat
  BY DEF PeerTyped
<1>2. /\ \A n \in DOMAIN L : L[n].end \in Nat
      /\ \A n \in DOMAIN G : G[n].end \in Nat
      /\ \A n \in DOMAIN T : T[n].end \in Nat
  BY BlockNumbers DEF PeerTyped
<1>3. Below(d, L, G, T, B)
  BY <1>1, <1>2 DEF PeerSound, Below
<1> QED
  BY <1>3 DEF PeerSound

\* The peer learns of a route that is not beyond the bound.
LEMMA PeerLearns ==
    ASSUME NEW L, NEW G, NEW T, NEW B, NEW A, NEW M, NEW b, NEW r, r <= b,
           PeerSound(b, L, G, T, B, A, M)
    PROVE  PeerSound(b, L, G, T, B \cup {r}, A, M)
BY DEF PeerSound, Below, MintedBefore

\* A client mints the first route of its lease.
LEMMA PeerMints ==
    ASSUME NEW L, NEW G, NEW T, NEW B, NEW A, NEW M, PeerTyped(L, G, T, B, A, M),
           NEW b \in Nat, PeerSound(b, L, G, T, B, A, M),
           lease_remaining(L) > 0, NEW r, r = Head(lease_spans(L)).next
    PROVE  /\ PeerTyped(Minting(L), G, T, B \cup {r}, Append(A, r), M)
           /\ PeerSound(b, Minting(L), G, T, B \cup {r}, Append(A, r), M)
           /\ r \in Spans(L) /\ Spans(Minting(L)) = Spans(L) \ {r}
           /\ r \notin Spans(T)
<1>1. L \in Seq(Blocks) /\ T \in Seq(Blocks) /\ InLine(L, T)
  BY DEF PeerTyped, PeerSound
<1>2. /\ Minting(L) \in Seq(Blocks)
      /\ InLine(Minting(L), T)
      /\ r \in Spans(L) /\ r \in Nat \ {0}
      /\ Spans(Minting(L)) = Spans(L) \ {r}
      /\ \A x \in Held(Minting(L), T) : r < x
      /\ \A n \in DOMAIN Minting(L) : \E m \in DOMAIN L : Minting(L)[n].end = L[m].end
  BY <1>1, LineMints
<1> HIDE DEF Minting
<1>3. Append(A, r) \in Seq(Nat \ {0}) /\ ToSet(Append(A, r)) = ToSet(A) \cup {r}
  <2> DEFINE Routed == Nat \ {0}
  <2>1. A \in Seq(Routed) /\ r \in Routed
    BY <1>2 DEF PeerTyped
  <2> HIDE DEF Routed
  <2>2. Append(A, r) \in Seq(Routed) /\ ToSet(Append(A, r)) = ToSet(A) \cup {r}
    BY <2>1, Grows
  <2> QED
    BY <2>2 DEF Routed
<1>4. r <= b
  <2>1. PICK n \in DOMAIN L : r < L[n].end
    BY <1>1, <1>2, SpansHold
  <2>2. L[n].end <= b + 1 /\ L[n].end \in Nat
    BY <1>1, BlockNumbers DEF PeerSound, Below
  <2> QED
    BY <2>1, <2>2, <1>2
<1>5. Below(b, Minting(L), G, T, B \cup {r})
  BY <1>2, <1>4 DEF PeerSound, Below
<1>6. Held(Minting(L), T) \subseteq Held(L, T)
  BY <1>2 DEF Held
<1>7. MintedBefore(Minting(L), T, B \cup {r}, Append(A, r), M)
  BY <1>2, <1>3, <1>6 DEF PeerSound, MintedBefore
<1>8. r \notin Spans(T)
  <2>1. r \in Spans(T) => r < r
    BY <1>2 DEF Held
  <2> QED
    BY <2>1, <1>2
<1> QED
  BY <1>2, <1>3, <1>5, <1>7, <1>8 DEF PeerSound, PeerTyped

\* A client sends the spawn of a route that is armed.
LEMMA PeerSends ==
    ASSUME NEW L, NEW G, NEW T, NEW B, NEW A, NEW M, PeerTyped(L, G, T, B, A, M),
           NEW b, PeerSound(b, L, G, T, B, A, M), A # <<>>,
           NEW f, f = [kind |-> "spawn", route |-> Head(A)]
    PROVE  /\ PeerTyped(L, G, T, B, Tail(A), Append(M, f))
           /\ PeerSound(b, L, G, T, B, Tail(A), Append(M, f))
<1>1. /\ Head(A) \in Nat \ {0} /\ Tail(A) \in Seq(Nat \ {0})
      /\ ToSet(Tail(A)) \subseteq ToSet(A) /\ Head(A) \in ToSet(A)
  BY Shrinks DEF PeerTyped, ToSet
<1>2. f \in Frames /\ f.kind = "spawn" /\ f.route = Head(A)
  BY <1>1 DEF Frames, SpawnFrame
<1>3. /\ Append(M, f) \in Seq(Frames)
      /\ DOMAIN M = 1 .. Len(M) /\ Len(M) \in Nat
      /\ DOMAIN Append(M, f) = 1 .. Len(M) + 1
      /\ \A i \in 1 .. Len(M) : Append(M, f)[i] = M[i]
      /\ Append(M, f)[Len(M) + 1] = f
  BY <1>2, Grows DEF PeerTyped
<1>4. \A n \in DOMAIN Append(M, f) :
          (n \in DOMAIN M /\ Append(M, f)[n] = M[n]) \/ Append(M, f)[n] = f
  BY <1>3
<1>5. MintedBefore(L, T, B, Tail(A), Append(M, f))
  BY <1>1, <1>2, <1>4 DEF PeerSound, MintedBefore
<1> QED
  BY <1>1, <1>3, <1>5 DEF PeerSound, PeerTyped

\* A block of routes that nobody knows is granted.
LEMMA PeerGranted ==
    ASSUME NEW L, NEW G, NEW T, NEW B, NEW A, NEW M, PeerTyped(L, G, T, B, A, M),
           NEW c \in Nat, NEW d \in Nat, NEW b \in Blocks,
           PeerSound(c, L, G, T, B, A, M),
           c < b.next, b.next < b.end, b.end <= d + 1
    PROVE  /\ PeerTyped(L, Append(G, b), Append(T, b), B, A, M)
           /\ PeerSound(d, L, Append(G, b), Append(T, b), B, A, M)
           /\ Spans(Append(G, b)) = Spans(G) \cup SpanOf(b)
           /\ Held(L, Append(T, b)) = Held(L, T) \cup SpanOf(b)
<1>1. L \in Seq(Blocks) /\ G \in Seq(Blocks) /\ T \in Seq(Blocks)
  BY DEF PeerTyped
<1>2. b.next \in Nat /\ b.end \in Nat
  BY DEF Blocks
<1>3. c <= d
  BY <1>2
<1>4. PeerSound(d, L, G, T, B, A, M)
  BY <1>3, PeerRaised, Zenon
<1>5. /\ \A n \in DOMAIN L : L[n].end <= b.next
      /\ \A n \in DOMAIN G : G[n].end <= b.next
      /\ \A n \in DOMAIN T : T[n].end <= b.next
  <2>1. /\ \A n \in DOMAIN L : L[n].end \in Nat
        /\ \A n \in DOMAIN G : G[n].end \in Nat
        /\ \A n \in DOMAIN T : T[n].end \in Nat
    BY <1>1, BlockNumbers
  <2> QED
    BY <2>1, <1>2 DEF PeerSound, Below
<1>6. /\ Append(T, b) \in Seq(Blocks)
      /\ InLine(L, Append(T, b))
      /\ Held(L, Append(T, b)) = Held(L, T) \cup SpanOf(b)
  BY <1>1, <1>5, LineGrows DEF PeerSound
<1>7. Append(G, b) \in Seq(Blocks) /\ Spaced(Append(G, b))
  BY <1>1, <1>5, Grows, SpacedGrows DEF PeerSound
<1>8. Spans(Append(G, b)) = Spans(G) \cup SpanOf(b)
  BY <1>1, SpansGrow
<1>9. Below(d, L, Append(G, b), Append(T, b), B)
  <2>1. \A n \in DOMAIN Append(G, b) : Append(G, b)[n].end <= d + 1
    <3>1. /\ DOMAIN G = 1 .. Len(G) /\ DOMAIN Append(G, b) = 1 .. Len(G) + 1 /\ Len(G) \in Nat
          /\ \A i \in 1 .. Len(G) : Append(G, b)[i] = G[i]
          /\ Append(G, b)[Len(G) + 1] = b
      BY <1>1, Grows
    <3>2. \A n \in DOMAIN Append(G, b) : n \in DOMAIN G \/ n = Len(G) + 1
      BY <3>1
    <3> QED
      BY <3>1, <3>2, <1>4 DEF PeerSound, Below
  <2>2. \A n \in DOMAIN Append(T, b) : Append(T, b)[n].end <= d + 1
    <3>1. /\ DOMAIN T = 1 .. Len(T) /\ DOMAIN Append(T, b) = 1 .. Len(T) + 1 /\ Len(T) \in Nat
          /\ \A i \in 1 .. Len(T) : Append(T, b)[i] = T[i]
          /\ Append(T, b)[Len(T) + 1] = b
      BY <1>1, Grows
    <3>2. \A n \in DOMAIN Append(T, b) : n \in DOMAIN T \/ n = Len(T) + 1
      BY <3>1
    <3> QED
      BY <3>1, <3>2, <1>4 DEF PeerSound, Below
  <2> QED
    BY <2>1, <2>2, <1>4 DEF PeerSound, Below
<1>10. \A x \in SpanOf(b) : \A r \in B : r < x
  <2>1. \A r \in B : r \in Nat /\ r <= c
    BY DEF PeerTyped, PeerSound, Below
  <2> QED
    BY <2>1, <1>2 DEF SpanOf
<1>11. MintedBefore(L, Append(T, b), B, A, M)
  BY <1>6, <1>10 DEF PeerSound, MintedBefore
<1> QED
  BY <1>6, <1>7, <1>8, <1>9, <1>11 DEF PeerSound, PeerTyped

\* The server admits the spawn of a route that the client owns.
LEMMA PeerSpends ==
    ASSUME NEW L, NEW G, NEW T, NEW B, NEW A, NEW M, PeerTyped(L, G, T, B, A, M),
           NEW b, PeerSound(b, L, G, T, B, A, M),
           M # <<>>, Head(M).kind = "spawn", NEW r, r = Head(M).route, lease_holds(G, r)
    PROVE  /\ PeerTyped(L, spend_lease(G, r), T, B, A, Tail(M))
           /\ PeerSound(b, L, spend_lease(G, r), T, B, A, Tail(M))
           /\ Heard(M, L, G, T) => Heard(Tail(M), L, spend_lease(G, r), T)
           /\ r \in B
<1>1. /\ Head(M) \in Frames /\ Head(M) = M[1] /\ 1 \in DOMAIN M
      /\ Tail(M) \in Seq(Frames)
      /\ \A i \in DOMAIN Tail(M) : i + 1 \in DOMAIN M /\ Tail(M)[i] = M[i + 1]
  BY Shrinks DEF PeerTyped
<1>2. r \in B /\ r \in Nat /\ \A x \in Held(L, T) : r < x
  BY <1>1 DEF PeerSound, MintedBefore, PeerTyped
<1>3. /\ spend_lease(G, r) \in Seq(Blocks)
      /\ Spaced(spend_lease(G, r))
      /\ \A x \in Spans(G) : r < x => x \in Spans(spend_lease(G, r))
      /\ \A n \in DOMAIN spend_lease(G, r) : \E m \in DOMAIN G : spend_lease(G, r)[n].end = G[m].end
  <2>1. G \in Seq(Blocks) /\ Spaced(G)
    BY DEF PeerTyped, PeerSound
  <2> QED
    BY <2>1, <1>2, Spends, Zenon
<1>4. Below(b, L, spend_lease(G, r), T, B)
  BY <1>3 DEF PeerSound, Below
<1>5. \A n \in DOMAIN Tail(M) : \E m \in DOMAIN M : Tail(M)[n] = M[m]
  BY <1>1
<1>6. MintedBefore(L, T, B, A, Tail(M))
  BY <1>5 DEF PeerSound, MintedBefore
<1>7. Heard(M, L, G, T) => Heard(Tail(M), L, spend_lease(G, r), T)
  BY <1>2, <1>3, <1>5 DEF Heard
<1> QED
  BY <1>1, <1>2, <1>3, <1>4, <1>6, <1>7 DEF PeerSound, PeerTyped

LEMMA Larger ==
    ASSUME NEW m \in Nat, NEW n \in Nat
    PROVE  /\ Max({m, n}) = Greater(m, n)
           /\ Greater(m, n) \in Nat /\ m <= Greater(m, n) /\ n <= Greater(m, n)
<1>1. Greater(m, n) \in {m, n} /\ m <= Greater(m, n) /\ n <= Greater(m, n) /\ Greater(m, n) \in Nat
  BY DEF Greater
<1>2. \A x \in {m, n} : x <= m + n
  OBVIOUS
<1>3. Max({m, n}) \in {m, n} /\ \A x \in {m, n} : x <= Max({m, n})
  <2>1. {m, n} \in SUBSET Nat /\ {m, n} # {} /\ m + n \in Nat
    OBVIOUS
  <2> QED
    BY <2>1, <1>2, Greatest, Zenon
<1>4. Max({m, n}) <= Greater(m, n) /\ Greater(m, n) <= Max({m, n})
  BY <1>1, <1>3
<1>5. Max({m, n}) \in Nat
  BY <1>3
<1> QED
  BY <1>1, <1>4, <1>5

\* The report of a peer is read, and its leases are restored.
LEMMA PeerReports ==
    ASSUME NEW L, NEW G, NEW T, NEW B, NEW A, NEW M, PeerTyped(L, G, T, B, A, M),
           NEW c \in Nat, Reports(M, L, G, T),
           PeerSound(Greater(c, Head(M).route_floor), L, G, T, B, A, M)
    PROVE  LET d == Max({c, Head(M).route_floor})
           IN  /\ d \in Nat /\ c <= d
               /\ PeerTyped(L, G \o Head(M).leases, T, B, A, Tail(M))
               /\ PeerSound(d, L, G \o Head(M).leases, T, B, A, Tail(M))
               /\ Heard(Tail(M), L, G \o Head(M).leases, T)
<1> DEFINE f == Head(M)
<1>1. /\ f \in Frames /\ M # <<>>
      /\ Tail(M) \in Seq(Frames)
      /\ Len(M) \in Nat /\ DOMAIN M = 1 .. Len(M)
      /\ \A i \in DOMAIN Tail(M) : i + 1 \in DOMAIN M /\ Tail(M)[i] = M[i + 1]
      /\ DOMAIN Tail(M) = 1 .. Len(M) - 1
  <2>1. M \in Seq(Frames) /\ M # <<>>
    BY DEF PeerTyped, Reports
  <2> QED
    BY <2>1, Shrinks, Zenon
<1>2. f.leases \in Seq(Blocks) /\ f.route_floor \in Nat
  BY <1>1 DEF Reports, Frames, SpawnFrame, ReportFrame
<1>3. G = <<>> /\ T = <<>> /\ Spaced(f.leases) /\ Spans(L) \subseteq Spans(f.leases)
  BY DEF Reports
<1> HIDE DEF f
<1>4. G \o f.leases = f.leases
  BY <1>2, <1>3, ConcatEmptySeq
<1>5. /\ Max({c, f.route_floor}) = Greater(c, f.route_floor)
      /\ Greater(c, f.route_floor) \in Nat
      /\ c <= Greater(c, f.route_floor) /\ f.route_floor <= Greater(c, f.route_floor)
  BY <1>2, Larger
<1> DEFINE d == Greater(c, f.route_floor)
<1> HIDE DEF d
<1>6. PeerSound(d, L, G, T, B, A, M)
  BY DEF d, f
<1>7. d \in Nat /\ c <= d /\ f.route_floor <= d
  BY <1>5 DEF d
<1>8. \A n \in DOMAIN f.leases : f.leases[n].end <= d + 1
  <2>1. \A n \in DOMAIN f.leases : f.leases[n].end \in Nat
    BY <1>2, BlockNumbers
  <2>2. \A n \in DOMAIN f.leases : f.leases[n].end <= f.route_floor + 1
    BY DEF Reports, f
  <2> QED
    BY <2>1, <2>2, <1>2, <1>7
<1>9. Below(d, L, f.leases, T, B)
  BY <1>6, <1>8 DEF PeerSound, Below
<1>10. \A n \in DOMAIN Tail(M) : \E m \in DOMAIN M : m > 1 /\ Tail(M)[n] = M[m]
  <2>1. \A n \in DOMAIN Tail(M) : n + 1 > 1
    BY <1>1
  <2> QED
    BY <2>1, <1>1
<1>11. MintedBefore(L, T, B, A, Tail(M))
  BY <1>6, <1>10 DEF PeerSound, MintedBefore
<1>12. Heard(Tail(M), L, f.leases, T)
  <2>1. Held(L, T) = Spans(L)
    BY <1>3, SpansNone DEF Held
  <2> QED
    BY <2>1, <1>3, <1>10 DEF Heard, Reports
<1>13. PeerSound(d, L, f.leases, T, B, A, Tail(M))
  BY <1>3, <1>6, <1>9, <1>11 DEF PeerSound
<1>14. PeerTyped(L, f.leases, T, B, A, Tail(M))
  BY <1>1, <1>2 DEF PeerTyped
<1>15. Max({c, f.route_floor}) = d
  BY <1>5 DEF d
<1> QED
  BY <1>4, <1>7, <1>12, <1>13, <1>14, <1>15 DEF f

\* A lease comes to the client.
LEMMA PeerTakes ==
    ASSUME NEW L, NEW G, NEW T, NEW B, NEW A, NEW M, PeerTyped(L, G, T, B, A, M),
           NEW b, PeerSound(b, L, G, T, B, A, M), T # <<>>
    PROVE  /\ PeerTyped(Append(L, Head(T)), G, Tail(T), B, A, M)
           /\ PeerSound(b, Append(L, Head(T)), G, Tail(T), B, A, M)
           /\ Held(Append(L, Head(T)), Tail(T)) = Held(L, T)
<1>1. L \in Seq(Blocks) /\ T \in Seq(Blocks) /\ InLine(L, T)
  BY DEF PeerTyped, PeerSound
<1>2. /\ Append(L, Head(T)) \in Seq(Blocks) /\ Tail(T) \in Seq(Blocks)
      /\ InLine(Append(L, Head(T)), Tail(T))
      /\ Held(Append(L, Head(T)), Tail(T)) = Held(L, T)
  BY <1>1, LineComes
<1>3. /\ Head(T) \in Blocks /\ Head(T) = T[1] /\ 1 \in DOMAIN T
      /\ \A i \in DOMAIN Tail(T) : i + 1 \in DOMAIN T /\ Tail(T)[i] = T[i + 1]
  BY <1>1, Shrinks
<1>4. /\ Len(L) \in Nat /\ DOMAIN L = 1 .. Len(L)
      /\ DOMAIN Append(L, Head(T)) = 1 .. Len(L) + 1
      /\ \A i \in 1 .. Len(L) : Append(L, Head(T))[i] = L[i]
      /\ Append(L, Head(T))[Len(L) + 1] = Head(T)
  BY <1>1, <1>3, Grows
<1>5. \A n \in DOMAIN Append(L, Head(T)) :
          (n \in DOMAIN L /\ Append(L, Head(T))[n] = L[n]) \/ Append(L, Head(T))[n] = T[1]
  BY <1>3, <1>4
<1>6. Below(b, Append(L, Head(T)), G, Tail(T), B)
  BY <1>3, <1>5 DEF PeerSound, Below
<1>7. MintedBefore(Append(L, Head(T)), Tail(T), B, A, M)
  BY <1>2 DEF PeerSound, MintedBefore
<1> QED
  BY <1>2, <1>6, <1>7 DEF PeerSound, PeerTyped

\* The server moves, and the peer reports what is left of its lease.
LEMMA PeerMoves ==
    ASSUME NEW L, NEW G, NEW T, NEW B, NEW A, NEW M, PeerTyped(L, G, T, B, A, M),
           NEW b, PeerSound(b, L, G, T, B, A, M),
           NEW d \in Nat, NEW floor \in Nat,
           \A r \in B : r <= floor, \A n \in DOMAIN L : L[n].end - 1 <= floor,
           NEW f, f = [kind |-> "resync", leases |-> lease_spans(L), route_floor |-> floor,
                       last |-> TRUE]
    PROVE  /\ PeerTyped(L, <<>>, <<>>, B, A, <<f>>)
           /\ Head(<<f>>) = f
           /\ Reports(<<f>>, L, <<>>, <<>>)
           /\ PeerSound(Greater(d, floor), L, <<>>, <<>>, B, A, <<f>>)
<1>1. L \in Seq(Blocks) /\ InLine(L, T)
  BY DEF PeerTyped, PeerSound
<1>2. /\ lease_spans(L) \in Seq(Blocks)
      /\ Spaced(lease_spans(L))
      /\ Spans(lease_spans(L)) = Spans(L)
      /\ \A n \in DOMAIN lease_spans(L) : \E m \in DOMAIN L : lease_spans(L)[n] = L[m]
  BY <1>1, LeaseSpans
<1>3. /\ f \in Frames /\ f.kind = "resync" /\ f.last
      /\ f.leases = lease_spans(L) /\ f.route_floor = floor
  BY <1>2 DEF Frames, ReportFrame
<1> HIDE DEF lease_spans
<1>4. /\ <<f>> \in Seq(Frames) /\ Head(<<f>>) = f /\ <<f>> # <<>>
      /\ \A n \in DOMAIN <<f>> : n = 1 /\ <<f>>[n] = f
  <2>1. \A S : \A g \in S : <<g>> \in Seq(S)
    OBVIOUS
  <2>2. \A g : Head(<<g>>) = g /\ <<g>> # <<>>
    OBVIOUS
  <2>3. \A g : \A n \in DOMAIN <<g>> : n = 1 /\ <<g>>[n] = g
    OBVIOUS
  <2> QED
    BY <1>3, <2>1, <2>2, <2>3, Zenon
<1>5. \A n \in DOMAIN L : L[n].end <= floor + 1
  <2>1. \A n \in DOMAIN L : L[n].end \in Nat
    BY <1>1, BlockNumbers
  <2> QED
    BY <2>1
<1>6. \A n \in DOMAIN f.leases : f.leases[n].end <= f.route_floor + 1
  BY <1>2, <1>3, <1>5
<1>7. Reports(<<f>>, L, <<>>, <<>>)
  BY <1>2, <1>3, <1>4, <1>6 DEF Reports
<1>8. Below(floor, L, <<>>, <<>>, B)
  BY <1>5 DEF Below
<1>9. MintedBefore(L, <<>>, B, A, <<f>>)
  <2>1. \A n \in DOMAIN <<f>> : <<f>>[n].kind # "spawn"
    BY <1>3, <1>4
  <2>2. Held(L, <<>>) \subseteq Held(L, T)
    BY SpansNone DEF Held
  <2> QED
    BY <2>1, <2>2 DEF PeerSound, MintedBefore
<1>10. InLine(L, <<>>) /\ Spaced(<<>>)
  BY <1>1, SpansNone DEF InLine
<1>11. PeerTyped(L, <<>>, <<>>, B, A, <<f>>)
  BY <1>1, <1>4 DEF PeerTyped
<1>12. PeerSound(floor, L, <<>>, <<>>, B, A, <<f>>)
  BY <1>8, <1>9, <1>10 DEF PeerSound
<1>13. Greater(d, floor) \in Nat /\ floor <= Greater(d, floor)
  BY Larger
<1>14. PeerSound(Greater(d, floor), L, <<>>, <<>>, B, A, <<f>>)
  BY <1>11, <1>12, <1>13, PeerRaised, Zenon
<1> QED
  BY <1>4, <1>7, <1>11, <1>14

\* The peer that serves, or one that is not in the session, has no lease.
LEMMA PeerServes ==
    ASSUME NEW B \in SUBSET (Nat \ {0}), NEW A \in Seq(Nat \ {0}), ToSet(A) \subseteq B,
           NEW b, \A r \in B : r <= b
    PROVE  /\ PeerTyped(<<>>, <<>>, <<>>, B, A, <<>>)
           /\ PeerSound(b, <<>>, <<>>, <<>>, B, A, <<>>)
           /\ Heard(<<>>, <<>>, <<>>, <<>>)
<1>1. InLine(<<>>, <<>>) /\ Spaced(<<>>)
  BY SpansNone DEF InLine
<1>2. Below(b, <<>>, <<>>, <<>>, B)
  BY DEF Below
<1>3. Held(<<>>, <<>>) = {}
  BY SpansNone DEF Held
<1>4. MintedBefore(<<>>, <<>>, B, A, <<>>) /\ Heard(<<>>, <<>>, <<>>, <<>>)
  BY <1>3 DEF MintedBefore, Heard
<1> QED
  BY <1>1, <1>2, <1>4 DEF PeerSound, PeerTyped

-----------------------------------------------------------------------------
(* What the invariant says of the peers together.                           *)

LEMMA PeerTypes ==
    ASSUME TypeOK, NEW p \in Peers
    PROVE  /\ PeerTyped(lease[p], grants[p], to_client[p], by_route[p], armed[p], to_server[p])
           /\ server \in Peers /\ counter[server] \in Nat
           /\ Mintable(p) = Held(lease[p], to_client[p])
<1>1. /\ lease \in [Peers -> Seq(Blocks)] /\ grants \in [Peers -> Seq(Blocks)]
      /\ to_client \in [Peers -> Seq(Blocks)]
      /\ by_route \in [Peers -> SUBSET (Nat \ {0})]
      /\ armed \in [Peers -> Seq(Nat \ {0})]
      /\ to_server \in [Peers -> Seq(Frames)]
      /\ counter \in [Peers -> Nat]
      /\ server \in Peers
  BY DEF TypeOK, Frames
<1> QED
  BY <1>1 DEF PeerTyped, Mintable, Held

-----------------------------------------------------------------------------
(* The invariant, with all it speaks of as arguments: c is the counter of the    *)
(* server, w the peers that are awaited, and the others are functions on peers.  *)

Follows(c, L, G, T, B, A, M) ==
    /\ PeerTyped(L, G, T, B, A, M) /\ PeerSound(c, L, G, T, B, A, M)
    /\ Heard(M, L, G, T)

Reporting(c, L, G, T, B, A, M) ==
    /\ PeerTyped(L, G, T, B, A, M)
    /\ PeerSound(Greater(c, Head(M).route_floor), L, G, T, B, A, M)
    /\ Reports(M, L, G, T)

PeersAre(c, w, L, G, T, B, A, M) ==
    \A p \in Peers : IF p \in w THEN Reporting(c, L[p], G[p], T[p], B[p], A[p], M[p])
                     ELSE Follows(c, L[p], G[p], T[p], B[p], A[p], M[p])

Apart(L, T, B) ==
    /\ \A p, q \in Peers : p # q => Held(L[p], T[p]) \cap Held(L[q], T[q]) = {}
    /\ \A p, q \in Peers : B[p] \cap Held(L[q], T[q]) = {}

OnPeers(f) == f = [p \in Peers |-> f[p]]
Shape ==
    /\ OnPeers(lease) /\ OnPeers(grants) /\ OnPeers(to_client)
    /\ OnPeers(by_route) /\ OnPeers(armed) /\ OnPeers(to_server)

\* What is left of the type and of Quiet.
Book ==
    /\ server \in members /\ members \subseteq Peers
    /\ counter \in [Peers -> Nat] /\ minted_high \in [Peers -> Nat]
    /\ outbox = [p \in Peers |-> <<>>]
    /\ \A p \in Peers \ Clients :
           lease[p] = <<>> /\ grants[p] = <<>> /\ to_client[p] = <<>> /\ to_server[p] = <<>>
    /\ \A p \in Peers \ members : by_route[p] = {}
    /\ awaited \subseteq Clients /\ halted = (awaited # {})
    /\ halt_leases \subseteq Clients
    /\ halt_joins \subseteq Peers \ members

LEMMA Views ==
    IInv <=> /\ Shape /\ Book /\ Apart(lease, to_client, by_route)
             /\ PeersAre(counter[server], awaited, lease, grants, to_client, by_route, armed,
                         to_server)
<1>1. ASSUME IInv
      PROVE  /\ Shape /\ Book /\ Apart(lease, to_client, by_route)
             /\ PeersAre(counter[server], awaited, lease, grants, to_client, by_route, armed,
                         to_server)
  <2>1. Shape
    BY <1>1 DEF IInv, TypeOK, Shape, OnPeers
  <2>2. Book
    BY <1>1 DEF IInv, TypeOK, Quiet, Book
  <2>3. Apart(lease, to_client, by_route)
    BY <1>1 DEF IInv, Distinct, Apart, Mintable, Held
  <2>4. ASSUME NEW p \in Peers
        PROVE  IF p \in awaited
               THEN Reporting(counter[server], lease[p], grants[p], to_client[p], by_route[p],
                              armed[p], to_server[p])
               ELSE Follows(counter[server], lease[p], grants[p], to_client[p], by_route[p],
                            armed[p], to_server[p])
    <3>1. PeerTyped(lease[p], grants[p], to_client[p], by_route[p], armed[p], to_server[p])
      BY <1>1, PeerTypes, Zenon DEF IInv
    <3>2. PeerOK(p)
      BY <1>1, Zenon DEF IInv, PeersSound
    <3>3. CASE p \in awaited
      <4>1. Ceiling(p) = Greater(counter[server], Head(to_server[p]).route_floor)
        BY <3>3, Zenon DEF Ceiling
      <4> QED
        BY <3>1, <3>2, <3>3, <4>1, Zenon DEF PeerOK, Reporting
    <3>4. CASE p \notin awaited
      <4>1. Ceiling(p) = counter[server]
        BY <3>4, Zenon DEF Ceiling
      <4> QED
        BY <3>1, <3>2, <3>4, <4>1, Zenon DEF PeerOK, Follows
    <3> QED
      BY <3>3, <3>4, Zenon
  <2> QED
    BY <2>1, <2>2, <2>3, <2>4, Zenon DEF PeersAre
<1>2. ASSUME Shape, Book, Apart(lease, to_client, by_route),
             PeersAre(counter[server], awaited, lease, grants, to_client, by_route, armed,
                      to_server)
      PROVE  IInv
  <2>1. ASSUME NEW p \in Peers
        PROVE  /\ PeerTyped(lease[p], grants[p], to_client[p], by_route[p], armed[p], to_server[p])
               /\ ToSet(armed[p]) \subseteq by_route[p]
               /\ PeerOK(p)
    <3>1. CASE p \in awaited
      <4>1. Reporting(counter[server], lease[p], grants[p], to_client[p], by_route[p],
                      armed[p], to_server[p])
        BY <1>2, <3>1, Zenon DEF PeersAre
      <4>2. Ceiling(p) = Greater(counter[server], Head(to_server[p]).route_floor)
        BY <3>1, Zenon DEF Ceiling
      <4>3. PeerOK(p)
        BY <3>1, <4>1, <4>2, Zenon DEF Reporting, PeerOK
      <4> QED
        BY <4>1, <4>3, Zenon DEF Reporting, PeerSound, MintedBefore
    <3>2. CASE p \notin awaited
      <4>1. Follows(counter[server], lease[p], grants[p], to_client[p], by_route[p],
                    armed[p], to_server[p])
        BY <1>2, <3>2, Zenon DEF PeersAre
      <4>2. Ceiling(p) = counter[server]
        BY <3>2, Zenon DEF Ceiling
      <4>3. PeerOK(p)
        BY <3>2, <4>1, <4>2, Zenon DEF Follows, PeerOK
      <4> QED
        BY <4>1, <4>3, Zenon DEF Follows, PeerSound, MintedBefore
    <3> QED
      BY <3>1, <3>2, Zenon
  <2>2. PeersSound
    BY <2>1, Zenon DEF PeersSound
  <2>3. Distinct
    BY <1>2 DEF Distinct, Apart, Mintable, Held
  <2>4. Quiet
    BY <1>2 DEF Quiet, Book
  <2>5. /\ lease \in [Peers -> Seq(Blocks)] /\ grants \in [Peers -> Seq(Blocks)]
        /\ to_client \in [Peers -> Seq(Blocks)]
        /\ by_route \in [Peers -> SUBSET (Nat \ {0})]
        /\ armed \in [Peers -> Seq(Nat \ {0})]
        /\ to_server \in [Peers -> Seq(SpawnFrame \cup ReportFrame)]
    BY <1>2, <2>1 DEF Shape, OnPeers, PeerTyped, Frames
  <2>6. outbox \in [Peers -> Seq(ReportFrame)]
    BY <1>2 DEF Book
  <2>7. TypeOK
    BY <1>2, <2>1, <2>5, <2>6 DEF TypeOK, Book
  <2> QED
    BY <2>2, <2>3, <2>4, <2>7, Zenon DEF IInv
<1> QED
  BY <1>1, <1>2, Zenon

\* The same after a step.
LEMMA ViewsNext ==
    (IInv <=> /\ Shape /\ Book /\ Apart(lease, to_client, by_route)
              /\ PeersAre(counter[server], awaited, lease, grants, to_client, by_route, armed,
                          to_server))'
BY Views, PTL

-----------------------------------------------------------------------------
(* What all peers have after a step.                                        *)

LEMMA FollowsBelow ==
    ASSUME NEW L, NEW G, NEW T, NEW B, NEW A, NEW M, NEW c \in Nat,
           PeerTyped(L, G, T, B, A, M), PeerSound(c, L, G, T, B, A, M)
    PROVE  /\ \A r \in B : r \in Nat /\ r <= c
           /\ \A r \in Held(L, T) : r \in Nat /\ r <= c
           /\ \A n \in DOMAIN L : L[n].end - 1 <= c
<1>1. Below(c, L, G, T, B)
  BY DEF PeerSound
<1>2. ASSUME NEW bs \in Seq(Blocks), \A n \in DOMAIN bs : bs[n].end <= c + 1,
             NEW x \in Spans(bs)
      PROVE  x \in Nat /\ x <= c
  <2>1. PICK n \in DOMAIN bs : x \in Nat /\ x < bs[n].end
    BY SpansHold
  <2>2. bs[n].end \in Nat /\ bs[n].end <= c + 1
    BY <1>2, BlockNumbers
  <2> QED
    BY <2>1, <2>2
<1>3. \A n \in DOMAIN L : L[n].end - 1 <= c
  <2>1. \A n \in DOMAIN L : L[n].end \in Nat
    BY BlockNumbers DEF PeerTyped
  <2> QED
    BY <2>1, <1>1 DEF Below
<1> QED
  BY <1>1, <1>2, <1>3 DEF PeerTyped, Below, Held

\* The counter of the server may rise.
LEMMA FollowsOn ==
    ASSUME NEW L, NEW G, NEW T, NEW B, NEW A, NEW M, NEW c \in Nat, NEW d \in Nat, c <= d,
           Follows(c, L, G, T, B, A, M)
    PROVE  Follows(d, L, G, T, B, A, M)
BY PeerRaised DEF Follows

LEMMA ReportingFloor ==
    ASSUME NEW c, NEW L, NEW G, NEW T, NEW B, NEW A, NEW M, Reporting(c, L, G, T, B, A, M)
    PROVE  Head(M).route_floor \in Nat
<1>1. M \in Seq(Frames) /\ M # <<>> /\ Head(M).kind = "resync"
  BY DEF Reporting, PeerTyped, Reports
<1>2. Head(M) \in Frames
  BY <1>1, Shrinks
<1> QED
  BY <1>1, <1>2 DEF Frames, SpawnFrame, ReportFrame

LEMMA ReportingOn ==
    ASSUME NEW L, NEW G, NEW T, NEW B, NEW A, NEW M, NEW c \in Nat, NEW d \in Nat, c <= d,
           Reporting(c, L, G, T, B, A, M)
    PROVE  Reporting(d, L, G, T, B, A, M)
<1>1. Head(M).route_floor \in Nat
  BY ReportingFloor
<1>2. /\ Greater(c, Head(M).route_floor) \in Nat /\ Greater(d, Head(M).route_floor) \in Nat
      /\ Greater(c, Head(M).route_floor) <= Greater(d, Head(M).route_floor)
  BY <1>1 DEF Greater
<1> QED
  BY <1>2, PeerRaised DEF Reporting

LEMMA PeersOn ==
    ASSUME NEW w, NEW L, NEW G, NEW T, NEW B, NEW A, NEW M, NEW c \in Nat, NEW d \in Nat, c <= d,
           PeersAre(c, w, L, G, T, B, A, M)
    PROVE  PeersAre(d, w, L, G, T, B, A, M)
BY FollowsOn, ReportingOn, Zenon DEF PeersAre

\* The blocks that are granted at once follow one another.
LEMMA Multiples ==
    ASSUME NEW k \in Nat, NEW m \in Nat, NEW n \in Nat, m <= n
    PROVE  /\ m * k \in Nat /\ n * k \in Nat /\ m * k <= n * k
           /\ (m + 1) * k = m * k + k
<1>1. /\ m * k \in Nat /\ n * k \in Nat /\ (m + 1) * k = m * k + k
  OBVIOUS
<1>2. (n - m) \in Nat /\ n * k = m * k + (n - m) * k
  OBVIOUS
<1>3. (n - m) * k \in Nat
  BY <1>2
<1> QED
  BY <1>1, <1>2, <1>3

\* Blocks b for the peers ps, of routes beyond c and up to d.
NewBlocks(b, ps, c, d) ==
    /\ d \in Nat /\ c <= d
    /\ \A p \in ps : /\ b[p] \in Blocks
                     /\ c < b[p].next /\ b[p].next < b[p].end /\ b[p].end <= d + 1
    /\ \A p, q \in ps : p # q => SpanOf(b[p]) \cap SpanOf(b[q]) = {}

Shares(ps, c, turn) ==
    [p \in ps |-> Block(c + 1 + (turn[p] - 1) * ROUTE_LEASE_BLOCK, ROUTE_LEASE_BLOCK)]

Handed(f, ps, b) == [p \in Peers |-> IF p \in ps THEN Append(f[p], b[p]) ELSE f[p]]

LEMMA Portions ==
    ASSUME Assumptions, NEW ps \in SUBSET Peers, NEW c \in Nat,
           NEW turn \in Bijection(ps, 1 .. Cardinality(ps))
    PROVE  NewBlocks(Shares(ps, c, turn), ps, c, c + Cardinality(ps) * ROUTE_LEASE_BLOCK)
<1> DEFINE n == Cardinality(ps)
           k == ROUTE_LEASE_BLOCK
           b == Shares(ps, c, turn)
           d == c + Cardinality(ps) * ROUTE_LEASE_BLOCK
<1>1. n \in Nat /\ k \in Nat \ {0}
  BY FS_Subset, FS_CardinalityType DEF Assumptions, PeersAssumption, BlockAssumption
<1>2. /\ \A p \in ps : turn[p] \in 1 .. n
      /\ \A p, q \in ps : turn[p] = turn[q] => p = q
  BY DEF Bijection, Injection, IsInjective
<1>3. \A p \in ps : b[p] = [next |-> c + 1 + (turn[p] - 1) * k, end |-> c + 1 + (turn[p] - 1) * k + k]
  BY DEF Shares, Block
<1>4. d = c + n * k
  OBVIOUS
<1> HIDE DEF n, k, b, d
<1>5. d \in Nat /\ c <= d
  <2>1. n * k \in Nat
    BY <1>1, Multiples
  <2> QED
    BY <2>1, <1>4
<1>6. ASSUME NEW p \in ps
      PROVE  /\ (turn[p] - 1) * k \in Nat /\ (turn[p] - 1) * k + k = turn[p] * k
             /\ turn[p] * k \in Nat /\ turn[p] * k <= n * k
  <2> DEFINE t == turn[p]
  <2>1. t \in Nat /\ t - 1 \in Nat /\ t <= n /\ (t - 1) + 1 = t
    BY <1>1, <1>2
  <2> HIDE DEF t
  <2>2. (t - 1) * k \in Nat /\ ((t - 1) + 1) * k = (t - 1) * k + k
    BY <2>1, <1>1, Multiples
  <2>3. t * k \in Nat /\ t * k <= n * k
    BY <2>1, <1>1, Multiples
  <2>4. (t - 1) * k \in Nat /\ (t - 1) * k + k = t * k /\ t * k \in Nat /\ t * k <= n * k
    BY <2>1, <2>2, <2>3
  <2> QED
    BY <2>4, Zenon DEF t
<1>7. ASSUME NEW p \in ps
      PROVE  /\ b[p] \in Blocks
             /\ c < b[p].next /\ b[p].next < b[p].end /\ b[p].end <= d + 1
             /\ b[p].next = c + 1 + (turn[p] - 1) * k /\ b[p].end = c + 1 + turn[p] * k
  <2> DEFINE x == (turn[p] - 1) * k
             y == turn[p] * k
             z == n * k
  <2>1. x \in Nat /\ y \in Nat /\ x + k = y /\ y <= z /\ z \in Nat
    BY <1>1, <1>6, Multiples
  <2>2. b[p] = [next |-> c + 1 + x, end |-> c + 1 + x + k]
    BY <1>3
  <2>3. d = c + z
    BY <1>4
  <2> HIDE DEF x, y, z
  <2>4. c + 1 + x + k = c + 1 + y /\ c + 1 + x \in Nat \ {0} /\ c + 1 + y \in Nat \ {0}
    BY <2>1, <1>1
  <2>5. /\ b[p].next = c + 1 + x /\ b[p].end = c + 1 + y
        /\ c + 1 + x \in Nat \ {0} /\ c + 1 + y \in Nat \ {0}
        /\ b[p] = [next |-> c + 1 + x, end |-> c + 1 + y]
    BY <2>2, <2>4
  <2>6. b[p] \in Blocks
    BY <2>5 DEF Blocks
  <2>7. c < b[p].next /\ b[p].next < b[p].end /\ b[p].end <= d + 1
    BY <2>1, <2>3, <2>5, <1>1
  <2> QED
    BY <2>5, <2>6, <2>7 DEF x, y
<1>8. ASSUME NEW p \in ps, NEW q \in ps, turn[p] < turn[q]
      PROVE  b[p].end <= b[q].next
  <2> DEFINE s == turn[p]
             t == turn[q]
  <2>1. s \in Nat /\ t - 1 \in Nat /\ s <= t - 1
    BY <1>2, <1>8, <1>1
  <2> HIDE DEF s, t
  <2>2. s * k <= (t - 1) * k /\ s * k \in Nat /\ (t - 1) * k \in Nat
    BY <2>1, <1>1, Multiples
  <2>3. c + 1 + s * k <= c + 1 + (t - 1) * k
    BY <2>2
  <2> QED
    BY <2>3, <1>7, Zenon DEF s, t
<1>9. ASSUME NEW p \in ps, NEW q \in ps, p # q
      PROVE  SpanOf(b[p]) \cap SpanOf(b[q]) = {}
  <2>1. turn[p] < turn[q] \/ turn[q] < turn[p]
    BY <1>1, <1>2, <1>9
  <2>2. b[p].end <= b[q].next \/ b[q].end <= b[p].next
    BY <2>1, <1>8
  <2>3. /\ b[p].next \in Nat /\ b[p].end \in Nat
        /\ b[q].next \in Nat /\ b[q].end \in Nat
    BY <1>7 DEF Blocks
  <2> QED
    BY <2>2, <2>3 DEF SpanOf
<1>10. NewBlocks(b, ps, c, d)
  BY <1>5, <1>7, <1>9 DEF NewBlocks
<1> QED
  BY <1>10 DEF b, d

\* New routes may be granted once nobody is awaited.
LEMMA GrantsKeep ==
    ASSUME NEW c \in Nat, NEW d,
           NEW L, NEW G, NEW T, NEW B, NEW A, NEW M,
           PeersAre(c, {}, L, G, T, B, A, M), Apart(L, T, B),
           NEW ps \in SUBSET Peers, NEW b, NewBlocks(b, ps, c, d)
    PROVE  /\ PeersAre(d, {}, L, Handed(G, ps, b), Handed(T, ps, b), B, A, M)
           /\ Apart(L, Handed(T, ps, b), B)
           /\ \A p \in Peers : \A x \in Held(L[p], Handed(T, ps, b)[p]) :
                  x \in Held(L[p], T[p]) \/ \A q \in Peers : x \notin Held(L[q], T[q])
<1> DEFINE G2 == Handed(G, ps, b)
           T2 == Handed(T, ps, b)
<1>0. /\ G2 = [p \in Peers |-> IF p \in ps THEN Append(G[p], b[p]) ELSE G[p]]
      /\ T2 = [p \in Peers |-> IF p \in ps THEN Append(T[p], b[p]) ELSE T[p]]
  BY DEF Handed
<1> HIDE DEF G2, T2
<1> USE DEF NewBlocks
<1>1. ASSUME NEW p \in Peers
      PROVE  /\ Follows(c, L[p], G[p], T[p], B[p], A[p], M[p])
             /\ \A x \in B[p] : ~(x > c)
             /\ \A x \in Held(L[p], T[p]) : ~(x > c)
  <2>1. Follows(c, L[p], G[p], T[p], B[p], A[p], M[p])
    BY DEF PeersAre
  <2>2. /\ PeerTyped(L[p], G[p], T[p], B[p], A[p], M[p])
        /\ PeerSound(c, L[p], G[p], T[p], B[p], A[p], M[p])
    BY <2>1 DEF Follows
  <2>3. /\ \A x \in B[p] : x \in Nat /\ x <= c
        /\ \A x \in Held(L[p], T[p]) : x \in Nat /\ x <= c
    BY <2>2, FollowsBelow, Zenon
  <2>4. \A x \in Nat : x <= c => ~(x > c)
    OBVIOUS
  <2> QED
    BY <2>1, <2>3, <2>4, Zenon
<1>2. ASSUME NEW p \in ps
      PROVE  /\ Follows(d, L[p], G2[p], T2[p], B[p], A[p], M[p])
             /\ Held(L[p], T2[p]) = Held(L[p], T[p]) \cup SpanOf(b[p])
  <2>1. /\ PeerTyped(L[p], G[p], T[p], B[p], A[p], M[p])
        /\ PeerSound(c, L[p], G[p], T[p], B[p], A[p], M[p])
        /\ Heard(M[p], L[p], G[p], T[p])
    BY <1>1 DEF Follows
  <2>2. /\ PeerTyped(L[p], Append(G[p], b[p]), Append(T[p], b[p]), B[p], A[p], M[p])
        /\ PeerSound(d, L[p], Append(G[p], b[p]), Append(T[p], b[p]), B[p], A[p], M[p])
        /\ Spans(Append(G[p], b[p])) = Spans(G[p]) \cup SpanOf(b[p])
        /\ Held(L[p], Append(T[p], b[p])) = Held(L[p], T[p]) \cup SpanOf(b[p])
    <3>1. b[p] \in Blocks /\ c < b[p].next /\ b[p].next < b[p].end /\ b[p].end <= d + 1
      OBVIOUS
    <3> QED
      BY <2>1, <3>1, PeerGranted
  <2>3. Heard(M[p], L[p], Append(G[p], b[p]), Append(T[p], b[p]))
    BY <2>1, <2>2 DEF Heard
  <2>4. G2[p] = Append(G[p], b[p]) /\ T2[p] = Append(T[p], b[p])
    BY <1>0
  <2> QED
    BY <2>2, <2>3, <2>4, Zenon DEF Follows
<1>3. ASSUME NEW p \in Peers, p \notin ps
      PROVE  /\ Follows(d, L[p], G2[p], T2[p], B[p], A[p], M[p])
             /\ Held(L[p], T2[p]) = Held(L[p], T[p])
  <2>1. G2[p] = G[p] /\ T2[p] = T[p]
    BY <1>0, <1>3
  <2> QED
    BY <1>1, <2>1, FollowsOn, Zenon
<1>4. \A p \in ps : \A x \in SpanOf(b[p]) : x \in Nat /\ x > c
  BY DEF SpanOf, Blocks
<1>5. PeersAre(d, {}, L, G2, T2, B, A, M)
  BY <1>2, <1>3, Zenon DEF PeersAre
<1>6. ASSUME NEW p \in Peers, NEW x \in Held(L[p], T2[p])
      PROVE  x \in Held(L[p], T[p]) \/ (p \in ps /\ x \in SpanOf(b[p]) /\ x > c)
  <2>1. CASE p \in ps
    BY <1>2, <1>4, <2>1
  <2>2. CASE p \notin ps
    BY <1>3, <2>2
  <2> QED
    BY <2>1, <2>2
<1>7. ASSUME NEW p \in Peers, NEW q \in Peers, p # q,
             NEW x \in Held(L[p], T2[p]), x \in Held(L[q], T2[q])
      PROVE  FALSE
  <2>1. CASE x > c
    <3>1. x \notin Held(L[p], T[p]) /\ x \notin Held(L[q], T[q])
      BY <1>1, <2>1, Zenon
    <3>2. p \in ps /\ x \in SpanOf(b[p]) /\ q \in ps /\ x \in SpanOf(b[q])
      BY <1>6, <1>7, <3>1
    <3> QED
      BY <3>2, <1>7
  <2>2. CASE ~(x > c)
    <3>1. x \in Held(L[p], T[p]) /\ x \in Held(L[q], T[q])
      BY <1>6, <1>7, <2>2
    <3> QED
      BY <3>1, <1>7 DEF Apart
  <2> QED
    BY <2>1, <2>2
<1>8. ASSUME NEW p \in Peers, NEW q \in Peers, NEW x \in B[p], x \in Held(L[q], T2[q])
      PROVE  FALSE
  <2>1. ~(x > c)
    BY <1>1
  <2>2. x \in Held(L[q], T[q])
    BY <1>6, <1>8, <2>1
  <2> QED
    BY <2>2, <1>8 DEF Apart
<1>9. Apart(L, T2, B)
  BY <1>7, <1>8 DEF Apart
<1>10. \A p \in Peers : \A x \in Held(L[p], T2[p]) :
           x \in Held(L[p], T[p]) \/ \A q \in Peers : x \notin Held(L[q], T[q])
  BY <1>1, <1>6, Zenon
<1> QED
  BY <1>5, <1>9, <1>10 DEF G2, T2

\* The leases that are granted to ps on top of c, gs and out.
Granted(c, gs, out, ps, L, B, A, M) ==
    /\ counter' \in [Peers -> Nat] /\ c[server] <= counter'[server]
    /\ OnPeers(grants') /\ OnPeers(to_client')
    /\ \A p \in Peers \ ps : grants'[p] = gs[p] /\ to_client'[p] = out[p]
    /\ PeersAre(counter'[server], {}, L, grants', to_client', B, A, M)
    /\ Apart(L, to_client', B)
    /\ \A p \in Peers : \A x \in Held(L[p], to_client'[p]) :
           x \in Held(L[p], out[p]) \/ \A q \in Peers : x \notin Held(L[q], out[q])

LEMMA Granting ==
    ASSUME Assumptions, server \in Peers, NEW c \in [Peers -> Nat],
           NEW gs, OnPeers(gs), NEW out, OnPeers(out), NEW ps \in SUBSET Peers,
           NEW L, NEW B, NEW A, NEW M,
           PeersAre(c[server], {}, L, gs, out, B, A, M), Apart(L, out, B),
           liveness_grant_leases(c, gs, out, ps)
    PROVE  Granted(c, gs, out, ps, L, B, A, M)
<1>1. PICK turn \in Bijection(ps, 1 .. Cardinality(ps)) :
          LET base(p) == c[server] + 1 + (turn[p] - 1) * ROUTE_LEASE_BLOCK
              Given(f) == [p \in Peers |->
                  IF p \in ps THEN Append(f[p], Block(base(p), ROUTE_LEASE_BLOCK)) ELSE f[p]]
          IN /\ counter' = [c EXCEPT ![server] = @ + Cardinality(ps) * ROUTE_LEASE_BLOCK]
             /\ grants' = Given(gs)
             /\ to_client' = Given(out)
  BY Zenon DEF liveness_grant_leases
<1> DEFINE m == c[server]
           b == Shares(ps, m, turn)
           d == m + Cardinality(ps) * ROUTE_LEASE_BLOCK
<1>2. m \in Nat
  OBVIOUS
<1>3. grants' = Handed(gs, ps, b) /\ to_client' = Handed(out, ps, b)
  BY <1>1 DEF Handed, Shares
<1>4. counter' = [c EXCEPT ![server] = d]
  BY <1>1
<1>5. PeersAre(m, {}, L, gs, out, B, A, M)
  OBVIOUS
<1> HIDE DEF m
<1>6. NewBlocks(b, ps, m, d)
  BY <1>2, Portions, Zenon
<1> HIDE DEF b, d
<1>7. /\ counter' \in [Peers -> Nat] /\ counter'[server] = d /\ m <= d
  BY <1>4, <1>6 DEF NewBlocks
<1>8. /\ PeersAre(d, {}, L, grants', to_client', B, A, M) /\ Apart(L, to_client', B)
      /\ \A p \in Peers : \A x \in Held(L[p], to_client'[p]) :
             x \in Held(L[p], out[p]) \/ \A q \in Peers : x \notin Held(L[q], out[q])
  BY <1>2, <1>3, <1>5, <1>6, GrantsKeep
<1>9. /\ OnPeers(grants') /\ OnPeers(to_client')
      /\ \A p \in Peers \ ps : grants'[p] = gs[p] /\ to_client'[p] = out[p]
  BY <1>3 DEF OnPeers, Handed
<1> QED
  BY <1>7, <1>8, <1>9 DEF m, Granted

\* Nobody is granted anything.
LEMMA GrantsNone ==
    ASSUME NEW c \in [Peers -> Nat], server \in Peers, NEW gs, OnPeers(gs), NEW out, OnPeers(out),
           BlockAssumption, liveness_grant_leases(c, gs, out, {})
    PROVE  counter' = c /\ grants' = gs /\ to_client' = out
<1>1. /\ counter' = [c EXCEPT ![server] = @ + Cardinality({}) * ROUTE_LEASE_BLOCK]
      /\ grants' = [p \in Peers |-> gs[p]] /\ to_client' = [p \in Peers |-> out[p]]
  BY DEF liveness_grant_leases
<1>2. Cardinality({}) * ROUTE_LEASE_BLOCK = 0
  BY FS_EmptySet DEF BlockAssumption
<1>3. counter' = [c EXCEPT ![server] = @ + 0]
  BY <1>1, <1>2
<1>4. counter' = c
  BY <1>3
<1> QED
  BY <1>1, <1>4 DEF OnPeers

LEMMA Kept ==
    ASSUME Shape', Book', Apart(lease', to_client', by_route'),
           PeersAre(counter'[server'], awaited', lease', grants', to_client', by_route', armed',
                    to_server')
    PROVE  IInv'
BY ViewsNext

\* Where a handler of the server ends: the peers "left" are still awaited, those of
\* "stay" stay, and new leases are granted on top of c, gs and out if nobody is.
LEMMA Settling ==
    ASSUME Assumptions, Book, NEW c \in [Peers -> Nat],
           NEW gs, OnPeers(gs), NEW out, OnPeers(out),
           NEW stay, server \in stay, stay \subseteq members,
           NEW left, left \subseteq awaited, left \subseteq stay,
           settle_resync(c, gs, out, stay, left),
           server' = server, minted_high' \in [Peers -> Nat], outbox' = outbox,
           OnPeers(lease'), OnPeers(by_route'), OnPeers(armed'), OnPeers(to_server'),
           \A p \in Peers \ (stay \ {server}) :
               lease'[p] = <<>> /\ gs[p] = <<>> /\ out[p] = <<>> /\ to_server'[p] = <<>>,
           \A p \in Peers \ stay : by_route'[p] = {},
           PeersAre(c[server], left, lease', gs, out, by_route', armed', to_server'),
           Apart(lease', out, by_route')
    PROVE  /\ IInv'
           /\ \A p \in Peers : \A x \in Held(lease'[p], to_client'[p]) :
                  \/ x \in Held(lease'[p], out[p])
                  \/ \A q \in Peers : x \notin Held(lease'[q], out[q])
<1>1. /\ server \in Peers /\ members \subseteq Peers /\ halt_joins \subseteq Peers \ members
      /\ halt_leases \subseteq members \ {server} /\ awaited \subseteq members \ {server}
      /\ halted = (awaited # {}) /\ awaited' = left
      /\ outbox' = [p \in Peers |-> <<>>]
  BY DEF Book, Clients, settle_resync
<1>2. CASE halted /\ left = {}
  <2> DEFINE ps == (halt_leases \cap stay) \cup halt_joins
  <2>1. /\ halted' = FALSE /\ halt_leases' = {} /\ halt_joins' = {}
        /\ members' = stay \cup halt_joins
        /\ liveness_grant_leases(c, gs, out, ps)
    BY <1>2 DEF settle_resync, halt_release
  <2>2. ps \in SUBSET Peers /\ ps \subseteq members' \ {server}
    BY <1>1, <2>1
  <2> HIDE DEF ps
  <2>3. Granted(c, gs, out, ps, lease', by_route', armed', to_server')
    <3>1. PeersAre(c[server], {}, lease', gs, out, by_route', armed', to_server')
      BY <1>2
    <3>2. server \in Peers /\ ps \in SUBSET Peers /\ liveness_grant_leases(c, gs, out, ps)
      BY <1>1, <2>1, <2>2
    <3> QED
      BY <3>1, <3>2, Granting, Zenon
  <2>4. Shape'
    BY <2>3 DEF Shape, OnPeers, Granted
  <2>5. Book'
    <3>1. \A p \in Peers \ (members' \ {server}) :
              /\ lease'[p] = <<>> /\ grants'[p] = <<>> /\ to_client'[p] = <<>> /\ to_server'[p] = <<>>
      BY <2>1, <2>2, <2>3 DEF Granted
    <3> QED
      BY <1>1, <1>2, <2>1, <2>3, <3>1 DEF Book, Clients, Granted
  <2> QED
    BY <1>1, <1>2, <2>3, <2>4, <2>5, Kept DEF Granted
<1>3. CASE ~(halted /\ left = {})
  <2>1. /\ halt_leases' = halt_leases \cap stay
        /\ members' = stay /\ halted' = halted /\ halt_joins' = halt_joins
        /\ counter' = c /\ grants' = gs /\ to_client' = out
    BY <1>3 DEF settle_resync, halt_forget_peers
  <2>2. Shape'
    BY <2>1 DEF Shape, OnPeers
  <2>3. Book'
    BY <1>1, <1>3, <2>1 DEF Book, Clients
  <2>4. IInv'
    BY <1>1, <2>1, <2>2, <2>3, Kept
  <2> QED
    BY <2>1, <2>4
<1> QED
  BY <1>2, <1>3

-----------------------------------------------------------------------------
(* What is minted and learned.                                              *)

Learned(B, S, r) == [p \in Peers |-> IF p \in S THEN B[p] \cup {r} ELSE B[p]]

LEMMA PeersLearn ==
    ASSUME NEW w, NEW L, NEW G, NEW T, NEW B, NEW A, NEW M, NEW c \in Nat,
           PeersAre(c, w, L, G, T, B, A, M), NEW S, NEW r \in Nat \ {0}, r <= c
    PROVE  PeersAre(c, w, L, G, T, Learned(B, S, r), A, M)
<1> SUFFICES ASSUME NEW p \in Peers
             PROVE  IF p \in w
                    THEN Reporting(c, L[p], G[p], T[p], Learned(B, S, r)[p], A[p], M[p])
                    ELSE Follows(c, L[p], G[p], T[p], Learned(B, S, r)[p], A[p], M[p])
  BY Zenon DEF PeersAre
<1>1. CASE p \notin S
  <2>1. Learned(B, S, r)[p] = B[p]
    BY <1>1 DEF Learned
  <2> QED
    BY <2>1, Zenon DEF PeersAre
<1>2. CASE p \in S
  <2>1. Learned(B, S, r)[p] = B[p] \cup {r}
    BY <1>2 DEF Learned
  <2>2. ASSUME PeerTyped(L[p], G[p], T[p], B[p], A[p], M[p])
        PROVE  PeerTyped(L[p], G[p], T[p], B[p] \cup {r}, A[p], M[p])
    BY <2>2 DEF PeerTyped
  <2>3. CASE p \in w
    <3>1. Reporting(c, L[p], G[p], T[p], B[p], A[p], M[p])
      BY <2>3, Zenon DEF PeersAre
    <3> DEFINE d == Greater(c, Head(M[p]).route_floor)
    <3>2. r <= d
      BY <3>1, ReportingFloor DEF Greater
    <3>3. PeerSound(d, L[p], G[p], T[p], B[p], A[p], M[p])
      BY <3>1 DEF Reporting
    <3> HIDE DEF d
    <3>4. PeerSound(d, L[p], G[p], T[p], B[p] \cup {r}, A[p], M[p])
      BY <3>2, <3>3, PeerLearns, Zenon
    <3> QED
      BY <2>1, <2>2, <2>3, <3>1, <3>4, Zenon DEF d, Reporting
  <2>4. CASE p \notin w
    <3>1. Follows(c, L[p], G[p], T[p], B[p], A[p], M[p])
      BY <2>4, Zenon DEF PeersAre
    <3>2. PeerSound(c, L[p], G[p], T[p], B[p] \cup {r}, A[p], M[p])
      BY <3>1, PeerLearns, Zenon DEF Follows
    <3> QED
      BY <2>1, <2>2, <2>4, <3>1, <3>2, Zenon DEF Follows
  <2> QED
    BY <2>3, <2>4, Zenon
<1> QED
  BY <1>1, <1>2, Zenon

LEMMA ApartLearned ==
    ASSUME NEW L, NEW T, NEW B, Apart(L, T, B), NEW S, NEW r,
           \A q \in Peers : r \notin Held(L[q], T[q])
    PROVE  Apart(L, T, Learned(B, S, r))
<1>1. \A p \in Peers : Learned(B, S, r)[p] \subseteq B[p] \cup {r}
  BY DEF Learned
<1> QED
  BY <1>1 DEF Apart

LEMMA ApartLess ==
    ASSUME NEW L, NEW T, NEW B, Apart(L, T, B), NEW L2, NEW T2, NEW B2,
           \A p \in Peers : /\ Held(L2[p], T2[p]) \subseteq Held(L[p], T[p])
                           /\ B2[p] \subseteq B[p]
    PROVE  Apart(L2, T2, B2)
<1>1. ASSUME NEW p \in Peers, NEW q \in Peers
      PROVE  /\ p # q => Held(L2[p], T2[p]) \cap Held(L2[q], T2[q]) = {}
             /\ B2[p] \cap Held(L2[q], T2[q]) = {}
  <2>1. /\ p # q => Held(L[p], T[p]) \cap Held(L[q], T[q]) = {}
        /\ B[p] \cap Held(L[q], T[q]) = {}
    BY DEF Apart
  <2>2. /\ Held(L2[p], T2[p]) \subseteq Held(L[p], T[p])
        /\ Held(L2[q], T2[q]) \subseteq Held(L[q], T[q])
        /\ B2[p] \subseteq B[p]
    OBVIOUS
  <2> QED
    BY <2>1, <2>2
<1> QED
  BY <1>1, Zenon DEF Apart

\* What no peer that follows the server has is beyond its counter.
LEMMA Unheard ==
    ASSUME IInv, ~halted
    PROVE  /\ awaited = {} /\ counter[server] \in Nat /\ server \in Peers
           /\ \A q \in Peers : /\ \A x \in by_route[q] : x \in Nat /\ x <= counter[server]
                               /\ \A x \in Held(lease[q], to_client[q]) :
                                      x \in Nat /\ x <= counter[server]
<1>1. /\ Book
      /\ PeersAre(counter[server], awaited, lease, grants, to_client, by_route, armed, to_server)
  BY Views
<1>2. awaited = {} /\ counter[server] \in Nat /\ server \in Peers
  BY <1>1 DEF Book
<1>3. ASSUME NEW q \in Peers
      PROVE  /\ PeerTyped(lease[q], grants[q], to_client[q], by_route[q], armed[q], to_server[q])
             /\ PeerSound(counter[server], lease[q], grants[q], to_client[q], by_route[q],
                          armed[q], to_server[q])
  BY <1>1, <1>2 DEF PeersAre, Follows
<1> QED
  BY <1>2, <1>3, FollowsBelow, Zenon

\* The next route of the server is one that nobody knows or may mint.
LEMMA ServerMintsSound ==
    ASSUME Assumptions, IInv, ServerMints
    PROVE  /\ IInv'
           /\ \A q \in Peers : /\ counter[server] + 1 \notin by_route[q]
                               /\ counter[server] + 1 \notin Held(lease[q], to_client[q])
           /\ \E S \in SUBSET Peers :
                  server \in S /\ by_route' = Learned(by_route, S, counter[server] + 1)
<1> DEFINE c == counter[server]
           r == counter[server] + 1
<1>1. /\ Shape /\ Book /\ Apart(lease, to_client, by_route)
      /\ PeersAre(c, awaited, lease, grants, to_client, by_route, armed, to_server)
  BY Views
<1>2. /\ awaited = {} /\ c \in Nat /\ server \in Peers
      /\ \A q \in Peers : r \notin by_route[q] /\ r \notin Held(lease[q], to_client[q])
  <2>1. ~halted
    BY DEF ServerMints
  <2>2. c < r /\ \A x \in Nat : x <= c => x # r
    BY <2>1, Unheard
  <2> QED
    BY <2>1, <2>2, Unheard
<1>3. PICK S \in SUBSET Clients : by_route' = Learned(by_route, {server} \cup S, r)
  BY DEF ServerMints, Learn, Learned
<1>4. /\ server' = server /\ members' = members /\ minted_high' = minted_high
      /\ lease' = lease /\ grants' = grants /\ armed' = armed
      /\ halted' = halted /\ awaited' = awaited /\ halt_leases' = halt_leases
      /\ halt_joins' = halt_joins
      /\ outbox' = outbox /\ to_server' = to_server /\ to_client' = to_client
      /\ counter' = [counter EXCEPT ![server] = r]
  BY DEF ServerMints, halt, links
<1>5. counter' \in [Peers -> Nat] /\ counter'[server] = r /\ r \in Nat \ {0} /\ c <= r /\ r <= r
  BY <1>1, <1>2, <1>4 DEF Book
<1> HIDE DEF r, c
<1>6. PeersAre(r, awaited, lease, grants, to_client, by_route', armed, to_server)
  <2>1. PeersAre(r, awaited, lease, grants, to_client, by_route, armed, to_server)
    BY <1>1, <1>2, <1>5, PeersOn
  <2> QED
    BY <1>3, <1>5, <2>1, PeersLearn
<1>7. Apart(lease, to_client, by_route')
  BY <1>1, <1>2, <1>3, ApartLearned
<1>8. Shape'
  BY <1>1, <1>3, <1>4 DEF Shape, OnPeers, Learned
<1>9. Book'
  <2>1. \A p \in Peers \ members : by_route'[p] = {}
    BY <1>1, <1>3 DEF Book, Clients, Learned
  <2> QED
    BY <1>1, <1>4, <1>5, <2>1 DEF Book, Clients
<1>10. IInv'
  BY <1>4, <1>5, <1>6, <1>7, <1>8, <1>9, Kept
<1>11. {server} \cup S \in SUBSET Peers
  BY <1>1 DEF Book, Clients
<1> QED
  BY <1>2, <1>3, <1>10, <1>11 DEF c, r

\* One peer of those above.
PeerIs(c, w, p, L, G, T, B, A, M) ==
    IF p \in w THEN Reporting(c, L, G, T, B, A, M) ELSE Follows(c, L, G, T, B, A, M)

LEMMA IsOne ==
    ASSUME NEW c, NEW w, NEW L, NEW G, NEW T, NEW B, NEW A, NEW M,
           PeersAre(c, w, L, G, T, B, A, M), NEW p \in Peers
    PROVE  PeerIs(c, w, p, L[p], G[p], T[p], B[p], A[p], M[p])
BY Zenon DEF PeersAre, PeerIs

LEMMA AllAre ==
    ASSUME NEW c, NEW w, NEW L, NEW G, NEW T, NEW B, NEW A, NEW M,
           \A p \in Peers : PeerIs(c, w, p, L[p], G[p], T[p], B[p], A[p], M[p])
    PROVE  PeersAre(c, w, L, G, T, B, A, M)
BY Zenon DEF PeersAre, PeerIs

\* A step of one peer.
LEMMA OneChanges ==
    ASSUME NEW c, NEW w, NEW L, NEW G, NEW T, NEW B, NEW A, NEW M,
           PeersAre(c, w, L, G, T, B, A, M), NEW p \in Peers,
           NEW L2, NEW G2, NEW T2, NEW B2, NEW A2, NEW M2,
           \A q \in Peers \ {p} : /\ L2[q] = L[q] /\ G2[q] = G[q] /\ T2[q] = T[q]
                                  /\ B2[q] = B[q] /\ A2[q] = A[q] /\ M2[q] = M[q],
           PeerIs(c, w, p, L2[p], G2[p], T2[p], B2[p], A2[p], M2[p])
    PROVE  PeersAre(c, w, L2, G2, T2, B2, A2, M2)
<1>1. ASSUME NEW q \in Peers
      PROVE  IF q \in w
             THEN Reporting(c, L2[q], G2[q], T2[q], B2[q], A2[q], M2[q])
             ELSE Follows(c, L2[q], G2[q], T2[q], B2[q], A2[q], M2[q])
  <2>1. CASE q = p
    BY <2>1, Zenon DEF PeerIs
  <2>2. CASE q # p
    <3>1. /\ L2[q] = L[q] /\ G2[q] = G[q] /\ T2[q] = T[q]
          /\ B2[q] = B[q] /\ A2[q] = A[q] /\ M2[q] = M[q]
      BY <2>2
    <3> QED
      BY <3>1, Zenon DEF PeersAre
  <2> QED
    BY <2>1, <2>2, Zenon
<1> QED
  BY <1>1, Zenon DEF PeersAre

\* What bounds a peer, and that it is typed and sound.
LEMMA IsSound ==
    ASSUME NEW c \in Nat, NEW w, NEW p, NEW L, NEW G, NEW T, NEW B, NEW A, NEW M,
           PeerIs(c, w, p, L, G, T, B, A, M)
    PROVE  /\ PeerTyped(L, G, T, B, A, M)
           /\ p \in w => Reports(M, L, G, T)
           /\ p \notin w => Heard(M, L, G, T)
           /\ \E b \in Nat : /\ PeerSound(b, L, G, T, B, A, M)
                             /\ b = IF p \in w THEN Greater(c, Head(M).route_floor) ELSE c
<1>1. CASE p \in w
  <2>1. Reporting(c, L, G, T, B, A, M)
    BY <1>1 DEF PeerIs
  <2> DEFINE b == Greater(c, Head(M).route_floor)
  <2>2. b \in Nat
    BY <2>1, ReportingFloor, Larger
  <2>3. PeerSound(b, L, G, T, B, A, M)
    BY <2>1 DEF Reporting
  <2> QED
    BY <1>1, <2>1, <2>2, <2>3, Zenon DEF Reporting
<1>2. CASE p \notin w
  <2>1. Follows(c, L, G, T, B, A, M)
    BY <1>2 DEF PeerIs
  <2> QED
    BY <1>2, <2>1, Zenon DEF Follows
<1> QED
  BY <1>1, <1>2, Zenon

LEMMA IsAgain ==
    ASSUME NEW c, NEW b, NEW w, NEW p, NEW L, NEW G, NEW T, NEW B, NEW A, NEW M,
           PeerTyped(L, G, T, B, A, M), PeerSound(b, L, G, T, B, A, M),
           b = IF p \in w THEN Greater(c, Head(M).route_floor) ELSE c,
           p \in w => Reports(M, L, G, T), p \notin w => Heard(M, L, G, T)
    PROVE  PeerIs(c, w, p, L, G, T, B, A, M)
BY Zenon DEF PeerIs, Reporting, Follows

\* What a peer that mints has.
IsMinted(c, w, p, L, G, T, B, A, M, r) ==
    /\ PeerIs(c, w, p, Minting(L), G, T, B \cup {r}, Append(A, r), M)
    /\ r \in Nat \ {0} /\ r \in Held(L, T) /\ Held(Minting(L), T) = Held(L, T) \ {r}

LEMMA IsMinting ==
    ASSUME NEW c \in Nat, NEW w, NEW p, NEW L, NEW G, NEW T, NEW B, NEW A, NEW M,
           PeerIs(c, w, p, L, G, T, B, A, M), lease_remaining(L) > 0
    PROVE  IsMinted(c, w, p, L, G, T, B, A, M, Head(lease_spans(L)).next)
<1> DEFINE r == Head(lease_spans(L)).next
<1>1. /\ PeerTyped(L, G, T, B, A, M)
      /\ p \in w => Reports(M, L, G, T)
      /\ p \notin w => Heard(M, L, G, T)
      /\ \E b \in Nat : /\ PeerSound(b, L, G, T, B, A, M)
                        /\ b = IF p \in w THEN Greater(c, Head(M).route_floor) ELSE c
  BY IsSound
<1>2. PICK b \in Nat : /\ PeerSound(b, L, G, T, B, A, M)
                       /\ b = IF p \in w THEN Greater(c, Head(M).route_floor) ELSE c
  BY <1>1
<1>3. /\ PeerTyped(Minting(L), G, T, B \cup {r}, Append(A, r), M)
      /\ PeerSound(b, Minting(L), G, T, B \cup {r}, Append(A, r), M)
      /\ r \in Spans(L) /\ Spans(Minting(L)) = Spans(L) \ {r}
      /\ r \notin Spans(T)
  BY <1>1, <1>2, PeerMints
<1> HIDE DEF r
<1>4. r \in Nat \ {0}
  BY <1>3 DEF PeerTyped
<1>5. r \in Held(L, T) /\ Held(Minting(L), T) = Held(L, T) \ {r}
  BY <1>3 DEF Held
<1>6. /\ p \in w => Reports(M, Minting(L), G, T)
      /\ p \notin w => Heard(M, Minting(L), G, T)
  BY <1>1, <1>3, <1>5 DEF Reports, Heard
<1>7. PeerIs(c, w, p, Minting(L), G, T, B \cup {r}, Append(A, r), M)
  BY <1>2, <1>3, <1>6, IsAgain
<1> QED
  BY <1>4, <1>5, <1>7 DEF r, IsMinted

\* A client mints the next route it was given.
LEMMA ClientMintsSound ==
    ASSUME Assumptions, IInv, NEW p \in Peers, ClientMints(p)
    PROVE  /\ IInv'
           /\ to_client' = to_client /\ p \in Clients
           /\ \A q \in Peers \ {p} : lease'[q] = lease[q]
           /\ \E r \in Held(lease[p], to_client[p]) :
                  /\ Held(lease'[p], to_client'[p]) = Held(lease[p], to_client[p]) \ {r}
                  /\ by_route' = Learned(by_route, {p}, r)
<1> DEFINE c == counter[server]
           r == Head(lease_spans(lease[p])).next
           L2 == Minting(lease[p])
           B2 == by_route[p] \cup {r}
           A2 == Append(armed[p], r)
<1>1. /\ Shape /\ Book /\ Apart(lease, to_client, by_route)
      /\ PeersAre(c, awaited, lease, grants, to_client, by_route, armed, to_server)
  BY Views
<1>2. c \in Nat /\ p \in members /\ p # server
  BY <1>1 DEF Book, ClientMints, Clients
<1>3. lease_remaining(lease[p]) > 0
  BY DEF ClientMints
<1>4. /\ server' = server /\ members' = members /\ counter' = counter
      /\ grants' = grants
      /\ halted' = halted /\ awaited' = awaited /\ halt_leases' = halt_leases
      /\ halt_joins' = halt_joins
      /\ outbox' = outbox /\ to_server' = to_server /\ to_client' = to_client
  BY DEF ClientMints, halt, links
<1>5. /\ lease' = [lease EXCEPT ![p] = L2]
      /\ armed' = [armed EXCEPT ![p] = A2]
      /\ by_route' = Learned(by_route, {p}, r)
      /\ minted_high' = [minted_high EXCEPT ![p] = Max({@, r})]
  BY DEF ClientMints, Minting, Learn, Learned
<1> HIDE DEF c
<1>6. PeerIs(c, awaited, p, lease[p], grants[p], to_client[p], by_route[p], armed[p], to_server[p])
  BY <1>1, IsOne
<1>7. IsMinted(c, awaited, p, lease[p], grants[p], to_client[p], by_route[p], armed[p],
               to_server[p], r)
  BY <1>2, <1>3, <1>6, IsMinting
<1>8. PeerIs(c, awaited, p, L2, grants[p], to_client[p], B2, A2, to_server[p])
  BY <1>7 DEF IsMinted
<1>9. r \in Nat \ {0}
  BY <1>7 DEF IsMinted
<1>10. /\ r \in Held(lease[p], to_client[p])
       /\ Held(L2, to_client[p]) = Held(lease[p], to_client[p]) \ {r}
  BY <1>7 DEF IsMinted
<1> HIDE DEF r, L2, B2, A2
<1>11. /\ lease'[p] = L2 /\ armed'[p] = A2 /\ by_route'[p] = B2
       /\ \A q \in Peers \ {p} :
              lease'[q] = lease[q] /\ armed'[q] = armed[q] /\ by_route'[q] = by_route[q]
  BY <1>1, <1>5 DEF Shape, OnPeers, Learned, B2
<1>12. PeersAre(c, awaited, lease', grants, to_client, by_route', armed', to_server)
  <2>1. PeerIs(c, awaited, p, lease'[p], grants[p], to_client[p], by_route'[p], armed'[p], to_server[p])
    BY <1>8, <1>11
  <2> QED
    BY <1>1, <1>11, <2>1, OneChanges
<1>13. Apart(lease', to_client, by_route')
  <2>1. \A q \in Peers : Held(lease'[q], to_client[q]) \subseteq Held(lease[q], to_client[q])
    BY <1>10, <1>11
  <2>2. \A q \in Peers : r \notin Held(lease'[q], to_client[q])
    BY <1>1, <1>10, <1>11 DEF Apart
  <2>3. Apart(lease', to_client, by_route)
    BY <1>1, <2>1 DEF Apart
  <2> QED
    BY <1>5, <2>2, <2>3, ApartLearned
<1>14. Shape'
  BY <1>1, <1>4, <1>5 DEF Shape, OnPeers, Learned
<1>15. Book'
  <2>1. minted_high' \in [Peers -> Nat]
    <3>1. minted_high[p] \in Nat /\ Max({minted_high[p], r}) = Greater(minted_high[p], r)
      BY <1>1, <1>9, Larger DEF Book
    <3> QED
      BY <1>1, <1>5, <1>9, <3>1, Larger DEF Book
  <2> QED
    BY <1>1, <1>2, <1>4, <1>11, <2>1 DEF Book, Clients
<1>16. IInv'
  BY <1>4, <1>12, <1>13, <1>14, <1>15, Kept DEF c
<1> QED
  BY <1>2, <1>4, <1>5, <1>10, <1>11, <1>16 DEF Clients

-----------------------------------------------------------------------------
(* What the actions of one peer do to it.                                   *)

\* It sends the next spawn.
LEMMA IsSending ==
    ASSUME NEW c \in Nat, NEW w, NEW p, NEW L, NEW G, NEW T, NEW B, NEW A, NEW M,
           PeerIs(c, w, p, L, G, T, B, A, M), A # <<>>,
           NEW f, f = [kind |-> "spawn", route |-> Head(A)]
    PROVE  PeerIs(c, w, p, L, G, T, B, Tail(A), Append(M, f))
<1>1. /\ PeerTyped(L, G, T, B, A, M)
      /\ p \in w => Reports(M, L, G, T)
      /\ p \notin w => Heard(M, L, G, T)
      /\ \E b \in Nat : /\ PeerSound(b, L, G, T, B, A, M)
                        /\ b = IF p \in w THEN Greater(c, Head(M).route_floor) ELSE c
  BY IsSound
<1>2. PICK b \in Nat : /\ PeerSound(b, L, G, T, B, A, M)
                       /\ b = IF p \in w THEN Greater(c, Head(M).route_floor) ELSE c
  BY <1>1
<1>3. /\ PeerTyped(L, G, T, B, Tail(A), Append(M, f))
      /\ PeerSound(b, L, G, T, B, Tail(A), Append(M, f))
  BY <1>1, <1>2, PeerSends
<1>4. /\ M \in Seq(Frames) /\ f \in Frames /\ f.kind = "spawn"
  <2>1. Head(A) \in Nat \ {0}
    BY <1>1, Shrinks DEF PeerTyped
  <2> QED
    BY <1>1, <2>1 DEF PeerTyped, Frames, SpawnFrame
<1>5. /\ Len(M) \in Nat /\ DOMAIN M = 1 .. Len(M)
      /\ DOMAIN Append(M, f) = 1 .. Len(M) + 1
      /\ \A i \in 1 .. Len(M) : Append(M, f)[i] = M[i]
      /\ Append(M, f)[Len(M) + 1] = f
  BY <1>4, Grows
<1>6. \A n \in DOMAIN Append(M, f) :
          (n \in DOMAIN M /\ Append(M, f)[n] = M[n]) \/ Append(M, f)[n] = f
  BY <1>5
<1>7. M # <<>> => Head(Append(M, f)) = Head(M) /\ Append(M, f) # <<>>
  <2>1. M # <<>> => 1 \in DOMAIN M /\ Head(M) = M[1]
    BY <1>4, Shrinks
  <2>2. M # <<>> => 1 \in 1 .. Len(M)
    BY <1>5, <2>1
  <2>3. Append(M, f) \in Seq(Frames) /\ Append(M, f) # <<>>
    <3>1. Append(M, f) \in Seq(Frames)
      BY <1>4, Grows
    <3>2. 1 \in DOMAIN Append(M, f) /\ DOMAIN <<>> = {}
      BY <1>5
    <3> QED
      BY <3>1, <3>2
  <2>4. Head(Append(M, f)) = Append(M, f)[1]
    BY <2>3, Shrinks
  <2> QED
    BY <1>5, <2>1, <2>2, <2>3, <2>4
<1>8. p \in w => /\ Reports(Append(M, f), L, G, T) /\ Head(Append(M, f)) = Head(M)
  BY <1>1, <1>4, <1>6, <1>7 DEF Reports
<1>9. p \notin w => Heard(Append(M, f), L, G, T)
  BY <1>1, <1>4, <1>6 DEF Heard
<1> QED
  BY <1>2, <1>3, <1>8, <1>9, IsAgain

\* A body it minted for is gone.
LEMMA IsDiscarding ==
    ASSUME NEW c \in Nat, NEW w, NEW p, NEW L, NEW G, NEW T, NEW B, NEW A, NEW M,
           PeerIs(c, w, p, L, G, T, B, A, M), A # <<>>
    PROVE  PeerIs(c, w, p, L, G, T, B, Tail(A), M)
<1>1. /\ PeerTyped(L, G, T, B, A, M)
      /\ p \in w => Reports(M, L, G, T)
      /\ p \notin w => Heard(M, L, G, T)
      /\ \E b \in Nat : /\ PeerSound(b, L, G, T, B, A, M)
                        /\ b = IF p \in w THEN Greater(c, Head(M).route_floor) ELSE c
  BY IsSound
<1>2. PICK b \in Nat : /\ PeerSound(b, L, G, T, B, A, M)
                       /\ b = IF p \in w THEN Greater(c, Head(M).route_floor) ELSE c
  BY <1>1
<1>3. Tail(A) \in Seq(Nat \ {0}) /\ ToSet(Tail(A)) \subseteq ToSet(A)
  BY <1>1, Shrinks DEF PeerTyped
<1>4. PeerTyped(L, G, T, B, Tail(A), M)
  BY <1>1, <1>3 DEF PeerTyped
<1>5. PeerSound(b, L, G, T, B, Tail(A), M)
  <2>1. MintedBefore(L, T, B, A, M) => MintedBefore(L, T, B, Tail(A), M)
    BY <1>3 DEF MintedBefore
  <2> QED
    BY <1>2, <2>1 DEF PeerSound
<1> QED
  BY <1>1, <1>2, <1>4, <1>5, IsAgain

\* A lease comes: only a peer that is not awaited was sent one.
LEMMA IsTaking ==
    ASSUME NEW c \in Nat, NEW w, NEW p, NEW L, NEW G, NEW T, NEW B, NEW A, NEW M,
           PeerIs(c, w, p, L, G, T, B, A, M), T # <<>>
    PROVE  /\ PeerIs(c, w, p, Append(L, Head(T)), G, Tail(T), B, A, M)
           /\ Held(Append(L, Head(T)), Tail(T)) = Held(L, T)
<1>1. /\ PeerTyped(L, G, T, B, A, M)
      /\ p \in w => Reports(M, L, G, T)
      /\ p \notin w => Heard(M, L, G, T)
      /\ \E b \in Nat : /\ PeerSound(b, L, G, T, B, A, M)
                        /\ b = IF p \in w THEN Greater(c, Head(M).route_floor) ELSE c
  BY IsSound
<1>2. PICK b \in Nat : /\ PeerSound(b, L, G, T, B, A, M)
                       /\ b = IF p \in w THEN Greater(c, Head(M).route_floor) ELSE c
  BY <1>1
<1>3. p \notin w
  BY <1>1 DEF Reports
<1>4. /\ PeerTyped(Append(L, Head(T)), G, Tail(T), B, A, M)
      /\ PeerSound(b, Append(L, Head(T)), G, Tail(T), B, A, M)
      /\ Held(Append(L, Head(T)), Tail(T)) = Held(L, T)
  BY <1>1, <1>2, PeerTakes
<1>5. Heard(M, Append(L, Head(T)), G, Tail(T))
  BY <1>1, <1>3, <1>4 DEF Heard
<1> QED
  BY <1>2, <1>3, <1>4, <1>5, IsAgain

\* Its next frame is a spawn, so it is not awaited; the spawn is dropped or admitted.
IsHeard(c, w, p, L, G, T, B, A, M, r) ==
    /\ p \notin w
    /\ PeerIs(c, w, p, L, G, T, B, A, Tail(M))
    /\ lease_holds(G, r) => PeerIs(c, w, p, L, spend_lease(G, r), T, B, A, Tail(M)) /\ r \in B

LEMMA IsSpawning ==
    ASSUME NEW c \in Nat, NEW w, NEW p, NEW L, NEW G, NEW T, NEW B, NEW A, NEW M,
           PeerIs(c, w, p, L, G, T, B, A, M), M # <<>>, Head(M).kind = "spawn"
    PROVE  IsHeard(c, w, p, L, G, T, B, A, M, Head(M).route)
<1> DEFINE r == Head(M).route
<1>1. /\ PeerTyped(L, G, T, B, A, M)
      /\ p \in w => Reports(M, L, G, T)
      /\ p \notin w => Heard(M, L, G, T)
      /\ \E b \in Nat : /\ PeerSound(b, L, G, T, B, A, M)
                        /\ b = IF p \in w THEN Greater(c, Head(M).route_floor) ELSE c
  BY IsSound
<1>2. PICK b \in Nat : /\ PeerSound(b, L, G, T, B, A, M)
                       /\ b = IF p \in w THEN Greater(c, Head(M).route_floor) ELSE c
  BY <1>1
<1>3. p \notin w
  BY <1>1 DEF Reports
<1>4. /\ Tail(M) \in Seq(Frames)
      /\ \A i \in DOMAIN Tail(M) : i + 1 \in DOMAIN M /\ Tail(M)[i] = M[i + 1]
  BY <1>1, Shrinks DEF PeerTyped
<1>5. \A n \in DOMAIN Tail(M) : \E m \in DOMAIN M : Tail(M)[n] = M[m]
  BY <1>4
<1>6. PeerIs(c, w, p, L, G, T, B, A, Tail(M))
  <2>1. PeerTyped(L, G, T, B, A, Tail(M))
    BY <1>1, <1>4 DEF PeerTyped
  <2>2. PeerSound(b, L, G, T, B, A, Tail(M))
    <3>1. MintedBefore(L, T, B, A, M) => MintedBefore(L, T, B, A, Tail(M))
      BY <1>5 DEF MintedBefore
    <3> QED
      BY <1>2, <3>1 DEF PeerSound
  <2>3. Heard(Tail(M), L, G, T)
    BY <1>1, <1>3, <1>5 DEF Heard
  <2> QED
    BY <1>2, <1>3, <2>1, <2>2, <2>3, IsAgain
<1>7. ASSUME lease_holds(G, r)
      PROVE  PeerIs(c, w, p, L, spend_lease(G, r), T, B, A, Tail(M)) /\ r \in B
  <2> DEFINE G2 == spend_lease(G, r)
  <2>1. /\ PeerTyped(L, G2, T, B, A, Tail(M))
        /\ PeerSound(b, L, G2, T, B, A, Tail(M))
        /\ Heard(M, L, G, T) => Heard(Tail(M), L, G2, T)
        /\ r \in B
    BY <1>1, <1>2, <1>7, PeerSpends
  <2> HIDE DEF G2
  <2>2. PeerIs(c, w, p, L, G2, T, B, A, Tail(M))
    BY <1>1, <1>2, <1>3, <2>1, IsAgain
  <2> QED
    BY <2>1, <2>2 DEF G2
<1> QED
  BY <1>3, <1>6, <1>7 DEF IsHeard

-----------------------------------------------------------------------------
(* The steps of the system.                                                  *)

\* What a step does to the routes when the peers "gone" lose theirs: what a peer may
\* mint it could mint before, or nobody that stays could, and no route is bound anew.
Passes(gone) ==
    /\ gone \subseteq Peers
    /\ \A p \in Peers : \A x \in Held(lease'[p], to_client'[p]) :
           /\ p \notin gone
           /\ \/ x \in Held(lease[p], to_client[p])
              \/ \A q \in Peers \ gone : x \notin Held(lease[q], to_client[q])
    /\ \A p \in Peers : \A r \in by_route'[p] : \E q \in Peers : r \in by_route[q]

\* What a step of one peer leaves alone.
Calm ==
    /\ server' = server /\ members' = members /\ counter' = counter
    /\ minted_high' = minted_high /\ halted' = halted /\ awaited' = awaited
    /\ halt_leases' = halt_leases /\ halt_joins' = halt_joins /\ outbox' = outbox

\* The peers that a step does not touch.
SamePeer(p) ==
    /\ lease'[p] = lease[p] /\ grants'[p] = grants[p] /\ to_client'[p] = to_client[p]
    /\ by_route'[p] = by_route[p] /\ armed'[p] = armed[p] /\ to_server'[p] = to_server[p]

LEMMA PeerStep ==
    ASSUME IInv, NEW p \in Peers, Calm, by_route' = by_route,
           OnPeers(lease'), OnPeers(grants'), OnPeers(to_client'), OnPeers(armed'),
           OnPeers(to_server'),
           \A q \in Peers \ {p} : SamePeer(q),
           p \notin Clients => /\ lease'[p] = lease[p] /\ grants'[p] = grants[p]
                               /\ to_client'[p] = to_client[p] /\ to_server'[p] = to_server[p],
           PeerIs(counter[server], awaited, p, lease'[p], grants'[p], to_client'[p], by_route'[p],
                  armed'[p], to_server'[p]),
           Held(lease'[p], to_client'[p]) \subseteq Held(lease[p], to_client[p])
    PROVE  IInv' /\ Passes({})
<1>1. /\ Shape /\ Book /\ Apart(lease, to_client, by_route)
      /\ PeersAre(counter[server], awaited, lease, grants, to_client, by_route, armed, to_server)
  BY Views
<1>2. \A q \in Peers \ {p} :
          /\ lease'[q] = lease[q] /\ grants'[q] = grants[q] /\ to_client'[q] = to_client[q]
          /\ by_route'[q] = by_route[q] /\ armed'[q] = armed[q] /\ to_server'[q] = to_server[q]
  BY DEF SamePeer
<1>3. PeersAre(counter[server], awaited, lease', grants', to_client', by_route', armed', to_server')
  BY <1>1, <1>2, OneChanges
<1>4. \A q \in Peers : Held(lease'[q], to_client'[q]) \subseteq Held(lease[q], to_client[q])
  BY <1>2
<1>5. Apart(lease', to_client', by_route')
  BY <1>1, <1>4 DEF Apart
<1>6. Shape'
  BY <1>1 DEF Shape, OnPeers
<1>7. Book'
  <2>1. \A q \in Peers \ Clients :
            lease'[q] = <<>> /\ grants'[q] = <<>> /\ to_client'[q] = <<>> /\ to_server'[q] = <<>>
    BY <1>1, <1>2 DEF Book
  <2>2. Clients' = Clients
    BY DEF Calm, Clients
  <2> QED
    BY <1>1, <2>1, <2>2 DEF Book, Calm
<1>8. PeersAre(counter'[server'], awaited', lease', grants', to_client', by_route', armed',
               to_server')
  BY <1>3 DEF Calm
<1>9. IInv'
  BY <1>5, <1>6, <1>7, <1>8, Kept
<1> QED
  BY <1>4, <1>9 DEF Passes

LEMMA DiscardArmedSound ==
    ASSUME IInv, NEW p \in Peers, DiscardArmed(p)
    PROVE  IInv' /\ Passes({})
<1>1. /\ Shape
      /\ PeersAre(counter[server], awaited, lease, grants, to_client, by_route, armed, to_server)
      /\ counter[server] \in Nat
  BY Views DEF Book
<1>2. /\ Calm /\ lease' = lease /\ grants' = grants /\ to_client' = to_client
      /\ by_route' = by_route /\ to_server' = to_server /\ armed[p] # <<>>
      /\ armed' = [armed EXCEPT ![p] = Tail(armed[p])]
  BY DEF DiscardArmed, Calm, halt, links
<1>3. armed'[p] = Tail(armed[p]) /\ OnPeers(armed') /\ \A q \in Peers \ {p} : armed'[q] = armed[q]
  BY <1>1, <1>2 DEF Shape, OnPeers
<1>4. PeerIs(counter[server], awaited, p, lease[p], grants[p], to_client[p], by_route[p], armed[p],
             to_server[p])
  BY <1>1, IsOne
<1>5. PeerIs(counter[server], awaited, p, lease[p], grants[p], to_client[p], by_route[p],
             Tail(armed[p]), to_server[p])
  BY <1>1, <1>2, <1>4, IsDiscarding
<1>6. PeerIs(counter[server], awaited, p, lease'[p], grants'[p], to_client'[p], by_route'[p],
             armed'[p], to_server'[p])
  BY <1>2, <1>3, <1>5
<1>7. \A q \in Peers \ {p} : SamePeer(q)
  BY <1>2, <1>3 DEF SamePeer
<1>8. OnPeers(lease') /\ OnPeers(grants') /\ OnPeers(to_client') /\ OnPeers(to_server')
  BY <1>1, <1>2 DEF Shape, OnPeers
<1>9. Held(lease'[p], to_client'[p]) \subseteq Held(lease[p], to_client[p])
  BY <1>2
<1>10. p \notin Clients => /\ lease'[p] = lease[p] /\ grants'[p] = grants[p]
                           /\ to_client'[p] = to_client[p] /\ to_server'[p] = to_server[p]
  BY <1>2
<1> QED
  BY <1>2, <1>3, <1>6, <1>7, <1>8, <1>9, <1>10, PeerStep

LEMMA DropSpawnSound ==
    ASSUME IInv, NEW p \in Peers, DropSpawn(p)
    PROVE  IInv' /\ Passes({})
<1>1. /\ Shape
      /\ PeersAre(counter[server], awaited, lease, grants, to_client, by_route, armed, to_server)
      /\ counter[server] \in Nat
  BY Views DEF Book
<1>2. /\ Calm /\ lease' = lease /\ grants' = grants /\ to_client' = to_client
      /\ by_route' = by_route /\ armed' = armed /\ p \in Clients
      /\ to_server[p] # <<>> /\ Head(to_server[p]).kind = "spawn"
      /\ to_server' = [to_server EXCEPT ![p] = Tail(to_server[p])]
  BY DEF DropSpawn, Received, Consumed, Calm, halt
<1>3. /\ to_server'[p] = Tail(to_server[p]) /\ OnPeers(to_server')
      /\ \A q \in Peers \ {p} : to_server'[q] = to_server[q]
  BY <1>1, <1>2 DEF Shape, OnPeers
<1>4. PeerIs(counter[server], awaited, p, lease[p], grants[p], to_client[p], by_route[p], armed[p],
             to_server[p])
  BY <1>1, IsOne
<1>5. PeerIs(counter[server], awaited, p, lease[p], grants[p], to_client[p], by_route[p],
             armed[p], Tail(to_server[p]))
  BY <1>1, <1>2, <1>4, IsSpawning DEF IsHeard
<1>6. PeerIs(counter[server], awaited, p, lease'[p], grants'[p], to_client'[p], by_route'[p],
             armed'[p], to_server'[p])
  BY <1>2, <1>3, <1>5
<1>7. \A q \in Peers \ {p} : SamePeer(q)
  BY <1>2, <1>3 DEF SamePeer
<1>8. OnPeers(lease') /\ OnPeers(grants') /\ OnPeers(to_client') /\ OnPeers(armed')
  BY <1>1, <1>2 DEF Shape, OnPeers
<1>9. Held(lease'[p], to_client'[p]) \subseteq Held(lease[p], to_client[p])
  BY <1>2
<1> QED
  BY <1>2, <1>3, <1>6, <1>7, <1>8, <1>9, PeerStep

LEMMA TakeLeaseSound ==
    ASSUME IInv, NEW p \in Peers, TakeLease(p)
    PROVE  IInv' /\ Passes({})
<1>1. /\ Shape
      /\ PeersAre(counter[server], awaited, lease, grants, to_client, by_route, armed, to_server)
      /\ counter[server] \in Nat
  BY Views DEF Book
<1>2. /\ Calm /\ grants' = grants /\ to_server' = to_server
      /\ by_route' = by_route /\ armed' = armed /\ p \in Clients /\ to_client[p] # <<>>
      /\ to_client' = [to_client EXCEPT ![p] = Tail(to_client[p])]
      /\ lease' = [lease EXCEPT ![p] = Append(lease[p], Head(to_client[p]))]
  BY DEF TakeLease, Calm, halt
<1>3. /\ to_client'[p] = Tail(to_client[p]) /\ OnPeers(to_client')
      /\ lease'[p] = Append(lease[p], Head(to_client[p])) /\ OnPeers(lease')
      /\ \A q \in Peers \ {p} : to_client'[q] = to_client[q] /\ lease'[q] = lease[q]
  BY <1>1, <1>2 DEF Shape, OnPeers
<1>4. PeerIs(counter[server], awaited, p, lease[p], grants[p], to_client[p], by_route[p], armed[p],
             to_server[p])
  BY <1>1, IsOne
<1>5. /\ PeerIs(counter[server], awaited, p, Append(lease[p], Head(to_client[p])), grants[p],
                Tail(to_client[p]), by_route[p], armed[p], to_server[p])
      /\ Held(Append(lease[p], Head(to_client[p])), Tail(to_client[p]))
             = Held(lease[p], to_client[p])
  BY <1>1, <1>2, <1>4, IsTaking
<1>6. PeerIs(counter[server], awaited, p, lease'[p], grants'[p], to_client'[p], by_route'[p],
             armed'[p], to_server'[p])
  BY <1>2, <1>3, <1>5
<1>7. \A q \in Peers \ {p} : SamePeer(q)
  BY <1>2, <1>3 DEF SamePeer
<1>8. OnPeers(grants') /\ OnPeers(to_server') /\ OnPeers(armed')
  BY <1>1, <1>2 DEF Shape, OnPeers
<1>9. Held(lease'[p], to_client'[p]) \subseteq Held(lease[p], to_client[p])
  BY <1>3, <1>5
<1> QED
  BY <1>2, <1>3, <1>6, <1>7, <1>8, <1>9, PeerStep

LEMMA FlushArmedSound ==
    ASSUME IInv, NEW p \in Peers, FlushArmed(p)
    PROVE  IInv' /\ Passes({})
<1> DEFINE c == counter[server]
           r == Head(armed[p])
           f == [kind |-> "spawn", route |-> r]
<1>1. /\ Shape /\ Book /\ Apart(lease, to_client, by_route)
      /\ PeersAre(c, awaited, lease, grants, to_client, by_route, armed, to_server)
      /\ c \in Nat
  BY Views DEF Book
<1>2. /\ Calm /\ lease' = lease /\ grants' = grants /\ to_client' = to_client
      /\ armed' = [armed EXCEPT ![p] = Tail(armed[p])] /\ armed[p] # <<>> /\ p \in members
  BY DEF FlushArmed, Calm, halt
<1>3. /\ armed'[p] = Tail(armed[p]) /\ OnPeers(armed')
      /\ \A q \in Peers \ {p} : armed'[q] = armed[q]
      /\ OnPeers(lease') /\ OnPeers(grants') /\ OnPeers(to_client')
  BY <1>1, <1>2 DEF Shape, OnPeers
<1>4. PeerIs(c, awaited, p, lease[p], grants[p], to_client[p], by_route[p], armed[p], to_server[p])
  BY <1>1, IsOne
<1>5. CASE p # server
  <2>1. by_route' = by_route /\ to_server' = [to_server EXCEPT ![p] = Append(to_server[p], f)]
    BY <1>5 DEF FlushArmed
  <2>2. /\ to_server'[p] = Append(to_server[p], f) /\ OnPeers(to_server')
        /\ \A q \in Peers \ {p} : to_server'[q] = to_server[q]
    BY <1>1, <2>1 DEF Shape, OnPeers
  <2>3. PeerIs(c, awaited, p, lease[p], grants[p], to_client[p], by_route[p], Tail(armed[p]),
               Append(to_server[p], f))
    BY <1>1, <1>2, <1>4, IsSending
  <2> HIDE DEF c, f
  <2>4. PeerIs(c, awaited, p, lease'[p], grants'[p], to_client'[p], by_route'[p], armed'[p],
               to_server'[p])
    BY <1>2, <1>3, <2>1, <2>2, <2>3
  <2>5. \A q \in Peers \ {p} : SamePeer(q)
    BY <1>2, <1>3, <2>1, <2>2 DEF SamePeer
  <2>6. Held(lease'[p], to_client'[p]) \subseteq Held(lease[p], to_client[p])
    BY <1>2
  <2>7. p \in Clients
    BY <1>2, <1>5 DEF Clients
  <2> QED
    BY <1>2, <1>3, <2>1, <2>2, <2>4, <2>5, <2>6, <2>7, PeerStep DEF c
<1>6. CASE p = server
  <2>1. to_server' = to_server
    BY <1>6 DEF FlushArmed
  <2>2. PICK S \in SUBSET Clients : by_route' = Learned(by_route, S, r)
    BY <1>6 DEF FlushArmed, Learn, Learned
  <2>3. PeersAre(c, awaited, lease, grants, to_client, by_route, armed', to_server)
    <3>1. PeerIs(c, awaited, p, lease[p], grants[p], to_client[p], by_route[p], armed'[p],
                 to_server[p])
      BY <1>1, <1>2, <1>3, <1>4, IsDiscarding
    <3> HIDE DEF c
    <3>2. ASSUME NEW q \in Peers
          PROVE  PeerIs(c, awaited, q, lease[q], grants[q], to_client[q], by_route[q], armed'[q],
                        to_server[q])
      <4>1. CASE q = p
        BY <3>1, <4>1
      <4>2. CASE q # p
        <5>1. armed'[q] = armed[q]
          BY <1>3, <4>2
        <5>2. PeerIs(c, awaited, q, lease[q], grants[q], to_client[q], by_route[q], armed[q],
                     to_server[q])
          BY <1>1, IsOne
        <5> QED
          BY <5>1, <5>2
      <4> QED
        BY <4>1, <4>2
    <3> QED
      BY <3>2, Zenon DEF PeersAre, PeerIs
  <2>4. r \in by_route[p] /\ r \in Nat \ {0} /\ r <= c
    <3>1. PeerIs(c, awaited, p, lease[p], grants[p], to_client[p], by_route[p], armed[p],
                 to_server[p]) /\ p \notin awaited
      BY <1>1, <1>4, <1>6 DEF Book, Clients
    <3>2. /\ armed[p] \in Seq(Nat \ {0}) /\ ToSet(armed[p]) \subseteq by_route[p]
          /\ PeerTyped(lease[p], grants[p], to_client[p], by_route[p], armed[p], to_server[p])
          /\ PeerSound(c, lease[p], grants[p], to_client[p], by_route[p], armed[p], to_server[p])
      BY <3>1 DEF PeerIs, Follows, PeerTyped, PeerSound, MintedBefore
    <3>3. r \in ToSet(armed[p]) /\ r \in Nat \ {0}
      BY <1>2, <3>2, Shrinks DEF ToSet
    <3> QED
      BY <1>1, <3>2, <3>3 DEF PeerSound, Below
  <2> HIDE DEF c, r
  <2>5. PeersAre(c, awaited, lease, grants, to_client, by_route', armed', to_server)
    BY <1>1, <2>2, <2>3, <2>4, PeersLearn
  <2>6. Apart(lease, to_client, by_route')
    <3>1. \A q \in Peers : r \notin Held(lease[q], to_client[q])
      BY <1>1, <2>4 DEF Apart
    <3> QED
      BY <1>1, <2>2, <3>1, ApartLearned
  <2>7. Shape'
    BY <1>1, <1>3, <2>1, <2>2 DEF Shape, OnPeers, Learned
  <2>8. Book'
    <3>1. \A q \in Peers \ members : by_route'[q] = {}
      BY <1>1, <2>2 DEF Book, Clients, Learned
    <3> QED
      BY <1>1, <1>2, <2>1, <3>1 DEF Book, Calm, Clients
  <2>9. IInv'
    BY <1>2, <2>1, <2>5, <2>6, <2>7, <2>8, Kept DEF Calm, c
  <2>10. \A q \in Peers : \A x \in by_route'[q] : x \in by_route[q] \/ x \in by_route[p]
    BY <2>2, <2>4 DEF Learned
  <2> QED
    BY <1>2, <2>9, <2>10 DEF Passes
<1> QED
  BY <1>5, <1>6

\* What of the joins and leases comes with a grant, when nobody is awaited.
LEMMA GrantedKept ==
    ASSUME Book, NEW gs, NEW out, NEW ps \in SUBSET Peers, NEW stay, NEW c,
           awaited = {}, server' = server, awaited' = awaited, halted' = halted,
           halt_leases' = halt_leases, halt_joins' = halt_joins, outbox' = outbox,
           minted_high' \in [Peers -> Nat],
           members' = stay, members \subseteq stay, stay \subseteq Peers,
           stay \cap halt_joins = {}, ps \subseteq stay \ {server},
           OnPeers(lease'), OnPeers(by_route'), OnPeers(armed'), OnPeers(to_server'),
           \A p \in Peers \ (stay \ {server}) :
               lease'[p] = <<>> /\ gs[p] = <<>> /\ out[p] = <<>> /\ to_server'[p] = <<>>,
           \A p \in Peers \ stay : by_route'[p] = {},
           Granted(c, gs, out, ps, lease', by_route', armed', to_server')
    PROVE  IInv'
<1>1. Shape'
  BY DEF Shape, Granted, OnPeers
<1>2. Book'
  <2>1. \A p \in Peers \ (stay \ {server}) : grants'[p] = <<>> /\ to_client'[p] = <<>>
    BY DEF Granted
  <2> QED
    BY <2>1 DEF Book, Clients, Granted
<1>3. Apart(lease', to_client', by_route')
  BY DEF Granted
<1>4. PeersAre(counter'[server'], awaited', lease', grants', to_client', by_route', armed',
               to_server')
  BY DEF Granted
<1> QED
  BY <1>1, <1>2, <1>3, <1>4, Kept

LEMMA AdmitSpawnSound ==
    ASSUME Assumptions, IInv, NEW p \in Peers, AdmitSpawn(p)
    PROVE  IInv' /\ Passes({})
<1> DEFINE c == counter[server]
           r == Head(to_server[p]).route
           left == spend_lease(grants[p], r)
           asks == IF Refill(left) THEN {p} ELSE {}
           gs == [grants EXCEPT ![p] = left]
           ps == IF halted THEN {} ELSE asks
<1>1. /\ Shape /\ Book /\ Apart(lease, to_client, by_route)
      /\ PeersAre(c, awaited, lease, grants, to_client, by_route, armed, to_server)
      /\ c \in Nat /\ counter \in [Peers -> Nat] /\ server \in Peers
  BY Views DEF Book
<1>2. /\ server' = server /\ members' = members /\ minted_high' = minted_high
      /\ lease' = lease /\ halted' = halted /\ awaited' = awaited /\ halt_joins' = halt_joins
      /\ armed' = armed /\ outbox' = outbox
      /\ halt_leases' = IF halted THEN halt_leases \cup asks ELSE halt_leases
      /\ liveness_grant_leases(counter, gs, to_client, ps)
      /\ p \in Clients /\ to_server[p] # <<>> /\ Head(to_server[p]).kind = "spawn"
      /\ lease_holds(grants[p], r)
      /\ to_server' = [to_server EXCEPT ![p] = Tail(to_server[p])]
  BY DEF AdmitSpawn, Received, Consumed
<1>3. PICK S \in SUBSET members : by_route' = Learned(by_route, S, r)
  <2>1. PICK S \in SUBSET (Clients \ {p}) : by_route' = Learned(by_route, {server} \cup S, r)
    BY DEF AdmitSpawn, Learn, Learned
  <2>2. {server} \cup S \in SUBSET members
    BY <1>1, <2>1 DEF Clients, Book
  <2> QED
    BY <2>1, <2>2
<1>4. /\ to_server'[p] = Tail(to_server[p]) /\ OnPeers(to_server')
      /\ gs[p] = left /\ OnPeers(gs)
      /\ \A q \in Peers \ {p} : to_server'[q] = to_server[q] /\ gs[q] = grants[q]
  BY <1>1, <1>2 DEF Shape, OnPeers
<1>5. asks \subseteq {p} /\ ps \in SUBSET Peers /\ ps \subseteq {p}
  OBVIOUS
<1> HIDE DEF asks
<1>6. PeerIs(c, awaited, p, lease[p], grants[p], to_client[p], by_route[p], armed[p], to_server[p])
  BY <1>1, IsOne
<1>7. /\ PeerIs(c, awaited, p, lease[p], left, to_client[p], by_route[p], armed[p],
                Tail(to_server[p]))
      /\ r \in by_route[p] /\ p \notin awaited
  <2>1. IsHeard(c, awaited, p, lease[p], grants[p], to_client[p], by_route[p], armed[p],
                to_server[p], r)
    BY <1>1, <1>2, <1>6, IsSpawning
  <2> QED
    BY <1>2, <2>1 DEF IsHeard
<1> HIDE DEF c, left, gs
<1>8. PeersAre(c, awaited, lease, gs, to_client, by_route, armed, to_server')
  <2>1. ASSUME NEW q \in Peers
        PROVE  PeerIs(c, awaited, q, lease[q], gs[q], to_client[q], by_route[q], armed[q],
                      to_server'[q])
    <3>1. CASE q = p
      BY <1>4, <1>7, <3>1
    <3>2. CASE q # p
      <4>1. PeerIs(c, awaited, q, lease[q], grants[q], to_client[q], by_route[q], armed[q],
                   to_server[q])
        BY <1>1, IsOne
      <4> QED
        BY <1>4, <3>2, <4>1
    <3> QED
      BY <3>1, <3>2
  <2> QED
    BY <2>1, AllAre
<1>9. /\ r \in Nat \ {0} /\ r <= c
      /\ \A q \in Peers : r \notin Held(lease[q], to_client[q])
  <2>1. /\ PeerTyped(lease[p], left, to_client[p], by_route[p], armed[p], Tail(to_server[p]))
        /\ PeerSound(c, lease[p], left, to_client[p], by_route[p], armed[p], Tail(to_server[p]))
    BY <1>7 DEF PeerIs, Follows
  <2> QED
    BY <1>1, <1>7, <2>1 DEF PeerTyped, PeerSound, Below, Apart
<1> HIDE DEF r
<1>10. /\ PeersAre(c, awaited, lease, gs, to_client, by_route', armed, to_server')
       /\ Apart(lease, to_client, by_route')
  BY <1>1, <1>3, <1>8, <1>9, PeersLearn, ApartLearned
<1>11. /\ OnPeers(lease') /\ OnPeers(by_route') /\ OnPeers(armed') /\ OnPeers(to_client)
       /\ \A q \in Peers \ (members \ {server}) :
              lease'[q] = <<>> /\ gs[q] = <<>> /\ to_client[q] = <<>> /\ to_server'[q] = <<>>
       /\ \A q \in Peers \ members : by_route'[q] = {}
  <2>1. \A q \in Peers \ (members \ {server}) : q # p
    BY <1>2 DEF Clients
  <2> QED
    BY <1>1, <1>2, <1>3, <1>4, <2>1 DEF Shape, Book, Clients, OnPeers, Learned
<1>12. \A q \in Peers : \A x \in by_route'[q] : x \in by_route[q] \/ x \in by_route[p]
  BY <1>3, <1>7 DEF Learned
<1>13. minted_high' \in [Peers -> Nat]
  BY <1>1, <1>2 DEF Book
<1>14. CASE halted
  <2>1. counter' = counter /\ grants' = gs /\ to_client' = to_client
    <3>1. liveness_grant_leases(counter, gs, to_client, {})
      BY <1>2, <1>14
    <3> QED
      BY <1>1, <1>4, <1>11, <3>1, GrantsNone DEF Assumptions
  <2>2. Shape'
    BY <1>4, <1>11, <2>1 DEF Shape, OnPeers
  <2>3. Book'
    <3>1. Clients' = Clients /\ halt_leases' \subseteq Clients
      BY <1>1, <1>2, <1>5 DEF Book, Clients
    <3>2. \A q \in Peers \ Clients :
              lease'[q] = <<>> /\ grants'[q] = <<>> /\ to_client'[q] = <<>> /\ to_server'[q] = <<>>
      BY <1>11, <2>1 DEF Clients
    <3>3. awaited' \subseteq Clients /\ halt_joins' \subseteq Peers \ members
          /\ halted' = (awaited' # {})
      BY <1>1, <1>2 DEF Book
    <3> QED
      BY <1>1, <1>2, <1>11, <2>1, <3>1, <3>2, <3>3 DEF Book
  <2>4. IInv'
    BY <1>2, <1>10, <2>1, <2>2, <2>3, Kept DEF c
  <2> QED
    BY <1>2, <1>12, <2>1, <2>4 DEF Passes
<1>15. CASE ~halted
  <2>1. /\ PeersAre(counter[server], {}, lease', gs, to_client, by_route', armed', to_server')
        /\ Apart(lease', to_client, by_route') /\ awaited = {}
    BY <1>1, <1>2, <1>10, <1>15 DEF Book, c
  <2>2. Granted(counter, gs, to_client, ps, lease', by_route', armed', to_server')
    <3>1. liveness_grant_leases(counter, gs, to_client, ps)
      BY <1>2
    <3> HIDE DEF ps
    <3> QED
      BY <1>1, <1>4, <1>5, <1>11, <2>1, <3>1, Granting
  <2> DEFINE stay == members
  <2>3. /\ members' = stay /\ members \subseteq stay /\ stay \subseteq Peers
        /\ stay \cap halt_joins = {} /\ halt_leases' = halt_leases
        /\ ps \subseteq stay \ {server}
        /\ \A q \in Peers \ (stay \ {server}) :
               lease'[q] = <<>> /\ gs[q] = <<>> /\ to_client[q] = <<>> /\ to_server'[q] = <<>>
        /\ \A q \in Peers \ stay : by_route'[q] = {}
    BY <1>1, <1>2, <1>5, <1>11, <1>15 DEF Book, Clients
  <2> HIDE DEF ps, stay
  <2>4. IInv'
    <3>1. /\ Book /\ ps \in SUBSET Peers /\ minted_high' \in [Peers -> Nat]
          /\ awaited = {} /\ server' = server /\ awaited' = awaited /\ halted' = halted
          /\ halt_joins' = halt_joins /\ outbox' = outbox
          /\ OnPeers(lease') /\ OnPeers(by_route') /\ OnPeers(armed') /\ OnPeers(to_server')
      BY <1>1, <1>2, <1>4, <1>5, <1>11, <1>13, <2>1
    <3> QED
      BY <2>2, <2>3, <3>1, GrantedKept
  <2>5. \A q \in Peers : \A x \in Held(lease'[q], to_client'[q]) :
            \/ x \in Held(lease[q], to_client[q])
            \/ \A o \in Peers : x \notin Held(lease[o], to_client[o])
    BY <1>2, <2>2 DEF Granted
  <2> QED
    BY <1>12, <2>4, <2>5 DEF Passes
<1> QED
  BY <1>14, <1>15

\* A join is granted a lease, or waits for the reports.
LEMMA JoinSound ==
    ASSUME Assumptions, IInv, NEW p \in Peers, Join(p)
    PROVE  IInv' /\ Passes({})
<1>1. /\ Shape /\ Book /\ Apart(lease, to_client, by_route)
      /\ PeersAre(counter[server], awaited, lease, grants, to_client, by_route, armed, to_server)
      /\ counter \in [Peers -> Nat] /\ server \in Peers
  BY Views DEF Book
<1>2. /\ server' = server /\ minted_high' = minted_high
      /\ lease' = lease /\ by_route' = by_route /\ halted' = halted /\ awaited' = awaited
      /\ halt_leases' = halt_leases /\ armed' = armed /\ outbox' = outbox
      /\ to_server' = to_server /\ p \notin members \cup halt_joins
  BY DEF Join
<1>3. CASE halted
  <2>1. /\ halt_joins' = halt_joins \cup {p} /\ members' = members /\ counter' = counter
        /\ grants' = grants /\ to_client' = to_client
    BY <1>3 DEF Join
  <2>2. Shape'
    BY <1>1, <1>2, <2>1 DEF Shape, OnPeers
  <2>3. Book'
    BY <1>1, <1>2, <2>1 DEF Book, Clients
  <2>4. IInv'
    BY <1>1, <1>2, <2>1, <2>2, <2>3, Kept
  <2> QED
    BY <1>2, <2>1, <2>4 DEF Passes
<1>4. CASE ~halted
  <2> DEFINE stay == members \cup {p}
             ps == {p}
  <2>1. /\ members' = stay /\ liveness_grant_leases(counter, grants, to_client, ps)
        /\ halt_joins' = halt_joins
    BY <1>4 DEF Join
  <2>2. /\ stay \subseteq Peers /\ members \subseteq stay /\ stay \cap halt_joins = {}
        /\ ps \in SUBSET Peers /\ ps \subseteq stay \ {server}
    BY <1>1, <1>2 DEF Book
  <2>3. /\ \A q \in Peers \ (stay \ {server}) :
               lease'[q] = <<>> /\ grants[q] = <<>> /\ to_client[q] = <<>> /\ to_server'[q] = <<>>
        /\ \A q \in Peers \ stay : by_route'[q] = {}
    BY <1>1, <1>2 DEF Book, Clients
  <2>4. /\ OnPeers(lease') /\ OnPeers(by_route') /\ OnPeers(armed') /\ OnPeers(to_server')
        /\ OnPeers(grants) /\ OnPeers(to_client) /\ minted_high' \in [Peers -> Nat]
    BY <1>1, <1>2 DEF Shape, Book, OnPeers
  <2>5. /\ PeersAre(counter[server], {}, lease', grants, to_client, by_route', armed', to_server')
        /\ Apart(lease', to_client, by_route') /\ awaited = {}
    BY <1>1, <1>2, <1>4 DEF Book
  <2> HIDE DEF stay, ps
  <2>6. Granted(counter, grants, to_client, ps, lease', by_route', armed', to_server')
    BY <1>1, <2>1, <2>2, <2>4, <2>5, Granting
  <2>7. IInv'
    BY <1>1, <1>2, <2>1, <2>2, <2>3, <2>4, <2>5, <2>6, GrantedKept
  <2>8. \A q \in Peers : \A x \in Held(lease'[q], to_client'[q]) :
            \/ x \in Held(lease[q], to_client[q])
            \/ \A o \in Peers : x \notin Held(lease[o], to_client[o])
    BY <1>2, <2>6 DEF Granted
  <2> QED
    BY <1>2, <2>7, <2>8 DEF Passes
<1> QED
  BY <1>3, <1>4

-----------------------------------------------------------------------------
(* Reports, and peers that go.                                               *)

LEMMA IsElsewhere ==
    ASSUME NEW c, NEW w, NEW v, NEW p, NEW L, NEW G, NEW T, NEW B, NEW A, NEW M,
           PeerIs(c, w, p, L, G, T, B, A, M), p \in v <=> p \in w
    PROVE  PeerIs(c, v, p, L, G, T, B, A, M)
BY Zenon DEF PeerIs

\* The next frame is a report, so the peer is awaited, and it is the last one.
IsReported(d, c, w, p, L, G, T, B, A, M) ==
    /\ p \in w /\ Head(M).last
    /\ d \in Nat /\ c <= d
    /\ PeerIs(d, w \ {p}, p, L, G \o Head(M).leases, T, B, A, Tail(M))

LEMMA IsReporting ==
    ASSUME NEW c \in Nat, NEW w, NEW p, NEW L, NEW G, NEW T, NEW B, NEW A, NEW M,
           PeerIs(c, w, p, L, G, T, B, A, M), M # <<>>, Head(M).kind = "resync"
    PROVE  IsReported(Max({c, Head(M).route_floor}), c, w, p, L, G, T, B, A, M)
<1> DEFINE d == Max({c, Head(M).route_floor})
           G2 == G \o Head(M).leases
<1>1. p \in w
  <2>1. SUFFICES ASSUME p \notin w PROVE FALSE
    OBVIOUS
  <2>2. Heard(M, L, G, T) /\ PeerTyped(L, G, T, B, A, M)
    BY <2>1 DEF PeerIs, Follows
  <2>3. 1 \in DOMAIN M /\ Head(M) = M[1]
    BY <2>2, Shrinks DEF PeerTyped
  <2> QED
    BY <2>2, <2>3 DEF Heard
<1>2. Reporting(c, L, G, T, B, A, M)
  BY <1>1 DEF PeerIs
<1>3. /\ PeerTyped(L, G, T, B, A, M) /\ Reports(M, L, G, T)
      /\ PeerSound(Greater(c, Head(M).route_floor), L, G, T, B, A, M)
  BY <1>2 DEF Reporting
<1>4. /\ d \in Nat /\ c <= d
      /\ PeerTyped(L, G2, T, B, A, Tail(M))
      /\ PeerSound(d, L, G2, T, B, A, Tail(M))
      /\ Heard(Tail(M), L, G2, T)
  BY <1>3, PeerReports
<1> HIDE DEF d, G2
<1>5. PeerIs(d, w \ {p}, p, L, G2, T, B, A, Tail(M))
  BY <1>4 DEF PeerIs, Follows
<1>6. Head(M).last
  BY <1>3 DEF Reports
<1> QED
  BY <1>1, <1>4, <1>5, <1>6 DEF IsReported, d, G2

LEMMA TakeReportSound ==
    ASSUME Assumptions, IInv, NEW p \in Peers, TakeReport(p)
    PROVE  IInv' /\ Passes({})
<1> DEFINE c == counter[server]
           frame == Head(to_server[p])
           gs == [grants EXCEPT ![p] = grants[p] \o frame.leases]
           d == Max({c, frame.route_floor})
           cs == [counter EXCEPT ![server] = d]
           left == awaited \ {p}
<1>1. /\ Shape /\ Book /\ Apart(lease, to_client, by_route)
      /\ PeersAre(c, awaited, lease, grants, to_client, by_route, armed, to_server)
      /\ c \in Nat /\ counter \in [Peers -> Nat] /\ server \in Peers
  BY Views DEF Book
<1>2. /\ server' = server /\ minted_high' = minted_high /\ lease' = lease
      /\ by_route' = by_route /\ armed' = armed /\ outbox' = outbox
      /\ p \in Clients /\ to_server[p] # <<>> /\ Head(to_server[p]).kind = "resync"
      /\ to_server' = [to_server EXCEPT ![p] = Tail(to_server[p])]
  BY DEF TakeReport, Received, Consumed
<1>3. PeerIs(c, awaited, p, lease[p], grants[p], to_client[p], by_route[p], armed[p], to_server[p])
  BY <1>1, IsOne
<1>4. IsReported(d, c, awaited, p, lease[p], grants[p], to_client[p], by_route[p], armed[p],
                 to_server[p])
  BY <1>1, <1>2, <1>3, IsReporting
<1>5. /\ p \in awaited /\ frame.last /\ d \in Nat /\ c <= d
      /\ PeerIs(d, left, p, lease[p], grants[p] \o frame.leases, to_client[p], by_route[p], armed[p],
                Tail(to_server[p]))
  BY <1>4 DEF IsReported
<1>6. settle_resync(cs, gs, to_client, members, left)
  BY <1>5 DEF TakeReport, mint_above
<1>7. /\ to_server'[p] = Tail(to_server[p]) /\ OnPeers(to_server')
      /\ gs[p] = grants[p] \o frame.leases /\ OnPeers(gs)
      /\ \A q \in Peers \ {p} : to_server'[q] = to_server[q] /\ gs[q] = grants[q]
  BY <1>1, <1>2 DEF Shape, OnPeers
<1>8. cs \in [Peers -> Nat] /\ cs[server] = d
  BY <1>1, <1>5
<1>9. left \subseteq awaited /\ left \subseteq members /\ \A q \in Peers \ {p} : q \in left <=> q \in awaited
  BY <1>1 DEF Book, Clients
<1> HIDE DEF c, d, gs, cs, left, frame
<1>10. PeersAre(d, awaited, lease, grants, to_client, by_route, armed, to_server)
  BY <1>1, <1>5, PeersOn
<1>11. PeersAre(d, left, lease, gs, to_client, by_route, armed, to_server')
  <2>1. ASSUME NEW q \in Peers
        PROVE  PeerIs(d, left, q, lease[q], gs[q], to_client[q], by_route[q], armed[q],
                      to_server'[q])
    <3>1. CASE q = p
      BY <1>5, <1>7, <3>1
    <3>2. CASE q # p
      <4>1. PeerIs(d, awaited, q, lease[q], grants[q], to_client[q], by_route[q], armed[q],
                   to_server[q])
        BY <1>10, IsOne
      <4>2. PeerIs(d, left, q, lease[q], grants[q], to_client[q], by_route[q], armed[q],
                   to_server[q])
        BY <1>9, <3>2, <4>1, IsElsewhere
      <4> QED
        BY <1>7, <3>2, <4>2
    <3> QED
      BY <3>1, <3>2
  <2> QED
    BY <2>1, AllAre
<1> DEFINE stay == members
<1>12. /\ server \in stay /\ stay \subseteq members /\ left \subseteq stay
       /\ \A q \in Peers \ (stay \ {server}) :
              lease'[q] = <<>> /\ gs[q] = <<>> /\ to_client[q] = <<>> /\ to_server'[q] = <<>>
       /\ \A q \in Peers \ stay : by_route'[q] = {}
  <2>1. \A q \in Peers \ (stay \ {server}) : q # p
    BY <1>2 DEF Clients
  <2> QED
    BY <1>1, <1>2, <1>7, <1>9, <2>1 DEF Book, Clients
<1>13. settle_resync(cs, gs, to_client, stay, left)
  BY <1>6
<1> HIDE DEF stay
<1>14. /\ Book /\ OnPeers(to_client) /\ minted_high' \in [Peers -> Nat]
       /\ OnPeers(lease') /\ OnPeers(by_route') /\ OnPeers(armed')
       /\ PeersAre(cs[server], left, lease', gs, to_client, by_route', armed', to_server')
       /\ Apart(lease', to_client, by_route')
  BY <1>1, <1>2, <1>8, <1>11 DEF Shape, Book, OnPeers
<1>15. /\ IInv'
       /\ \A q \in Peers : \A x \in Held(lease'[q], to_client'[q]) :
              \/ x \in Held(lease'[q], to_client[q])
              \/ \A o \in Peers : x \notin Held(lease'[o], to_client[o])
  BY <1>2, <1>7, <1>8, <1>9, <1>12, <1>13, <1>14, Settling
<1> QED
  BY <1>2, <1>15 DEF Passes

\* A peer that has nothing.
LEMMA IsGone ==
    ASSUME NEW c \in Nat, NEW w, NEW p, p \notin w
    PROVE  PeerIs(c, w, p, <<>>, <<>>, <<>>, {}, <<>>, <<>>)
<1>1. /\ {} \in SUBSET (Nat \ {0}) /\ <<>> \in Seq(Nat \ {0}) /\ ToSet(<<>>) \subseteq {}
      /\ \A r \in {} : r <= c
  BY DEF ToSet
<1>2. /\ PeerTyped(<<>>, <<>>, <<>>, {}, <<>>, <<>>)
      /\ PeerSound(c, <<>>, <<>>, <<>>, {}, <<>>, <<>>)
      /\ Heard(<<>>, <<>>, <<>>, <<>>)
  BY <1>1, PeerServes
<1> QED
  BY <1>2 DEF PeerIs, Follows

LEMMA DropSound ==
    ASSUME Assumptions, IInv, NEW gone, gone \subseteq Clients, Drop(gone)
    PROVE  IInv' /\ Passes(gone)
<1> DEFINE c == counter[server]
           cs == Reset(counter, gone, 0)
           gs == Reset(grants, gone, <<>>)
           out == Reset(to_client, gone, <<>>)
           stay == members \ gone
           left == awaited \ gone
<1>1. /\ Shape /\ Book /\ Apart(lease, to_client, by_route)
      /\ PeersAre(c, awaited, lease, grants, to_client, by_route, armed, to_server)
      /\ c \in Nat /\ counter \in [Peers -> Nat] /\ server \in Peers
  BY Views DEF Book
<1>2. /\ server' = server
      /\ minted_high' = Reset(minted_high, gone, 0)
      /\ lease' = Reset(lease, gone, <<>>)
      /\ by_route' = Reset(by_route, gone, {})
      /\ armed' = Reset(armed, gone, <<>>)
      /\ outbox' = Reset(outbox, gone, <<>>)
      /\ to_server' = Reset(to_server, gone, <<>>)
      /\ settle_resync(cs, gs, out, stay, left)
  BY DEF Drop, abandon_lease
<1>3. /\ OnPeers(lease') /\ OnPeers(by_route') /\ OnPeers(armed') /\ OnPeers(to_server')
      /\ OnPeers(gs) /\ OnPeers(out)
  BY <1>2 DEF OnPeers, Reset
<1>4. ASSUME NEW q \in Peers
      PROVE  /\ q \in gone => /\ lease'[q] = <<>> /\ gs[q] = <<>> /\ out[q] = <<>>
                              /\ by_route'[q] = {} /\ armed'[q] = <<>> /\ to_server'[q] = <<>>
             /\ q \notin gone => /\ lease'[q] = lease[q] /\ gs[q] = grants[q]
                                 /\ out[q] = to_client[q] /\ by_route'[q] = by_route[q]
                                 /\ armed'[q] = armed[q] /\ to_server'[q] = to_server[q]
  BY <1>2 DEF Reset
<1>5. /\ outbox' = outbox /\ minted_high' \in [Peers -> Nat] /\ cs \in [Peers -> Nat]
      /\ cs[server] = c
  BY <1>1, <1>2 DEF Reset, Book, Clients
<1>6. /\ server \in stay /\ stay \subseteq members /\ left \subseteq awaited /\ left \subseteq stay
      /\ \A q \in Peers : (q \notin gone => (q \in left <=> q \in awaited))
                          /\ (q \in gone => q \notin left)
  BY <1>1 DEF Book, Clients
<1>7. settle_resync(cs, gs, out, stay, left)
  BY <1>2
<1>8. /\ \A q \in Peers \ (stay \ {server}) : q \in gone \/ q \notin Clients
      /\ \A q \in Peers \ stay : q \in gone \/ q \notin members
  BY DEF Clients
<1>9. members' \subseteq stay \cup halt_joins /\ stay \cap gone = {} /\ halt_joins \cap gone = {}
  BY <1>1, <1>7 DEF settle_resync, halt_release, halt_forget_peers, Book, Clients
<1> HIDE DEF c, cs, gs, out, stay, left
<1>10. PeersAre(c, left, lease', gs, out, by_route', armed', to_server')
  <2>1. ASSUME NEW q \in Peers
        PROVE  PeerIs(c, left, q, lease'[q], gs[q], out[q], by_route'[q], armed'[q], to_server'[q])
    <3>1. CASE q \in gone
      <4>1. PeerIs(c, left, q, <<>>, <<>>, <<>>, {}, <<>>, <<>>)
        BY <1>1, <1>6, <3>1, IsGone
      <4> QED
        BY <1>4, <3>1, <4>1
    <3>2. CASE q \notin gone
      <4>1. PeerIs(c, awaited, q, lease[q], grants[q], to_client[q], by_route[q], armed[q],
                   to_server[q])
        BY <1>1, IsOne
      <4>2. PeerIs(c, left, q, lease[q], grants[q], to_client[q], by_route[q], armed[q],
                   to_server[q])
        BY <1>6, <3>2, <4>1, IsElsewhere
      <4> QED
        BY <1>4, <3>2, <4>2
    <3> QED
      BY <3>1, <3>2
  <2> QED
    BY <2>1, AllAre
<1>11. \A q \in Peers : /\ Held(lease'[q], out[q]) \subseteq Held(lease[q], to_client[q])
                        /\ q \notin gone => Held(lease'[q], out[q]) = Held(lease[q], to_client[q])
                        /\ by_route'[q] \subseteq by_route[q]
  <2>1. Held(<<>>, <<>>) = {}
    BY SpansNone DEF Held
  <2> QED
    BY <1>4, <2>1
<1>12. Apart(lease', out, by_route')
  BY <1>1, <1>11, ApartLess
<1>13. /\ \A q \in Peers \ (stay \ {server}) :
              lease'[q] = <<>> /\ gs[q] = <<>> /\ out[q] = <<>> /\ to_server'[q] = <<>>
       /\ \A q \in Peers \ stay : by_route'[q] = {}
  <2>1. \A q \in Peers \ Clients :
            lease[q] = <<>> /\ grants[q] = <<>> /\ to_client[q] = <<>> /\ to_server[q] = <<>>
    BY <1>1 DEF Book
  <2>2. \A q \in Peers \ members : by_route[q] = {}
    BY <1>1 DEF Book
  <2> QED
    BY <1>4, <1>8, <2>1, <2>2
<1>14. PeersAre(cs[server], left, lease', gs, out, by_route', armed', to_server')
  BY <1>5, <1>10
<1>15. /\ IInv'
       /\ \A q \in Peers : \A x \in Held(lease'[q], to_client'[q]) :
              \/ x \in Held(lease'[q], out[q])
              \/ \A o \in Peers : x \notin Held(lease'[o], out[o])
  <2>1. Book /\ server' = server
    BY <1>1, <1>2
  <2> QED
    BY <1>3, <1>5, <1>6, <1>7, <1>12, <1>13, <1>14, <2>1, Settling
<1>16. ASSUME NEW q \in gone
       PROVE  Held(lease'[q], to_client'[q]) = {}
  <2>1. q \in Peers /\ q \notin members'
    BY <1>1, <1>9 DEF Book, Clients
  <2>2. Book'
    BY <1>15, ViewsNext
  <2>3. lease'[q] = <<>> /\ to_client'[q] = <<>>
    BY <2>1, <2>2 DEF Book, Clients
  <2> QED
    BY <2>3, SpansNone DEF Held
<1>17. ASSUME NEW q \in Peers, NEW x \in Held(lease'[q], to_client'[q])
       PROVE  /\ q \notin gone
              /\ \/ x \in Held(lease[q], to_client[q])
                 \/ \A o \in Peers \ gone : x \notin Held(lease[o], to_client[o])
  BY <1>11, <1>15, <1>16
<1>18. gone \subseteq Peers /\ \A q \in Peers : \A x \in by_route'[q] : \E o \in Peers : x \in by_route[o]
  BY <1>1, <1>11 DEF Book, Clients
<1> QED
  BY <1>15, <1>17, <1>18 DEF Passes

-----------------------------------------------------------------------------
(* The server moves.                                                         *)

\* What a peer reports bounds what it knows and may mint from its lease.
LEMMA RouteFloor ==
    ASSUME IInv, NEW p \in Peers
    PROVE  /\ route_floor(p) \in Nat
           /\ \A r \in by_route[p] : r <= route_floor(p)
           /\ \A n \in DOMAIN lease[p] : lease[p][n].end - 1 <= route_floor(p)
<1> DEFINE E == {lease[p][n].end - 1 : n \in DOMAIN lease[p]}
           T == {counter[p], minted_high[p]} \cup by_route[p] \cup E
<1>1. /\ counter[p] \in Nat /\ minted_high[p] \in Nat /\ counter[server] \in Nat
      /\ PeersAre(counter[server], awaited, lease, grants, to_client, by_route, armed, to_server)
  BY Views DEF Book
<1>2. PeerIs(counter[server], awaited, p, lease[p], grants[p], to_client[p], by_route[p], armed[p],
             to_server[p])
  BY <1>1, IsOne
<1>3. /\ PeerTyped(lease[p], grants[p], to_client[p], by_route[p], armed[p], to_server[p])
      /\ \E b \in Nat :
             /\ PeerSound(b, lease[p], grants[p], to_client[p], by_route[p], armed[p], to_server[p])
             /\ b = IF p \in awaited THEN Greater(counter[server], Head(to_server[p]).route_floor)
                    ELSE counter[server]
  BY <1>1, <1>2, IsSound
<1>4. PICK b \in Nat : PeerSound(b, lease[p], grants[p], to_client[p], by_route[p], armed[p],
                                 to_server[p])
  BY <1>3
<1>5. \A n \in DOMAIN lease[p] : lease[p][n].end \in Nat \ {0} /\ lease[p][n].end <= b + 1
  BY <1>3, <1>4, BlockNumbers DEF PeerTyped, PeerSound, Below
<1>6. \A r \in by_route[p] : r \in Nat /\ r <= b
  BY <1>3, <1>4 DEF PeerTyped, PeerSound, Below
<1>7. \A x \in E : x \in Nat /\ x <= b
  BY <1>5
<1>8. PICK m \in Nat : b <= m /\ counter[p] <= m /\ minted_high[p] <= m
  <2>1. b + counter[p] + minted_high[p] \in Nat
    BY <1>1
  <2> QED
    BY <1>1, <2>1
<1>9. \A n \in DOMAIN lease[p] : lease[p][n].end - 1 \in E
  OBVIOUS
<1>10. route_floor(p) = Max(T)
  BY DEF route_floor
<1> HIDE DEF E
<1>11. T \in SUBSET Nat /\ T # {} /\ \A x \in T : x <= m
  BY <1>1, <1>6, <1>7, <1>8
<1>12. /\ by_route[p] \subseteq T /\ E \subseteq T
  OBVIOUS
<1> HIDE DEF T
<1>13. Max(T) \in T /\ \A x \in T : x <= Max(T)
  BY <1>11, Greatest
<1> QED
  BY <1>9, <1>10, <1>11, <1>12, <1>13

\* The peer reports to the successor.
LEMMA IsMoving ==
    ASSUME NEW c \in Nat, NEW w, NEW p, NEW L, NEW G, NEW T, NEW B, NEW A, NEW M,
           PeerIs(c, w, p, L, G, T, B, A, M),
           NEW d \in Nat, NEW v, p \in v, NEW floor \in Nat,
           \A r \in B : r <= floor, \A n \in DOMAIN L : L[n].end - 1 <= floor
    PROVE  PeerIs(d, v, p, L, <<>>, <<>>, B, A,
                  <<[kind |-> "resync", leases |-> lease_spans(L), route_floor |-> floor,
                     last |-> TRUE]>>)
<1> DEFINE f == [kind |-> "resync", leases |-> lease_spans(L), route_floor |-> floor,
                 last |-> TRUE]
<1>1. /\ PeerTyped(L, G, T, B, A, M)
      /\ \E b \in Nat : /\ PeerSound(b, L, G, T, B, A, M)
                        /\ b = IF p \in w THEN Greater(c, Head(M).route_floor) ELSE c
  BY IsSound
<1>2. PICK b \in Nat : PeerSound(b, L, G, T, B, A, M)
  BY <1>1
<1>3. /\ PeerTyped(L, <<>>, <<>>, B, A, <<f>>)
      /\ Head(<<f>>) = f
      /\ Reports(<<f>>, L, <<>>, <<>>)
      /\ PeerSound(Greater(d, floor), L, <<>>, <<>>, B, A, <<f>>)
  BY <1>1, <1>2, PeerMoves
<1>4. f.route_floor = floor
  OBVIOUS
<1> HIDE DEF f
<1>5. Reporting(d, L, <<>>, <<>>, B, A, <<f>>)
  BY <1>3, <1>4 DEF Reporting
<1> QED
  BY <1>5 DEF PeerIs, f

\* The peer serves, or is not in the session.
LEMMA IsServing ==
    ASSUME NEW c \in Nat, NEW w, NEW p, NEW L, NEW G, NEW T, NEW B, NEW A, NEW M,
           PeerIs(c, w, p, L, G, T, B, A, M),
           NEW d \in Nat, NEW v, p \notin v, \A r \in B : r <= d
    PROVE  PeerIs(d, v, p, <<>>, <<>>, <<>>, B, A, <<>>)
<1>1. /\ PeerTyped(L, G, T, B, A, M)
      /\ \E b \in Nat : /\ PeerSound(b, L, G, T, B, A, M)
                        /\ b = IF p \in w THEN Greater(c, Head(M).route_floor) ELSE c
  BY IsSound
<1>2. B \in SUBSET (Nat \ {0}) /\ A \in Seq(Nat \ {0}) /\ ToSet(A) \subseteq B
  BY <1>1 DEF PeerTyped, PeerSound, MintedBefore
<1>3. /\ PeerTyped(<<>>, <<>>, <<>>, B, A, <<>>)
      /\ PeerSound(d, <<>>, <<>>, <<>>, B, A, <<>>)
      /\ Heard(<<>>, <<>>, <<>>, <<>>)
  BY <1>2, PeerServes
<1> QED
  BY <1>3 DEF PeerIs, Follows

\* What every peer sends the successor.
ReportOf(p) == [kind |-> "resync", leases |-> lease_spans(lease[p]), route_floor |-> route_floor(p),
                last |-> TRUE]

LEMMA MoveSound ==
    ASSUME Assumptions, Prompt, IInv, NEW q \in Peers, Move(q)
    PROVE  IInv' /\ Passes({})
<1> DEFINE c == counter[server]
           d == route_floor(q)
<1>1. /\ Shape /\ Book /\ Apart(lease, to_client, by_route)
      /\ PeersAre(c, awaited, lease, grants, to_client, by_route, armed, to_server)
      /\ c \in Nat /\ counter \in [Peers -> Nat] /\ server \in Peers
  BY Views DEF Book
<1>2. PICK gone \in SUBSET {server} :
         /\ members' = members \ gone
         /\ counter' = Reset([counter EXCEPT ![q] = d], gone, 0)
         /\ minted_high' = Reset(minted_high, gone, 0)
         /\ lease' = [lease EXCEPT ![q] = <<>>]
         /\ by_route' = Reset(by_route, gone, {})
         /\ armed' = Reset(armed, gone, <<>>)
         /\ awaited' = (members \ gone) \ {q}
         /\ halted' = (members \ gone # {q})
         /\ to_server' = [p \in Peers |-> IF p \in (members \ gone) \ {q}
                                          THEN <<ReportOf(p)>> ELSE <<>>]
         /\ outbox' = [p \in Peers |-> <<>>]
  <2>1. ReportFits
    BY DEF Prompt
  <2>2. \A f : Head(<<f>>) = f /\ Tail(<<f>>) = <<>>
    OBVIOUS
  <2>3. PICK stays \in BOOLEAN :
         LET gone == IF stays THEN {} ELSE {server}
             left == members \ gone
             Frame(p, leases, last) == [kind |-> "resync", leases |-> leases,
                                        route_floor |-> route_floor(p), last |-> last]
             Report(p) == IF ReportFits
                          THEN <<Frame(p, lease_spans(lease[p]), TRUE)>>
                          ELSE <<Frame(p, lease_spans(lease[p]), FALSE), Frame(p, <<>>, TRUE)>>
         IN /\ members' = left
            /\ counter' = Reset([counter EXCEPT ![q] = route_floor(q)], gone, 0)
            /\ minted_high' = Reset(minted_high, gone, 0)
            /\ lease' = [lease EXCEPT ![q] = <<>>]
            /\ by_route' = Reset(by_route, gone, {})
            /\ armed' = Reset(armed, gone, <<>>)
            /\ awaited' = left \ {q}
            /\ halted' = (left # {q})
            /\ to_server' = [p \in Peers |-> IF p \in left \ {q} THEN <<Head(Report(p))>> ELSE <<>>]
            /\ outbox' = [p \in Peers |-> IF p \in left \ {q} THEN Tail(Report(p)) ELSE <<>>]
    BY Zenon DEF Move
  <2> DEFINE gone == IF stays THEN {} ELSE {server}
  <2>4. gone \in SUBSET {server}
    OBVIOUS
  <2> HIDE DEF gone, Reset, route_floor, lease_spans
  <2>5. \A p : Head(IF ReportFits
                    THEN <<[kind |-> "resync", leases |-> lease_spans(lease[p]),
                            route_floor |-> route_floor(p), last |-> TRUE]>>
                    ELSE <<[kind |-> "resync", leases |-> lease_spans(lease[p]),
                            route_floor |-> route_floor(p), last |-> FALSE],
                           [kind |-> "resync", leases |-> <<>>,
                            route_floor |-> route_floor(p), last |-> TRUE]>>) = ReportOf(p)
    BY <2>1 DEF ReportOf
  <2>6. \A p : Tail(IF ReportFits
                    THEN <<[kind |-> "resync", leases |-> lease_spans(lease[p]),
                            route_floor |-> route_floor(p), last |-> TRUE]>>
                    ELSE <<[kind |-> "resync", leases |-> lease_spans(lease[p]),
                            route_floor |-> route_floor(p), last |-> FALSE],
                           [kind |-> "resync", leases |-> <<>>,
                            route_floor |-> route_floor(p), last |-> TRUE]>>) = <<>>
    BY <2>1
  <2>7. /\ to_server' = [p \in Peers |-> IF p \in (members \ gone) \ {q}
                                         THEN <<ReportOf(p)>> ELSE <<>>]
        /\ outbox' = [p \in Peers |-> <<>>]
    BY <2>3, <2>5, <2>6 DEF gone
  <2>8. /\ members' = members \ gone
        /\ counter' = Reset([counter EXCEPT ![q] = d], gone, 0)
        /\ minted_high' = Reset(minted_high, gone, 0)
        /\ lease' = [lease EXCEPT ![q] = <<>>]
        /\ by_route' = Reset(by_route, gone, {})
        /\ armed' = Reset(armed, gone, <<>>)
        /\ awaited' = (members \ gone) \ {q}
        /\ halted' = (members \ gone # {q})
    BY <2>3 DEF gone
  <2> QED
    BY <2>4, <2>7, <2>8
<1>3. /\ server' = q /\ q \in Clients /\ halt_leases' = {} /\ halt_joins' = {}
      /\ grants' = [p \in Peers |-> <<>>] /\ to_client' = [p \in Peers |-> <<>>]
  BY DEF Move
<1> DEFINE v == (members \ gone) \ {q}
<1>4. ASSUME NEW p \in Peers
      PROVE  /\ grants'[p] = <<>> /\ to_client'[p] = <<>>
             /\ lease'[p] = (IF p = q THEN <<>> ELSE lease[p])
             /\ by_route'[p] = (IF p \in gone THEN {} ELSE by_route[p])
             /\ armed'[p] = (IF p \in gone THEN <<>> ELSE armed[p])
             /\ to_server'[p] = (IF p \in v THEN <<ReportOf(p)>> ELSE <<>>)
  BY <1>1, <1>2, <1>3 DEF Reset, Shape, OnPeers
<1>5. /\ q \in members /\ q # server /\ q \notin gone /\ v \subseteq members' \ {q} /\ awaited' = v
      /\ members \subseteq Peers /\ gone \subseteq {server}
      /\ \A p \in Peers \ v : p = q \/ p \in gone \/ p \notin members
      /\ \A p \in Peers \ members : by_route[p] = {}
      /\ \A p \in Peers \ Clients : lease[p] = <<>>
      /\ Clients' = v
  BY <1>1, <1>2, <1>3 DEF Book, Clients
<1>6. /\ d \in Nat /\ \A r \in by_route[q] : r <= d
      /\ counter' \in [Peers -> Nat] /\ counter'[server'] = d
      /\ minted_high' \in [Peers -> Nat]
  <2>1. d \in Nat /\ \A r \in by_route[q] : r <= d
    BY RouteFloor
  <2> HIDE DEF d
  <2> QED
    BY <1>1, <1>2, <1>3, <1>5, <2>1 DEF Reset, Book
<1> HIDE DEF c, d, v
<1>7. PeersAre(d, v, lease', grants', to_client', by_route', armed', to_server')
  <2>1. ASSUME NEW p \in Peers
        PROVE  PeerIs(d, v, p, lease'[p], grants'[p], to_client'[p], by_route'[p], armed'[p],
                      to_server'[p])
    <3>1. PeerIs(c, awaited, p, lease[p], grants[p], to_client[p], by_route[p], armed[p],
                 to_server[p])
      BY <1>1, IsOne
    <3>2. CASE p \in v
      <4>1. /\ route_floor(p) \in Nat
            /\ \A r \in by_route[p] : r <= route_floor(p)
            /\ \A n \in DOMAIN lease[p] : lease[p][n].end - 1 <= route_floor(p)
        BY RouteFloor
      <4> HIDE DEF route_floor, lease_spans
      <4>2. PeerIs(d, v, p, lease[p], <<>>, <<>>, by_route[p], armed[p], <<ReportOf(p)>>)
        BY <1>1, <1>6, <3>1, <3>2, <4>1, IsMoving DEF ReportOf
      <4>3. p # q /\ p \notin gone
        BY <1>5, <3>2 DEF v
      <4> QED
        BY <1>4, <3>2, <4>2, <4>3
    <3>3. CASE p \in gone
      <4>1. p \notin v /\ lease[p] = <<>> /\ p # q
        BY <1>5, <3>3 DEF v, Clients
      <4>2. PeerIs(d, v, p, <<>>, <<>>, <<>>, {}, <<>>, <<>>)
        BY <1>6, <4>1, IsGone
      <4> QED
        BY <1>4, <3>3, <4>1, <4>2
    <3>4. CASE p \notin v /\ p \notin gone
      <4>1. lease'[p] = <<>> /\ \A r \in by_route[p] : r <= d
        <5>1. CASE p = q
          BY <1>4, <1>6, <5>1
        <5>2. CASE p # q
          <6>1. p \notin members
            BY <1>5, <3>4, <5>2
          <6> QED
            BY <1>4, <1>5, <5>2, <6>1 DEF Clients
        <5> QED
          BY <5>1, <5>2
      <4>2. PeerIs(d, v, p, <<>>, <<>>, <<>>, by_route[p], armed[p], <<>>)
        BY <1>1, <1>6, <3>1, <3>4, <4>1, IsServing
      <4> QED
        BY <1>4, <3>4, <4>1, <4>2
    <3> QED
      BY <3>2, <3>3, <3>4
  <2> QED
    BY <2>1, AllAre
<1>8. \A p \in Peers : /\ Held(lease'[p], to_client'[p]) \subseteq Held(lease[p], to_client[p])
                       /\ by_route'[p] \subseteq by_route[p]
  <2>1. Spans(<<>>) = {}
    BY SpansNone
  <2> SUFFICES ASSUME NEW p \in Peers
               PROVE  /\ Held(lease'[p], to_client'[p]) \subseteq Held(lease[p], to_client[p])
                      /\ by_route'[p] \subseteq by_route[p]
    OBVIOUS
  <2>2. to_client'[p] = <<>> /\ (lease'[p] = <<>> \/ lease'[p] = lease[p])
    BY <1>4
  <2>3. Spans(to_client'[p]) = {} /\ Spans(lease'[p]) \subseteq Spans(lease[p])
    BY <2>1, <2>2
  <2>4. by_route'[p] \subseteq by_route[p]
    BY <1>4
  <2>5. Held(lease'[p], to_client'[p]) \subseteq Held(lease[p], to_client[p])
    BY <2>3, Zenon DEF Held
  <2> QED
    BY <2>4, <2>5
<1>9. Apart(lease', to_client', by_route')
  BY <1>1, <1>8, ApartLess
<1>10. Shape'
  BY <1>1, <1>2, <1>3 DEF Shape, OnPeers, Reset
<1>11. Book'
  <2>1. \A p \in Peers \ v : lease'[p] = <<>> /\ grants'[p] = <<>> /\ to_client'[p] = <<>>
                             /\ to_server'[p] = <<>>
    <3> SUFFICES ASSUME NEW p \in Peers \ v
                 PROVE  lease'[p] = <<>> /\ grants'[p] = <<>> /\ to_client'[p] = <<>>
                        /\ to_server'[p] = <<>>
      OBVIOUS
    <3>1. p = q \/ lease[p] = <<>>
      BY <1>5 DEF Clients
    <3> QED
      BY <1>4, <3>1
  <2>2. \A p \in Peers \ members' : by_route'[p] = {}
    BY <1>2, <1>4, <1>5
  <2>3. halted' = (awaited' # {})
    <3>1. members \ gone # {q} <=> v # {}
      BY <1>5 DEF v
    <3> QED
      BY <1>2, <1>5, <3>1
  <2>4. server' \in members' /\ members' \subseteq Peers
    BY <1>2, <1>3, <1>5
  <2> QED
    BY <1>2, <1>3, <1>5, <1>6, <2>1, <2>2, <2>3, <2>4 DEF Book
<1>12. IInv'
  BY <1>5, <1>6, <1>7, <1>9, <1>10, <1>11, Kept
<1> QED
  BY <1>8, <1>12 DEF Passes

-----------------------------------------------------------------------------
(* The first state.                                                          *)

LEMMA InitSound ==
    ASSUME Assumptions, Init
    PROVE  IInv
<1> DEFINE n == Cardinality(Founders) * ROUTE_LEASE_BLOCK
           none == [p \in Peers |-> <<>>]
           nil == [p \in Peers |-> {}]
<1>1. /\ First \in Peers /\ Founders \subseteq Peers \ {First} /\ Founders \in SUBSET Peers
      /\ ROUTE_LEASE_BLOCK \in Nat \ {0} /\ Cardinality(Founders) \in Nat
  BY FS_Subset, FS_CardinalityType DEF Assumptions, PeersAssumption, BlockAssumption
<1>2. PICK turn \in Bijection(Founders, 1 .. Cardinality(Founders)) :
          lease = [p \in Peers |->
              IF p \in Founders
              THEN <<Block(1 + (turn[p] - 1) * ROUTE_LEASE_BLOCK, ROUTE_LEASE_BLOCK)>>
              ELSE <<>>]
  BY Zenon DEF Init
<1> DEFINE b == Shares(Founders, 0, turn)
<1>3. n \in Nat /\ 0 + n = n /\ 0 \in Nat
  BY <1>1
<1>4. NewBlocks(b, Founders, 0, n)
  <2>1. NewBlocks(Shares(Founders, 0, turn), Founders, 0,
                  0 + Cardinality(Founders) * ROUTE_LEASE_BLOCK)
    BY <1>1, <1>2, <1>3, Portions, Zenon
  <2> QED
    BY <1>3, <2>1
<1>5. ASSUME NEW p \in Founders
      PROVE  b[p] = Block(1 + (turn[p] - 1) * ROUTE_LEASE_BLOCK, ROUTE_LEASE_BLOCK)
  <2>1. b[p] = Block(0 + 1 + (turn[p] - 1) * ROUTE_LEASE_BLOCK, ROUTE_LEASE_BLOCK)
    BY DEF Shares
  <2>2. 0 + 1 = 1
    OBVIOUS
  <2> QED
    BY <2>1, <2>2
<1> HIDE DEF b
<1>6. lease = [p \in Peers |-> IF p \in Founders THEN <<b[p]>> ELSE <<>>]
  BY <1>2, <1>5
<1>7. /\ server = First /\ members = Founders \cup {First} /\ grants = lease
      /\ counter = [p \in Peers |-> IF p = First THEN n ELSE 0]
      /\ minted_high = [p \in Peers |-> 0] /\ by_route = nil
      /\ halted = FALSE /\ awaited = {} /\ halt_leases = {} /\ halt_joins = {}
      /\ armed = none /\ outbox = none /\ to_server = none /\ to_client = none
  BY DEF Init
<1> DEFINE H == Handed(none, Founders, b)
<1>8. ASSUME NEW p \in Peers
      PROVE  /\ none[p] = <<>> /\ nil[p] = {}
             /\ p \in Founders => H[p] = Append(<<>>, b[p]) /\ lease[p] = <<b[p]>>
             /\ p \notin Founders => H[p] = <<>> /\ lease[p] = <<>>
  BY <1>6 DEF Handed
<1> HIDE DEF n, H, none, nil
<1>9. PeersAre(0, {}, none, none, none, nil, none, none)
  <2>1. ASSUME NEW p \in Peers
        PROVE  PeerIs(0, {}, p, none[p], none[p], none[p], nil[p], none[p], none[p])
    <3>1. PeerIs(0, {}, p, <<>>, <<>>, <<>>, {}, <<>>, <<>>)
      BY <1>3, IsGone
    <3> QED
      BY <1>8, <3>1
  <2> QED
    BY <2>1, AllAre
<1>10. Held(<<>>, <<>>) = {}
  BY SpansNone DEF Held
<1>11. Apart(none, none, nil)
  BY <1>8, <1>10 DEF Apart
<1>12. /\ PeersAre(n, {}, none, H, H, nil, none, none)
       /\ Apart(none, H, nil)
  BY <1>1, <1>3, <1>4, <1>9, <1>11, GrantsKeep DEF H
<1>13. \A p \in Founders : b[p] \in Blocks
  BY <1>4 DEF NewBlocks
<1>14. \A x \in Blocks : /\ Append(<<>>, x) = <<x>> /\ <<x>> # <<>>
                         /\ Head(<<x>>) = x /\ Tail(<<x>>) = <<>>
  OBVIOUS
<1>15. ASSUME NEW p \in Peers
       PROVE  /\ PeerIs(n, {}, p, lease[p], grants[p], to_client[p], by_route[p], armed[p], to_server[p])
              /\ Held(lease[p], to_client[p]) = Held(none[p], H[p])
  <2>1. PeerIs(n, {}, p, <<>>, H[p], H[p], {}, <<>>, <<>>)
    <3>1. PeerIs(n, {}, p, none[p], H[p], H[p], nil[p], none[p], none[p])
      BY <1>12, IsOne
    <3> QED
      BY <1>8, <3>1
  <2>2. /\ grants[p] = lease[p] /\ to_client[p] = <<>> /\ by_route[p] = {} /\ armed[p] = <<>>
        /\ to_server[p] = <<>> /\ none[p] = <<>>
    BY <1>7, <1>8
  <2>3. CASE p \in Founders
    <3>1. /\ H[p] = <<b[p]>> /\ lease[p] = <<b[p]>> /\ H[p] # <<>>
          /\ Append(<<>>, Head(H[p])) = <<b[p]>> /\ Tail(H[p]) = <<>>
      <4>1. H[p] = Append(<<>>, b[p]) /\ lease[p] = <<b[p]>> /\ b[p] \in Blocks
        BY <1>8, <1>13, <2>3
      <4>2. /\ Append(<<>>, b[p]) = <<b[p]>> /\ <<b[p]>> # <<>>
            /\ Head(<<b[p]>>) = b[p] /\ Tail(<<b[p]>>) = <<>>
        BY <1>14, <4>1, Zenon
      <4> QED
        BY <4>1, <4>2, Zenon
    <3>2. /\ PeerIs(n, {}, p, Append(none[p], Head(H[p])), H[p], Tail(H[p]), nil[p], none[p], none[p])
          /\ Held(Append(none[p], Head(H[p])), Tail(H[p])) = Held(none[p], H[p])
      <4>1. PeerIs(n, {}, p, none[p], H[p], H[p], nil[p], none[p], none[p])
        BY <1>12, IsOne
      <4>2. H[p] # <<>> /\ n \in Nat
        BY <1>3, <3>1
      <4> QED
        BY <4>1, <4>2, IsTaking
    <3>3. /\ Append(none[p], Head(H[p])) = lease[p] /\ H[p] = grants[p]
          /\ Tail(H[p]) = to_client[p] /\ nil[p] = by_route[p]
      BY <1>8, <2>2, <3>1
    <3>4. none[p] = armed[p] /\ none[p] = to_server[p]
      BY <2>2
    <3> QED
      BY <3>2, <3>3, <3>4, Zenon
  <2>4. CASE p \notin Founders
    BY <1>8, <2>1, <2>2, <2>4
  <2> QED
    BY <2>3, <2>4
<1>16. PeersAre(n, {}, lease, grants, to_client, by_route, armed, to_server)
  BY <1>15, AllAre
<1>17. counter \in [Peers -> Nat] /\ counter[server] = n
  BY <1>1, <1>3, <1>7 DEF n
<1>18. Apart(lease, to_client, by_route)
  BY <1>7, <1>8, <1>12, <1>15 DEF Apart
<1>19. Shape
  BY <1>6, <1>7 DEF Shape, OnPeers, none, nil
<1>20. Book
  <2>1. \A p \in Peers \ Clients : p \notin Founders
    BY <1>1, <1>7 DEF Clients
  <2> QED
    BY <1>1, <1>7, <1>8, <1>17, <2>1 DEF Book, Clients, none
<1> QED
  BY <1>7, <1>16, <1>17, <1>18, <1>19, <1>20, Views

-----------------------------------------------------------------------------
(* Every step.                                                               *)

\* How much of each bound is used is a number.
Counts == spent \in [{"mints", "discards", "claims", "joins", "moves"} -> Nat]

LEMMA CountsOn ==
    ASSUME Counts, [Next]_vars
    PROVE  Counts'
<1>1. spent' = spent \/ \E what, most : Spend(what, most)
  BY DEF vars, Next, ServerMints, ClaimRoutes, Expire, ClientMints, FlushArmed, DiscardArmed,
         AdmitSpawn, DropSpawn, TakeReport, SendReport, TakeLease, Join, Leave, Drop, Move
<1>2. ASSUME NEW what, NEW most, Spend(what, most)
      PROVE  Counts'
  <2>1. spent' = [spent EXCEPT ![what] = spent[what] + 1]
    BY <1>2 DEF Spend
  <2>2. \A x \in {"mints", "discards", "claims", "joins", "moves"} : spent[x] + 1 \in Nat
    BY DEF Counts
  <2> QED
    BY <2>1, <2>2 DEF Counts
<1> QED
  BY <1>1, <1>2 DEF Counts

\* What each kind of step does to the routes.
Minted(p) ==
    /\ to_client' = to_client /\ p \in Clients /\ p \in Peers
    /\ \A q \in Peers \ {p} : lease'[q] = lease[q]
    /\ \E r \in Held(lease[p], to_client[p]) :
           /\ Held(lease'[p], to_client'[p]) = Held(lease[p], to_client[p]) \ {r}
           /\ by_route' = Learned(by_route, {p}, r)

MintedFresh ==
    /\ \A q \in Peers : /\ counter[server] + 1 \notin by_route[q]
                        /\ counter[server] + 1 \notin Held(lease[q], to_client[q])
    /\ \E S \in SUBSET Peers :
           server \in S /\ by_route' = Learned(by_route, S, counter[server] + 1)

LEMMA StepSound ==
    ASSUME Assumptions, Prompt, IInv, Counts, Next
    PROVE  /\ IInv'
           /\ \/ \E gone : Passes(gone)
              \/ \E p \in Peers : ClientMints(p) /\ Minted(p)
              \/ ServerMints /\ MintedFresh
<1>1. CASE ServerMints
  BY <1>1, ServerMintsSound DEF MintedFresh
<1>2. ~ClaimRoutes
  BY DEF ClaimRoutes, Spend, Prompt, Counts
<1>3. CASE Expire
  <2>1. awaited \subseteq Clients
    BY DEF IInv, TypeOK
  <2> QED
    BY <1>3, <2>1, DropSound DEF Expire
<1>4. ASSUME NEW p \in Peers, ClientMints(p)
      PROVE  IInv' /\ Minted(p)
  BY <1>4, ClientMintsSound DEF Minted
<1>5. ASSUME NEW p \in Peers, FlushArmed(p) \/ DiscardArmed(p) \/ AdmitSpawn(p) \/ DropSpawn(p)
                              \/ TakeReport(p) \/ TakeLease(p) \/ Join(p) \/ Move(p)
      PROVE  IInv' /\ Passes({})
  BY <1>5, FlushArmedSound, DiscardArmedSound, AdmitSpawnSound, DropSpawnSound, TakeReportSound,
     TakeLeaseSound, JoinSound, MoveSound
<1>6. ASSUME NEW p \in Peers
      PROVE  ~SendReport(p)
  BY DEF IInv, Quiet, SendReport
<1>7. ASSUME NEW p \in Peers, Leave(p)
      PROVE  IInv' /\ Passes({p})
  <2>1. {p} \subseteq Clients /\ Drop({p})
    BY <1>7 DEF Leave
  <2> QED
    BY <2>1, DropSound
<1> QED
  BY <1>1, <1>2, <1>3, <1>4, <1>5, <1>6, <1>7 DEF Next

LEMMA Stutters ==
    ASSUME IInv, UNCHANGED vars
    PROVE  IInv'
<1>1. Shape' /\ Book'
  BY Views DEF Shape, Book, OnPeers, Clients, vars, halt
<1>2. /\ Apart(lease', to_client', by_route')
      /\ PeersAre(counter'[server'], awaited', lease', grants', to_client', by_route', armed',
                  to_server')
  BY Views DEF vars, halt, links
<1> QED
  BY <1>1, <1>2, Kept

-----------------------------------------------------------------------------
(* The theorems.                                                             *)

Inv == IInv /\ Counts

LEMMA Invariant == ASSUME Assumptions, Prompt PROVE Spec => []Inv
<1>1. Init => Inv
  <2>1. Init => Counts
    BY DEF Init, Counts
  <2> QED
    BY <2>1, InitSound DEF Inv
<1>2. Inv /\ [Next]_vars => Inv'
  BY StepSound, Stutters, CountsOn DEF Inv
<1> QED
  BY <1>1, <1>2, PTL DEF Spec

LEMMA InvariantSound ==
    ASSUME IInv
    PROVE  LeasesAreSound
<1>1. /\ \A p \in Peers : Mintable(p) = Held(lease[p], to_client[p])
      /\ Clients \subseteq Peers /\ members \subseteq Peers
  BY DEF Mintable, Held, IInv, TypeOK, Clients
<1>2. ~halted => \A p \in Peers : /\ \A r \in Mintable(p) : ~Above(r)
                                  /\ \A r \in by_route[p] : ~Above(r)
  BY <1>1, Unheard DEF Above
<1>3. halted => \A r : ~Above(r)
  BY DEF Above
<1>4. Distinct
  BY DEF IInv
<1> HIDE DEF Above, Mintable
<1>5. RoutesStayDistinct
  <2>1. \A p, q \in Clients : p # q => Mintable(p) \cap Mintable(q) = {}
    BY <1>1, <1>4 DEF Distinct
  <2>2. \A p \in Clients : \A r \in Mintable(p) : ~Above(r)
    BY <1>1, <1>2, <1>3
  <2>3. ASSUME NEW p \in members, NEW r \in by_route[p]
        PROVE  ~Above(r) /\ \A q \in Clients : r \notin Mintable(q)
    BY <1>1, <1>2, <1>3, <1>4 DEF Distinct
  <2> QED
    BY <2>1, <2>2, <2>3 DEF RoutesStayDistinct
<1>6. ASSUME NEW p \in Clients \ awaited
      PROVE  Mintable(p) \subseteq Spans(grants[p])
  <2>1. PeerIs(counter[server], awaited, p, lease[p], grants[p], to_client[p], by_route[p],
               armed[p], to_server[p])
    BY <1>1, IsOne, Views
  <2>2. Heard(to_server[p], lease[p], grants[p], to_client[p])
    BY <2>1 DEF PeerIs, Follows
  <2> QED
    BY <1>1, <2>2 DEF Heard
<1>7. LeasesAreHonoured
  BY <1>6 DEF LeasesAreHonoured
<1> QED
  BY <1>5, <1>7 DEF LeasesAreSound, IInv

\* extension/WIRE.md, ROUTE_LEASE and SESSION_RESYNC: no two peers may mint one route,
\* nobody holds a route that is still to be minted, and the server holds every client
\* to own what it may mint, whoever joins, leaves or serves.
THEOREM LeasesSound == ASSUME Assumptions, Prompt PROVE Spec => []LeasesAreSound
BY Invariant, InvariantSound, PTL DEF Inv

-----------------------------------------------------------------------------
(* The refinement of RouteIds.                                               *)

\* Who owns a route.
Owning ==
    /\ Owners \in [Routes -> Peers \cup {NoPeer}]
    /\ \A r \in Routes : \A p \in Peers : Owners[r] = p <=> r \in Held(lease[p], to_client[p])

LEMMA OwnersAre == Assumptions /\ IInv => Owning
<1> SUFFICES ASSUME Assumptions, IInv
             PROVE  Owning
  OBVIOUS
<1>1. /\ Book /\ Apart(lease, to_client, by_route) /\ Clients \subseteq Peers
      /\ NoPeer \notin Peers
  BY Views DEF Book, Clients, Assumptions, PeersAssumption
<1> DEFINE own == [p \in Clients |-> Mintable(p)]
           owned == UNION Range(own)
           Of(r) == CHOOSE p \in Clients : r \in own[p]
<1>2. Owners = [r \in Routes |-> IF r \in owned THEN Of(r) ELSE NoPeer]
  BY DEF Owners
<1>3. \A p \in Clients : own[p] = Held(lease[p], to_client[p])
  BY DEF Mintable, Held
<1>4. \A r : r \in owned <=> \E p \in Clients : r \in own[p]
  BY DEF Range
<1>5. \A r : r \in owned => Of(r) \in Clients /\ r \in own[Of(r)]
  BY <1>4
<1>6. \A p \in Peers \ Clients : Held(lease[p], to_client[p]) = {}
  BY <1>1, SpansNone DEF Book, Held
<1> HIDE DEF own, owned, Of
<1>7. ASSUME NEW r \in Routes
      PROVE  /\ Owners[r] \in Peers \cup {NoPeer}
             /\ \A p \in Peers : Owners[r] = p <=> r \in Held(lease[p], to_client[p])
  <2>1. CASE r \in owned
    <3>1. Owners[r] = Of(r) /\ Of(r) \in Clients /\ r \in Held(lease[Of(r)], to_client[Of(r)])
      BY <1>2, <1>3, <1>5, <2>1
    <3> QED
      BY <1>1, <3>1 DEF Apart
  <2>2. CASE r \notin owned
    <3>1. Owners[r] = NoPeer
      BY <1>2, <2>2
    <3>2. \A p \in Peers : r \notin Held(lease[p], to_client[p])
      BY <1>3, <1>4, <1>6, <2>2
    <3> QED
      BY <1>1, <3>1, <3>2
  <2> QED
    BY <2>1, <2>2
<1>8. Owners \in [Routes -> Peers \cup {NoPeer}]
  BY <1>2, <1>7
<1> QED
  BY <1>7, <1>8 DEF Owning

LEMMA OwnersNext == (Assumptions /\ IInv => Owning)'
BY OwnersAre, PTL

\* The routes some member holds.
Used == Routes \cap UNION {by_route[p] : p \in members}

Using == \A r : r \in Used <=> r \in Routes /\ \E p \in Peers : r \in by_route[p]

LEMMA UsingIs == IInv => Using
<1> SUFFICES ASSUME IInv
             PROVE  Using
  OBVIOUS
<1>1. members \subseteq Peers /\ \A p \in Peers \ members : by_route[p] = {}
  BY Views DEF Book
<1> QED
  BY <1>1 DEF Used, Using

LEMMA UsingNext == (IInv => Using)'
BY UsingIs, PTL

\* Some leases are granted, or some peers go.
LEMMA GiveStep ==
    ASSUME Assumptions, IInv, IInv', NEW gone, Passes(gone)
    PROVE  Ids!Give
<1>1. Owning /\ Owning' /\ NoPeer \notin Peers /\ gone \in SUBSET Peers
  BY OwnersAre, OwnersNext DEF Assumptions, PeersAssumption, Passes
<1>2. /\ \A r : r \in Used <=> r \in Routes /\ \E p \in Peers : r \in by_route[p]
      /\ \A r : r \in Used' <=> r \in Routes /\ \E p \in Peers : r \in by_route'[p]
  BY UsingIs, UsingNext DEF Using
<1>3. Apart(lease', to_client', by_route')
  BY ViewsNext
<1>4. /\ Owners' \in [Routes -> Peers \cup {NoPeer}]
      /\ \A r \in Routes : \A p \in Peers : Owners'[r] = p <=> r \in Held(lease'[p], to_client'[p])
      /\ Owners \in [Routes -> Peers \cup {NoPeer}]
      /\ \A r \in Routes : \A p \in Peers : Owners[r] = p <=> r \in Held(lease[p], to_client[p])
  BY <1>1 DEF Owning
<1>5. Used' \in SUBSET Used
  BY <1>2 DEF Passes
<1>6. ASSUME NEW r \in Routes
      PROVE  \/ Owners'[r] = NoPeer
             \/ Owners'[r] = Owners[r] /\ Owners[r] \notin gone
             \/ Owners[r] \in gone \cup {NoPeer} /\ Owners'[r] \notin gone /\ r \notin Used'
  <2> DEFINE p == Owners'[r]
  <2>1. SUFFICES ASSUME p # NoPeer
                 PROVE  \/ p = Owners[r] /\ Owners[r] \notin gone
                        \/ Owners[r] \in gone \cup {NoPeer} /\ p \notin gone /\ r \notin Used'
    OBVIOUS
  <2>2. p \in Peers /\ r \in Held(lease'[p], to_client'[p])
    BY <1>4, <2>1
  <2>3. /\ p \notin gone
        /\ \/ r \in Held(lease[p], to_client[p])
           \/ \A q \in Peers \ gone : r \notin Held(lease[q], to_client[q])
    BY <2>2 DEF Passes
  <2>4. r \notin Used'
    BY <1>2, <1>3, <2>2 DEF Apart
  <2>5. CASE r \in Held(lease[p], to_client[p])
    BY <1>4, <2>2, <2>3, <2>5
  <2>6. CASE \A q \in Peers \ gone : r \notin Held(lease[q], to_client[q])
    <3>1. Owners[r] \in Peers \cup {NoPeer}
      BY <1>4
    <3>2. Owners[r] \notin Peers \ gone
      BY <1>4, <2>6
    <3> QED
      BY <2>3, <2>4, <3>1, <3>2
  <2> QED
    BY <2>3, <2>5, <2>6
<1> QED
  BY <1>1, <1>4, <1>5, <1>6 DEF Ids!Give, Used

\* A client mints: a step of the specification if the route is one it speaks of.
LEMMA MintStep ==
    ASSUME Assumptions, IInv, IInv', NEW p \in Peers, Minted(p)
    PROVE  Ids!Mint \/ UNCHANGED Ids!vars
<1>1. Owning /\ Owning' /\ NoPeer \notin Peers
  BY OwnersAre, OwnersNext DEF Assumptions, PeersAssumption
<1>2. /\ \A r : r \in Used <=> r \in Routes /\ \E q \in Peers : r \in by_route[q]
      /\ \A r : r \in Used' <=> r \in Routes /\ \E q \in Peers : r \in by_route'[q]
  BY UsingIs, UsingNext DEF Using
<1>3. Apart(lease, to_client, by_route)
  BY Views
<1>4. PICK r \in Held(lease[p], to_client[p]) :
          /\ Held(lease'[p], to_client'[p]) = Held(lease[p], to_client[p]) \ {r}
          /\ by_route' = Learned(by_route, {p}, r)
  BY DEF Minted
<1>5. /\ Owners' \in [Routes -> Peers \cup {NoPeer}]
      /\ \A x \in Routes : \A q \in Peers : Owners'[x] = q <=> x \in Held(lease'[q], to_client'[q])
      /\ Owners \in [Routes -> Peers \cup {NoPeer}]
      /\ \A x \in Routes : \A q \in Peers : Owners[x] = q <=> x \in Held(lease[q], to_client[q])
  BY <1>1 DEF Owning
<1>6. \A q \in Peers \ {p} : Held(lease'[q], to_client'[q]) = Held(lease[q], to_client[q])
  BY DEF Minted
<1>7. \A q \in Peers : by_route'[q] = (IF q = p THEN by_route[q] \cup {r} ELSE by_route[q])
  BY <1>4 DEF Learned
<1>8. \A q \in Peers : r \notin Held(lease'[q], to_client'[q])
  BY <1>3, <1>4, <1>6 DEF Apart
<1>9. \A x \in Routes : x # r => Owners'[x] = Owners[x]
  <2> SUFFICES ASSUME NEW x \in Routes, x # r
               PROVE  Owners'[x] = Owners[x]
    OBVIOUS
  <2>1. \A q \in Peers : Owners'[x] = q <=> Owners[x] = q
    BY <1>4, <1>5, <1>6
  <2>2. Owners'[x] \in Peers \cup {NoPeer} /\ Owners[x] \in Peers \cup {NoPeer}
    BY <1>5
  <2> QED
    BY <2>1, <2>2
<1>10. CASE r \in Routes
  <2>1. Owners[r] = p /\ Owners[r] # NoPeer
    BY <1>1, <1>4, <1>5, <1>10
  <2>2. Owners'[r] = NoPeer
    BY <1>5, <1>8, <1>10
  <2>3. Owners' = [Owners EXCEPT ![r] = NoPeer]
    BY <1>5, <1>9, <2>2
  <2>4. Used' = Used \cup {r}
    BY <1>2, <1>7, <1>10
  <2> QED
    BY <1>10, <2>1, <2>3, <2>4 DEF Ids!Mint, Used
<1>11. CASE r \notin Routes
  <2>1. Owners' = Owners
    BY <1>5, <1>9, <1>11
  <2>2. Used' = Used
    BY <1>2, <1>7, <1>11
  <2> QED
    BY <2>1, <2>2 DEF Ids!vars, Used
<1> QED
  BY <1>10, <1>11

\* The server mints a route nobody has.
LEMMA FreshStep ==
    ASSUME Assumptions, IInv, IInv', ServerMints, MintedFresh
    PROVE  Ids!MintFresh \/ UNCHANGED Ids!vars
<1> DEFINE r == counter[server] + 1
<1>1. Owning /\ NoPeer \notin Peers /\ server \in Peers
  BY OwnersAre, Views DEF Book, Assumptions, PeersAssumption
<1>2. /\ \A x : x \in Used <=> x \in Routes /\ \E q \in Peers : x \in by_route[q]
      /\ \A x : x \in Used' <=> x \in Routes /\ \E q \in Peers : x \in by_route'[q]
  BY UsingIs, UsingNext DEF Using
<1>3. PICK S \in SUBSET Peers : server \in S /\ by_route' = Learned(by_route, S, r)
  BY DEF MintedFresh
<1>4. \A q \in Peers : r \notin by_route[q] /\ r \notin Held(lease[q], to_client[q])
  BY DEF MintedFresh
<1>5. Owners' = Owners
  <2>1. lease' = lease /\ to_client' = to_client /\ Clients' = Clients
    BY DEF ServerMints, links, Clients
  <2> QED
    BY <2>1 DEF Owners, Mintable
<1> HIDE DEF r
<1>6. /\ \A q \in Peers : \A x \in by_route[q] : x \in by_route'[q]
      /\ \A q \in Peers : \A x \in by_route'[q] : x \in by_route[q] \/ x = r
      /\ r \in by_route'[server]
  BY <1>1, <1>3 DEF Learned
<1>7. CASE r \in Routes
  <2>1. Owners[r] = NoPeer /\ r \notin Used
    BY <1>1, <1>2, <1>4, <1>7 DEF Owning
  <2>2. Used' = Used \cup {r}
    BY <1>1, <1>2, <1>6, <1>7
  <2> QED
    BY <1>5, <1>7, <2>1, <2>2 DEF Ids!MintFresh, Ids!Free, Used
<1>8. CASE r \notin Routes
  <2>1. Used' = Used
    BY <1>2, <1>6, <1>8
  <2> QED
    BY <1>5, <2>1 DEF Ids!vars, Used
<1> QED
  BY <1>7, <1>8

\* extension/WIRE.md, ROUTE_LEASE: every step of the leases gives out free routes, mints
\* one its owner was given, or mints one that is free.
THEOREM LeasesImplementRouteIds == ASSUME Assumptions, Prompt PROVE Spec => RefinesIds
<1>1. Init => Ids!Init
  <2> SUFFICES ASSUME Init
               PROVE  Ids!Init
    OBVIOUS
  <2>1. Owning
    BY InitSound, OwnersAre
  <2>2. \A p \in Peers : by_route[p] = {}
    BY DEF Init
  <2>3. Used = {}
    BY <2>2, InitSound, UsingIs DEF Using
  <2> QED
    BY <2>1, <2>3 DEF Ids!Init, Owning, Used
<1>2. Inv /\ Inv' /\ [Next]_vars => [UNCHANGED vars \/ Ids!Next]_(Ids!vars)
  <2> SUFFICES ASSUME Inv, Inv', Next
               PROVE  Ids!Next \/ UNCHANGED Ids!vars
    OBVIOUS
  <2>1. IInv /\ IInv' /\ Counts
    BY DEF Inv
  <2>2. \/ \E gone : Passes(gone)
        \/ \E p \in Peers : ClientMints(p) /\ Minted(p)
        \/ ServerMints /\ MintedFresh
    BY <2>1, StepSound
  <2> QED
    BY <2>1, <2>2, GiveStep, MintStep, FreshStep DEF Ids!Next
<1> QED
  BY <1>1, <1>2, Invariant, PTL DEF Spec, RefinesIds

=============================================================================

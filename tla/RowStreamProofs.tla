-------------------------- MODULE RowStreamProofs --------------------------
(***************************************************************************)
(* Proofs about RowStream for every value of its constants: type             *)
(* correctness; the inductive invariant IInv, and from it that a token and a *)
(* revision name one image everywhere, that every row lands as the writer    *)
(* meant it, and that the streams of one row are never taken for one         *)
(* another; and the bases: the writer's baseline is a row the reader has,    *)
(* and the images the reader keeps reach back as far as a delta may.  The    *)
(* first of these two needs that no property set is declared again under a   *)
(* live lane, the second that the span of a delta fits the depth of the ring.*)
(***************************************************************************)
EXTENDS RowStream, TLAPS, SequenceTheorems, FiniteSetTheorems

-----------------------------------------------------------------------------
(* What the operations on queues keep and add. *)

\* The records of a queue that gains one at its end.
LEMMA AppendRecords ==
    ASSUME NEW S, NEW q \in Seq(S), NEW r \in S
    PROVE  /\ Append(q, r) \in Seq(S)
           /\ ToSet(Append(q, r)) = ToSet(q) \cup {r}
<1>1. /\ Append(q, r) \in Seq(S)
      /\ Len(Append(q, r)) = Len(q) + 1
      /\ \A i \in 1 .. Len(q) : Append(q, r)[i] = q[i]
      /\ Append(q, r)[Len(q) + 1] = r
  BY AppendProperties
<1>2. /\ DOMAIN Append(q, r) = 1 .. Len(q) + 1
      /\ DOMAIN q = 1 .. Len(q)
      /\ Len(q) \in Nat
  BY <1>1, LenProperties
<1> QED
  BY <1>1, <1>2 DEF ToSet

\* The records of a queue that loses its first.
LEMMA TailRecords ==
    ASSUME NEW S, NEW q \in Seq(S), q # <<>>
    PROVE  /\ Head(q) \in S
           /\ Head(q) \in ToSet(q)
           /\ Tail(q) \in Seq(S)
           /\ ToSet(Tail(q)) \subseteq ToSet(q)
           /\ DOMAIN q = 1 .. Len(q)
           /\ Len(q) \in Nat \ {0}
           /\ DOMAIN Tail(q) = 1 .. Len(q) - 1
           /\ \A i \in DOMAIN Tail(q) : i + 1 \in DOMAIN q
                                        /\ Tail(q)[i] = q[i + 1]
<1>1. /\ Head(q) \in S
      /\ Tail(q) \in Seq(S)
      /\ Len(Tail(q)) = Len(q) - 1
      /\ \A i \in 1 .. Len(Tail(q)) : Tail(q)[i] = q[i + 1]
  BY HeadTailProperties
<1>2. Len(q) \in Nat \ {0} /\ DOMAIN q = 1 .. Len(q)
  BY EmptySeq, LenProperties
<1>3. DOMAIN Tail(q) = 1 .. Len(q) - 1
  BY <1>1, LenProperties
<1>4. Head(q) = q[1]
  OBVIOUS
<1> QED
  BY <1>1, <1>2, <1>3, <1>4 DEF ToSet

\* A queue that takes a record keeps its others, or their places.
LEMMA QueuedRecords ==
    ASSUME NEW q \in Seq(Control), NEW r \in Control
    PROVE  /\ Queued(q, r) \in Seq(Control)
           /\ ToSet(Queued(q, r)) \subseteq ToSet(q) \cup {r}
<1> DEFINE same == {i \in DOMAIN q : SameSubject(q[i], r)}
           new == [i \in DOMAIN q |-> IF i \in same THEN r ELSE q[i]]
<1>1. CASE same = {}
  <2>1. Queued(q, r) = Append(q, r)
    BY <1>1 DEF Queued
  <2> QED
    BY <2>1, AppendRecords
<1>2. CASE same # {}
  <2>1. Queued(q, r) = new
    BY <1>2 DEF Queued
  <2>2. DOMAIN q = 1 .. Len(q) /\ Len(q) \in Nat
    BY LenProperties
  <2>3. \A n \in 1 .. Len(q) : new[n] \in Control
    BY <2>2, ElementOfSeq
  <2> HIDE DEF same
  <2>4. new \in Seq(Control)
    BY <2>2, <2>3, SeqDef
  <2>5. ToSet(new) \subseteq ToSet(q) \cup {r}
    BY DEF ToSet
  <2> QED
    BY <2>1, <2>4, <2>5
<1> QED
  BY <1>1, <1>2

\* A queue that drops a token's record keeps the others.
LEMMA DroppedRecords ==
    ASSUME NEW q \in Seq(Control), NEW t
    PROVE  /\ Dropped(q, t) \in Seq(Control)
           /\ ToSet(Dropped(q, t)) \subseteq ToSet(q)
<1> DEFINE doomed == {i \in DOMAIN q : q[i].token = t /\ q[i].tag # "OPEN"}
           k == CHOOSE i \in doomed : TRUE
<1>1. CASE doomed = {}
  BY <1>1 DEF Dropped
<1>2. CASE doomed # {}
  <2>1. k \in DOMAIN q
    BY <1>2
  <2>2. Dropped(q, t) = SubSeq(q, 1, k - 1) \o SubSeq(q, k + 1, Len(q))
    BY <1>2 DEF Dropped, RemoveAt
  <2> HIDE DEF k, doomed
  <2> DEFINE head == SubSeq(q, 1, k - 1)
             rest == SubSeq(q, k + 1, Len(q))
  <2>3. /\ DOMAIN q = 1 .. Len(q)
        /\ Len(q) \in Nat
        /\ \A i \in 1 .. Len(q) : q[i] \in Control
    BY LenProperties, ElementOfSeq
  <2>4. k \in 1 .. Len(q)
    BY <2>1, <2>3
  <2>5. /\ head \in Seq(Control)
        /\ Len(head) = k - 1
        /\ \A i \in 1 .. k - 1 : head[i] = q[i]
    <3>1. \A i \in 1 .. k - 1 : q[i] \in Control
      BY <2>3, <2>4
    <3> QED
      BY <3>1, <2>4, <2>3, SubSeqProperties
  <2>6. /\ rest \in Seq(Control)
        /\ Len(rest) = Len(q) - k
        /\ \A i \in 1 .. Len(q) - k : rest[i] = q[k + i]
    <3>1. \A i \in k + 1 .. Len(q) : q[i] \in Control
      BY <2>3, <2>4
    <3>2. /\ rest \in Seq(Control)
          /\ Len(rest) = IF k + 1 <= Len(q) THEN Len(q) - (k + 1) + 1 ELSE 0
          /\ \A i \in 1 .. Len(q) - (k + 1) + 1 : rest[i] = q[(k + 1) + i - 1]
      BY <3>1, <2>4, <2>3, SubSeqProperties
    <3> HIDE DEF rest
    <3>3. Len(rest) = Len(q) - k
      <4>1. CASE k + 1 <= Len(q)
        BY <4>1, <3>2, <2>3, <2>4
      <4>2. CASE ~(k + 1 <= Len(q))
        <5>1. k = Len(q) /\ Len(q) - k = 0
          <6>1. k \in Int /\ Len(q) \in Int /\ k <= Len(q)
            BY <2>3, <2>4
          <6> QED
            BY <6>1, <4>2
        <5>2. Len(rest) = 0
          BY <4>2, <3>2
        <5> QED
          BY <5>1, <5>2
      <4> QED
        BY <4>1, <4>2
    <3>4. \A i \in 1 .. Len(q) - k : rest[i] = q[k + i]
      <4> TAKE i \in 1 .. Len(q) - k
      <4>1. (k + 1) + i - 1 = k + i /\ i \in 1 .. Len(q) - (k + 1) + 1
        BY <2>3, <2>4
      <4> QED
        BY <4>1, <3>2
    <3> QED
      BY <3>2, <3>3, <3>4
  <2>7. /\ head \o rest \in Seq(Control)
        /\ Len(head \o rest) = Len(q) - 1
        /\ \A i \in 1 .. Len(q) - 1 : (head \o rest)[i] =
              IF i <= k - 1 THEN head[i] ELSE rest[i - (k - 1)]
    <3> HIDE DEF head, rest
    <3>1. Len(head) + Len(rest) = Len(q) - 1
      BY <2>3, <2>4, <2>5, <2>6
    <3> QED
      BY <3>1, <2>5, <2>6, ConcatProperties
  <2>8. DOMAIN (head \o rest) = 1 .. Len(q) - 1
    BY <2>7, LenProperties
  <2>9. \A i \in 1 .. Len(q) - 1 :
           \E j \in 1 .. Len(q) : (head \o rest)[i] = q[j]
    <3> HIDE DEF head, rest
    <3> TAKE i \in 1 .. Len(q) - 1
    <3>1. CASE i <= k - 1
      BY <3>1, <2>3, <2>4, <2>5, <2>7
    <3>2. CASE ~(i <= k - 1)
      <4>1. i - (k - 1) \in 1 .. Len(q) - k
        BY <3>2, <2>3, <2>4
      <4>2. (head \o rest)[i] = q[k + (i - (k - 1))]
        BY <3>2, <4>1, <2>6, <2>7
      <4>3. k + (i - (k - 1)) \in 1 .. Len(q)
        BY <4>1, <2>3, <2>4
      <4> QED
        BY <4>2, <4>3
    <3> QED
      BY <3>1, <3>2
  <2>10. ToSet(head \o rest) \subseteq ToSet(q)
    <3> HIDE DEF head, rest
    <3> QED
      BY <2>3, <2>8, <2>9 DEF ToSet
  <2> QED
    BY <2>2, <2>7, <2>10
<1> QED
  BY <1>1, <1>2

-----------------------------------------------------------------------------
(* What the operators on lanes return. *)

LEMMA ClosedRowType ==
    /\ ClosedRow("NONE") \in Sent
    /\ ClosedRow("OPENING") \in Sent
  BY BoundAssumption DEF ClosedRow, Sent, Request, Token, Revision

LEMMA RecordType ==
    ASSUME NEW tag \in {"OPEN", "CLOSE", "READY", "RESET", "ACCEPT",
                        "HIDE", "SPAWN"},
           NEW request \in Request, NEW token \in Token
    PROVE  Record(tag, request, token) \in Control
  BY BoundAssumption DEF Record, Control, Revision

LEMMA AcceptedType ==
    ASSUME NEW held \in SUBSET Receipt, NEW token \in Token, NEW rev \in Revision
    PROVE  Accepted(held, token, rev) \in SUBSET Receipt
  BY DEF Accepted, Receipt

\* Eviction only takes flights away.
LEMMA EvictedSubset ==
    ASSUME NEW flights
    PROVE  Evicted(flights) \subseteq flights
  BY DEF Evicted

\* A mint moves the counter on, exposes what it minted, and leaves the rest of
\* the lane alone.
LEMMA MintedType ==
    ASSUME TypeOK, sent.next <= MaxRevision, NEW pinned \in BOOLEAN
    PROVE  /\ Minted(sent, pinned) \in Sent
           /\ Minted(sent, pinned).next = sent.next + 1
           /\ Minted(sent, pinned).flights \subseteq
                 sent.flights \cup {[rev |-> sent.next, image |-> image,
                                     pinned |-> pinned]}
           /\ Minted(sent, pinned).stream = sent.stream
           /\ Minted(sent, pinned).request = sent.request
           /\ Minted(sent, pinned).token = sent.token
           /\ Minted(sent, pinned).acked = sent.acked
           /\ Minted(sent, pinned).baseline = sent.baseline
<1> DEFINE made == [rev |-> sent.next, image |-> image, pinned |-> pinned]
           flights == Evicted(sent.flights \cup {made})
           exposed == IF sent.next > sent.exposed THEN sent.next
                                                  ELSE sent.exposed
<1>1. sent \in Sent /\ image \in Image
  BY DEF TypeOK
<1>2. sent.next \in Revision /\ sent.next + 1 \in 1 .. MaxRevision + 1
  BY <1>1, BoundAssumption DEF Sent, Revision
<1>3. made \in Flight
  BY <1>1, <1>2 DEF Flight
<1>4. flights \subseteq sent.flights \cup {made} /\ flights \subseteq Flight
  BY <1>1, <1>3, EvictedSubset DEF Sent
<1>5. exposed \in Revision
  BY <1>1, <1>2 DEF Sent
<1>6. Minted(sent, pinned) = [sent EXCEPT !.next = sent.next + 1,
                                          !.exposed = exposed,
                                          !.flights = flights]
  BY DEF Minted
<1> HIDE DEF flights, exposed
<1> QED
  BY <1>1, <1>2, <1>4, <1>5, <1>6 DEF Sent

LEMMA EncodedType ==
    ASSUME TypeOK, NEW rev \in Revision, NEW from \in Revision, NEW base
    PROVE  Encoded(rev, from, base) \in Row
<1>1. sent.token \in Token /\ image \in Image
  BY DEF TypeOK, Sent
<1>2. 0 \in Revision
  BY BoundAssumption DEF Revision
<1> QED
  BY <1>1, <1>2 DEF Encoded, Absolute, Delta, Differing, Row

LEMMA DecodedType ==
    ASSUME NEW row \in Row, NEW base \in Image
    PROVE  Decoded(row, base) \in Image
  BY DEF Decoded, Row, Image

ReceivedType == [token : Token, accepted : Revision, ring : SUBSET Kept]

LEMMA BasesType ==
    ASSUME NEW got \in ReceivedType, NEW row \in Row
    PROVE  Bases(got, row) \subseteq Image
  BY DEF Bases, ReceivedType, Kept, Row

LEMMA LandedType ==
    ASSUME NEW got \in ReceivedType, NEW row \in Row, NEW codes \in Image
    PROVE  Landed(got, row, codes) \in ReceivedType
<1> DEFINE kept == IF got.token = row.token THEN got.ring ELSE {}
           all == kept \cup {[rev |-> row.rev, image |-> codes]}
           ring == {k \in all :
                       Cardinality({j \in all : j.rev > k.rev}) < ReceivedDepth}
<1>1. Landed(got, row, codes) =
         [token |-> row.token, accepted |-> row.rev, ring |-> ring]
  BY DEF Landed
<1>2. all \subseteq Kept
  BY DEF ReceivedType, Kept, Row
<1> HIDE DEF all
<1> QED
  BY <1>1, <1>2 DEF ReceivedType, Row

-----------------------------------------------------------------------------
(* Type correctness. *)

LEMMA DispatchedTypeOK ==
    ASSUME TypeOK, NEW w \in Sent, NEW row \in Row, NEW fate,
           Dispatched(w, row, fate)
    PROVE  TypeOK'
<1>1. rows' \in SUBSET Row
  BY DEF Dispatched, TypeOK
<1> DEFINE left == {f \in w.flights : f.rev # row.rev}
<1>2. left \in SUBSET Flight
  BY DEF Sent
<1>3. sent' \in Sent
  <2>1. sent' = w \/ sent' = [w EXCEPT !.flights = left]
    BY DEF Dispatched
  <2> HIDE DEF left
  <2> QED
    BY <1>2, <2>1 DEF Sent
<1>4. UNCHANGED <<image, admitted, copied, lastRequest, writerOut, toReader,
                  readerVars, toWriter, moves>>
  BY DEF Dispatched
<1> QED
  BY <1>1, <1>3, <1>4 DEF TypeOK, readerVars

LEMMA SendTypeOK ==
    ASSUME TypeOK, NEW fate \in Fate, Send(fate)
    PROVE  TypeOK'
<1>1. /\ sent \in Sent /\ sent.next \in Nat /\ sent.acked \in Revision
      /\ \A f \in sent.flights : f.rev \in Revision
      /\ MaxRevision \in Nat
  BY BoundAssumption DEF TypeOK, Sent, Flight, Revision
<1>2. sent.next <= MaxRevision => sent.next \in Revision
  BY <1>1 DEF Revision
<1>3. CASE SendFresh(fate)
  <2>1. sent.next <= MaxRevision
    BY <1>1, <1>3 DEF SendFresh
  <2> DEFINE w == [Minted(sent, FALSE) EXCEPT !.rest = sent.next,
                                              !.armed = TRUE]
             row == Encoded(sent.next, sent.acked, sent.baseline)
  <2>2. w \in Sent
    BY <2>1, <1>2, MintedType DEF Sent
  <2>3. row \in Row
    BY <1>1, <1>2, <2>1, EncodedType
  <2>4. Dispatched(w, row, fate)
    BY <1>3 DEF SendFresh
  <2> HIDE DEF w, row
  <2> QED
    BY <2>2, <2>3, <2>4, DispatchedTypeOK
<1>4. CASE SendRefresh(fate)
  <2>1. sent.next <= MaxRevision
    BY <1>1, <1>4 DEF SendRefresh
  <2> DEFINE w == [Minted(sent, FALSE) EXCEPT !.armed = Heartbeat]
  <2>2. w \in Sent
    BY <2>1, MintedType, DepthAssumption DEF Sent
  <2>3. \/ Dispatched(w, Encoded(sent.next, sent.acked, sent.baseline), fate)
        \/ \E f \in sent.flights :
              Dispatched(w, Encoded(sent.next, f.rev, f.image), fate)
    BY <1>4 DEF SendRefresh, RestFlight
  <2> HIDE DEF w
  <2>4. CASE Dispatched(w, Encoded(sent.next, sent.acked, sent.baseline), fate)
    BY <2>4, <2>2, <1>1, <1>2, <2>1, EncodedType, DispatchedTypeOK
  <2>5. CASE \E f \in sent.flights :
                Dispatched(w, Encoded(sent.next, f.rev, f.image), fate)
    BY <2>5, <2>2, <1>1, <1>2, <2>1, EncodedType, DispatchedTypeOK
  <2> QED
    BY <2>3, <2>4, <2>5
<1>5. CASE SendRepair(fate)
  <2>1. \A rev \in Revision : Absolute(rev) \in Row
    BY BoundAssumption DEF Absolute, Row, TypeOK, Sent, Revision
  <2>2. ASSUME NEW f \in PinnedFlight,
               Dispatched([sent EXCEPT !.rest = f.rev, !.armed = TRUE],
                          Absolute(f.rev), fate)
        PROVE  TypeOK'
    <3>1. f.rev \in Revision
      BY <1>1 DEF PinnedFlight
    <3>2. [sent EXCEPT !.rest = f.rev, !.armed = TRUE] \in Sent
      BY <3>1, <1>1 DEF Sent
    <3> QED
      BY <2>1, <2>2, <3>1, <3>2, DispatchedTypeOK
  <2>3. ASSUME sent.next <= MaxRevision,
               Dispatched([Minted(sent, TRUE) EXCEPT !.rest = sent.next,
                                                     !.armed = TRUE],
                          Absolute(sent.next), fate)
        PROVE  TypeOK'
    <3>1. [Minted(sent, TRUE) EXCEPT !.rest = sent.next, !.armed = TRUE]
             \in Sent
      BY <2>3, <1>2, MintedType DEF Sent
    <3> QED
      BY <2>1, <2>3, <1>2, <3>1, DispatchedTypeOK
  <2> QED
    BY <1>5, <2>2, <2>3 DEF SendRepair
<1> QED
  BY <1>3, <1>4, <1>5 DEF Send

\* The writer's own actions keep every type.
LEMMA WriterTypeOK ==
    ASSUME TypeOK,
           \/ Change \/ Hide \/ Reopen \/ Admit \/ OpenStream \/ AskAgain
           \/ FlushWriter \/ HearAnswer
    PROVE  TypeOK'
<1> USE BoundAssumption
<1>1. CASE Change
  <2>1. image' \in Image
    BY <1>1 DEF Change, TypeOK, Image
  <2> DEFINE loose == {[f EXCEPT !.pinned = FALSE] : f \in sent.flights}
  <2>2. Evicted(loose) \subseteq Flight
    <3>1. sent.flights \subseteq Flight
      BY DEF TypeOK, Sent
    <3>2. loose \subseteq Flight
      BY <3>1 DEF Flight
    <3> HIDE DEF loose
    <3> QED
      BY <3>2, EvictedSubset
  <2>3. sent' = [sent EXCEPT !.flights = Evicted(loose)]
    BY <1>1 DEF Change
  <2> HIDE DEF loose
  <2>4. sent' \in Sent
    BY <2>2, <2>3 DEF TypeOK, Sent
  <2>5. UNCHANGED <<admitted, copied, lastRequest, writerOut, toReader, rows,
                    readerVars, toWriter, moves>>
    BY <1>1 DEF Change
  <2> QED
    BY <2>1, <2>4, <2>5 DEF TypeOK, readerVars
<1>2. CASE Hide
  <2>1. sent' \in Sent
    BY <1>2, ClosedRowType DEF Hide
  <2>2. writerOut' \in Seq(Control)
    BY <1>2, DroppedRecords DEF Hide, TypeOK
  <2>3. toReader' \in Seq(Control)
    <3>1. Record("HIDE", 0, 0) \in Control /\ toReader \in Seq(Control)
      BY RecordType DEF TypeOK, Request, Token
    <3>2. \/ toReader' = toReader
          \/ toReader' = Append(toReader, Record("HIDE", 0, 0))
      BY <1>2 DEF Hide
    <3> QED
      BY <3>1, <3>2, AppendRecords
  <2>4. /\ copied' \in BOOLEAN /\ admitted' \in BOOLEAN
        /\ moves' \in 0 .. MaxMoves
    <3>1. moves < MaxMoves /\ moves' = moves + 1
      BY <1>2 DEF Hide
    <3>2. admitted' = FALSE
      BY <1>2 DEF Hide
    <3>3. copied' = copied \/ copied' = FALSE
      BY <1>2 DEF Hide
    <3>4. copied \in BOOLEAN /\ moves \in 0 .. MaxMoves
      BY DEF TypeOK
    <3>5. moves' \in 0 .. MaxMoves
      BY <3>1, <3>4
    <3>6. copied' \in BOOLEAN
      BY <3>3, <3>4
    <3> QED
      BY <3>2, <3>5, <3>6
  <2>5. UNCHANGED <<image, lastRequest, rows, readerVars, toWriter>>
    BY <1>2 DEF Hide
  <2> QED
    BY <2>1, <2>2, <2>3, <2>4, <2>5 DEF TypeOK, readerVars
<1>3. CASE Reopen
  <2>1. sent' \in Sent
    BY <1>3, ClosedRowType DEF Reopen
  <2>2. Record("CLOSE", 0, sent.token) \in Control
    BY RecordType DEF TypeOK, Sent, Request
  <2>3. writerOut' \in Seq(Control)
    BY <1>3, <2>2, DroppedRecords, QueuedRecords DEF Reopen, TypeOK
  <2>4. moves' \in 0 .. MaxMoves
    BY <1>3 DEF Reopen, TypeOK
  <2>5. UNCHANGED <<image, admitted, copied, lastRequest, toReader, rows,
                    readerVars, toWriter>>
    BY <1>3 DEF Reopen
  <2> QED
    BY <2>1, <2>3, <2>4, <2>5 DEF TypeOK, readerVars
<1>4. CASE Admit
  <2>1. toReader' \in Seq(Control)
    <3>1. Record("SPAWN", 0, 0) \in Control /\ toReader \in Seq(Control)
      BY RecordType DEF TypeOK, Request, Token
    <3>2. \/ toReader' = toReader
          \/ toReader' = Append(toReader, Record("SPAWN", 0, 0))
      BY <1>4 DEF Admit
    <3> QED
      BY <3>1, <3>2, AppendRecords
  <2>2. copied' \in BOOLEAN /\ admitted' \in BOOLEAN
    BY <1>4 DEF Admit, TypeOK
  <2>3. UNCHANGED <<image, lastRequest, sent, writerOut, rows, readerVars,
                    toWriter, moves>>
    BY <1>4 DEF Admit
  <2> QED
    BY <2>1, <2>2, <2>3 DEF TypeOK, readerVars
<1>5. CASE OpenStream
  <2>1. lastRequest + 1 \in Request
    BY <1>5 DEF OpenStream, TypeOK, Request
  <2>2. [ClosedRow("OPENING") EXCEPT !.request = lastRequest + 1] \in Sent
    BY <2>1, ClosedRowType DEF Sent
  <2>3. Record("OPEN", lastRequest + 1, 0) \in Control
    BY <2>1, RecordType DEF Token
  <2>4. writerOut' \in Seq(Control)
    BY <1>5, <2>3, QueuedRecords DEF OpenStream, TypeOK
  <2>5. UNCHANGED <<image, admitted, copied, toReader, rows, readerVars,
                    toWriter, moves>>
    BY <1>5 DEF OpenStream
  <2> QED
    BY <1>5, <2>1, <2>2, <2>4, <2>5 DEF TypeOK, readerVars, OpenStream
<1>6. CASE AskAgain
  <2>1. Record("OPEN", sent.request, 0) \in Control
    BY RecordType DEF TypeOK, Sent, Token
  <2>2. writerOut' \in Seq(Control)
    BY <1>6, <2>1, QueuedRecords DEF AskAgain, TypeOK
  <2>3. UNCHANGED <<image, admitted, copied, lastRequest, sent, toReader, rows,
                    readerVars, toWriter, moves>>
    BY <1>6 DEF AskAgain
  <2> QED
    BY <2>2, <2>3 DEF TypeOK, readerVars
<1>7. CASE FlushWriter
  <2>1. Head(writerOut) \in Control /\ Tail(writerOut) \in Seq(Control)
    BY <1>7, TailRecords DEF FlushWriter, TypeOK
  <2>2. toReader' \in Seq(Control) /\ writerOut' \in Seq(Control)
    BY <1>7, <2>1, AppendRecords DEF FlushWriter, TypeOK
  <2>3. UNCHANGED <<image, admitted, copied, lastRequest, sent, rows,
                    readerVars, toWriter, moves>>
    BY <1>7 DEF FlushWriter
  <2> QED
    BY <2>2, <2>3 DEF TypeOK, readerVars
<1>8. CASE HearAnswer
  <2>1. /\ Head(toWriter) \in Control
        /\ toWriter' \in Seq(Control)
        /\ UNCHANGED <<image, admitted, copied, lastRequest, toReader, rows,
                       readerVars, moves, writerOut>>
    <3>1. /\ toWriter # <<>>
          /\ toWriter' = Tail(toWriter)
          /\ UNCHANGED <<image, admitted, copied, lastRequest, toReader, rows,
                         readerVars, moves, writerOut>>
      BY <1>8 DEF HearAnswer, HearReady, HearReset, HearAccept, Answer
    <3>2. toWriter \in Seq(Control)
      BY DEF TypeOK
    <3> QED
      BY <3>1, <3>2, TailRecords
  <2>2. sent' \in Sent
    <3>1. CASE HearReady
      <4>1. sent \in Sent
        BY DEF TypeOK
      <4> DEFINE t == Head(toWriter).token
      <4>2. t \in Token
        BY <2>1 DEF Control
      <4>3. sent' = [sent EXCEPT !.stream = "READY", !.token = t] \/ sent' = sent
        BY <3>1, Zenon DEF HearReady
      <4> HIDE DEF t
      <4> QED
        BY <4>1, <4>2, <4>3 DEF Sent
    <3>2. CASE HearReset
      <4>1. sent' = ClosedRow("NONE") \/ sent' = sent
        BY <3>2, Zenon DEF HearReset
      <4>2. sent \in Sent
        BY DEF TypeOK
      <4> QED
        BY <4>1, <4>2, ClosedRowType, Zenon
    <3>3. CASE HearAccept
      <4>1. \/ UNCHANGED sent
            \/ \E f \in sent.flights :
                  sent' = [sent EXCEPT !.acked = f.rev, !.baseline = f.image,
                              !.flights = {g \in sent.flights : g.rev > f.rev}]
        BY <3>3 DEF HearAccept
      <4>2. sent \in Sent
        BY DEF TypeOK
      <4>3. ASSUME NEW f \in sent.flights
            PROVE  [sent EXCEPT !.acked = f.rev, !.baseline = f.image,
                       !.flights = {g \in sent.flights : g.rev > f.rev}] \in Sent
        <5>1. f \in Flight /\ {g \in sent.flights : g.rev > f.rev} \subseteq Flight
          BY <4>2 DEF Sent
        <5> QED
          BY <4>2, <5>1 DEF Sent, Flight
      <4> QED
        BY <4>1, <4>2, <4>3
    <3> QED
      BY <1>8, <3>1, <3>2, <3>3 DEF HearAnswer
  <2> QED
    BY <2>1, <2>2 DEF TypeOK, readerVars
<1> QED
  BY <1>1, <1>2, <1>3, <1>4, <1>5, <1>6, <1>7, <1>8

\* The reader's handlers of what the reliable link brings keep every type.
LEMMA LinkTypeOK ==
    ASSUME TypeOK,
           HearFrame \/ Rebind \/ FlushAnswer \/ FlushReceipt
    PROVE  TypeOK'
<1> USE BoundAssumption
<1> DEFINE LaneType == [request : Request, token : Token, invalidated : BOOLEAN]
<1>1. /\ NoLane \in LaneType
      /\ NoReceived \in [token : Token, accepted : Revision,
                         ring : SUBSET Kept]
  BY DEF NoLane, NoReceived, Request, Token, Revision
<1>2. ASSUME HearFrame
      PROVE  /\ Head(toReader) \in Control
             /\ toReader' \in Seq(Control)
             /\ UNCHANGED <<writerVars, rows, receipts, toWriter, moves>>
  <2>1. /\ toReader # <<>>
        /\ toReader' = Tail(toReader)
        /\ UNCHANGED <<writerVars, rows, receipts, toWriter, moves>>
    BY <1>2 DEF HearFrame, HearOpen, HearClose, HearHide, HearSpawn, Frame
  <2>2. toReader \in Seq(Control)
    BY DEF TypeOK
  <2> QED
    BY <2>1, <2>2, TailRecords
<1>3. CASE HearOpen
  <2>1. Head(toReader).request \in Request
    BY <1>2, <1>3 DEF HearFrame, Control
  <2>2. lastToken' \in Token /\ lane' \in LaneType
    <3>1. \/ lastToken' = lastToken /\ lane' = lane
          \/ /\ lastToken < MaxToken
             /\ lastToken' = lastToken + 1
             /\ lane' = [request |-> Head(toReader).request,
                         token |-> lastToken + 1, invalidated |-> FALSE]
      BY <1>3 DEF HearOpen
    <3>2. lastToken \in 0 .. MaxToken /\ lane \in LaneType
      BY DEF TypeOK, Token
    <3>3. lastToken < MaxToken => lastToken + 1 \in Token
      BY <3>2 DEF Token
    <3>4. lastToken \in Token
      BY <3>2 DEF Token
    <3>5. CASE lastToken' = lastToken /\ lane' = lane
      BY <3>5, <3>2, <3>4
    <3>6. CASE /\ lastToken < MaxToken
               /\ lastToken' = lastToken + 1
               /\ lane' = [request |-> Head(toReader).request,
                           token |-> lastToken + 1, invalidated |-> FALSE]
      BY <3>6, <3>3, <2>1
    <3> QED
      BY <3>1, <3>5, <3>6
  <2>3. readerOut' \in Seq(Control)
    <3>1. \/ readerOut' = readerOut
          \/ \E tag \in {"READY", "RESET"}, token \in Token :
                readerOut' = Queued(readerOut,
                                Record(tag, Head(toReader).request, token))
      <4>1. 0 \in Token /\ lane.token \in Token
        BY DEF TypeOK, Token
      <4>2. lastToken < MaxToken => lastToken + 1 \in Token
        BY DEF TypeOK, Token
      <4> QED
        BY <1>3, <4>1, <4>2 DEF HearOpen
    <3>2. readerOut \in Seq(Control)
      BY DEF TypeOK
    <3>3. \A tag \in {"READY", "RESET"}, token \in Token :
             Record(tag, Head(toReader).request, token) \in Control
      BY <2>1, RecordType
    <3> QED
      BY <3>1, <3>2, <3>3, QueuedRecords
  <2>4. UNCHANGED <<known, received, early, shown>>
    BY <1>3 DEF HearOpen
  <2> QED
    BY <1>2, <1>3, <2>2, <2>3, <2>4 DEF HearFrame, TypeOK, writerVars
<1>4. CASE HearClose
  <2>1. lane' \in LaneType
    BY <1>1, <1>4 DEF HearClose, TypeOK
  <2>2. UNCHANGED <<known, lastToken, received, early, shown, readerOut>>
    BY <1>4 DEF HearClose
  <2> QED
    BY <1>2, <1>4, <2>1, <2>2 DEF HearFrame, TypeOK, writerVars
<1>5. CASE HearHide
  BY <1>1, <1>2, <1>5 DEF HearFrame, HearHide, TypeOK, writerVars
<1>6. CASE HearSpawn
  BY <1>1, <1>2, <1>6 DEF HearFrame, HearSpawn, TypeOK, writerVars
<1>7. CASE Rebind
  <2>1. moves' \in 0 .. MaxMoves
    BY <1>7 DEF Rebind, TypeOK
  <2>2. /\ received' = NoReceived /\ early' = {}
        /\ UNCHANGED <<writerVars, toReader, rows, known, lastToken, lane,
                       shown, readerOut, receipts, toWriter>>
    BY <1>7 DEF Rebind
  <2> QED
    BY <1>1, <2>1, <2>2 DEF TypeOK, writerVars
<1>8. CASE FlushAnswer
  <2>1. Head(readerOut) \in Control /\ Tail(readerOut) \in Seq(Control)
    BY <1>8, TailRecords DEF FlushAnswer, TypeOK
  <2>2. readerOut' \in Seq(Control) /\ toWriter' \in Seq(Control)
    BY <1>8, <2>1, AppendRecords DEF FlushAnswer, TypeOK
  <2>3. UNCHANGED <<writerVars, toReader, rows, known, lastToken, lane,
                    received, early, shown, receipts, moves>>
    BY <1>8 DEF FlushAnswer
  <2> QED
    BY <2>2, <2>3 DEF TypeOK, writerVars
<1>9. CASE FlushReceipt
  <2>1. PICK r \in receipts :
           /\ receipts' = receipts \ {r}
           /\ toWriter' = Append(toWriter, [Record("ACCEPT", 0, r.token)
                                               EXCEPT !.rev = r.rev])
    BY <1>9 DEF FlushReceipt
  <2>2. r.token \in Token /\ r.rev \in Revision /\ 0 \in Request
    BY DEF TypeOK, Receipt, Request
  <2>3. [Record("ACCEPT", 0, r.token) EXCEPT !.rev = r.rev] \in Control
    BY <2>2 DEF Record, Control
  <2>4. toWriter' \in Seq(Control) /\ receipts' \in SUBSET Receipt
    BY <2>1, <2>3, AppendRecords DEF TypeOK
  <2>5. UNCHANGED <<writerVars, toReader, rows, known, lastToken, lane,
                    received, early, shown, readerOut, moves>>
    BY <1>9 DEF FlushReceipt
  <2> QED
    BY <2>4, <2>5 DEF TypeOK, writerVars
<1> QED
  BY <1>3, <1>4, <1>5, <1>6, <1>7, <1>8, <1>9 DEF HearFrame

\* What a row that lands makes of the reader, spelled out.
LEMMA LandRowEffect ==
    ASSUME TypeOK, NEW row \in rows, LandRow(row)
    PROVE  \E base \in Bases(received, row) :
              LET codes == Decoded(row, base)
                  first == Landed(received, row, codes)
              IN  /\ codes \in Image
                  /\ first \in ReceivedType
                  /\ shown' = codes
                  /\ \/ /\ received' = first
                        /\ receipts' = Accepted(receipts, row.token, row.rev)
                     \/ \E e \in early :
                           /\ e.token = row.token /\ e.from = row.rev
                           /\ received' = Landed(first, e, Decoded(e, codes))
                           /\ receipts' = Accepted(receipts, e.token, e.rev)
<1>1. PICK base \in Bases(received, row) :
         LET codes == Decoded(row, base)
             first == Landed(received, row, codes)
         IN  /\ shown' = codes
             /\ \/ /\ EdgeDue(first) = {}
                   /\ received' = first
                   /\ receipts' = Accepted(receipts, row.token, row.rev)
                \/ \E e \in EdgeDue(first) :
                      /\ received' = Landed(first, e, Decoded(e, codes))
                      /\ receipts' = Accepted(receipts, e.token, e.rev)
  BY DEF LandRow
<1> DEFINE codes == Decoded(row, base)
           first == Landed(received, row, codes)
<1>2. row \in Row /\ received \in ReceivedType
  BY DEF TypeOK, ReceivedType
<1>3. codes \in Image /\ first \in ReceivedType
  BY <1>2, BasesType, DecodedType, LandedType
<1>4. first.token = row.token /\ first.accepted = row.rev
  BY DEF Landed
<1>5. \A e \in EdgeDue(first) :
         e \in early /\ e.token = row.token /\ e.from = row.rev
  BY <1>4 DEF EdgeDue
<1> QED
  BY <1>1, <1>3, <1>5

\* The reader's handling of a row keeps every type.
LEMMA RowTypeOK ==
    ASSUME TypeOK, NEW row \in rows, ReceiveRow(row)
    PROVE  TypeOK'
<1> USE BoundAssumption
<1>1. row \in Row /\ row.token \in Token /\ row.rev \in Revision
  BY DEF TypeOK, Row
<1>2. /\ rows' \in SUBSET Row
      /\ UNCHANGED <<writerVars, toReader, toWriter, moves, known, lastToken>>
  BY DEF ReceiveRow, RefuseUnknown, RefuseStale, HoldEarly, ResetStreamOf,
         LandRow, Arrives, TypeOK
<1>3. CASE RefuseUnknown(row)
  <2>1. Record("RESET", 0, row.token) \in Control
    BY <1>1, RecordType DEF Request
  <2>2. readerOut' \in Seq(Control)
    BY <1>3, <2>1, QueuedRecords DEF RefuseUnknown, TypeOK
  <2>3. UNCHANGED <<lane, received, early, shown, receipts>>
    BY <1>3 DEF RefuseUnknown
  <2> QED
    BY <1>2, <2>2, <2>3 DEF TypeOK, writerVars
<1>4. CASE RefuseStale(row)
  <2>1. receipts' \in SUBSET Receipt
    BY <1>1, <1>4, AcceptedType DEF RefuseStale, TypeOK
  <2>2. UNCHANGED <<lane, received, early, shown, readerOut>>
    BY <1>4 DEF RefuseStale
  <2> QED
    BY <1>2, <2>1, <2>2 DEF TypeOK, writerVars
<1>5. CASE HoldEarly(row)
  <2>1. early' \in SUBSET Row
    BY <1>1, <1>5 DEF HoldEarly, TypeOK
  <2>2. UNCHANGED <<lane, received, shown, readerOut, receipts>>
    BY <1>5 DEF HoldEarly
  <2> QED
    BY <1>2, <2>1, <2>2 DEF TypeOK, writerVars
<1>6. CASE ResetStreamOf(row)
  <2>1. /\ lane' \in [request : Request, token : Token, invalidated : BOOLEAN]
        /\ receipts' \in SUBSET Receipt
    <3>1. \/ lane' = lane /\ receipts' = receipts
          \/ /\ lane' = [lane EXCEPT !.invalidated = TRUE]
             /\ receipts' = {r \in receipts : r.token # row.token}
      BY <1>6 DEF ResetStreamOf
    <3> QED
      BY <3>1 DEF TypeOK
  <2>2. Record("RESET", lane.request, row.token) \in Control
    BY <1>1, RecordType DEF TypeOK
  <2>3. readerOut' \in Seq(Control)
    <3>1. \/ readerOut' = readerOut
          \/ readerOut' = Queued(Dropped(readerOut, row.token),
                                 Record("RESET", lane.request, row.token))
      BY <1>6 DEF ResetStreamOf
    <3>2. readerOut \in Seq(Control)
      BY DEF TypeOK
    <3> QED
      BY <2>2, <3>1, <3>2, DroppedRecords, QueuedRecords
  <2>4. UNCHANGED <<received, early, shown>>
    BY <1>6 DEF ResetStreamOf
  <2> QED
    BY <1>2, <2>1, <2>3, <2>4 DEF TypeOK, writerVars
<1>7. CASE LandRow(row)
  <2>1. PICK base \in Bases(received, row) :
           LET codes == Decoded(row, base)
               first == Landed(received, row, codes)
           IN  /\ codes \in Image
               /\ first \in ReceivedType
               /\ shown' = codes
               /\ \/ /\ received' = first
                     /\ receipts' = Accepted(receipts, row.token, row.rev)
                  \/ \E e \in early :
                        /\ e.token = row.token /\ e.from = row.rev
                        /\ received' = Landed(first, e, Decoded(e, codes))
                        /\ receipts' = Accepted(receipts, e.token, e.rev)
    BY <1>7, LandRowEffect
  <2> DEFINE codes == Decoded(row, base)
             first == Landed(received, row, codes)
  <2>2. \A e \in early : /\ e \in Row /\ e.token \in Token /\ e.rev \in Revision
                         /\ Decoded(e, codes) \in Image
    BY <2>1, DecodedType DEF TypeOK, Row
  <2> HIDE DEF codes, first
  <2>3. received' \in ReceivedType
    BY <2>1, <2>2, LandedType DEF codes, first
  <2>4. receipts' \in SUBSET Receipt
    BY <1>1, <2>1, <2>2, AcceptedType DEF TypeOK
  <2>5. early' \in SUBSET Row
    BY <1>7 DEF LandRow, EdgeWaits, TypeOK
  <2>6. shown' \in Image /\ UNCHANGED <<lane, readerOut>>
    BY <1>7, <2>1 DEF LandRow
  <2> QED
    BY <1>2, <2>3, <2>4, <2>5, <2>6 DEF TypeOK, writerVars, ReceivedType
<1> QED
  BY <1>3, <1>4, <1>5, <1>6, <1>7 DEF ReceiveRow

LEMMA InitTypeOK == Init => TypeOK
<1>1. <<>> \in Seq(Control)
  BY EmptySeq
<1> QED
  BY <1>1, ClosedRowType, BoundAssumption
     DEF Init, TypeOK, NoLane, NoReceived, Request, Token, Revision

LEMMA NextTypeOK ==
    ASSUME TypeOK, [Next]_vars
    PROVE  TypeOK'
<1>1. CASE Next
  BY <1>1, WriterTypeOK, SendTypeOK, LinkTypeOK, RowTypeOK DEF Next, Disturb
<1>2. CASE UNCHANGED vars
  BY <1>2 DEF vars, writerVars, readerVars, TypeOK
<1> QED
  BY <1>1, <1>2

\* Every variable holds a value of its type in every state: no counter passes
\* its bound, no queue holds anything but a control record, whatever the
\* interleaving of sends, losses, answers and disturbances.
THEOREM TypeCorrect == Spec => []TypeOK
<1> QED
  BY InitTypeOK, NextTypeOK, PTL DEF Spec


-----------------------------------------------------------------------------
(* The order of the link. *)

LEMMA HidesFirstTail ==
    ASSUME NEW q \in Seq(Control), q # <<>>, NEW request, HidesFirst(q, request)
    PROVE  HidesFirst(Tail(q), request)
<1> SUFFICES ASSUME NEW i \in DOMAIN Tail(q), NEW j \in DOMAIN Tail(q),
                    Tail(q)[i].tag = "HIDE", Tail(q)[j].tag = "OPEN",
                    Tail(q)[j].request = request
             PROVE  i < j
  BY DEF HidesFirst
<1>1. /\ i \in Int /\ j \in Int
      /\ i + 1 \in DOMAIN q /\ j + 1 \in DOMAIN q
      /\ Tail(q)[i] = q[i + 1] /\ Tail(q)[j] = q[j + 1]
  BY TailRecords
<1>2. i + 1 < j + 1
  BY <1>1 DEF HidesFirst
<1> QED
  BY <1>1, <1>2

LEMMA HidesFirstAppend ==
    ASSUME NEW q \in Seq(Control), NEW r \in Control, NEW request,
           HidesFirst(q, request), r.tag # "HIDE"
    PROVE  HidesFirst(Append(q, r), request)
<1> DEFINE s == Append(q, r)
<1> SUFFICES ASSUME NEW i \in DOMAIN s, NEW j \in DOMAIN s,
                    s[i].tag = "HIDE", s[j].tag = "OPEN",
                    s[j].request = request
             PROVE  i < j
  BY DEF HidesFirst
<1>1. /\ s \in Seq(Control)
      /\ Len(s) = Len(q) + 1
      /\ \A k \in 1 .. Len(q) : s[k] = q[k]
      /\ s[Len(q) + 1] = r
      /\ Len(q) \in Nat
      /\ DOMAIN q = 1 .. Len(q)
      /\ DOMAIN s = 1 .. Len(q) + 1
  BY AppendProperties, LenProperties
<1> HIDE DEF s
<1>2. i \in 1 .. Len(q)
  BY <1>1
<1>3. CASE j \in 1 .. Len(q)
  BY <1>1, <1>2, <1>3 DEF HidesFirst
<1>4. CASE j = Len(q) + 1
  BY <1>1, <1>2, <1>4
<1> QED
  BY <1>1, <1>3, <1>4

\* When the OPEN of the request is the next frame, no HIDE is on the link.
LEMMA NoHideBehindOpen ==
    ASSUME NEW q \in Seq(Control), q # <<>>, HidesFirst(q, Head(q).request),
           Head(q).tag = "OPEN"
    PROVE  \A r \in ToSet(q) : r.tag # "HIDE"
<1> SUFFICES ASSUME NEW i \in DOMAIN q, q[i].tag = "HIDE"
             PROVE  FALSE
  BY DEF ToSet
<1>1. /\ DOMAIN q = 1 .. Len(q) /\ Len(q) \in Nat \ {0}
      /\ Head(q) = q[1]
  BY TailRecords
<1>2. i < 1
  BY <1>1 DEF HidesFirst
<1> QED
  BY <1>1, <1>2

-----------------------------------------------------------------------------
(* Agreed. *)

\* A record the reader's end may put on its way without disturbing Agreed.
SafeAnswer(r) ==
    \/ r.tag = "ACCEPT"
    \/ /\ r.tag = "RESET"
       /\ r.token <= lastToken
       /\ r.token # 0 => lane.token # r.token \/ lane.invalidated
    \/ /\ r.tag = "READY"
       /\ r.request = lane.request /\ r.token = lane.token
       /\ lane.token # 0

\* A record the writer's end may put on its way: one that ends a lane only
\* when no request stands any more.
SafeAsk(r) ==
    \/ r.tag = "SPAWN"
    \/ r.tag = "OPEN" /\ r.request \in 1 .. lastRequest
    \/ r.tag = "HIDE" /\ sent.request = 0
    \/ r.tag = "CLOSE" /\ r.token \in 1 .. lastToken /\ sent.request = 0

\* A step that mints nothing and leaves the lane standing keeps Agreed, if what
\* it puts on the way is safe.
LEMMA StandingStep ==
    ASSUME TypeOK, TypeOK', Agreed, IdleIsEmpty',
           UNCHANGED <<lastRequest, lastToken>>,
           lane'.request = lane.request, lane'.token = lane.token,
           lane.invalidated => lane'.invalidated,
           received'.token \in {0, received.token, lane.token},
           sent'.request \in {0, sent.request},
           sent'.request # 0 /\ sent'.stream = "READY"
               => lane.request = sent'.request /\ lane.token = sent'.token,
           \A r \in ToSet(writerOut)' : r.tag \in {"OPEN", "CLOSE"},
           \A r \in Asking' : r \in Asking \/ SafeAsk(r)',
           \A r \in Answering' : r \in Answering \/ SafeAnswer(r)',
           \A r \in ToSet(toReader)' :
               r \in ToSet(toReader) \/ r.tag # "HIDE" \/ sent'.request = 0,
           sent'.request # 0 => HidesFirst(toReader, sent.request)'
    PROVE  Agreed'
<1>1. /\ lastRequest \in Nat /\ lastToken \in Nat
      /\ lane.request \in Nat /\ lane.token \in Nat /\ received.token \in Nat
  BY BoundAssumption DEF TypeOK, Request, Token
<1>2. WithinCounters'
  <2>1. /\ lane'.request <= lastRequest'
        /\ lane'.token <= lastToken'
        /\ lane'.request # 0 <=> lane'.token # 0
    BY DEF Agreed, WithinCounters
  <2>2. /\ received'.token <= lastToken'
        /\ lane'.token # 0 => received'.token <= lane'.token
    BY <1>1 DEF Agreed, WithinCounters
  <2>3. \A r \in Asking' :
           /\ r.tag = "OPEN" => r.request \in 1 .. lastRequest'
           /\ r.tag = "CLOSE" => r.token \in 1 .. lastToken'
    BY DEF Agreed, WithinCounters, SafeAsk
  <2>4. \A r \in Answering' :
           /\ r.tag = "READY" => r.request \in 1 .. lastRequest'
           /\ r.tag = "READY" => r.token # 0
           /\ r.tag \in {"READY", "RESET"} => r.token <= lastToken'
    <3> TAKE r \in Answering'
    <3>1. CASE r \in Answering
      BY <3>1 DEF Agreed, WithinCounters
    <3>2. CASE SafeAnswer(r)'
      <4>1. lane.token # 0 => lane.request \in 1 .. lastRequest
        BY <1>1 DEF Agreed, WithinCounters
      <4> QED
        BY <3>2, <4>1, <2>1 DEF SafeAnswer
    <3> QED
      BY <3>1, <3>2
  <2> QED
    BY <2>1, <2>2, <2>3, <2>4 DEF WithinCounters
<1>3. AnswersStand'
  <2> SUFFICES ASSUME sent'.request # 0
               PROVE  /\ sent'.stream = "READY" => Standing(sent.token)'
                      /\ \A r \in Answering' :
                            r.tag = "READY" /\ r.request = sent'.request
                               => Standing(r.token)'
                      /\ lane'.request = sent'.request =>
                            /\ \A r \in Asking' :
                                  r.tag = "CLOSE" => r.token # lane'.token
                            /\ \A r \in ToSet(toReader)' : r.tag # "HIDE"
                      /\ HidesFirst(toReader, sent.request)'
    BY DEF AnswersStand
  <2>1. sent'.request = sent.request /\ sent.request # 0
    OBVIOUS
  <2>2. sent'.stream = "READY" => Standing(sent.token)'
    BY DEF Standing
  <2>3. ASSUME NEW r \in Answering', r.tag = "READY",
               r.request = sent'.request
        PROVE  Standing(r.token)'
    <3>1. CASE r \in Answering
      BY <2>1, <2>3, <3>1 DEF Agreed, AnswersStand, Standing
    <3>2. CASE SafeAnswer(r)'
      BY <2>3, <3>2 DEF SafeAnswer, Standing
    <3> QED
      BY <2>3, <3>1, <3>2
  <2>4. ASSUME lane'.request = sent'.request
        PROVE  /\ \A r \in Asking' : r.tag = "CLOSE" => r.token # lane'.token
               /\ \A r \in ToSet(toReader)' : r.tag # "HIDE"
    BY <2>1, <2>4 DEF Agreed, AnswersStand, SafeAsk
  <2> QED
    BY <2>2, <2>3, <2>4
<1>4. ResetsOnlyTheLost'
  <2> SUFFICES ASSUME NEW r \in Answering', r.tag = "RESET", r.token # 0
               PROVE  lane'.token # r.token \/ lane'.invalidated
    BY DEF ResetsOnlyTheLost, Answering
  <2>1. CASE r \in Answering
    BY <2>1 DEF Agreed, ResetsOnlyTheLost, Answering
  <2>2. CASE SafeAnswer(r)'
    BY <2>2 DEF SafeAnswer
  <2> QED
    BY <2>1, <2>2
<1> QED
  BY <1>2, <1>3, <1>4 DEF Agreed

\* A lane that is closed is idle.
LEMMA ClosedIsIdle ==
    ASSUME sent' = ClosedRow("NONE")
    PROVE  IdleIsEmpty' /\ sent'.request = 0
  BY DEF IdleIsEmpty, ClosedRow

\* A lane that keeps its stream, request and token stays as it must be.
LEMMA ReadyIsIdle ==
    ASSUME TypeOK, TypeOK', Agreed, sent.stream = "READY",
           lastRequest' = lastRequest,
           sent'.stream = "READY", sent'.request = sent.request,
           sent'.token = sent.token,
           sent'.acked # 0 => sent'.baseline # NoImage
    PROVE  IdleIsEmpty'
  BY DEF Agreed, IdleIsEmpty

\* What dispatching leaves of the lane.
LEMMA DispatchedLane ==
    ASSUME NEW w \in Sent, NEW row, NEW fate, Dispatched(w, row, fate)
    PROVE  /\ sent' \in Sent
           /\ sent'.stream = w.stream
           /\ sent'.request = w.request
           /\ sent'.token = w.token
           /\ sent'.next = w.next
           /\ sent'.acked = w.acked
           /\ sent'.baseline = w.baseline
           /\ sent'.flights \subseteq w.flights
           /\ rows' \subseteq rows \cup {row}
           /\ UNCHANGED <<image, admitted, copied, lastRequest, writerOut,
                          toReader, readerVars, toWriter, moves>>
<1> DEFINE left == {f \in w.flights : f.rev # row.rev}
<1>1. left \subseteq w.flights
  OBVIOUS
<1>2. sent' = w \/ sent' = [w EXCEPT !.flights = left]
  BY DEF Dispatched
<1>3. /\ rows' \subseteq rows \cup {row}
      /\ UNCHANGED <<image, admitted, copied, lastRequest, writerOut,
                     toReader, readerVars, toWriter, moves>>
  BY DEF Dispatched
<1> HIDE DEF left
<1> QED
  BY <1>1, <1>2, <1>3 DEF Sent

\* A lane as it was, but for what a send may change.
SentFrom(w) ==
    /\ w.stream = sent.stream /\ w.request = sent.request
    /\ w.token = sent.token
    /\ w.acked = sent.acked /\ w.baseline = sent.baseline

\* What a send does: the row it sends is the next revision, or the pinned one
\* again; a delta states its base exactly as a flight or the baseline has it.
SendsRow(row) ==
    /\ row \in Row
    /\ row.token = sent.token
    /\ row.image = image
    /\ \/ /\ row.rev = sent.next
          /\ sent'.next = sent.next + 1
          /\ sent'.flights \subseteq
                sent.flights \cup [rev : {sent.next}, image : {image},
                                   pinned : BOOLEAN]
       \/ /\ \E f \in sent.flights : f.rev = row.rev /\ f.image = image
          /\ sent'.next = sent.next
          /\ sent'.flights \subseteq sent.flights
    /\ \/ row.from = 0
       \/ /\ row.from # 0
          /\ row.from < row.rev /\ row.rev <= row.from + DeltaSpan
          /\ \/ row.from = sent.acked /\ row.mask = Differing(sent.baseline)
             \/ \E f \in sent.flights :
                   /\ row.from = f.rev /\ f.image = image
                   /\ row.mask = Differing(f.image)

\* Everything a send does, besides losing the row.
Sends(row) ==
    /\ SendsRow(row)
    /\ sent.stream = "READY"
    /\ SentFrom(sent')
    /\ rows' \subseteq rows \cup {row}
    /\ UNCHANGED <<image, admitted, copied, lastRequest, writerOut, toReader,
                   readerVars, toWriter, moves>>

LEMMA EncodedRow ==
    ASSUME NEW rev, NEW from, NEW base
    PROVE  /\ Encoded(rev, from, base).token = sent.token
           /\ Encoded(rev, from, base).rev = rev
           /\ Encoded(rev, from, base).image = image
           /\ \/ Encoded(rev, from, base).from = 0
              \/ /\ from # 0
                 /\ rev > from /\ rev - from <= DeltaSpan
                 /\ Encoded(rev, from, base).from = from
                 /\ Encoded(rev, from, base).mask = Differing(base)
  BY DEF Encoded, Absolute, Delta

\* A send of the next revision, against the baseline or a flight.
LEMMA MintedSend ==
    ASSUME TypeOK, sent.next <= MaxRevision, sent.stream = "READY",
           NEW pinned \in BOOLEAN, NEW w \in Sent, NEW from, NEW base, NEW fate,
           SentFrom(w), w.next = sent.next + 1,
           w.flights \subseteq Minted(sent, pinned).flights,
           \/ from = 0
           \/ from = sent.acked /\ base = sent.baseline
           \/ \E f \in sent.flights :
                 from = f.rev /\ base = f.image /\ f.image = image,
           Dispatched(w, Encoded(sent.next, from, base), fate)
    PROVE  \E row : Sends(row)
<1> DEFINE row == Encoded(sent.next, from, base)
<1>1. /\ sent.next \in Revision /\ sent.acked \in Revision
      /\ sent.flights \subseteq Flight /\ 0 \in Revision
  <2>1. sent.acked \in Revision /\ sent.flights \subseteq Flight /\ sent.next \in 1 .. MaxRevision + 1
    BY DEF TypeOK, Sent
  <2>2. 0 \in Revision /\ sent.next \in Revision
    BY <2>1, BoundAssumption DEF Revision
  <2> QED
    BY <2>1, <2>2
<1>2. from \in Revision
  BY <1>1 DEF Flight
<1>3. row \in Row
  BY <1>1, <1>2, EncodedType
<1>4. /\ row.token = sent.token /\ row.rev = sent.next /\ row.image = image
      /\ \/ row.from = 0
         \/ /\ from # 0 /\ row.from = from
            /\ sent.next > from /\ sent.next - from <= DeltaSpan
            /\ row.mask = Differing(base)
  BY EncodedRow
<1>5. w.flights \subseteq sent.flights \cup
         [rev : {sent.next}, image : {image}, pinned : BOOLEAN]
  BY MintedType
<1>6. Dispatched(w, row, fate)
  OBVIOUS
<1> HIDE DEF row
<1>7. /\ SentFrom(sent')
      /\ sent'.next = sent.next + 1
      /\ sent'.flights \subseteq sent.flights \cup
            [rev : {sent.next}, image : {image}, pinned : BOOLEAN]
      /\ rows' \subseteq rows \cup {row}
      /\ UNCHANGED <<image, admitted, copied, lastRequest, writerOut,
                     toReader, readerVars, toWriter, moves>>
  BY <1>5, <1>6, DispatchedLane DEF SentFrom
<1>8. \/ row.from = 0
      \/ /\ row.from # 0
         /\ row.from < row.rev /\ row.rev <= row.from + DeltaSpan
         /\ \/ row.from = sent.acked /\ row.mask = Differing(sent.baseline)
            \/ \E f \in sent.flights :
                  /\ row.from = f.rev /\ f.image = image
                  /\ row.mask = Differing(f.image)
  <2>1. from \in Nat /\ sent.next \in Nat /\ DeltaSpan \in Nat
    BY <1>1, <1>2, BoundAssumption, DepthAssumption DEF Revision
  <2>2. CASE row.from # 0
    <3>1. /\ row.from = from /\ row.rev = sent.next
          /\ row.mask = Differing(base)
          /\ sent.next > from /\ sent.next - from <= DeltaSpan
      BY <1>4, <2>2
    <3>2. row.from < row.rev /\ row.rev <= row.from + DeltaSpan
      BY <2>1, <3>1
    <3> QED
      BY <2>2, <3>1, <3>2
  <2> QED
    BY <2>2
<1>9. SendsRow(row)
  BY <1>3, <1>4, <1>7, <1>8 DEF SendsRow
<1> QED
  BY <1>7, <1>9 DEF Sends

\* A send of the pinned revision again.
LEMMA PinnedSend ==
    ASSUME TypeOK, sent.stream = "READY", NEW f \in PinnedFlight, NEW fate,
           Dispatched([sent EXCEPT !.rest = f.rev, !.armed = TRUE],
                      Absolute(f.rev), fate)
    PROVE  \E row : Sends(row)
<1> DEFINE w == [sent EXCEPT !.rest = f.rev, !.armed = TRUE]
           row == Absolute(f.rev)
<1>1. /\ f \in sent.flights /\ f.rev \in Revision /\ f.image = image
      /\ sent \in Sent /\ sent.token \in Token /\ image \in Image
  BY DEF PinnedFlight, TypeOK, Sent, Flight
<1>2. /\ w \in Sent /\ SentFrom(w) /\ w.next = sent.next
      /\ w.flights = sent.flights
  BY <1>1 DEF Sent, SentFrom
<1>3. /\ row \in Row /\ row.token = sent.token /\ row.rev = f.rev
      /\ row.image = image /\ row.from = 0
  BY <1>1, BoundAssumption DEF Absolute, Row, Revision
<1>4. Dispatched(w, row, fate)
  OBVIOUS
<1> HIDE DEF w, row
<1>5. /\ SentFrom(sent')
      /\ sent'.next = sent.next
      /\ sent'.flights \subseteq sent.flights
      /\ rows' \subseteq rows \cup {row}
      /\ UNCHANGED <<image, admitted, copied, lastRequest, writerOut,
                     toReader, readerVars, toWriter, moves>>
  BY <1>2, <1>4, DispatchedLane DEF SentFrom
<1>6. SendsRow(row)
  BY <1>1, <1>3, <1>5 DEF SendsRow
<1> QED
  BY <1>5, <1>6 DEF Sends

LEMMA SendEffect ==
    ASSUME TypeOK, NEW fate \in Fate, Send(fate)
    PROVE  \E row : Sends(row)
<1>1. /\ sent \in Sent /\ sent.next \in Nat /\ MaxRevision \in Nat
      /\ sent.acked \in Revision
  BY BoundAssumption DEF TypeOK, Sent
<1>2. ASSUME NEW pinned \in BOOLEAN, sent.next <= MaxRevision
      PROVE  /\ Minted(sent, pinned) \in Sent
             /\ SentFrom(Minted(sent, pinned))
             /\ Minted(sent, pinned).next = sent.next + 1
             /\ sent.next \in Revision
  BY <1>1, <1>2, MintedType DEF SentFrom, Revision, Sent
<1>3. CASE SendFresh(fate)
  <2> DEFINE w == [Minted(sent, FALSE) EXCEPT !.rest = sent.next,
                                              !.armed = TRUE]
  <2>1. sent.next <= MaxRevision /\ sent.stream = "READY"
    BY <1>1, <1>3 DEF SendFresh, Seated
  <2>2. /\ w \in Sent /\ SentFrom(w) /\ w.next = sent.next + 1
        /\ w.flights = Minted(sent, FALSE).flights
    BY <1>2, <2>1 DEF Sent, SentFrom
  <2>3. Dispatched(w, Encoded(sent.next, sent.acked, sent.baseline), fate)
    BY <1>3 DEF SendFresh
  <2> HIDE DEF w
  <2> QED
    BY <2>1, <2>2, <2>3, MintedSend
<1>4. CASE SendRefresh(fate)
  <2> DEFINE w == [Minted(sent, FALSE) EXCEPT !.armed = Heartbeat]
  <2>1. sent.next <= MaxRevision /\ sent.stream = "READY"
    BY <1>1, <1>4 DEF SendRefresh, Seated
  <2>2. /\ w \in Sent /\ SentFrom(w) /\ w.next = sent.next + 1
        /\ w.flights = Minted(sent, FALSE).flights
    BY <1>2, <2>1, DepthAssumption DEF Sent, SentFrom
  <2>3. \/ Dispatched(w, Encoded(sent.next, sent.acked, sent.baseline), fate)
        \/ \E f \in sent.flights :
              /\ f.image = image
              /\ Dispatched(w, Encoded(sent.next, f.rev, f.image), fate)
    BY <1>4 DEF SendRefresh, RestFlight
  <2> HIDE DEF w
  <2>4. CASE Dispatched(w, Encoded(sent.next, sent.acked, sent.baseline), fate)
    BY <2>1, <2>2, <2>4, MintedSend
  <2>5. ASSUME NEW f \in sent.flights, f.image = image,
               Dispatched(w, Encoded(sent.next, f.rev, f.image), fate)
        PROVE  \E row : Sends(row)
    BY <2>1, <2>2, <2>5, MintedSend
  <2> QED
    BY <2>3, <2>4, <2>5
<1>5. CASE SendRepair(fate)
  <2>1. sent.stream = "READY"
    BY <1>5 DEF SendRepair, Seated
  <2>2. ASSUME NEW f \in PinnedFlight,
               Dispatched([sent EXCEPT !.rest = f.rev, !.armed = TRUE],
                          Absolute(f.rev), fate)
        PROVE  \E row : Sends(row)
    BY <2>1, <2>2, PinnedSend
  <2> DEFINE w == [Minted(sent, TRUE) EXCEPT !.rest = sent.next, !.armed = TRUE]
  <2>3. ASSUME sent.next <= MaxRevision,
               Dispatched(w, Absolute(sent.next), fate)
        PROVE  \E row : Sends(row)
    <3>1. /\ w \in Sent /\ SentFrom(w) /\ w.next = sent.next + 1
          /\ w.flights = Minted(sent, TRUE).flights
      BY <1>2, <2>3 DEF Sent, SentFrom
    <3>2. Encoded(sent.next, 0, NoImage) = Absolute(sent.next)
      BY DEF Encoded
    <3> HIDE DEF w
    <3> QED
      BY <2>1, <2>3, <3>1, <3>2, MintedSend
  <2> QED
    BY <1>5, <2>2, <2>3 DEF SendRepair
<1> QED
  BY <1>3, <1>4, <1>5 DEF Send

\* The scheduler of the writer's end holds no HIDE.
LEMMA WriterAsks ==
    ASSUME Agreed
    PROVE  \A r \in ToSet(writerOut) : r.tag \in {"OPEN", "CLOSE"}
  BY DEF Agreed, WithinCounters

\* The row is gathered, sent or confirmed: no control record moves but a
\* consumed answer, and the lane keeps its stream.
LEMMA KeptLane ==
    ASSUME TypeOK, TypeOK', Agreed, IdleIsEmpty',
           UNCHANGED <<lastRequest, writerOut, toReader, readerVars>>,
           sent'.stream = sent.stream, sent'.request = sent.request,
           sent'.token = sent.token,
           ToSet(toWriter)' \subseteq ToSet(toWriter)
    PROVE  Agreed'
<1>1. sent.request # 0 => HidesFirst(toReader, sent.request)
  BY DEF Agreed, AnswersStand
<1>2. sent.request # 0 /\ sent.stream = "READY"
         => lane.request = sent.request /\ lane.token = sent.token
  BY DEF Agreed, AnswersStand, Standing
<1>3. Asking' = Asking /\ Answering' \subseteq Answering
  BY DEF Asking, Answering, readerVars
<1>4. UNCHANGED <<lane, received, lastToken>>
  BY DEF readerVars
<1>5. \A r \in ToSet(writerOut)' : r.tag \in {"OPEN", "CLOSE"}
  BY WriterAsks
<1> QED
  BY <1>1, <1>2, <1>3, <1>4, <1>5, StandingStep

\* A lane that is not READY keeps no flight and no baseline.
LEMMA IdleFlights ==
    ASSUME TypeOK, Agreed, sent.stream # "READY"
    PROVE  sent.flights = {} /\ sent.acked = 0 /\ sent.token = 0
<1>1. sent \in Sent
  BY DEF TypeOK
<1> QED
  BY <1>1 DEF Agreed, IdleIsEmpty, ClosedRow, Sent

LEMMA ChangeAgreed ==
    ASSUME TypeOK, TypeOK', Agreed, Change
    PROVE  Agreed'
<1> DEFINE loose == {[f EXCEPT !.pinned = FALSE] : f \in sent.flights}
<1>1. /\ sent' = [sent EXCEPT !.flights = Evicted(loose)]
      /\ UNCHANGED <<lastRequest, writerOut, toReader, readerVars, toWriter>>
  BY DEF Change
<1>2. sent \in Sent
  BY DEF TypeOK
<1>3. sent.flights = {} => Evicted(loose) = {}
  BY EvictedSubset
<1> HIDE DEF loose
<1>4. /\ sent'.stream = sent.stream /\ sent'.request = sent.request
      /\ sent'.token = sent.token /\ sent'.acked = sent.acked
      /\ sent'.baseline = sent.baseline
  BY <1>1, <1>2 DEF Sent
<1>5. sent.flights = {} => sent' = sent
  BY <1>1, <1>2, <1>3 DEF Sent
<1>6. sent.stream # "READY" => sent.flights = {}
  BY IdleFlights
<1>7. IdleIsEmpty'
  BY <1>1, <1>2, <1>4, <1>5, <1>6 DEF Agreed, IdleIsEmpty, Sent
<1> QED
  BY <1>1, <1>4, <1>7, KeptLane

LEMMA SendAgreed ==
    ASSUME TypeOK, TypeOK', Agreed, NEW row, Sends(row)
    PROVE  Agreed'
<1>1. /\ sent.stream = "READY" /\ SentFrom(sent')
      /\ UNCHANGED <<lastRequest, writerOut, toReader, readerVars, toWriter>>
  BY DEF Sends
<1>2. sent.acked # 0 => sent.baseline # NoImage
  BY DEF Agreed, IdleIsEmpty
<1>3. IdleIsEmpty'
  BY <1>1, <1>2, ReadyIsIdle DEF SentFrom
<1> QED
  BY <1>1, <1>3, KeptLane DEF SentFrom

\* What an answer leaves alone.
LEMMA AnswerEffect ==
    ASSUME TypeOK, NEW tag, Answer(tag)
    PROVE  /\ Head(toWriter) \in Control
           /\ Head(toWriter) \in Answering
           /\ Head(toWriter).tag = tag
           /\ ToSet(toWriter)' \subseteq ToSet(toWriter)
           /\ UNCHANGED <<image, lastRequest, toReader, rows, readerVars,
                          writerOut>>
<1>1. toWriter \in Seq(Control) /\ toWriter # <<>> /\ toWriter' = Tail(toWriter)
  BY DEF Answer, TypeOK
<1> QED
  BY <1>1, TailRecords DEF Answer, Answering

LEMMA HearReadyAgreed ==
    ASSUME TypeOK, TypeOK', Agreed, HearReady
    PROVE  Agreed'
<1> DEFINE r == Head(toWriter)
<1>1. /\ r \in Control /\ r \in Answering /\ r.tag = "READY"
      /\ ToSet(toWriter)' \subseteq ToSet(toWriter)
      /\ UNCHANGED <<image, lastRequest, toReader, rows, readerVars, writerOut>>
  BY AnswerEffect DEF HearReady
<1>2. sent \in Sent
  BY DEF TypeOK
<1>3. CASE sent' = sent
  <2>1. IdleIsEmpty'
    BY <1>1, <1>3 DEF Agreed, IdleIsEmpty
  <2> QED
    BY <1>1, <1>3, <2>1, KeptLane
<1>4. CASE /\ r.request # 0 /\ r.request = sent.request
           /\ sent' = [sent EXCEPT !.stream = "READY", !.token = r.token]
  <2>1. /\ sent'.stream = "READY" /\ sent'.token = r.token
        /\ sent'.request = sent.request /\ sent'.acked = sent.acked
        /\ sent'.baseline = sent.baseline
    BY <1>2, <1>4 DEF Sent
  <2>2. lane.request = sent.request /\ lane.token = r.token /\ r.token # 0
    BY <1>1, <1>4 DEF Agreed, AnswersStand, Standing, WithinCounters
  <2>3. sent.stream # "NONE"
    BY <1>4 DEF Agreed, IdleIsEmpty, ClosedRow
  <2>4. IdleIsEmpty'
    BY <1>1, <2>1, <2>2, <2>3 DEF Agreed, IdleIsEmpty
  <2>5. HidesFirst(toReader, sent.request)
    BY <1>4 DEF Agreed, AnswersStand
  <2>6. Asking' = Asking /\ Answering' \subseteq Answering
    BY <1>1 DEF Asking, Answering, readerVars
  <2>7. UNCHANGED <<lane, received, lastToken>>
    BY <1>1 DEF readerVars
  <2> HIDE DEF r
  <2> QED
    BY <1>1, <2>1, <2>2, <2>4, <2>5, <2>6, <2>7, WriterAsks, StandingStep
<1> QED
  BY <1>3, <1>4 DEF HearReady

LEMMA HearResetAgreed ==
    ASSUME TypeOK, TypeOK', Agreed, HearReset
    PROVE  Agreed'
<1>1. /\ ToSet(toWriter)' \subseteq ToSet(toWriter)
      /\ UNCHANGED <<image, lastRequest, toReader, rows, readerVars, writerOut>>
  BY AnswerEffect DEF HearReset
<1>2. CASE sent' = sent
  <2>1. IdleIsEmpty'
    BY <1>1, <1>2 DEF Agreed, IdleIsEmpty
  <2> QED
    BY <1>1, <1>2, <2>1, KeptLane
<1>3. CASE sent' = ClosedRow("NONE")
  <2>1. Asking' = Asking /\ Answering' \subseteq Answering
    BY <1>1 DEF Asking, Answering, readerVars
  <2>2. UNCHANGED <<lane, received, lastToken>>
    BY <1>1 DEF readerVars
  <2> QED
    BY <1>1, <1>3, <2>1, <2>2, ClosedIsIdle, WriterAsks, StandingStep
<1> QED
  BY <1>2, <1>3 DEF HearReset

\* A receipt that promotes a flight, or changes nothing.
LEMMA HearAcceptEffect ==
    ASSUME TypeOK, HearAccept
    PROVE  \/ sent' = sent
           \/ \E f \in sent.flights :
                 /\ sent'.acked = f.rev /\ sent'.baseline = f.image
                 /\ sent'.flights \subseteq sent.flights
                 /\ sent'.stream = sent.stream
                 /\ sent'.request = sent.request
                 /\ sent'.token = sent.token /\ sent'.next = sent.next
<1>1. sent \in Sent
  BY DEF TypeOK
<1> DEFINE newer(f) == {g \in sent.flights : g.rev > f.rev}
<1>2. ASSUME NEW f \in sent.flights,
             sent' = [sent EXCEPT !.acked = f.rev, !.baseline = f.image,
                                  !.flights = newer(f)]
      PROVE  /\ sent'.acked = f.rev /\ sent'.baseline = f.image
             /\ sent'.flights \subseteq sent.flights
             /\ sent'.stream = sent.stream /\ sent'.request = sent.request
             /\ sent'.token = sent.token /\ sent'.next = sent.next
  BY <1>1, <1>2 DEF Sent
<1> QED
  BY <1>2 DEF HearAccept

LEMMA HearAcceptAgreed ==
    ASSUME TypeOK, TypeOK', Agreed, HearAccept
    PROVE  Agreed'
<1>1. /\ ToSet(toWriter)' \subseteq ToSet(toWriter)
      /\ UNCHANGED <<image, lastRequest, toReader, rows, readerVars, writerOut>>
  BY AnswerEffect DEF HearAccept
<1>2. CASE sent' = sent
  <2>1. IdleIsEmpty'
    BY <1>1, <1>2 DEF Agreed, IdleIsEmpty
  <2> QED
    BY <1>1, <1>2, <2>1, KeptLane
<1>3. ASSUME NEW f \in sent.flights,
             sent'.acked = f.rev, sent'.baseline = f.image,
             sent'.stream = sent.stream, sent'.request = sent.request,
             sent'.token = sent.token
      PROVE  Agreed'
  <2>1. sent.stream = "READY"
    BY IdleFlights
  <2>2. f.image # NoImage
    BY ValueAssumption DEF TypeOK, Sent, Flight, Image
  <2>3. IdleIsEmpty'
    BY <1>1, <1>3, <2>1, <2>2, ReadyIsIdle
  <2> QED
    BY <1>1, <1>3, <2>3, KeptLane
<1> QED
  BY <1>2, <1>3, HearAcceptEffect

\* The two queues behind the writer's end of the link.
LEMMA Queues ==
    ASSUME TypeOK
    PROVE  /\ writerOut \in Seq(Control) /\ toReader \in Seq(Control)
           /\ readerOut \in Seq(Control) /\ toWriter \in Seq(Control)
           /\ sent \in Sent
  BY DEF TypeOK

LEMMA HideAgreed ==
    ASSUME TypeOK, TypeOK', Agreed, Hide
    PROVE  Agreed'
<1>1. /\ sent' = ClosedRow("NONE")
      /\ UNCHANGED <<image, lastRequest, rows, readerVars, toWriter>>
  BY DEF Hide
<1>2. ToSet(writerOut)' \subseteq ToSet(writerOut)
  BY Queues, DroppedRecords DEF Hide
<1>3. ToSet(toReader)' \subseteq ToSet(toReader) \cup {Record("HIDE", 0, 0)}
  <2>1. Record("HIDE", 0, 0) \in Control
    BY RecordType, BoundAssumption DEF Request, Token
  <2> QED
    BY <2>1, Queues, AppendRecords DEF Hide
<1>4. Record("HIDE", 0, 0).tag = "HIDE"
  BY DEF Record
<1>5. IdleIsEmpty' /\ sent'.request = 0
  BY <1>1, ClosedIsIdle
<1>6. \A r \in Asking' : r \in Asking \/ SafeAsk(r)'
  BY <1>2, <1>3, <1>4, <1>5 DEF Asking, SafeAsk
<1>7. Answering' = Answering /\ UNCHANGED <<lane, received, lastToken>>
  BY <1>1 DEF Answering, readerVars
<1> QED
  BY <1>1, <1>2, <1>5, <1>6, <1>7, WriterAsks, StandingStep

LEMMA ReopenAgreed ==
    ASSUME TypeOK, TypeOK', Agreed, Reopen
    PROVE  Agreed'
<1> DEFINE r == Record("CLOSE", 0, sent.token)
<1>1. /\ sent' = ClosedRow("NONE")
      /\ sent.stream # "NONE"
      /\ UNCHANGED <<image, lastRequest, toReader, rows, readerVars, toWriter>>
  BY DEF Reopen
<1>2. /\ r \in Control /\ r.tag = "CLOSE" /\ r.token = sent.token
  BY Queues, RecordType, BoundAssumption DEF Request, Sent, Record
<1>3. \/ writerOut' = writerOut
      \/ sent.token # 0 /\ ToSet(writerOut)' \subseteq ToSet(writerOut) \cup {r}
  <2>1. /\ Dropped(writerOut, sent.token) \in Seq(Control)
        /\ ToSet(Dropped(writerOut, sent.token)) \subseteq ToSet(writerOut)
    BY Queues, DroppedRecords
  <2>2. ToSet(Queued(Dropped(writerOut, sent.token), r))
           \subseteq ToSet(Dropped(writerOut, sent.token)) \cup {r}
    BY <1>2, <2>1, QueuedRecords
  <2> QED
    BY <2>1, <2>2 DEF Reopen
<1>4. IdleIsEmpty' /\ sent'.request = 0
  BY <1>1, ClosedIsIdle
<1>5. sent.token # 0 => sent.token \in 1 .. lastToken
  <2> SUFFICES ASSUME sent.token # 0
               PROVE  sent.token \in 1 .. lastToken
    OBVIOUS
  <2>1. sent.stream = "READY"
    BY IdleFlights
  <2>2. lane.token = sent.token
    BY <2>1 DEF Agreed, IdleIsEmpty, AnswersStand, Standing
  <2> QED
    <3>1. sent.token \in Nat /\ lane.token <= lastToken
      BY BoundAssumption DEF Agreed, WithinCounters, TypeOK, Sent, Token
    <3>2. lastToken \in Nat
      BY BoundAssumption DEF TypeOK, Token
    <3> QED
      BY <2>2, <3>1, <3>2
<1>6. \A q \in Asking' : q \in Asking \/ SafeAsk(q)'
  BY <1>1, <1>2, <1>3, <1>4, <1>5 DEF Asking, SafeAsk, readerVars
<1>7. Answering' = Answering /\ UNCHANGED <<lane, received, lastToken>>
  BY <1>1 DEF Answering, readerVars
<1> QED
  BY <1>1, <1>2, <1>3, <1>4, <1>6, <1>7, WriterAsks, StandingStep

\* The writer's records move on, or one more that ends nothing joins them.
LEMMA AskAgreed ==
    ASSUME TypeOK, TypeOK', Agreed,
           UNCHANGED <<lastRequest, sent, readerVars, toWriter>>,
           \A r \in ToSet(writerOut)' : r.tag \in {"OPEN", "CLOSE"},
           \A r \in Asking' :
               \/ r \in Asking
               \/ r.tag = "SPAWN"
               \/ r.tag = "OPEN" /\ r.request \in 1 .. lastRequest,
           sent.request # 0 =>
               /\ \A r \in ToSet(toReader)' : r.tag # "HIDE" \/ r \in ToSet(toReader)
               /\ HidesFirst(toReader', sent.request)
    PROVE  Agreed'
<1>1. IdleIsEmpty'
  BY DEF Agreed, IdleIsEmpty
<1>2. sent.request # 0 /\ sent.stream = "READY"
         => lane.request = sent.request /\ lane.token = sent.token
  BY DEF Agreed, AnswersStand, Standing
<1>3. Answering' = Answering /\ UNCHANGED <<lane, received, lastToken>>
  BY DEF Answering, readerVars
<1>4. \A r \in Asking' : r \in Asking \/ SafeAsk(r)'
  BY DEF SafeAsk
<1> QED
  BY <1>1, <1>2, <1>3, <1>4, StandingStep

LEMMA AdmitAgreed ==
    ASSUME TypeOK, TypeOK', Agreed, Admit
    PROVE  Agreed'
<1> DEFINE r == Record("SPAWN", 0, 0)
<1>1. r \in Control /\ r.tag = "SPAWN"
  BY RecordType, BoundAssumption DEF Request, Token, Record
<1>2. UNCHANGED <<lastRequest, sent, writerOut, readerVars, toWriter>>
  BY DEF Admit
<1>3. toReader' = toReader \/ toReader' = Append(toReader, r)
  BY DEF Admit
<1> HIDE DEF r
<1>4. ToSet(toReader)' \subseteq ToSet(toReader) \cup {r}
  BY <1>1, <1>3, Queues, AppendRecords
<1>5. sent.request # 0 => HidesFirst(toReader', sent.request)
  BY <1>1, <1>3, Queues, HidesFirstAppend DEF Agreed, AnswersStand
<1>6. \A q \in Asking' : q \in Asking \/ q.tag = "SPAWN"
  BY <1>1, <1>2, <1>4 DEF Asking
<1> QED
  BY <1>1, <1>2, <1>4, <1>5, <1>6, WriterAsks, AskAgreed

LEMMA AskAgainAgreed ==
    ASSUME TypeOK, TypeOK', Agreed, AskAgain
    PROVE  Agreed'
<1> DEFINE r == Record("OPEN", sent.request, 0)
<1>1. r \in Control /\ r.tag = "OPEN" /\ r.request = sent.request
  BY Queues, RecordType, BoundAssumption DEF Sent, Token, Record
<1>2. /\ UNCHANGED <<lastRequest, sent, toReader, readerVars, toWriter>>
      /\ writerOut' = Queued(writerOut, r) /\ sent.stream = "OPENING"
  BY DEF AskAgain
<1> HIDE DEF r
<1>3. ToSet(writerOut)' \subseteq ToSet(writerOut) \cup {r}
  BY <1>1, <1>2, Queues, QueuedRecords
<1>4. r.request \in 1 .. lastRequest
  <2>1. lastRequest \in Nat
    BY BoundAssumption DEF TypeOK, Request
  <2>2. sent.request = lastRequest /\ lastRequest # 0
    BY <1>2 DEF Agreed, IdleIsEmpty
  <2> QED
    BY <1>1, <2>1, <2>2
<1>5. sent.request # 0 => HidesFirst(toReader', sent.request)
  BY <1>2 DEF Agreed, AnswersStand
<1>6. \A q \in Asking' :
         \/ q \in Asking
         \/ q.tag = "OPEN" /\ q.request \in 1 .. lastRequest
  BY <1>1, <1>2, <1>3, <1>4 DEF Asking
<1>7. \A q \in ToSet(writerOut)' : q.tag \in {"OPEN", "CLOSE"}
  BY <1>1, <1>3, WriterAsks
<1>8. \A q \in ToSet(toReader)' : q \in ToSet(toReader)
  BY <1>2
<1> QED
  BY <1>2, <1>5, <1>6, <1>7, <1>8, AskAgreed

LEMMA FlushWriterAgreed ==
    ASSUME TypeOK, TypeOK', Agreed, FlushWriter
    PROVE  Agreed'
<1> DEFINE r == Head(writerOut)
<1>1. /\ UNCHANGED <<lastRequest, sent, readerVars, toWriter>>
      /\ writerOut # <<>> /\ toReader' = Append(toReader, r)
      /\ writerOut' = Tail(writerOut)
  BY DEF FlushWriter
<1>2. /\ r \in Control /\ r \in ToSet(writerOut)
      /\ ToSet(writerOut)' \subseteq ToSet(writerOut)
  BY <1>1, Queues, TailRecords
<1>3. r.tag \in {"OPEN", "CLOSE"}
  BY <1>2, WriterAsks
<1> HIDE DEF r
<1>4. ToSet(toReader)' \subseteq ToSet(toReader) \cup {r}
  BY <1>1, <1>2, Queues, AppendRecords
<1>5. sent.request # 0 => HidesFirst(toReader', sent.request)
  BY <1>1, <1>2, <1>3, Queues, HidesFirstAppend DEF Agreed, AnswersStand
<1>6. \A q \in Asking' : q \in Asking
  BY <1>2, <1>4 DEF Asking
<1> QED
  BY <1>1, <1>2, <1>3, <1>4, <1>5, <1>6, WriterAsks, AskAgreed

\* A new request: nothing on its way can answer it yet.
LEMMA OpenStreamAgreed ==
    ASSUME TypeOK, TypeOK', Agreed, OpenStream
    PROVE  Agreed'
<1> DEFINE r == Record("OPEN", lastRequest + 1, 0)
<1>1. /\ UNCHANGED <<toReader, readerVars, toWriter>>
      /\ lastRequest' = lastRequest + 1
      /\ sent' = [ClosedRow("OPENING") EXCEPT !.request = lastRequest + 1]
      /\ writerOut' = Queued(writerOut, r)
  BY DEF OpenStream
<1>2. /\ lastRequest \in Nat /\ lastRequest + 1 \in Request
      /\ lastToken \in Nat /\ lane.request \in Nat
      /\ \A q \in Control : q.request \in Nat
  BY <1>1, BoundAssumption DEF TypeOK, Request, Token, Control
<1>3. r \in Control /\ r.tag = "OPEN" /\ r.request = lastRequest + 1
  BY <1>2, RecordType, BoundAssumption DEF Token, Record
<1>4. /\ sent'.stream = "OPENING" /\ sent'.request = lastRequest + 1
      /\ sent'.acked = 0
  BY <1>1 DEF ClosedRow
<1> HIDE DEF r
<1>5. ToSet(writerOut)' \subseteq ToSet(writerOut) \cup {r}
  BY <1>1, <1>3, Queues, QueuedRecords
<1>6. IdleIsEmpty'
  BY <1>1, <1>2, <1>4 DEF IdleIsEmpty
<1>7. Answering' = Answering /\ UNCHANGED <<lane, received, lastToken>>
  BY <1>1 DEF Answering, readerVars
<1>8. \A q \in Asking' : q \in Asking \/ q = r
  BY <1>1, <1>5 DEF Asking
<1>9. WithinCounters'
  <2>1. /\ lane'.request <= lastRequest'
        /\ lane'.token <= lastToken'
        /\ lane'.request # 0 <=> lane'.token # 0
        /\ received'.token <= lastToken'
        /\ lane'.token # 0 => received'.token <= lane'.token
    BY <1>1, <1>2, <1>7 DEF Agreed, WithinCounters
  <2>2. \A q \in ToSet(writerOut)' : q.tag \in {"OPEN", "CLOSE"}
    BY <1>3, <1>5, WriterAsks
  <2>3. \A q \in Asking' :
           /\ q.tag = "OPEN" => q.request \in 1 .. lastRequest'
           /\ q.tag = "CLOSE" => q.token \in 1 .. lastToken'
    BY <1>1, <1>2, <1>3, <1>7, <1>8 DEF Agreed, WithinCounters
  <2>4. \A q \in Answering' :
           /\ q.tag = "READY" => q.request \in 1 .. lastRequest'
           /\ q.tag = "READY" => q.token # 0
           /\ q.tag \in {"READY", "RESET"} => q.token <= lastToken'
    BY <1>1, <1>2, <1>7 DEF Agreed, WithinCounters
  <2> QED
    BY <2>1, <2>2, <2>3, <2>4 DEF WithinCounters
<1>10. AnswersStand'
  <2>1. \A q \in Answering' : q.tag = "READY" => q.request # lastRequest + 1
    BY <1>2, <1>7 DEF Agreed, WithinCounters
  <2>2. lane'.request # lastRequest + 1
    BY <1>2, <1>7 DEF Agreed, WithinCounters
  <2>3. \A q \in ToSet(toReader) :
           q.tag = "OPEN" => q.request # lastRequest + 1
    BY <1>2 DEF Agreed, WithinCounters, Asking
  <2>4. HidesFirst(toReader, sent.request)'
    BY <1>1, <1>4, <2>3 DEF HidesFirst, ToSet
  <2> QED
    BY <1>4, <2>1, <2>2, <2>4 DEF AnswersStand
<1>11. ResetsOnlyTheLost'
  BY <1>7 DEF Agreed, ResetsOnlyTheLost, Answering
<1> QED
  BY <1>6, <1>9, <1>10, <1>11 DEF Agreed

\* The reader's end moves on: its lane stays, and what it answers is safe.
LEMMA ReaderAgreed ==
    ASSUME TypeOK, TypeOK', Agreed,
           UNCHANGED <<writerVars, lastToken>>,
           lane'.request = lane.request, lane'.token = lane.token,
           lane.invalidated => lane'.invalidated,
           received'.token \in {0, received.token, lane.token},
           \A r \in Answering' : r \in Answering \/ SafeAnswer(r)',
           ToSet(toReader)' \subseteq ToSet(toReader),
           sent.request # 0 => HidesFirst(toReader', sent.request)
    PROVE  Agreed'
<1>1. UNCHANGED <<lastRequest, sent, writerOut>>
  BY DEF writerVars
<1>2. IdleIsEmpty'
  BY <1>1 DEF Agreed, IdleIsEmpty
<1>3. sent.request # 0 /\ sent.stream = "READY"
         => lane.request = sent.request /\ lane.token = sent.token
  BY DEF Agreed, AnswersStand, Standing
<1>4. \A r \in Asking' : r \in Asking
  BY <1>1 DEF Asking
<1>5. \A r \in ToSet(writerOut)' : r.tag \in {"OPEN", "CLOSE"}
  BY <1>1, WriterAsks
<1> QED
  BY <1>1, <1>2, <1>3, <1>4, <1>5, StandingStep

\* The reader gives its lane up for one that no standing request names.
LEMMA LaneLost ==
    ASSUME TypeOK, TypeOK', Agreed,
           UNCHANGED <<writerVars, lastToken>>,
           lane' = NoLane,
           received'.token \in {0, received.token},
           Answering' = Answering,
           ToSet(toReader)' \subseteq ToSet(toReader),
           sent.request # 0 => /\ lane.request # sent.request
                               /\ HidesFirst(toReader', sent.request)
    PROVE  Agreed'
<1>1. UNCHANGED <<lastRequest, sent, writerOut>>
  BY DEF writerVars
<1>2. lane'.request = 0 /\ lane'.token = 0
  BY DEF NoLane
<1>3. /\ lastRequest \in Nat /\ lastToken \in Nat
      /\ received.token \in Nat
  BY BoundAssumption DEF TypeOK, Request, Token
<1>4. IdleIsEmpty'
  BY <1>1 DEF Agreed, IdleIsEmpty
<1>5. \A r \in Asking' : r \in Asking
  BY <1>1 DEF Asking
<1>6. WithinCounters'
  BY <1>1, <1>2, <1>3, <1>5 DEF Agreed, WithinCounters
<1>7. AnswersStand'
  BY <1>1, <1>2 DEF Agreed, AnswersStand, Standing
<1>8. ResetsOnlyTheLost'
  BY <1>2 DEF ResetsOnlyTheLost
<1> QED
  BY <1>4, <1>6, <1>7, <1>8 DEF Agreed

\* What hearing a frame leaves alone.
LEMMA FrameEffect ==
    ASSUME TypeOK, Agreed, NEW tag, Frame(tag)
    PROVE  /\ Head(toReader) \in Control /\ Head(toReader) \in Asking
           /\ Head(toReader).tag = tag
           /\ toReader # <<>>
           /\ ToSet(toReader)' \subseteq ToSet(toReader)
           /\ sent.request # 0 => HidesFirst(toReader', sent.request)
           /\ UNCHANGED <<writerVars, rows, receipts, toWriter, moves>>
<1>1. toReader \in Seq(Control) /\ toReader # <<>> /\ toReader' = Tail(toReader)
  BY DEF Frame, TypeOK
<1>2. sent.request # 0 => HidesFirst(toReader', sent.request)
  BY <1>1, HidesFirstTail DEF Agreed, AnswersStand
<1> QED
  BY <1>1, <1>2, TailRecords DEF Frame, Asking

\* A new lane under a new token answers the newest request there is, or one
\* that the writer has given up.
LEMMA NewLaneAgreed ==
    ASSUME TypeOK, TypeOK', Agreed, Frame("OPEN"), NEW request,
           request = Head(toReader).request,
           request > lane.request,
           lastToken' = lastToken + 1,
           lane' = [request |-> request, token |-> lastToken + 1,
                    invalidated |-> FALSE],
           received' = received,
           readerOut' = Queued(readerOut, Record("READY", request, lastToken + 1))
    PROVE  Agreed'
<1> DEFINE r == Record("READY", request, lastToken + 1)
<1>1. /\ Head(toReader) \in Control /\ Head(toReader) \in Asking
      /\ Head(toReader).tag = "OPEN"
      /\ toReader # <<>>
      /\ ToSet(toReader)' \subseteq ToSet(toReader)
      /\ sent.request # 0 => HidesFirst(toReader', sent.request)
      /\ UNCHANGED <<writerVars, rows, receipts, toWriter, moves>>
  BY FrameEffect
<1>2. UNCHANGED <<lastRequest, sent, writerOut>>
  BY <1>1 DEF writerVars
<1>3. /\ lane'.request = request /\ lane'.token = lastToken + 1
      /\ lastToken \in Nat /\ lastToken + 1 \in Token
      /\ lastRequest \in Nat /\ received.token \in Nat /\ lane.request \in Nat
  BY BoundAssumption DEF TypeOK, Request, Token
<1>4. request \in 1 .. lastRequest /\ request \in Request
  BY <1>1 DEF Agreed, WithinCounters, Control
<1>5. r \in Control /\ r.tag = "READY" /\ r.request = request
      /\ r.token = lastToken + 1
  BY <1>3, <1>4, RecordType DEF Record
<1>6. readerOut' = Queued(readerOut, r)
  OBVIOUS
<1> HIDE DEF r
<1>7. \A q \in Answering' : q \in Answering \/ q = r
  BY <1>1, <1>5, <1>6, Queues, QueuedRecords DEF Answering
<1>8. \A q \in Asking' : q \in Asking
  BY <1>1, <1>2 DEF Asking
<1>9. IdleIsEmpty'
  BY <1>2 DEF Agreed, IdleIsEmpty
<1>10. WithinCounters'
  <2>1. \A q \in Asking' :
           /\ q.tag = "OPEN" => q.request \in 1 .. lastRequest'
           /\ q.tag = "CLOSE" => q.token \in 1 .. lastToken'
    BY <1>2, <1>3, <1>8 DEF Agreed, WithinCounters
  <2>2. \A q \in Control : q.token \in Nat
    BY BoundAssumption DEF Control, Token
  <2>3. \A q \in Answering : q \in Control
    BY Queues DEF Answering, ToSet
  <2>4. \A q \in Answering' :
           /\ q.tag = "READY" => q.request \in 1 .. lastRequest'
           /\ q.tag = "READY" => q.token # 0
           /\ q.tag \in {"READY", "RESET"} => q.token <= lastToken'
    BY <1>2, <1>3, <1>4, <1>5, <1>7, <2>2, <2>3 DEF Agreed, WithinCounters
  <2>5. \A q \in ToSet(writerOut)' : q.tag \in {"OPEN", "CLOSE"}
    BY <1>2, WriterAsks
  <2>6. /\ lane'.request <= lastRequest'
        /\ lane'.token <= lastToken'
        /\ lane'.request # 0 <=> lane'.token # 0
        /\ received'.token <= lastToken'
        /\ lane'.token # 0 => received'.token <= lane'.token
    BY <1>2, <1>3, <1>4 DEF Agreed, WithinCounters
  <2> QED
    BY <2>1, <2>4, <2>5, <2>6 DEF WithinCounters
<1>11. AnswersStand'
  <2> SUFFICES ASSUME sent.request # 0
               PROVE  AnswersStand'
    BY <1>2 DEF AnswersStand
  <2>1. sent.request = lastRequest
    BY DEF Agreed, IdleIsEmpty, ClosedRow
  <2>2. lane.request # sent.request
    BY <1>3, <1>4, <2>1
  <2>3. sent.stream # "READY"
    BY <2>2 DEF Agreed, AnswersStand, Standing
  <2>4. \A q \in Answering : ~(q.tag = "READY" /\ q.request = sent.request)
    BY <2>2 DEF Agreed, AnswersStand, Standing
  <2>5. \A q \in Answering' :
           q.tag = "READY" /\ q.request = sent'.request => Standing(q.token)'
    BY <1>2, <1>3, <1>5, <1>7, <2>4 DEF Standing
  <2>6. ASSUME request = sent.request
        PROVE  /\ \A q \in Asking' : q.tag = "CLOSE" => q.token # lane'.token
               /\ \A q \in ToSet(toReader)' : q.tag # "HIDE"
    <3>1. \A q \in ToSet(toReader) : q.tag # "HIDE"
      BY <1>1, <2>6, Queues, NoHideBehindOpen DEF Agreed, AnswersStand
    <3>2. \A q \in Asking : q.tag = "CLOSE" => q.token # lastToken + 1
      BY <1>3 DEF Agreed, WithinCounters
    <3> QED
      BY <1>1, <1>3, <1>8, <3>1, <3>2
  <2> QED
    BY <1>1, <1>2, <1>3, <2>3, <2>5, <2>6 DEF AnswersStand
<1>12. ResetsOnlyTheLost'
  <2>1. \A q \in Answering : q.tag = "RESET" => q.token # lastToken + 1
    BY <1>3 DEF Agreed, WithinCounters
  <2> QED
    BY <1>3, <1>5, <1>7, <2>1 DEF ResetsOnlyTheLost, Answering
<1> QED
  BY <1>9, <1>10, <1>11, <1>12 DEF Agreed

LEMMA HearOpenAgreed ==
    ASSUME TypeOK, TypeOK', Agreed, HearOpen
    PROVE  Agreed'
<1> DEFINE r == Head(toReader).request
<1>1. /\ Head(toReader) \in Control /\ Head(toReader) \in Asking
      /\ Head(toReader).tag = "OPEN"
      /\ ToSet(toReader)' \subseteq ToSet(toReader)
      /\ sent.request # 0 => HidesFirst(toReader', sent.request)
      /\ UNCHANGED <<writerVars, rows, receipts, toWriter, moves>>
      /\ UNCHANGED <<known, received, early, shown>>
      /\ Frame("OPEN")
  BY FrameEffect DEF HearOpen
<1>2. r \in 1 .. lastRequest /\ r \in Request
  BY <1>1 DEF Agreed, WithinCounters, Control
<1>3. lane.token \in Token /\ lastRequest \in Nat /\ 0 \in Token
  BY BoundAssumption DEF TypeOK, Request, Token
<1>4. CASE UNCHANGED <<lane, lastToken, readerOut>>
  <2>1. Answering' = Answering
    BY <1>1, <1>4 DEF Answering
  <2> QED
    BY <1>1, <1>4, <2>1, ReaderAgreed
<1>5. CASE /\ r > lane.request
           /\ lastToken' = lastToken + 1
           /\ lane' = [request |-> r, token |-> lastToken + 1,
                       invalidated |-> FALSE]
           /\ readerOut' = Queued(readerOut, Record("READY", r, lastToken + 1))
  BY <1>1, <1>5, NewLaneAgreed
<1>6. ASSUME NEW tag \in {"READY", "RESET"}, NEW token \in Token,
             readerOut' = Queued(readerOut, Record(tag, r, token)),
             UNCHANGED <<lane, lastToken>>,
             \/ tag = "READY" /\ r = lane.request /\ token = lane.token
             \/ tag = "RESET" /\ token = lane.token /\ lane.invalidated
             \/ tag = "RESET" /\ token = 0
      PROVE  Agreed'
  <2> DEFINE q == Record(tag, r, token)
  <2>1. q \in Control /\ q.tag = tag /\ q.request = r /\ q.token = token
    BY <1>2, RecordType DEF Record
  <2>2. readerOut' = Queued(readerOut, q)
    BY <1>6
  <2> HIDE DEF q
  <2>3. \A a \in Answering' : a \in Answering \/ a = q
    BY <1>1, <2>1, <2>2, Queues, QueuedRecords DEF Answering
  <2>4. lane.request # 0 <=> lane.token # 0
    BY DEF Agreed, WithinCounters
  <2>5. lane.token <= lastToken /\ 0 <= lastToken
    BY BoundAssumption DEF Agreed, WithinCounters, TypeOK, Token
  <2>6. ASSUME NEW a, a = q
        PROVE  SafeAnswer(a)'
    BY <1>2, <1>3, <1>6, <2>1, <2>4, <2>5, <2>6 DEF SafeAnswer
  <2>7. \A a \in Answering' : a \in Answering \/ SafeAnswer(a)'
    BY <2>3, <2>6
  <2> QED
    BY <1>1, <1>6, <2>7, ReaderAgreed
<1> HIDE DEF r
<1>7. CASE /\ r = lane.request
           /\ readerOut' = Queued(readerOut,
                                  Record(IF lane.invalidated THEN "RESET"
                                                             ELSE "READY",
                                         r, lane.token))
           /\ UNCHANGED <<lane, lastToken>>
  <2>1. CASE lane.invalidated
    BY <1>3, <1>6, <1>7, <2>1
  <2>2. CASE ~lane.invalidated
    BY <1>3, <1>6, <1>7, <2>2
  <2> QED
    BY <2>1, <2>2
<1>8. CASE /\ readerOut' = Queued(readerOut, Record("RESET", r, 0))
           /\ UNCHANGED <<lane, lastToken>>
  BY <1>3, <1>6, <1>8
<1> QED
  BY <1>4, <1>5, <1>7, <1>8 DEF HearOpen, r

LEMMA HearCloseAgreed ==
    ASSUME TypeOK, TypeOK', Agreed, HearClose
    PROVE  Agreed'
<1>1. /\ Head(toReader) \in Asking /\ Head(toReader).tag = "CLOSE"
      /\ ToSet(toReader)' \subseteq ToSet(toReader)
      /\ sent.request # 0 => HidesFirst(toReader', sent.request)
      /\ UNCHANGED <<writerVars, rows, receipts, toWriter, moves>>
      /\ UNCHANGED <<known, lastToken, received, early, shown, readerOut>>
  BY FrameEffect DEF HearClose
<1>2. Answering' = Answering
  BY <1>1 DEF Answering
<1>3. CASE lane' = lane
  BY <1>1, <1>2, <1>3, ReaderAgreed
<1>4. CASE lane' = NoLane /\ lane.token = Head(toReader).token
  <2>1. sent.request # 0 => lane.request # sent.request
    BY <1>1, <1>4 DEF Agreed, AnswersStand
  <2> QED
    BY <1>1, <1>2, <1>4, <2>1, LaneLost
<1> QED
  BY <1>3, <1>4 DEF HearClose

LEMMA HearHideAgreed ==
    ASSUME TypeOK, TypeOK', Agreed, HearHide
    PROVE  Agreed'
<1>1. /\ Head(toReader).tag = "HIDE"
      /\ ToSet(toReader)' \subseteq ToSet(toReader)
      /\ sent.request # 0 => HidesFirst(toReader', sent.request)
      /\ UNCHANGED <<writerVars, rows, receipts, toWriter, moves>>
      /\ UNCHANGED <<lastToken, readerOut>>
      /\ lane' = NoLane /\ received'.token = 0
      /\ toReader # <<>>
  BY FrameEffect DEF HearHide, NoReceived
<1>2. Answering' = Answering
  BY <1>1 DEF Answering
<1>3. Head(toReader) \in ToSet(toReader)
  BY <1>1, Queues, TailRecords
<1>4. sent.request # 0 => lane.request # sent.request
  BY <1>1, <1>3 DEF Agreed, AnswersStand
<1> QED
  BY <1>1, <1>2, <1>4, LaneLost

LEMMA HearSpawnAgreed ==
    ASSUME TypeOK, TypeOK', Agreed, HearSpawn
    PROVE  Agreed'
<1>1. /\ ToSet(toReader)' \subseteq ToSet(toReader)
      /\ sent.request # 0 => HidesFirst(toReader', sent.request)
      /\ UNCHANGED <<writerVars, rows, receipts, toWriter, moves>>
      /\ UNCHANGED <<lastToken, lane, received, early, shown, readerOut>>
  BY FrameEffect DEF HearSpawn
<1>2. Answering' = Answering
  BY <1>1 DEF Answering
<1> QED
  BY <1>1, <1>2, ReaderAgreed

\* The reader's answers leave: they were safe where they waited.
LEMMA AnsweringAgreed ==
    ASSUME TypeOK, TypeOK', Agreed,
           UNCHANGED <<writerVars, toReader, lastToken>>,
           lane'.request = lane.request, lane'.token = lane.token,
           lane.invalidated => lane'.invalidated,
           received'.token \in {0, received.token, lane.token},
           \A r \in Answering' : r \in Answering \/ SafeAnswer(r)'
    PROVE  Agreed'
<1>1. sent.request # 0 => HidesFirst(toReader', sent.request)
  BY DEF Agreed, AnswersStand
<1> QED
  BY <1>1, ReaderAgreed

LEMMA RebindAgreed ==
    ASSUME TypeOK, TypeOK', Agreed, Rebind
    PROVE  Agreed'
<1>1. /\ UNCHANGED <<writerVars, toReader, rows, known, lastToken, lane, shown,
                     readerOut, receipts, toWriter>>
      /\ received'.token = 0
  BY DEF Rebind, NoReceived
<1>2. Answering' = Answering
  BY <1>1 DEF Answering
<1> QED
  BY <1>1, <1>2, AnsweringAgreed

LEMMA FlushAnswerAgreed ==
    ASSUME TypeOK, TypeOK', Agreed, FlushAnswer
    PROVE  Agreed'
<1> DEFINE r == Head(readerOut)
<1>1. /\ UNCHANGED <<writerVars, toReader, rows, known, lastToken, lane,
                     received, early, shown, receipts, moves>>
      /\ readerOut # <<>> /\ toWriter' = Append(toWriter, r)
      /\ readerOut' = Tail(readerOut)
  BY DEF FlushAnswer
<1>2. /\ r \in Control /\ r \in ToSet(readerOut)
      /\ ToSet(readerOut)' \subseteq ToSet(readerOut)
  BY <1>1, Queues, TailRecords
<1> HIDE DEF r
<1>3. ToSet(toWriter)' = ToSet(toWriter) \cup {r}
  BY <1>1, <1>2, Queues, AppendRecords
<1>4. \A q \in Answering' : q \in Answering
  BY <1>2, <1>3 DEF Answering
<1> QED
  BY <1>1, <1>4, AnsweringAgreed

LEMMA FlushReceiptAgreed ==
    ASSUME TypeOK, TypeOK', Agreed, FlushReceipt
    PROVE  Agreed'
<1>1. UNCHANGED <<writerVars, toReader, rows, known, lastToken, lane,
                  received, early, shown, readerOut, moves>>
  BY DEF FlushReceipt
<1>2. PICK a \in receipts :
         toWriter' = Append(toWriter, [Record("ACCEPT", 0, a.token)
                                           EXCEPT !.rev = a.rev])
  BY DEF FlushReceipt
<1> DEFINE r == [Record("ACCEPT", 0, a.token) EXCEPT !.rev = a.rev]
<1>3. r \in Control /\ r.tag = "ACCEPT"
  <2>1. a.token \in Token /\ a.rev \in Revision /\ 0 \in Request
    BY BoundAssumption DEF TypeOK, Receipt, Request
  <2> QED
    BY <2>1 DEF Record, Control
<1>4. toWriter' = Append(toWriter, r)
  BY <1>2
<1> HIDE DEF r
<1>5. ToSet(toWriter)' = ToSet(toWriter) \cup {r}
  BY <1>3, <1>4, Queues, AppendRecords
<1>6. \A q \in Answering' : q \in Answering \/ q = r
  BY <1>1, <1>5 DEF Answering
<1>7. \A q \in Answering' : q \in Answering \/ SafeAnswer(q)'
  BY <1>3, <1>6 DEF SafeAnswer
<1> QED
  BY <1>1, <1>7, AnsweringAgreed

\* Every row names a token that was minted.
LEMMA RowTokens ==
    ASSUME TypeOK, NothingAhead
    PROVE  \A row \in rows \cup early :
              /\ row \in Row
              /\ row.token \in 1 .. lastToken
              /\ row.rev # 0
<1> SUFFICES ASSUME NEW row \in rows \cup early
             PROVE  /\ row \in Row
                    /\ row.token \in 1 .. lastToken
                    /\ row.rev # 0
  OBVIOUS
<1>1. row \in Row
  BY DEF TypeOK
<1>2. PICK c \in Column : TRUE
  BY ColumnAssumption
<1>3. /\ row.token \in Token /\ row.rev \in Revision /\ row.image[c] \in Value
  BY <1>1 DEF Row, Image
<1>4. Says(row.token, row.rev, c, row.image[c])
  BY DEF Says, RowsSay, RowSays
<1> QED
  BY <1>1, <1>3, <1>4 DEF NothingAhead

LEMMA ReceiveRowAgreed ==
    ASSUME TypeOK, TypeOK', Agreed, NothingAhead, NEW row \in rows,
           ReceiveRow(row)
    PROVE  Agreed'
<1>1. UNCHANGED <<writerVars, toReader, toWriter, moves, known, lastToken>>
  BY DEF ReceiveRow, RefuseUnknown, RefuseStale, HoldEarly, ResetStreamOf,
         LandRow, Arrives
<1>2. row \in Row /\ row.token \in 1 .. lastToken /\ row.token \in Token
  BY RowTokens DEF Row
<1>3. lane.request \in Request /\ lastToken \in Nat /\ 0 \in Request
  BY BoundAssumption DEF TypeOK, Request, Token
<1>4. CASE RefuseUnknown(row)
  <2> DEFINE r == Record("RESET", 0, row.token)
  <2>1. r \in Control /\ r.tag = "RESET" /\ r.token = row.token
    BY <1>2, <1>3, RecordType DEF Record
  <2>2. UNCHANGED <<lane, received>>
    BY <1>4 DEF RefuseUnknown
  <2>3. \/ readerOut' = readerOut
        \/ known /\ readerOut' = Queued(readerOut, r)
    BY <1>4 DEF RefuseUnknown
  <2>4. known => lane.token # row.token
    BY <1>4 DEF RefuseUnknown, Names
  <2> HIDE DEF r
  <2>5. \A q \in Answering' : q \in Answering \/ (known /\ q = r)
    BY <1>1, <2>1, <2>3, Queues, QueuedRecords DEF Answering
  <2>6. ASSUME known, NEW q, q = r
        PROVE  SafeAnswer(q)'
    BY <1>1, <1>2, <1>3, <2>1, <2>2, <2>4, <2>6 DEF SafeAnswer
  <2>7. \A q \in Answering' : q \in Answering \/ SafeAnswer(q)'
    BY <2>5, <2>6
  <2> QED
    BY <1>1, <2>2, <2>7, AnsweringAgreed
<1>5. CASE RefuseStale(row) \/ HoldEarly(row)
  <2>1. UNCHANGED <<lane, received, readerOut>>
    BY <1>5 DEF RefuseStale, HoldEarly
  <2>2. Answering' = Answering
    BY <1>1, <2>1 DEF Answering
  <2> QED
    BY <1>1, <2>1, <2>2, AnsweringAgreed
<1>6. CASE ResetStreamOf(row)
  <2>1. received' = received /\ lane.token = row.token
    BY <1>6 DEF ResetStreamOf, Names
  <2>2. CASE UNCHANGED <<lane, readerOut, receipts>>
    <3>1. Answering' = Answering
      BY <1>1, <2>2 DEF Answering
    <3> QED
      BY <1>1, <2>1, <2>2, <3>1, AnsweringAgreed
  <2>3. CASE /\ lane' = [lane EXCEPT !.invalidated = TRUE]
             /\ readerOut' = Queued(Dropped(readerOut, row.token),
                                    Record("RESET", lane.request, row.token))
    <3> DEFINE r == Record("RESET", lane.request, row.token)
    <3>1. r \in Control /\ r.tag = "RESET" /\ r.token = row.token
      BY <1>2, <1>3, RecordType DEF Record
    <3>2. /\ lane'.request = lane.request /\ lane'.token = lane.token
          /\ lane'.invalidated
      BY <2>3 DEF TypeOK
    <3>3. readerOut' = Queued(Dropped(readerOut, row.token), r)
      BY <2>3
    <3> HIDE DEF r
    <3>4. /\ Dropped(readerOut, row.token) \in Seq(Control)
          /\ ToSet(Dropped(readerOut, row.token)) \subseteq ToSet(readerOut)
      BY Queues, DroppedRecords
    <3>5. ToSet(readerOut)' \subseteq ToSet(readerOut) \cup {r}
      BY <3>1, <3>3, <3>4, QueuedRecords
    <3>6. \A q \in Answering' : q \in Answering \/ q = r
      BY <1>1, <3>5 DEF Answering
    <3>7. ASSUME NEW q, q = r
          PROVE  SafeAnswer(q)'
      BY <1>1, <1>2, <1>3, <3>1, <3>2, <3>7 DEF SafeAnswer
    <3>8. \A q \in Answering' : q \in Answering \/ SafeAnswer(q)'
      BY <3>6, <3>7
    <3> QED
      BY <1>1, <2>1, <3>2, <3>8, AnsweringAgreed
  <2> QED
    BY <1>6, <2>2, <2>3 DEF ResetStreamOf
<1>7. CASE LandRow(row)
  <2>1. lane.token = row.token /\ UNCHANGED <<lane, readerOut>>
    BY <1>7 DEF LandRow, Names
  <2>2. received'.token = row.token
    <3>1. \A got, e, codes : Landed(got, e, codes).token = e.token
      BY DEF Landed
    <3> QED
      BY <1>7, <3>1, LandRowEffect
  <2>3. Answering' = Answering
    BY <1>1, <2>1 DEF Answering
  <2> QED
    BY <1>1, <2>1, <2>2, <2>3, AnsweringAgreed
<1> QED
  BY <1>4, <1>5, <1>6, <1>7 DEF ReceiveRow

\* What the control records agree on holds through every step.
LEMMA NextAgreed ==
    ASSUME TypeOK, Agreed, NothingAhead, [Next]_vars
    PROVE  Agreed'
<1>1. TypeOK'
  BY NextTypeOK
<1>2. CASE Change \/ Hide \/ Reopen \/ Admit \/ OpenStream \/ AskAgain
  BY <1>1, <1>2, ChangeAgreed, HideAgreed, ReopenAgreed, AdmitAgreed,
     OpenStreamAgreed, AskAgainAgreed
<1>3. ASSUME NEW fate \in Fate, Send(fate)
      PROVE  Agreed'
  BY <1>1, <1>3, SendEffect, SendAgreed
<1>4. CASE FlushWriter \/ HearAnswer
  BY <1>1, <1>4, FlushWriterAgreed, HearReadyAgreed, HearResetAgreed,
     HearAcceptAgreed DEF HearAnswer
<1>5. CASE HearFrame \/ Rebind
  BY <1>1, <1>5, HearOpenAgreed, HearCloseAgreed, HearHideAgreed,
     HearSpawnAgreed, RebindAgreed DEF HearFrame
<1>6. CASE FlushAnswer \/ FlushReceipt
  BY <1>1, <1>6, FlushAnswerAgreed, FlushReceiptAgreed
<1>7. ASSUME NEW row \in rows, ReceiveRow(row)
      PROVE  Agreed'
  BY <1>1, <1>7, ReceiveRowAgreed
<1>8. CASE UNCHANGED vars
  BY <1>8 DEF vars, writerVars, readerVars, Agreed, IdleIsEmpty, WithinCounters,
              AnswersStand, ResetsOnlyTheLost, Asking, Answering, Standing,
              HidesFirst
<1> QED
  BY <1>2, <1>3, <1>4, <1>5, <1>6, <1>7, <1>8 DEF Next, Disturb

-----------------------------------------------------------------------------
(* What is said, and Coherent. *)

\* A step after which nothing is said that was not said before.
NothingNew ==
    \A token \in Token, rev \in Revision, c \in Column, v \in Value :
        Says(token, rev, c, v)' => Says(token, rev, c, v)

\* What a send says for the first time: the next revision holds the row as it
\* stands.
Mints(token, rev, c, v) ==
    /\ sent'.next = sent.next + 1
    /\ token = sent.token
    /\ rev = sent.next
    /\ v = image[c]

\* A lane that lost its flights and its baseline says nothing.
LEMMA LessSaid ==
    ASSUME rows' \cup early' \subseteq rows \cup early,
           \/ sent'.token = sent.token /\ sent'.flights \subseteq sent.flights
              /\ sent'.acked = sent.acked /\ sent'.baseline = sent.baseline
           \/ sent'.flights = {} /\ sent'.acked = 0,
           \/ received'.token = received.token
              /\ received'.ring \subseteq received.ring
           \/ received'.ring = {}
    PROVE  NothingNew
<1> SUFFICES ASSUME NEW token \in Token, NEW rev \in Revision,
                    NEW c \in Column, NEW v \in Value, Says(token, rev, c, v)'
             PROVE  Says(token, rev, c, v)
  BY DEF NothingNew
<1>1. CASE RowsSay(token, rev, c, v)'
  <2>1. RowsSay(token, rev, c, v)
    BY <1>1 DEF RowsSay, RowSays
  <2> QED
    BY <2>1 DEF Says
<1>2. CASE WriterSays(token, rev, c, v)'
  <2>1. WriterSays(token, rev, c, v)
    BY <1>2 DEF WriterSays
  <2> QED
    BY <2>1 DEF Says
<1>3. CASE ReaderSays(token, rev, c, v)'
  <2>1. ReaderSays(token, rev, c, v)
    BY <1>3 DEF ReaderSays
  <2> QED
    BY <2>1 DEF Says
<1> QED
  BY <1>1, <1>2, <1>3 DEF Says

LEMMA ChangeSays ==
    ASSUME TypeOK, Change
    PROVE  NothingNew
<1> DEFINE loose == {[f EXCEPT !.pinned = FALSE] : f \in sent.flights}
<1>1. /\ sent' = [sent EXCEPT !.flights = Evicted(loose)]
      /\ UNCHANGED <<rows, readerVars>>
  BY DEF Change
<1>2. UNCHANGED <<early, received>>
  BY <1>1 DEF readerVars
<1>3. sent \in Sent
  BY DEF TypeOK
<1>4. \A f \in Evicted(loose) :
         \E g \in sent.flights : g.rev = f.rev /\ g.image = f.image
  <2>1. \A g \in sent.flights :
           /\ [g EXCEPT !.pinned = FALSE].rev = g.rev
           /\ [g EXCEPT !.pinned = FALSE].image = g.image
    BY <1>3 DEF Sent, Flight
  <2>2. Evicted(loose) \subseteq loose
    BY EvictedSubset
  <2>3. \A f \in loose :
           \E g \in sent.flights : g.rev = f.rev /\ g.image = f.image
    BY <2>1
  <2> QED
    BY <2>2, <2>3
<1> HIDE DEF loose
<1>5. /\ sent'.token = sent.token /\ sent'.flights = Evicted(loose)
      /\ sent'.acked = sent.acked /\ sent'.baseline = sent.baseline
  BY <1>1, <1>3 DEF Sent
<1> SUFFICES ASSUME NEW token \in Token, NEW rev \in Revision,
                    NEW c \in Column, NEW v \in Value, Says(token, rev, c, v)'
             PROVE  Says(token, rev, c, v)
  BY DEF NothingNew
<1>6. CASE WriterSays(token, rev, c, v)'
  <2>1. WriterSays(token, rev, c, v)
    BY <1>4, <1>5, <1>6 DEF WriterSays
  <2> QED
    BY <2>1 DEF Says
<1>7. CASE RowsSay(token, rev, c, v)' \/ ReaderSays(token, rev, c, v)'
  BY <1>1, <1>2, <1>7 DEF Says, RowsSay, ReaderSays, RowSays
<1> QED
  BY <1>6, <1>7 DEF Says

\* A receipt makes the image of a flight the baseline.
LEMMA HearAcceptSays ==
    ASSUME TypeOK, HearAccept
    PROVE  NothingNew
<1>1. UNCHANGED <<rows, early, received>>
  BY DEF HearAccept, Answer, readerVars
<1>2. CASE sent' = sent
  BY <1>1, <1>2, LessSaid
<1>3. ASSUME NEW f \in sent.flights,
             sent'.acked = f.rev, sent'.baseline = f.image,
             sent'.flights \subseteq sent.flights,
             sent'.token = sent.token
      PROVE  NothingNew
  <2> SUFFICES ASSUME NEW token \in Token, NEW rev \in Revision,
                      NEW c \in Column, NEW v \in Value,
                      Says(token, rev, c, v)'
               PROVE  Says(token, rev, c, v)
    BY DEF NothingNew
  <2>1. CASE WriterSays(token, rev, c, v)'
    <3>1. WriterSays(token, rev, c, v)
      BY <1>3, <2>1 DEF WriterSays
    <3> QED
      BY <3>1 DEF Says
  <2>2. CASE RowsSay(token, rev, c, v)' \/ ReaderSays(token, rev, c, v)'
    BY <1>1, <2>2 DEF Says, RowsSay, ReaderSays, RowSays
  <2> QED
    BY <2>1, <2>2 DEF Says
<1> QED
  BY <1>2, <1>3, HearAcceptEffect

\* A READY seats a token where none was seated, or the same one.
LEMMA HearReadySays ==
    ASSUME TypeOK, Agreed, HearReady
    PROVE  /\ NothingNew
           /\ \/ sent' = sent
              \/ /\ sent.stream = "OPENING" /\ lane.request = sent.request
                 /\ sent'.token = lane.token
<1> DEFINE r == Head(toWriter)
<1>1. /\ r \in Answering /\ r.tag = "READY"
      /\ UNCHANGED <<lastRequest, rows, readerVars>>
  BY AnswerEffect DEF HearReady
<1>2. UNCHANGED <<early, received>>
  BY <1>1 DEF readerVars
<1>3. sent \in Sent
  BY DEF TypeOK
<1>4. CASE sent' = sent
  BY <1>1, <1>2, <1>4, LessSaid
<1>5. CASE /\ r.request # 0 /\ r.request = sent.request
           /\ sent' = [sent EXCEPT !.stream = "READY", !.token = r.token]
  <2>1. /\ sent'.token = r.token /\ sent'.flights = sent.flights
        /\ sent'.acked = sent.acked /\ sent'.baseline = sent.baseline
    BY <1>3, <1>5 DEF Sent
  <2>2. lane.request = sent.request /\ lane.token = r.token
    BY <1>1, <1>5 DEF Agreed, AnswersStand, Standing
  <2>3. sent.stream # "NONE"
    BY <1>5 DEF Agreed, IdleIsEmpty, ClosedRow
  <2>4. CASE sent.stream = "READY"
    <3>1. sent.token = r.token
      BY <1>5, <2>2, <2>4 DEF Agreed, AnswersStand, Standing
    <3>2. sent' = sent
      BY <1>3, <1>5, <2>4, <3>1 DEF Sent
    <3> QED
      BY <1>1, <1>2, <3>2, LessSaid
  <2>5. CASE sent.stream = "OPENING"
    <3>1. sent.flights = {} /\ sent.acked = 0
      BY <2>5, IdleFlights
    <3>2. NothingNew
      BY <1>1, <1>2, <2>1, <3>1, LessSaid
    <3> QED
      BY <2>1, <2>2, <2>5, <3>2
  <2> QED
    BY <1>3, <2>3, <2>4, <2>5 DEF Sent
<1> QED
  BY <1>4, <1>5 DEF HearReady

\* What a send says for the first time is the row as it stands, at the next
\* revision.
LEMMA SendSays ==
    ASSUME TypeOK, NEW row, Sends(row),
           NEW token \in Token, NEW rev \in Revision,
           NEW c \in Column, NEW v \in Value, Says(token, rev, c, v)'
    PROVE  Says(token, rev, c, v) \/ Mints(token, rev, c, v)
<1>1. /\ sent'.token = sent.token
      /\ sent'.acked = sent.acked /\ sent'.baseline = sent.baseline
      /\ rows' \subseteq rows \cup {row} /\ UNCHANGED <<early, received>>
      /\ \/ sent'.flights \subseteq sent.flights
         \/ /\ sent'.next = sent.next + 1
            /\ sent'.flights \subseteq sent.flights \cup
                  [rev : {sent.next}, image : {image}, pinned : BOOLEAN]
  BY DEF Sends, SendsRow, SentFrom, readerVars
<1>2. CASE ReaderSays(token, rev, c, v)'
  BY <1>1, <1>2 DEF ReaderSays, Says
<1>3. CASE WriterSays(token, rev, c, v)'
  <2>1. \/ WriterSays(token, rev, c, v)
        \/ /\ sent.token = token
           /\ sent'.next = sent.next + 1
           /\ \E f \in [rev : {sent.next}, image : {image}, pinned : BOOLEAN] :
                 f.rev = rev /\ f.image[c] = v
    BY <1>1, <1>3 DEF WriterSays
  <2> QED
    BY <2>1 DEF Says, Mints
<1>4. CASE RowsSay(token, rev, c, v)'
  <2>1. \/ RowsSay(token, rev, c, v)
        \/ row.token = token /\ RowSays(row, rev, c, v)
    BY <1>1, <1>4 DEF RowsSay, RowSays
  <2>2. ASSUME row.token = token, row.image[c] = v, row.rev = rev
        PROVE  WriterSays(token, rev, c, v) \/ Mints(token, rev, c, v)
    BY <2>2 DEF Sends, SendsRow, WriterSays, Mints
  <2>3. ASSUME row.token = token, row.image[c] = v,
               row.from = rev, rev # 0, c \notin row.mask
        PROVE  WriterSays(token, rev, c, v)
    <3>1. row.token = sent.token /\ image[c] = v
      BY <2>3 DEF Sends, SendsRow
    <3>2. \A base : row.mask = Differing(base) => base[c] = v
      BY <2>3, <3>1 DEF Differing
    <3>3. \/ row.from = sent.acked /\ row.mask = Differing(sent.baseline)
          \/ \E f \in sent.flights :
                row.from = f.rev /\ row.mask = Differing(f.image)
      BY <2>3 DEF Sends, SendsRow
    <3> QED
      BY <2>3, <3>1, <3>2, <3>3 DEF WriterSays
  <2> QED
    BY <2>1, <2>2, <2>3 DEF Says, RowSays
<1> QED
  BY <1>2, <1>3, <1>4 DEF Says

\* A row is decoded to the image it was minted with, over any base the reader
\* keeps for it.
LEMMA DecodedExactly ==
    ASSUME TypeOK, Coherent, NEW row \in rows \cup early,
           NEW base \in Bases(received, row)
    PROVE  Decoded(row, base) = row.image
<1>1. row \in Row /\ base \in Image
  BY BasesType DEF TypeOK, ReceivedType
<1>2. CASE row.from = 0
  <2>1. base = row.image
    BY <1>2 DEF Bases
  <2> QED
    BY <1>1, <2>1 DEF Decoded, Row, Image
<1>3. CASE row.from # 0
  <2>1. PICK k \in received.ring :
           /\ received.token = row.token /\ k.rev = row.from /\ k.image = base
    BY <1>3 DEF Bases
  <2>2. ASSUME NEW c \in Column, c \notin row.mask
        PROVE  base[c] = row.image[c]
    <3>1. /\ row.token \in Token /\ row.from \in Revision
          /\ base[c] \in Value /\ row.image[c] \in Value
      BY <1>1 DEF Row, Image
    <3>2. Says(row.token, row.from, c, row.image[c])
      BY <1>3, <2>2 DEF Says, RowsSay, RowSays
    <3>3. Says(row.token, row.from, c, base[c])
      BY <2>1 DEF Says, ReaderSays
    <3> QED
      BY <3>1, <3>2, <3>3 DEF Coherent
  <2> QED
    BY <1>1, <2>2 DEF Decoded, Row, Image
<1> QED
  BY <1>2, <1>3

\* So is a row held early, over the row that it restates.
LEMMA EdgeExactly ==
    ASSUME TypeOK, Coherent, NothingAhead, NEW row \in rows, NEW e \in early,
           e.token = row.token, e.from = row.rev
    PROVE  Decoded(e, row.image) = e.image
<1>1. row \in Row /\ e \in Row /\ row.rev # 0
  BY RowTokens
<1>2. ASSUME NEW c \in Column, c \notin e.mask
      PROVE  row.image[c] = e.image[c]
  <2>1. /\ row.token \in Token /\ row.rev \in Revision
        /\ row.image[c] \in Value /\ e.image[c] \in Value
    BY <1>1 DEF Row, Image
  <2>2. Says(row.token, row.rev, c, row.image[c])
    BY DEF Says, RowsSay, RowSays
  <2>3. Says(row.token, row.rev, c, e.image[c])
    BY <1>1, <1>2 DEF Says, RowsSay, RowSays
  <2> QED
    BY <2>1, <2>2, <2>3 DEF Coherent
<1> QED
  BY <1>1, <1>2 DEF Decoded, Row, Image

\* What the ring holds once a row has landed.
LEMMA LandedRing ==
    ASSUME NEW got, NEW row, NEW codes
    PROVE  /\ Landed(got, row, codes).token = row.token
           /\ \A k \in Landed(got, row, codes).ring :
                 \/ got.token = row.token /\ k \in got.ring
                 \/ k = [rev |-> row.rev, image |-> codes]
  BY DEF Landed

\* Landing keeps the image the row states, and that of the early edge.
LEMMA LandRowSays ==
    ASSUME TypeOK, Coherent, NothingAhead, NEW row \in rows, LandRow(row)
    PROVE  NothingNew
<1>1. /\ rows' \subseteq rows /\ UNCHANGED sent
  BY DEF LandRow, Arrives, writerVars
<1>2. early' \subseteq early
  BY DEF LandRow, EdgeWaits
<1>3. PICK base \in Bases(received, row) :
         LET codes == Decoded(row, base)
             first == Landed(received, row, codes)
         IN  \/ received' = first
             \/ \E e \in early :
                   /\ e.token = row.token /\ e.from = row.rev
                   /\ received' = Landed(first, e, Decoded(e, codes))
  BY LandRowEffect
<1>4. Decoded(row, base) = row.image
  BY DecodedExactly
<1> DEFINE first == Landed(received, row, row.image)
<1>5. /\ first.token = row.token
      /\ \A k \in first.ring :
            \/ received.token = row.token /\ k \in received.ring
            \/ k = [rev |-> row.rev, image |-> row.image]
  BY LandedRing
<1>6. \/ received' = first
      \/ \E e \in early :
            /\ e.token = row.token /\ e.from = row.rev
            /\ received' = Landed(first, e, Decoded(e, row.image))
  BY <1>3, <1>4
<1> HIDE DEF first
<1> DEFINE Stated(k) ==
             \/ received.token = row.token /\ k \in received.ring
             \/ k.rev = row.rev /\ k.image = row.image
             \/ \E e \in early : /\ e.token = row.token
                                 /\ k.rev = e.rev /\ k.image = e.image
<1>7. /\ received'.token = row.token
      /\ \A k \in received'.ring : Stated(k)
  <2>1. CASE received' = first
    BY <1>5, <2>1
  <2>2. ASSUME NEW e \in early, e.token = row.token, e.from = row.rev,
               received' = Landed(first, e, Decoded(e, row.image))
        PROVE  /\ received'.token = row.token
               /\ \A k \in received'.ring : Stated(k)
    <3>1. received' = Landed(first, e, e.image)
      BY <2>2, EdgeExactly
    <3>2. /\ received'.token = e.token
          /\ \A k \in received'.ring :
                k \in first.ring \/ k = [rev |-> e.rev, image |-> e.image]
      BY <3>1, LandedRing
    <3> QED
      BY <1>5, <2>2, <3>2
  <2> QED
    BY <1>6, <2>1, <2>2
<1> SUFFICES ASSUME NEW token \in Token, NEW rev \in Revision,
                    NEW c \in Column, NEW v \in Value, Says(token, rev, c, v)'
             PROVE  Says(token, rev, c, v)
  BY DEF NothingNew
<1>8. CASE ReaderSays(token, rev, c, v)'
  <2>1. /\ token = row.token
        /\ \E k \in received'.ring : k.rev = rev /\ k.image[c] = v
    BY <1>7, <1>8 DEF ReaderSays
  <2>2. PICK k \in received'.ring : k.rev = rev /\ k.image[c] = v
    BY <2>1
  <2>3. CASE received.token = row.token /\ k \in received.ring
    BY <2>1, <2>2, <2>3 DEF Says, ReaderSays
  <2>4. ASSUME NEW q \in rows \cup early, q.token = row.token,
               k.rev = q.rev, k.image = q.image
        PROVE  Says(token, rev, c, v)
    BY <2>1, <2>2, <2>4 DEF Says, RowsSay, RowSays
  <2> QED
    BY <1>7, <2>3, <2>4
<1>9. CASE RowsSay(token, rev, c, v)'
  BY <1>1, <1>2, <1>9 DEF Says, RowsSay, RowSays
<1>10. CASE WriterSays(token, rev, c, v)'
  BY <1>1, <1>10 DEF Says, WriterSays
<1> QED
  BY <1>8, <1>9, <1>10 DEF Says

LEMMA ReceiveRowSays ==
    ASSUME TypeOK, Coherent, NothingAhead, NEW row \in rows, ReceiveRow(row)
    PROVE  NothingNew
<1>1. rows' \subseteq rows /\ UNCHANGED sent
  BY DEF ReceiveRow, RefuseUnknown, RefuseStale, HoldEarly, ResetStreamOf,
         LandRow, Arrives, writerVars
<1>2. CASE \/ RefuseUnknown(row) \/ RefuseStale(row) \/ HoldEarly(row)
           \/ ResetStreamOf(row)
  <2>1. received' = received /\ early' \subseteq early \cup {row}
    BY <1>2 DEF RefuseUnknown, RefuseStale, HoldEarly, ResetStreamOf
  <2> QED
    BY <1>1, <2>1, LessSaid
<1> QED
  BY <1>2, LandRowSays DEF ReceiveRow

\* A step that says nothing new keeps what is said coherent, and ahead of
\* nothing, if it seats no token and mints none for the request that stands.
LEMMA QuietStep ==
    ASSUME TypeOK, TypeOK', NothingAhead, Coherent, NothingNew,
           lastToken <= lastToken',
           sent'.stream = "OPENING" /\ lane'.request = sent'.request =>
               \A rev \in Revision, c \in Column, v \in Value :
                   ~Says(lane'.token, rev, c, v),
           sent'.stream = "READY" =>
               \A rev \in Revision, c \in Column, v \in Value :
                   Says(sent'.token, rev, c, v) => rev < sent'.next
    PROVE  NothingAhead' /\ Coherent'
<1>1. Coherent'
  BY DEF Coherent, NothingNew
<1>2. /\ lane'.token \in Token /\ sent'.token \in Token
      /\ lastToken \in Nat /\ lastToken' \in Nat
  BY BoundAssumption DEF TypeOK, Sent, Token
<1>3. ASSUME NEW token \in Token, NEW rev \in Revision,
             NEW c \in Column, NEW v \in Value, Says(token, rev, c, v)'
      PROVE  token \in 1 .. lastToken' /\ rev # 0
  <2>1. token \in 1 .. lastToken /\ rev # 0
    BY <1>3 DEF NothingNew, NothingAhead
  <2> QED
    BY <1>2, <2>1
<1>4. ASSUME sent'.stream = "OPENING", lane'.request = sent'.request,
             NEW rev \in Revision, NEW c \in Column, NEW v \in Value,
             Says(lane.token, rev, c, v)'
      PROVE  FALSE
  BY <1>2, <1>4 DEF NothingNew
<1>5. ASSUME sent'.stream = "READY",
             NEW rev \in Revision, NEW c \in Column, NEW v \in Value,
             Says(sent.token, rev, c, v)'
      PROVE  rev < sent'.next
  BY <1>2, <1>5 DEF NothingNew
<1> QED
  BY <1>1, <1>3, <1>4, <1>5 DEF NothingAhead

\* The common case: neither end changes its stream.
LEMMA SteadyStep ==
    ASSUME TypeOK, TypeOK', NothingAhead, Coherent, NothingNew,
           lastToken' = lastToken,
           \/ sent'.stream = "NONE"
           \/ /\ sent'.stream = sent.stream /\ sent'.request = sent.request
              /\ sent'.token = sent.token /\ sent'.next = sent.next,
           \/ lane'.request = lane.request /\ lane'.token = lane.token
           \/ lane'.request # sent.request
    PROVE  NothingAhead' /\ Coherent'
<1>1. lastToken <= lastToken'
  BY BoundAssumption DEF TypeOK, Token
<1> QED
  BY <1>1, QuietStep DEF NothingAhead

LEMMA SendCoherent ==
    ASSUME TypeOK, TypeOK', Agreed, NothingAhead, Coherent, NEW row, Sends(row)
    PROVE  NothingAhead' /\ Coherent'
<1>1. /\ sent.stream = "READY" /\ sent'.stream = "READY"
      /\ sent'.token = sent.token
      /\ UNCHANGED <<image, lastToken, lane>>
      /\ sent'.next \in {sent.next, sent.next + 1}
  BY DEF Sends, SentFrom, SendsRow, readerVars
<1>2. /\ sent.token \in Token /\ sent.next \in Nat
      /\ Revision \subseteq Nat
  <2>1. sent.token \in Token /\ sent.next \in 1 .. MaxRevision + 1
    BY DEF TypeOK, Sent
  <2> QED
    BY <2>1, BoundAssumption DEF Revision
<1>3. \A rev \in Revision, c \in Column, v \in Value :
         Says(sent.token, rev, c, v) => rev < sent.next
  BY <1>1 DEF NothingAhead
<1>4. \A token \in Token, rev \in Revision, c \in Column, v \in Value :
         Says(token, rev, c, v)' =>
             Says(token, rev, c, v) \/ Mints(token, rev, c, v)
  BY SendSays
<1>5. Coherent'
  <2> SUFFICES ASSUME NEW token \in Token, NEW rev \in Revision,
                      NEW c \in Column, NEW v \in Value, NEW w \in Value,
                      Says(token, rev, c, v)', Says(token, rev, c, w)'
               PROVE  v = w
    BY DEF Coherent
  <2>1. CASE Says(token, rev, c, v) /\ Says(token, rev, c, w)
    BY <2>1 DEF Coherent
  <2>2. CASE Mints(token, rev, c, v) /\ Mints(token, rev, c, w)
    BY <2>2 DEF Mints
  <2>3. CASE \/ Says(token, rev, c, v) /\ Mints(token, rev, c, w)
             \/ Says(token, rev, c, w) /\ Mints(token, rev, c, v)
    BY <1>2, <1>3, <2>3 DEF Mints
  <2> QED
    BY <1>4, <2>1, <2>2, <2>3
<1>6. \A token \in Token, rev \in Revision, c \in Column, v \in Value :
         Says(token, rev, c, v)' => token \in 1 .. lastToken' /\ rev # 0
  <2>1. sent.token # 0 /\ sent.token \in 1 .. lastToken
    BY <1>1, <1>2, BoundAssumption
       DEF Agreed, IdleIsEmpty, AnswersStand, Standing, WithinCounters, Token
  <2>2. sent.next # 0
    BY DEF TypeOK, Sent
  <2> QED
    BY <1>1, <1>4, <2>1, <2>2 DEF Mints, NothingAhead
<1>7. \A rev \in Revision, c \in Column, v \in Value :
         Says(sent.token, rev, c, v)' => rev < sent'.next
  <2> SUFFICES ASSUME NEW rev \in Revision, NEW c \in Column, NEW v \in Value,
                      Says(sent.token, rev, c, v)'
               PROVE  rev < sent'.next
    OBVIOUS
  <2>1. Says(sent.token, rev, c, v) \/ Mints(sent.token, rev, c, v)
    BY <1>1, <1>2, <1>4
  <2>2. Says(sent.token, rev, c, v) => rev < sent.next
    BY <1>3
  <2>3. Mints(sent.token, rev, c, v)
           => rev = sent.next /\ sent'.next = sent.next + 1
    BY DEF Mints
  <2> QED
    BY <1>1, <1>2, <2>1, <2>2, <2>3
<1> QED
  BY <1>1, <1>5, <1>6, <1>7 DEF NothingAhead

\* The steps that leave the writer's stream, or end it.
LEMMA WriterCoherent ==
    ASSUME TypeOK, TypeOK', Agreed, NothingAhead, Coherent,
           \/ Change \/ Hide \/ Reopen \/ Admit \/ AskAgain \/ FlushWriter
           \/ HearReset \/ HearAccept
    PROVE  NothingAhead' /\ Coherent'
<1>1. UNCHANGED <<lastToken, lane, received, early, rows>>
  BY DEF Change, Hide, Reopen, Admit, AskAgain, FlushWriter, HearReset,
         HearAccept, Answer, readerVars
<1>2. CASE Change
  <2>1. NothingNew
    BY <1>2, ChangeSays
  <2>2. /\ sent'.stream = sent.stream /\ sent'.request = sent.request
        /\ sent'.token = sent.token /\ sent'.next = sent.next
    BY <1>2 DEF Change, TypeOK, Sent
  <2> QED
    BY <1>1, <2>1, <2>2, SteadyStep
<1>3. CASE HearAccept
  <2>1. NothingNew
    BY <1>3, HearAcceptSays
  <2>2. /\ sent'.stream = sent.stream /\ sent'.request = sent.request
        /\ sent'.token = sent.token /\ sent'.next = sent.next
    BY <1>3, HearAcceptEffect
  <2> QED
    BY <1>1, <2>1, <2>2, SteadyStep
<1>4. CASE sent' = sent
  <2>1. NothingNew
    BY <1>1, <1>4, LessSaid
  <2> QED
    BY <1>1, <1>4, <2>1, SteadyStep
<1>5. CASE sent' = ClosedRow("NONE")
  <2>1. sent'.stream = "NONE" /\ sent'.flights = {} /\ sent'.acked = 0
    BY <1>5 DEF ClosedRow
  <2>2. NothingNew
    BY <1>1, <2>1, LessSaid
  <2> QED
    BY <1>1, <2>1, <2>2, SteadyStep
<1> QED
  BY <1>2, <1>3, <1>4, <1>5 DEF Hide, Reopen, Admit, AskAgain, FlushWriter,
                                HearReset

LEMMA OpenStreamCoherent ==
    ASSUME TypeOK, TypeOK', Agreed, NothingAhead, Coherent, OpenStream
    PROVE  NothingAhead' /\ Coherent'
<1>1. /\ UNCHANGED <<lastToken, lane, received, early, rows>>
      /\ sent'.stream = "OPENING" /\ sent'.request = lastRequest + 1
      /\ sent'.flights = {} /\ sent'.acked = 0
  BY DEF OpenStream, ClosedRow, readerVars
<1>2. NothingNew
  BY <1>1, LessSaid
<1>3. lane.request <= lastRequest /\ lane.request \in Nat /\ lastRequest \in Nat
  BY BoundAssumption DEF Agreed, WithinCounters, TypeOK, Request
<1>4. lane'.request # sent'.request
  BY <1>1, <1>3
<1>5. lastToken <= lastToken'
  BY <1>1, BoundAssumption DEF TypeOK, Token
<1> QED
  BY <1>1, <1>2, <1>4, <1>5, QuietStep

LEMMA HearReadyCoherent ==
    ASSUME TypeOK, TypeOK', Agreed, NothingAhead, Coherent, HearReady
    PROVE  NothingAhead' /\ Coherent'
<1>1. UNCHANGED <<lastToken, lane>>
  BY DEF HearReady, Answer, readerVars
<1>2. NothingNew
  BY HearReadySays
<1>3. CASE sent' = sent
  BY <1>1, <1>2, <1>3, SteadyStep
<1>4. CASE /\ sent.stream = "OPENING" /\ lane.request = sent.request
           /\ sent'.token = lane.token
  <2>1. \A rev \in Revision, c \in Column, v \in Value :
           ~Says(sent'.token, rev, c, v)
    BY <1>4 DEF NothingAhead
  <2>2. sent' = sent \/ sent'.stream = "READY"
    BY DEF HearReady, TypeOK, Sent
  <2>3. lastToken <= lastToken'
    BY <1>1, BoundAssumption DEF TypeOK, Token
  <2>4. CASE sent'.stream = "READY"
    BY <1>2, <2>1, <2>3, <2>4, QuietStep
  <2> QED
    BY <1>3, <2>2, <2>4
<1> QED
  BY <1>3, <1>4, HearReadySays

\* The reader's end: nothing is said of a token before the lane it names.
LEMMA ReaderCoherent ==
    ASSUME TypeOK, TypeOK', Agreed, Agreed', NothingAhead, Coherent,
           HearFrame \/ Rebind \/ FlushAnswer \/ FlushReceipt
    PROVE  NothingAhead' /\ Coherent'
<1>1. /\ UNCHANGED <<sent, rows>>
      /\ early' \in {early, {}} /\ received' \in {received, NoReceived}
  BY DEF HearFrame, HearOpen, HearClose, HearHide, HearSpawn, Frame, Rebind,
         FlushAnswer, FlushReceipt, writerVars
<1>2. NothingNew
  BY <1>1, LessSaid DEF NoReceived
<1>3. /\ lastToken \in Nat /\ lane.token \in Nat
  BY BoundAssumption DEF TypeOK, Token
<1>4. CASE lastToken' = lastToken /\ lane'.request \in {lane.request, 0}
           /\ (lane'.request = lane.request => lane'.token = lane.token)
  <2>1. sent.stream = "OPENING" => sent.request # 0
    BY DEF Agreed, IdleIsEmpty
  <2>2. \/ sent'.stream # "OPENING"
        \/ lane'.request # sent.request
        \/ lane'.request = lane.request /\ lane'.token = lane.token
    BY <1>1, <1>4, <2>1
  <2>3. lastToken <= lastToken'
    BY <1>3, <1>4
  <2> QED
    BY <1>1, <1>2, <2>2, <2>3, QuietStep DEF NothingAhead
<1>5. CASE lastToken' = lastToken + 1 /\ lane'.token = lastToken + 1
  <2>1. lane'.token \in Token /\ lane'.token \notin 1 .. lastToken
    BY <1>3, <1>5 DEF TypeOK
  <2>2. \A rev \in Revision, c \in Column, v \in Value :
           ~Says(lane'.token, rev, c, v)
    BY <2>1 DEF NothingAhead
  <2>3. lastToken <= lastToken'
    BY <1>3, <1>5
  <2> QED
    BY <1>1, <1>2, <2>2, <2>3, QuietStep DEF NothingAhead
<1>6. CASE HearOpen
  <2>1. \/ UNCHANGED <<lane, lastToken>>
        \/ lastToken' = lastToken + 1 /\ lane'.token = lastToken + 1
    BY <1>6 DEF HearOpen
  <2> QED
    BY <1>4, <1>5, <2>1
<1>7. CASE \/ HearClose \/ HearHide \/ HearSpawn \/ Rebind \/ FlushAnswer
           \/ FlushReceipt
  <2>1. lastToken' = lastToken /\ (lane' = lane \/ lane' = NoLane)
    BY <1>7 DEF HearClose, HearHide, HearSpawn, Rebind, FlushAnswer,
                FlushReceipt
  <2>2. lane.request = 0 => lane.token = 0
    BY DEF Agreed, WithinCounters
  <2> QED
    BY <1>4, <2>1, <2>2 DEF NoLane
<1> QED
  BY <1>6, <1>7 DEF HearFrame

LEMMA NextCoherent ==
    ASSUME TypeOK, Agreed, NothingAhead, Coherent, [Next]_vars
    PROVE  NothingAhead' /\ Coherent'
<1>1. TypeOK' /\ Agreed'
  BY NextTypeOK, NextAgreed
<1>2. CASE Change \/ Hide \/ Reopen \/ Admit \/ AskAgain \/ FlushWriter
  BY <1>1, <1>2, WriterCoherent
<1>3. CASE OpenStream
  BY <1>1, <1>3, OpenStreamCoherent
<1>4. ASSUME NEW fate \in Fate, Send(fate)
      PROVE  NothingAhead' /\ Coherent'
  BY <1>1, <1>4, SendEffect, SendCoherent
<1>5. CASE HearAnswer
  BY <1>1, <1>5, HearReadyCoherent, WriterCoherent DEF HearAnswer
<1>6. CASE HearFrame \/ Rebind \/ FlushAnswer \/ FlushReceipt
  BY <1>1, <1>6, ReaderCoherent
<1>7. ASSUME NEW row \in rows, ReceiveRow(row)
      PROVE  NothingAhead' /\ Coherent'
  <2>1. NothingNew
    BY <1>7, ReceiveRowSays
  <2>2. /\ UNCHANGED <<sent, lastToken>>
        /\ lane'.request = lane.request /\ lane'.token = lane.token
    BY <1>7 DEF ReceiveRow, RefuseUnknown, RefuseStale, HoldEarly,
                ResetStreamOf, LandRow, Arrives, writerVars, TypeOK
  <2> QED
    BY <1>1, <2>1, <2>2, SteadyStep
<1>8. CASE UNCHANGED vars
  <2>1. UNCHANGED <<sent, rows, early, received, lane, lastToken>>
    BY <1>8 DEF vars, writerVars, readerVars
  <2>2. NothingNew
    BY <2>1, LessSaid
  <2> QED
    BY <1>1, <2>1, <2>2, SteadyStep
<1> QED
  BY <1>2, <1>3, <1>4, <1>5, <1>6, <1>7, <1>8 DEF Next, Disturb

-----------------------------------------------------------------------------
(* The theorems. *)

LEMMA InitIInv == Init => IInv
<1> SUFFICES ASSUME Init
             PROVE  IInv
  OBVIOUS
<1>1. TypeOK
  BY InitTypeOK
<1>2. /\ sent.stream = "NONE" /\ sent.request = 0 /\ sent.acked = 0
      /\ sent.flights = {} /\ received.ring = {} /\ received.token = 0
      /\ lane.request = 0 /\ lane.token = 0
      /\ rows = {} /\ early = {} /\ lastRequest = 0 /\ lastToken = 0
  BY DEF Init, ClosedRow, NoReceived, NoLane
<1>3. /\ ToSet(writerOut) = {} /\ ToSet(toReader) = {}
      /\ ToSet(readerOut) = {} /\ ToSet(toWriter) = {}
  BY DEF Init, ToSet
<1>4. IdleIsEmpty
  BY <1>2 DEF IdleIsEmpty, Init
<1>5. WithinCounters
  BY <1>2, <1>3 DEF WithinCounters, Asking, Answering
<1>6. AnswersStand /\ ResetsOnlyTheLost
  BY <1>2, <1>3 DEF AnswersStand, ResetsOnlyTheLost
<1>7. \A token \in Token, rev \in Revision, c \in Column, v \in Value :
         ~Says(token, rev, c, v)
  BY <1>2 DEF Says, RowsSay, WriterSays, ReaderSays
<1>8. NothingAhead /\ Coherent
  BY <1>2, <1>7 DEF NothingAhead, Coherent
<1> QED
  BY <1>1, <1>4, <1>5, <1>6, <1>8 DEF IInv, Agreed

LEMMA NextIInv == IInv /\ [Next]_vars => IInv'
  BY NextTypeOK, NextAgreed, NextCoherent DEF IInv

\* The inductive invariant: what the control records on their way agree on, and
\* what every copy of an image says, in every state of every instance.
THEOREM Invariant == Spec => []IInv
  BY InitIInv, NextIInv, PTL DEF Spec

\* A token and a revision name one image wherever a copy of it is: in flight,
\* on the network, confirmed, kept or held early.
THEOREM ImagesCohere == Spec => []Coherent
<1>1. IInv => Coherent
  BY DEF IInv
<1> QED
  BY <1>1, Invariant, PTL

\* Every row that could land is decoded to the image the writer minted, over
\* whichever base the reader keeps for it.
THEOREM RowsDecodeExactly == Spec => []DecodesExactly
<1>1. IInv => DecodesExactly
  BY DecodedExactly DEF IInv, DecodesExactly
<1> QED
  BY <1>1, Invariant, PTL

\* The writer seats one token for a request, and a fresh one: no READY on its
\* way names another token than the one seated, or one that was ever used.
THEOREM RequestsKeepTheirToken == Spec => []OneTokenPerRequest
<1>1. ASSUME IInv
      PROVE  OneTokenPerRequest
  <2> SUFFICES ASSUME NEW r \in ToSet(toWriter), r.tag = "READY",
                      r.request = sent.request, sent.request # 0
               PROVE  /\ sent.token \in {0, r.token}
                      /\ sent.token = 0
                            => \A rev \in Revision, c \in Column, v \in Value :
                                  ~Says(r.token, rev, c, v)
    BY DEF OneTokenPerRequest
  <2>1. TypeOK /\ Agreed /\ NothingAhead
    BY <1>1 DEF IInv
  <2>2. lane.request = sent.request /\ lane.token = r.token
    BY <2>1 DEF Agreed, AnswersStand, Standing, Answering
  <2>3. CASE sent.stream = "READY"
    BY <2>1, <2>2, <2>3 DEF Agreed, AnswersStand, IdleIsEmpty, Standing
  <2>4. CASE sent.stream = "OPENING"
    BY <2>1, <2>2, <2>4, IdleFlights DEF NothingAhead
  <2>5. sent.stream # "NONE"
    BY <2>1 DEF Agreed, IdleIsEmpty, ClosedRow
  <2> QED
    BY <2>1, <2>3, <2>4, <2>5 DEF TypeOK, Sent
<1> QED
  BY <1>1, Invariant, PTL

\* A RESET on its way never names a lane the reader still serves.
THEOREM OnlyTheLostAreReset == Spec => []ResetsOnlyTheLost
<1>1. IInv => ResetsOnlyTheLost
  BY DEF IInv, Agreed
<1> QED
  BY <1>1, Invariant, PTL


-----------------------------------------------------------------------------
(* The images the reader keeps. *)

\* One image of a revision, none newer than the row that was accepted, and that
\* row's own among them.
RingSound(got) ==
    /\ \A k \in got.ring : k.rev <= got.accepted
    /\ \A j, k \in got.ring : j.rev = k.rev => j = k
    /\ got.token # 0 => \E k \in got.ring : k.rev = got.accepted

\* Revision rev is no newer than what was accepted, and its image is kept until
\* ReceivedDepth newer ones may have pushed it out.
Keeps(got, rev) ==
    /\ rev <= got.accepted
    /\ got.accepted < rev + ReceivedDepth => \E k \in got.ring : k.rev = rev

\* Images of distinct revisions above low and up to high: no more than those.
LEMMA DistinctAbove ==
    ASSUME NEW S \in SUBSET Kept, NEW low \in Nat, NEW high \in Nat,
           low <= high,
           \A k \in S : k.rev > low /\ k.rev <= high,
           \A j, k \in S : j.rev = k.rev => j = k
    PROVE  IsFiniteSet(S) /\ Cardinality(S) <= high - low
<1> DEFINE f == [k \in S |-> k.rev]
           T == low + 1 .. high
<1>1. \A k \in S : k.rev \in T
  BY BoundAssumption DEF Kept, Revision
<1>2. f \in Injection(S, T)
  BY <1>1 DEF Injection, IsInjective
<1>3. IsFiniteSet(T) /\ Cardinality(T) = high - low
  <2>1. low + 1 \in Int /\ high \in Int
    OBVIOUS
  <2>2. /\ IsFiniteSet(T)
        /\ Cardinality(T) = IF low + 1 > high THEN 0 ELSE high - (low + 1) + 1
    BY <2>1, FS_Interval
  <2> QED
    BY <2>2
<1> HIDE DEF f, T
<1>4. IsFiniteSet(S) /\ Cardinality(S) <= Cardinality(T)
  BY <1>2, <1>3, FS_Injection
<1> QED
  BY <1>3, <1>4

\* The position a row has to pass to land.
Passed(got, row) == got.token = row.token => row.rev > got.accepted

\* A row that lands leaves the ring sound, ends it, and pushes out an image only
\* when it is ReceivedDepth revisions back.
LEMMA LandedKeeps ==
    ASSUME NEW got \in ReceivedType, RingSound(got), NEW row \in Row,
           NEW codes \in Image, Passed(got, row)
    PROVE  LET next == Landed(got, row, codes)
           IN  /\ next.token = row.token /\ next.accepted = row.rev
               /\ RingSound(next)
               /\ Keeps(next, row.rev)
               /\ \A rev \in Revision :
                     got.token = row.token /\ Keeps(got, rev)
                        => Keeps(next, rev)
<1> DEFINE kept == IF got.token = row.token THEN got.ring ELSE {}
           new == [rev |-> row.rev, image |-> codes]
           all == kept \cup {new}
           newer(k) == {j \in all : j.rev > k.rev}
           ring == {k \in all : Cardinality(newer(k)) < ReceivedDepth}
           next == Landed(got, row, codes)
<1>1. /\ next = [token |-> row.token, accepted |-> row.rev, ring |-> ring]
  BY DEF Landed
<1>2. /\ row.rev \in Nat /\ got.accepted \in Nat
      /\ Revision \subseteq Nat
      /\ new \in Kept /\ new.rev = row.rev
      /\ \A k \in Kept : k.rev \in Nat
  <2>1. /\ row.rev \in Revision /\ got.accepted \in Revision
        /\ new \in Kept /\ new.rev = row.rev
    BY DEF ReceivedType, Row, Kept
  <2> HIDE DEF new
  <2> QED
    BY <2>1, BoundAssumption DEF Revision, Kept
<1>3. /\ kept \subseteq Kept
      /\ \A k \in kept : k.rev < row.rev
      /\ \A j, k \in kept : j.rev = k.rev => j = k
  <2>1. CASE got.token = row.token
    <3>1. kept = got.ring /\ got.ring \subseteq Kept
      BY <2>1 DEF ReceivedType
    <3>2. row.rev > got.accepted
      BY <2>1 DEF Passed
    <3> HIDE DEF kept
    <3> QED
      BY <1>2, <3>1, <3>2 DEF RingSound
  <2> QED
    BY <2>1
<1>4. /\ all \subseteq Kept /\ new \in all
      /\ \A k \in all : k.rev <= row.rev /\ k.rev \in Nat
      /\ \A j, k \in all : j.rev = k.rev => j = k
  <2> HIDE DEF kept, new
  <2> QED
    BY <1>2, <1>3
<1>5. ReceivedDepth \in Nat \ {0}
  BY DepthAssumption
<1>6. new \in ring
  <2>1. newer(new) = {}
    BY <1>2, <1>4
  <2>2. Cardinality({}) = 0
    BY FS_EmptySet
  <2> QED
    BY <1>4, <1>5, <2>1, <2>2
<1>7. ASSUME NEW k \in all, row.rev < k.rev + ReceivedDepth
      PROVE  k \in ring
  <2>1. newer(k) \in SUBSET Kept
    BY <1>4
  <2>2. /\ \A j \in newer(k) : j.rev > k.rev /\ j.rev <= row.rev
        /\ \A i, j \in newer(k) : i.rev = j.rev => i = j
    BY <1>4
  <2>3. k.rev \in Nat /\ row.rev \in Nat /\ k.rev <= row.rev
    BY <1>2, <1>4
  <2> HIDE DEF newer
  <2>4. IsFiniteSet(newer(k)) /\ Cardinality(newer(k)) <= row.rev - k.rev
    BY <2>1, <2>2, <2>3, DistinctAbove
  <2>5. Cardinality(newer(k)) \in Nat
    BY <2>4, FS_CardinalityType
  <2> QED
    BY <1>5, <1>7, <2>3, <2>4, <2>5
<1>8. new.rev = row.rev /\ ring \subseteq all
  OBVIOUS
<1>9. RingSound(next)
  <2> HIDE DEF all, ring, new
  <2> QED
    BY <1>1, <1>2, <1>4, <1>6, <1>8 DEF RingSound
<1>10. Keeps(next, row.rev)
  <2>1. row.rev <= row.rev
    BY <1>2
  <2>2. next.accepted = row.rev /\ next.ring = ring
    BY <1>1
  <2> HIDE DEF all, ring, new, next
  <2> QED
    BY <1>6, <1>8, <2>1, <2>2 DEF Keeps
<1>11. ASSUME NEW rev \in Revision, got.token = row.token, Keeps(got, rev)
       PROVE  Keeps(next, rev)
  <2>1. row.rev > got.accepted /\ rev <= got.accepted
    BY <1>11 DEF Passed, Keeps
  <2>2. ASSUME row.rev < rev + ReceivedDepth
        PROVE  \E k \in ring : k.rev = rev
    <3>1. got.accepted < rev + ReceivedDepth
      BY <1>2, <1>5, <1>11, <2>1, <2>2
    <3>2. PICK k \in got.ring : k.rev = rev
      BY <1>11, <3>1 DEF Keeps
    <3>3. k \in all
      BY <1>11
    <3> HIDE DEF all, ring, new
    <3> QED
      BY <1>7, <2>2, <3>2, <3>3
  <2> HIDE DEF all, ring, new
  <2> QED
    BY <1>1, <1>2, <1>11, <2>1, <2>2 DEF Keeps
<1> QED
  BY <1>1, <1>9, <1>10, <1>11

-----------------------------------------------------------------------------
(* What reaches back. *)

\* Every delta, on the network or held early, restates an older revision, and
\* none further back than its span.
DeltasReach ==
    \A row \in rows \cup early :
        row.from # 0 => row.from < row.rev /\ row.rev <= row.from + DeltaSpan

\* The rows a step puts on the network, and those it holds early.
LEMMA NextRows ==
    ASSUME TypeOK, [Next]_vars
    PROVE  /\ early' \subseteq early \cup rows
           /\ rows' \subseteq rows \/ \E row : Sends(row)
<1>1. ASSUME NEW fate \in Fate, Send(fate)
      PROVE  early' = early /\ \E row : Sends(row)
  BY <1>1, SendEffect DEF Sends, readerVars
<1>2. ASSUME NEW row \in rows, ReceiveRow(row)
      PROVE  early' \subseteq early \cup rows /\ rows' \subseteq rows
  BY <1>2 DEF ReceiveRow, RefuseUnknown, RefuseStale, HoldEarly, ResetStreamOf,
              LandRow, Arrives, EdgeWaits
<1>3. CASE \/ Change \/ Disturb \/ Admit \/ OpenStream \/ AskAgain
           \/ FlushWriter \/ HearAnswer \/ FlushAnswer \/ FlushReceipt
  BY <1>3 DEF Change, Disturb, Hide, Reopen, Rebind, Admit, OpenStream,
              AskAgain, FlushWriter, HearAnswer, HearReady, HearReset,
              HearAccept, Answer, FlushAnswer, FlushReceipt, readerVars
<1>4. CASE HearFrame
  BY <1>4 DEF HearFrame, HearOpen, HearClose, HearHide, HearSpawn, Frame
<1>5. CASE UNCHANGED vars
  BY <1>5 DEF vars, readerVars
<1> QED
  BY <1>1, <1>2, <1>3, <1>4, <1>5 DEF Next

LEMMA NextReach ==
    ASSUME TypeOK, DeltasReach, [Next]_vars
    PROVE  DeltasReach'
<1>1. CASE rows' \subseteq rows
  BY <1>1, NextRows DEF DeltasReach
<1>2. ASSUME NEW row, Sends(row)
      PROVE  DeltasReach'
  <2>1. row.from # 0 => row.from < row.rev /\ row.rev <= row.from + DeltaSpan
    BY <1>2 DEF Sends, SendsRow
  <2>2. rows' \subseteq rows \cup {row}
    BY <1>2 DEF Sends
  <2> QED
    BY <2>1, <2>2, NextRows DEF DeltasReach
<1> QED
  BY <1>1, <1>2, NextRows

\* A row that lands, with the early edge it may take along.
LEMMA LandRowKeeps ==
    ASSUME TypeOK, NothingAhead, DeltasReach, RingSound(received),
           NEW row \in rows, LandRow(row)
    PROVE  /\ received'.token = row.token
           /\ received' \in ReceivedType
           /\ RingSound(received')
           /\ received.token = row.token
                 => received.accepted < received'.accepted
           /\ \A rev \in Revision :
                 received.token = row.token /\ Keeps(received, rev)
                    => Keeps(received', rev)
           /\ receipts' = Accepted(receipts, row.token, received'.accepted)
           /\ Keeps(received', received'.accepted)
<1>1. PICK base \in Bases(received, row) :
         LET codes == Decoded(row, base)
             first == Landed(received, row, codes)
         IN  /\ codes \in Image
             /\ first \in ReceivedType
             /\ \/ /\ received' = first
                   /\ receipts' = Accepted(receipts, row.token, row.rev)
                \/ \E e \in early :
                      /\ e.token = row.token /\ e.from = row.rev
                      /\ received' = Landed(first, e, Decoded(e, codes))
                      /\ receipts' = Accepted(receipts, e.token, e.rev)
  BY LandRowEffect
<1>2. PICK codes : codes = Decoded(row, base)
  OBVIOUS
<1>3. PICK first : first = Landed(received, row, codes)
  OBVIOUS
<1>4. /\ received \in ReceivedType /\ row \in Row /\ codes \in Image
      /\ first \in ReceivedType /\ row.rev # 0
  BY <1>1, <1>2, <1>3, RowTokens DEF TypeOK, ReceivedType
<1>5. /\ row.rev \in Nat /\ received.accepted \in Nat
      /\ row.rev \in Revision
  BY <1>4, BoundAssumption DEF Row, ReceivedType, Revision
<1>6. Passed(received, row)
  BY DEF LandRow, AcceptedOf, Passed
<1>7. /\ first.token = row.token /\ first.accepted = row.rev
      /\ RingSound(first)
      /\ Keeps(first, row.rev)
      /\ \A rev \in Revision :
            received.token = row.token /\ Keeps(received, rev)
               => Keeps(first, rev)
  BY <1>3, <1>4, <1>6, LandedKeeps
<1>8. \/ /\ received' = first
         /\ receipts' = Accepted(receipts, row.token, row.rev)
      \/ \E e \in early :
            /\ e.token = row.token /\ e.from = row.rev
            /\ received' = Landed(first, e, Decoded(e, codes))
            /\ receipts' = Accepted(receipts, e.token, e.rev)
  BY <1>1, <1>2, <1>3
<1>9. CASE /\ received' = first
           /\ receipts' = Accepted(receipts, row.token, row.rev)
  BY <1>4, <1>6, <1>7, <1>9 DEF Passed
<1>10. ASSUME NEW e \in early, e.token = row.token, e.from = row.rev,
              received' = Landed(first, e, Decoded(e, codes)),
              receipts' = Accepted(receipts, e.token, e.rev)
       PROVE  /\ received'.token = row.token
              /\ received' \in ReceivedType
              /\ RingSound(received')
              /\ received.token = row.token
                    => received.accepted < received'.accepted
              /\ \A rev \in Revision :
                    received.token = row.token /\ Keeps(received, rev)
                       => Keeps(received', rev)
              /\ receipts' = Accepted(receipts, row.token, received'.accepted)
              /\ Keeps(received', received'.accepted)
  <2>1. e \in Row /\ e.rev \in Nat
    BY BoundAssumption DEF TypeOK, Row, Revision
  <2>2. e.rev > row.rev
    <3>1. row.rev < e.rev
      BY <1>4, <1>10 DEF DeltasReach
    <3> QED
      BY <1>5, <2>1, <3>1
  <2>3. Passed(first, e)
    BY <1>7, <2>2 DEF Passed
  <2>4. Decoded(e, codes) \in Image
    BY <1>4, <2>1, DecodedType
  <2>5. received' \in ReceivedType
    BY <1>4, <1>10, <2>1, <2>4, LandedType
  <2>6. /\ received'.token = e.token /\ received'.accepted = e.rev
        /\ RingSound(received')
        /\ Keeps(received', e.rev)
        /\ \A rev \in Revision :
              first.token = e.token /\ Keeps(first, rev)
                 => Keeps(received', rev)
    BY <1>4, <1>7, <1>10, <2>1, <2>3, <2>4, LandedKeeps
  <2>7. received.token = row.token => received.accepted < e.rev
    BY <1>5, <1>6, <2>1, <2>2 DEF Passed
  <2>8. first.token = e.token
    BY <1>7, <1>10
  <2> QED
    BY <1>7, <1>10, <2>5, <2>6, <2>7, <2>8
<1> QED
  BY <1>8, <1>9, <1>10

-----------------------------------------------------------------------------
(* What the reader has told the writer. *)

\* The reader holds revision rev of the stream of that token, or the token
\* names a lane it no longer serves.
Confirmed(token, rev) ==
    /\ token \in 1 .. lastToken
    /\ lane.token = token
          => received.token = token /\ Keeps(received, rev)

\* The receipts, wherever they wait, the writer's baseline, and the deltas that
\* were written against it.
Vouched ==
    /\ \A r \in receipts : Confirmed(r.token, r.rev)
    /\ \A r \in Answering : r.tag = "ACCEPT" => Confirmed(r.token, r.rev)
    /\ sent.acked # 0 => Confirmed(sent.token, sent.acked)
    /\ \A row \in rows :
          row.from # 0 /\ row.mask # {} => Confirmed(row.token, row.from)

\* Nothing the reader has told the writer is taken back.
StaysConfirmed ==
    \A token \in Token, rev \in Revision :
        Confirmed(token, rev) => Confirmed(token, rev)'

\* What is confirmed stays so while the lane stands and the row only advances.
LEMMA ConfirmedStep ==
    ASSUME TypeOK, lastToken <= lastToken', lastToken' \in Nat,
           \/ lane'.token \notin 1 .. lastToken
           \/ /\ lane'.token = lane.token
              /\ \/ received' = received
                 \/ /\ received'.token = lane.token
                    /\ \A rev \in Revision :
                          received.token = lane.token /\ Keeps(received, rev)
                             => Keeps(received', rev)
    PROVE  StaysConfirmed
<1>1. lastToken \in Nat
  BY BoundAssumption DEF TypeOK, Token
<1> SUFFICES ASSUME NEW token \in Token, NEW rev \in Revision, Confirmed(token, rev)
             PROVE  Confirmed(token, rev)'
  BY DEF StaysConfirmed
<1>2. token \in 1 .. lastToken'
  BY <1>1 DEF Confirmed
<1>3. ASSUME lane'.token = token
      PROVE  received'.token = token /\ Keeps(received', rev)
  BY <1>3 DEF Confirmed
<1> QED
  BY <1>2, <1>3 DEF Confirmed, Keeps

LEMMA NextConfirmed ==
    ASSUME TypeOK, TypeOK', NothingAhead, DeltasReach, RingSound(received),
           "rebind" \notin Disturbance, [Next]_vars
    PROVE  StaysConfirmed
<1>1. /\ lastToken \in Nat /\ lastToken' \in Nat
  BY BoundAssumption DEF TypeOK, Token
<1>2. CASE UNCHANGED <<lane, received, lastToken>>
  BY <1>1, <1>2, ConfirmedStep
<1>3. CASE HearFrame
  <2>1. CASE HearOpen
    <3>1. /\ received' = received
          /\ \/ UNCHANGED <<lane, lastToken>>
             \/ lastToken' = lastToken + 1 /\ lane'.token = lastToken + 1
      BY <2>1 DEF HearOpen
    <3>2. CASE lastToken' = lastToken + 1 /\ lane'.token = lastToken + 1
      <4>1. lane'.token \notin 1 .. lastToken /\ lastToken <= lastToken'
        BY <1>1, <3>2
      <4> QED
        BY <1>1, <4>1, ConfirmedStep
    <3> QED
      BY <1>2, <3>1, <3>2
  <2>2. CASE HearClose \/ HearHide \/ HearSpawn
    <3>1. /\ lastToken' = lastToken
          /\ \/ UNCHANGED <<lane, received>>
             \/ lane'.token = 0
      BY <2>2 DEF HearClose, HearHide, HearSpawn, NoLane
    <3>2. CASE lane'.token = 0
      <4>1. lane'.token \notin 1 .. lastToken /\ lastToken <= lastToken'
        BY <1>1, <3>1, <3>2
      <4> QED
        BY <1>1, <4>1, ConfirmedStep
    <3> QED
      BY <1>2, <3>1, <3>2
  <2> QED
    BY <1>3, <2>1, <2>2 DEF HearFrame
<1>4. ASSUME NEW row \in rows, ReceiveRow(row)
      PROVE  StaysConfirmed
  <2>1. UNCHANGED lastToken
    BY <1>4 DEF ReceiveRow, RefuseUnknown, RefuseStale, HoldEarly,
                ResetStreamOf, LandRow, Arrives
  <2>2. CASE LandRow(row)
    <3>1. lane' = lane /\ lane.token = row.token
      BY <2>2 DEF LandRow, Names
    <3>2. /\ received'.token = lane.token
          /\ \A rev \in Revision :
                received.token = lane.token /\ Keeps(received, rev)
                   => Keeps(received', rev)
      BY <2>2, <3>1, LandRowKeeps
    <3> QED
      BY <1>1, <2>1, <3>1, <3>2, ConfirmedStep
  <2>3. CASE \/ RefuseUnknown(row) \/ RefuseStale(row) \/ HoldEarly(row)
             \/ ResetStreamOf(row)
    <3>1. received' = received /\ lane'.token = lane.token
      BY <2>3 DEF RefuseUnknown, RefuseStale, HoldEarly, ResetStreamOf, TypeOK
    <3> QED
      BY <1>1, <2>1, <3>1, ConfirmedStep
  <2> QED
    BY <1>4, <2>2, <2>3 DEF ReceiveRow
<1>5. ASSUME NEW fate \in Fate, Send(fate)
      PROVE  StaysConfirmed
  BY <1>2, <1>5, SendEffect DEF Sends, readerVars
<1>6. CASE \/ Change \/ Disturb \/ Admit \/ OpenStream \/ AskAgain
           \/ FlushWriter \/ HearAnswer \/ FlushAnswer \/ FlushReceipt
  BY <1>2, <1>6 DEF Change, Disturb, Hide, Reopen, Rebind, Admit, OpenStream,
              AskAgain, FlushWriter, HearAnswer, HearReady, HearReset,
              HearAccept, Answer, FlushAnswer, FlushReceipt, readerVars
<1>7. CASE UNCHANGED vars
  BY <1>2, <1>7 DEF vars, readerVars
<1> QED
  BY <1>3, <1>4, <1>5, <1>6, <1>7 DEF Next

\* A step after which every receipt, baseline and delta is an old one or is
\* itself confirmed.
LEMMA VouchedStep ==
    ASSUME TypeOK, Vouched, StaysConfirmed,
           \A r \in receipts' :
               r \in receipts \/ Confirmed(r.token, r.rev)',
           \A r \in Answering' :
               r.tag = "ACCEPT"
                   => r \in Answering \/ Confirmed(r.token, r.rev)',
           sent'.acked # 0
               => \/ sent'.acked = sent.acked /\ sent'.token = sent.token
                  \/ Confirmed(sent.token, sent.acked)',
           \A row \in rows' :
               row.from # 0 /\ row.mask # {}
                   => row \in rows \/ Confirmed(row.token, row.from)'
    PROVE  Vouched'
<1>1. \A r \in receipts : r.token \in Token /\ r.rev \in Revision
  BY DEF TypeOK, Receipt
<1>2. \A r \in Answering : r.token \in Token /\ r.rev \in Revision
  <2>1. ASSUME NEW q \in Seq(Control)
        PROVE  ToSet(q) \subseteq Control
    <3>1. DOMAIN q = 1 .. Len(q) /\ \A i \in 1 .. Len(q) : q[i] \in Control
      BY LenProperties, ElementOfSeq
    <3> QED
      BY <3>1 DEF ToSet
  <2>2. Answering \subseteq Control
    BY <2>1, Queues DEF Answering
  <2> QED
    BY <2>2 DEF Control
<1>3. sent.token \in Token /\ sent.acked \in Revision
  BY DEF TypeOK, Sent
<1>4. \A row \in rows : row.token \in Token /\ row.from \in Revision
  BY DEF TypeOK, Row
<1>5. \A r \in receipts' : Confirmed(r.token, r.rev)'
  BY <1>1 DEF Vouched, StaysConfirmed
<1>6. \A r \in Answering' : r.tag = "ACCEPT" => Confirmed(r.token, r.rev)'
  BY <1>2 DEF Vouched, StaysConfirmed
<1>7. sent'.acked # 0 => Confirmed(sent.token, sent.acked)'
  <2>1. CASE sent'.acked = sent.acked /\ sent'.token = sent.token
    <3>1. sent.acked # 0 => Confirmed(sent.token, sent.acked)
      BY DEF Vouched
    <3>2. sent.acked # 0 => Confirmed(sent.token, sent.acked)'
      BY <1>3, <2>1, <3>1 DEF StaysConfirmed, Confirmed, Keeps
    <3> QED
      BY <2>1, <3>2
  <2> QED
    BY <2>1
<1>8. \A row \in rows' :
         row.from # 0 /\ row.mask # {} => Confirmed(row.token, row.from)'
  BY <1>4 DEF Vouched, StaysConfirmed
<1> QED
  BY <1>5, <1>6, <1>7, <1>8 DEF Vouched

\* The writer's own steps: what it confirmed is dropped or stays, and a delta
\* that changes something is written against what it confirmed.
LEMMA WriterVouched ==
    ASSUME TypeOK, Agreed, Vouched, StaysConfirmed,
           \/ Change \/ Hide \/ Reopen \/ Admit \/ OpenStream \/ AskAgain
           \/ FlushWriter
           \/ \E fate \in Fate : Send(fate)
    PROVE  Vouched'
<1>1. UNCHANGED <<receipts, readerOut, toWriter, readerVars>>
  <2>1. ASSUME NEW fate \in Fate, Send(fate)
        PROVE  UNCHANGED <<toWriter, readerVars>>
    BY <2>1, SendEffect DEF Sends
  <2>2. CASE \/ Change \/ Hide \/ Reopen \/ Admit \/ OpenStream \/ AskAgain
             \/ FlushWriter
    BY <2>2 DEF Change, Hide, Reopen, Admit, OpenStream, AskAgain,
                FlushWriter, readerVars
  <2> QED
    BY <2>1, <2>2 DEF readerVars
<1>2. Answering' = Answering
  BY <1>1 DEF Answering
<1>3. CASE \/ Change \/ Hide \/ Reopen \/ Admit \/ OpenStream \/ AskAgain
           \/ FlushWriter
  <2>1. rows' = rows
    BY <1>3 DEF Change, Hide, Reopen, Admit, OpenStream, AskAgain, FlushWriter
  <2>2. sent'.acked # 0
           => sent'.acked = sent.acked /\ sent'.token = sent.token
    BY <1>3 DEF Change, Hide, Reopen, Admit, OpenStream, AskAgain, FlushWriter,
                ClosedRow, TypeOK, Sent
  <2> QED
    BY <1>1, <1>2, <2>1, <2>2, VouchedStep
<1>4. ASSUME NEW row, Sends(row)
      PROVE  Vouched'
  <2>1. /\ rows' \subseteq rows \cup {row}
        /\ sent'.acked = sent.acked /\ sent'.token = sent.token
        /\ row.token = sent.token
    BY <1>4 DEF Sends, SendsRow, SentFrom
  <2>2. ASSUME row.from # 0, row.mask # {}
        PROVE  row.from = sent.acked
    <3>1. ASSUME NEW f \in sent.flights, f.image = image,
                 row.mask = Differing(f.image)
          PROVE  FALSE
      BY <2>2, <3>1 DEF Differing
    <3> QED
      BY <1>4, <2>2, <3>1 DEF Sends, SendsRow
  <2>3. row.from # 0 /\ row.mask # {} => Confirmed(row.token, row.from)'
    <3>1. sent.token \in Token /\ sent.acked \in Revision
      BY DEF TypeOK, Sent
    <3> QED
      BY <2>1, <2>2, <3>1 DEF Vouched, StaysConfirmed
  <2> QED
    BY <1>1, <1>2, <2>1, <2>3, VouchedStep
<1> QED
  BY <1>3, <1>4, SendEffect

\* The answers the writer hears: a READY finds no baseline or the token it
\* names, and an ACCEPT makes a baseline of what it vouches for.
LEMMA HearAnswerVouched ==
    ASSUME TypeOK, Agreed, Vouched, StaysConfirmed, HearAnswer
    PROVE  Vouched'
<1> DEFINE r == Head(toWriter)
<1>1. /\ r \in Control /\ r \in Answering
      /\ ToSet(toWriter)' \subseteq ToSet(toWriter)
      /\ UNCHANGED <<rows, readerVars>>
      /\ HearReady => r.tag = "READY"
      /\ HearAccept => r.tag = "ACCEPT"
  BY AnswerEffect DEF HearAnswer, HearReady, HearReset, HearAccept
<1>2. UNCHANGED <<receipts, readerOut>> /\ Answering' \subseteq Answering
  BY <1>1 DEF readerVars, Answering
<1>3. sent'.acked # 0
         => \/ sent'.acked = sent.acked /\ sent'.token = sent.token
            \/ Confirmed(sent.token, sent.acked)'
  <2>1. CASE HearReady
    <3>1. CASE /\ r.request # 0 /\ r.request = sent.request
               /\ sent' = [sent EXCEPT !.stream = "READY", !.token = r.token]
      <4>1. sent'.acked = sent.acked /\ sent'.token = r.token
        BY <3>1 DEF TypeOK, Sent
      <4>2. sent.acked # 0 => sent.stream = "READY"
        BY IdleFlights
      <4>3. sent.acked # 0 => sent.token = r.token
        BY <1>1, <2>1, <3>1, <4>2 DEF Agreed, AnswersStand, Standing
      <4> QED
        BY <4>1, <4>3
    <3> QED
      BY <2>1, <3>1 DEF HearReady
  <2>2. CASE HearReset
    BY <2>2 DEF HearReset, ClosedRow
  <2>3. CASE HearAccept
    <3>1. \/ sent' = sent
          \/ \E f \in sent.flights :
                /\ sent.token = r.token /\ f.rev = r.rev
                /\ sent' = [sent EXCEPT !.acked = f.rev,
                                        !.baseline = f.image,
                                        !.flights = {g \in @ : g.rev > f.rev}]
      BY <2>3 DEF HearAccept
    <3>2. ASSUME NEW f \in sent.flights, sent.token = r.token, f.rev = r.rev,
                 sent' = [sent EXCEPT !.acked = f.rev, !.baseline = f.image,
                                      !.flights = {g \in @ : g.rev > f.rev}]
          PROVE  sent'.token = r.token /\ sent'.acked = r.rev
      BY <3>2 DEF TypeOK, Sent
    <3> HIDE DEF r
    <3>3. CASE sent'.token = r.token /\ sent'.acked = r.rev
      <4>1. PICK a \in Token, b \in Revision :
               a = r.token /\ b = r.rev
        BY <1>1 DEF Control
      <4>2. Confirmed(a, b)'
        BY <1>1, <2>3, <4>1 DEF Vouched, StaysConfirmed
      <4> QED
        BY <3>3, <4>1, <4>2 DEF Confirmed, Keeps
    <3> QED
      BY <3>1, <3>2, <3>3
  <2> QED
    BY <2>1, <2>2, <2>3 DEF HearAnswer
<1> QED
  BY <1>1, <1>2, <1>3, VouchedStep

\* What the scheduler takes of the reader's answers is no receipt.
LEMMA QueuedVouched ==
    ASSUME TypeOK, toWriter' = toWriter,
           \/ readerOut' = readerOut
           \/ \E q \in Seq(Control), r \in Control :
                 /\ ToSet(q) \subseteq ToSet(readerOut)
                 /\ readerOut' = Queued(q, r) /\ r.tag # "ACCEPT"
    PROVE  \A r \in Answering' : r.tag = "ACCEPT" => r \in Answering
  BY QueuedRecords DEF Answering

\* The reader's end of the link: its lane may end or be replaced, and nothing
\* more is receipted.
LEMMA HearFrameVouched ==
    ASSUME TypeOK, TypeOK', Agreed, Vouched, StaysConfirmed, HearFrame
    PROVE  Vouched'
<1>1. UNCHANGED <<sent, rows, receipts, toWriter>>
  BY DEF HearFrame, HearOpen, HearClose, HearHide, HearSpawn, Frame, writerVars
<1>2. readerOut \in Seq(Control) /\ lane'.request \in Request
  BY DEF TypeOK
<1>3. \A r \in Answering' : r.tag = "ACCEPT" => r \in Answering
  <2>1. CASE readerOut' = readerOut
    BY <1>1, <2>1, QueuedVouched
  <2>2. CASE HearOpen
    <3>1. Head(toReader).request \in Request
      BY <2>2, FrameEffect DEF HearOpen, Control
    <3>2. /\ lane.token \in Token /\ 0 \in Token
          /\ lastToken < MaxToken => lastToken + 1 \in Token
      BY BoundAssumption DEF TypeOK, Token
    <3>3. readerOut' = readerOut
             \/ \E tag \in {"READY", "RESET"}, request \in Request,
                   token \in Token :
                   readerOut' = Queued(readerOut, Record(tag, request, token))
      BY <2>2, <3>1, <3>2 DEF HearOpen
    <3>4. ASSUME NEW tag \in {"READY", "RESET"}, NEW request \in Request,
                 NEW token \in Token,
                 readerOut' = Queued(readerOut, Record(tag, request, token))
          PROVE  \A r \in Answering' : r.tag = "ACCEPT" => r \in Answering
      <4>1. PICK r : r = Record(tag, request, token)
        OBVIOUS
      <4>2. r \in Control /\ r.tag # "ACCEPT"
        BY <4>1, RecordType DEF Record
      <4>3. readerOut' = Queued(readerOut, r)
        BY <3>4, <4>1
      <4> QED
        BY <1>1, <1>2, <4>2, <4>3, QueuedVouched
    <3> QED
      BY <2>1, <3>3, <3>4
  <2> QED
    BY <2>1, <2>2 DEF HearFrame, HearClose, HearHide, HearSpawn
<1> QED
  BY <1>1, <1>3, VouchedStep

\* The flush: an answer or a receipt moves on to the link.
LEMMA FlushVouched ==
    ASSUME TypeOK, Agreed, Vouched, StaysConfirmed, FlushAnswer \/ FlushReceipt
    PROVE  Vouched'
<1>1. UNCHANGED <<sent, rows>>
  BY DEF FlushAnswer, FlushReceipt, writerVars
<1>2. CASE FlushAnswer
  <2> DEFINE r == Head(readerOut)
  <2>1. /\ r \in Control /\ r \in ToSet(readerOut)
        /\ ToSet(readerOut)' \subseteq ToSet(readerOut)
        /\ toWriter' = Append(toWriter, r) /\ receipts' = receipts
    BY <1>2, Queues, TailRecords DEF FlushAnswer
  <2> HIDE DEF r
  <2>2. ToSet(toWriter)' = ToSet(toWriter) \cup {r}
    BY <2>1, Queues, AppendRecords
  <2>3. Answering' \subseteq Answering
    BY <2>1, <2>2 DEF Answering
  <2> QED
    BY <1>1, <2>1, <2>3, VouchedStep
<1>3. CASE FlushReceipt
  <2>1. /\ readerOut' = readerOut /\ receipts' \subseteq receipts
    BY <1>3 DEF FlushReceipt
  <2>2. PICK a \in receipts :
           toWriter' = Append(toWriter, [Record("ACCEPT", 0, a.token)
                                             EXCEPT !.rev = a.rev])
    BY <1>3 DEF FlushReceipt
  <2>3. PICK r : r = [Record("ACCEPT", 0, a.token) EXCEPT !.rev = a.rev]
    OBVIOUS
  <2>4. /\ r \in Control /\ r.token = a.token /\ r.rev = a.rev
        /\ a.token \in Token /\ a.rev \in Revision
    <3>1. a.token \in Token /\ a.rev \in Revision /\ 0 \in Request
      BY BoundAssumption DEF TypeOK, Receipt, Request
    <3> QED
      BY <2>3, <3>1 DEF Record, Control
  <2>5. ToSet(toWriter)' = ToSet(toWriter) \cup {r}
    <3>1. toWriter' = Append(toWriter, r)
      BY <2>2, <2>3
    <3> QED
      BY <2>4, <3>1, Queues, AppendRecords
  <2>6. Confirmed(r.token, r.rev)'
    BY <2>4 DEF Vouched, StaysConfirmed
  <2>7. \A q \in Answering' : q \in Answering \/ q = r
    BY <2>1, <2>5 DEF Answering
  <2> QED
    BY <1>1, <2>1, <2>6, <2>7, VouchedStep
<1> QED
  BY <1>2, <1>3

\* A row at the reader's end: what is receipted is the row it just accepted.
LEMMA ReceiveRowVouched ==
    ASSUME TypeOK, TypeOK', Agreed, NothingAhead, DeltasReach,
           RingSound(received), Vouched, StaysConfirmed,
           NEW row \in rows, ReceiveRow(row)
    PROVE  Vouched'
<1>1. /\ UNCHANGED <<sent, toWriter, lastToken>> /\ rows' \subseteq rows
  BY DEF ReceiveRow, RefuseUnknown, RefuseStale, HoldEarly, ResetStreamOf,
         LandRow, Arrives, writerVars
<1>2. /\ row \in Row /\ row.token \in 1 .. lastToken /\ row.rev # 0
      /\ row.token \in Token /\ 0 \in Request /\ lane.request \in Request
      /\ received.accepted \in Nat /\ lastToken \in Nat
  <2>1. /\ row \in Row /\ row.token \in 1 .. lastToken /\ row.rev # 0
        /\ row.token \in Token
    BY RowTokens DEF Row
  <2>2. /\ lane.request \in Request /\ received.accepted \in Revision
        /\ lastToken \in Token
    BY DEF TypeOK
  <2> QED
    BY <2>1, <2>2, BoundAssumption DEF Request, Revision, Token
<1>3. \A held, t, v : \A r \in Accepted(held, t, v) :
         r \in held \/ r = [token |-> t, rev |-> v]
  BY DEF Accepted
<1>4. CASE RefuseUnknown(row) \/ ResetStreamOf(row)
  <2>1. receipts' \subseteq receipts
    BY <1>4 DEF RefuseUnknown, ResetStreamOf
  <2>2. readerOut' = readerOut
           \/ \E q \in {readerOut, Dropped(readerOut, row.token)},
                 request \in Request :
                 readerOut' = Queued(q, Record("RESET", request, row.token))
    BY <1>2, <1>4 DEF RefuseUnknown, ResetStreamOf
  <2>3. ASSUME NEW q \in {readerOut, Dropped(readerOut, row.token)},
               NEW request \in Request,
               readerOut' = Queued(q, Record("RESET", request, row.token))
        PROVE  \A r \in Answering' : r.tag = "ACCEPT" => r \in Answering
    <3>1. q \in Seq(Control) /\ ToSet(q) \subseteq ToSet(readerOut)
      BY Queues, DroppedRecords
    <3>2. PICK r : r = Record("RESET", request, row.token)
      OBVIOUS
    <3>3. r \in Control /\ r.tag # "ACCEPT"
      BY <1>2, <3>2, RecordType DEF Record
    <3>4. readerOut' = Queued(q, r)
      BY <2>3, <3>2
    <3> QED
      BY <1>1, <3>1, <3>3, <3>4, QueuedVouched
  <2>4. \A r \in Answering' : r.tag = "ACCEPT" => r \in Answering
    <3>1. CASE readerOut' = readerOut
      BY <1>1, <3>1, QueuedVouched
    <3> QED
      BY <2>2, <2>3, <3>1
  <2> QED
    BY <1>1, <2>1, <2>4, VouchedStep
<1>5. CASE RefuseStale(row) \/ HoldEarly(row) \/ LandRow(row)
  <2>1. readerOut' = readerOut /\ Answering' = Answering
    BY <1>1, <1>5 DEF RefuseStale, HoldEarly, LandRow, Answering
  <2>2. CASE receipts' = receipts
    BY <1>1, <2>1, <2>2, VouchedStep
  <2>3. ASSUME RefuseStale(row), receipts' # receipts
        PROVE  Vouched'
    <3>1. /\ receipts' = Accepted(receipts, row.token, row.rev)
          /\ row.rev = AcceptedOf(row) /\ UNCHANGED <<lane, received>>
      BY <2>3 DEF RefuseStale
    <3>2. received.token = row.token /\ row.rev = received.accepted
      BY <1>2, <3>1 DEF AcceptedOf
    <3>3. Keeps(received, row.rev)
      <4>1. received.token # 0
        BY <1>2, <3>2
      <4> QED
        BY <1>2, <3>2, <4>1 DEF Keeps, RingSound
    <3>4. Confirmed(row.token, row.rev)
      BY <1>2, <3>2, <3>3 DEF Confirmed
    <3>5. PICK a : a = [token |-> row.token, rev |-> row.rev]
      OBVIOUS
    <3>6. Confirmed(a.token, a.rev)'
      BY <1>1, <3>1, <3>4, <3>5 DEF Confirmed, Keeps
    <3>7. \A r \in receipts' : r \in receipts \/ r = a
      BY <1>3, <3>1, <3>5
    <3> QED
      BY <1>1, <2>1, <3>6, <3>7, VouchedStep
  <2>4. CASE LandRow(row)
    <3>1. /\ received'.token = row.token
          /\ receipts' = Accepted(receipts, row.token, received'.accepted)
          /\ Keeps(received', received'.accepted)
      BY <2>4, LandRowKeeps
    <3>2. PICK v : v = received'.accepted
      OBVIOUS
    <3>3. PICK a : a = [token |-> row.token, rev |-> v]
      OBVIOUS
    <3>4. Confirmed(a.token, a.rev)'
      <4>1. a.token = row.token /\ a.rev = received'.accepted
        BY <3>2, <3>3
      <4> QED
        BY <1>1, <1>2, <3>1, <4>1 DEF Confirmed, Keeps
    <3>5. \A r \in receipts' : r \in receipts \/ r = a
      BY <1>3, <3>1, <3>2, <3>3
    <3> QED
      BY <1>1, <2>1, <3>4, <3>5, VouchedStep
  <2> QED
    BY <1>5, <2>2, <2>3, <2>4 DEF HoldEarly
<1> QED
  BY <1>4, <1>5 DEF ReceiveRow

LEMMA NextVouched ==
    ASSUME IInv, DeltasReach, RingSound(received), Vouched,
           "rebind" \notin Disturbance, [Next]_vars
    PROVE  Vouched'
<1>1. TypeOK /\ Agreed /\ NothingAhead /\ TypeOK'
  BY NextTypeOK DEF IInv
<1>2. StaysConfirmed
  BY <1>1, NextConfirmed
<1>3. CASE \/ Change \/ Hide \/ Reopen \/ Admit \/ OpenStream \/ AskAgain
           \/ FlushWriter
           \/ \E fate \in Fate : Send(fate)
  BY <1>1, <1>2, <1>3, WriterVouched
<1>4. CASE HearAnswer \/ HearFrame
  BY <1>1, <1>2, <1>4, HearAnswerVouched, HearFrameVouched
<1>5. CASE FlushAnswer \/ FlushReceipt
  BY <1>1, <1>2, <1>5, FlushVouched
<1>6. ASSUME NEW row \in rows, ReceiveRow(row)
      PROVE  Vouched'
  BY <1>1, <1>2, <1>6, ReceiveRowVouched
<1>7. ~Rebind
  BY DEF Rebind
<1>8. CASE UNCHANGED vars
  BY <1>8 DEF vars, writerVars, readerVars, Vouched, Answering, Confirmed, Keeps
<1> QED
  BY <1>3, <1>4, <1>5, <1>6, <1>7, <1>8 DEF Next, Disturb

\* What a step may make of the images the reader keeps.
LEMMA NextReceived ==
    ASSUME TypeOK, [Next]_vars
    PROVE  \/ received' \in {received, NoReceived}
           \/ \E row \in rows : LandRow(row)
<1>1. ASSUME NEW fate \in Fate, Send(fate)
      PROVE  received' = received
  BY <1>1, SendEffect DEF Sends, readerVars
<1>2. ASSUME NEW row \in rows, ReceiveRow(row)
      PROVE  received' = received \/ LandRow(row)
  BY <1>2 DEF ReceiveRow, RefuseUnknown, RefuseStale, HoldEarly,
              ResetStreamOf
<1>3. CASE \/ Change \/ Disturb \/ Admit \/ OpenStream \/ AskAgain
           \/ FlushWriter \/ HearAnswer \/ FlushAnswer \/ FlushReceipt
  BY <1>3 DEF Change, Disturb, Hide, Reopen, Rebind, Admit, OpenStream,
              AskAgain, FlushWriter, HearAnswer, HearReady, HearReset,
              HearAccept, Answer, FlushAnswer, FlushReceipt, readerVars
<1>4. CASE HearFrame
  BY <1>4 DEF HearFrame, HearOpen, HearClose, HearHide, HearSpawn
<1>5. CASE UNCHANGED vars
  BY <1>5 DEF vars, readerVars
<1> QED
  BY <1>1, <1>2, <1>3, <1>4, <1>5 DEF Next

LEMMA NextRing ==
    ASSUME TypeOK, NothingAhead, DeltasReach, RingSound(received), [Next]_vars
    PROVE  RingSound(received')
<1>1. CASE received' = received
  BY <1>1
<1>2. CASE received' = NoReceived
  BY <1>2 DEF NoReceived, RingSound
<1>3. ASSUME NEW row \in rows, LandRow(row)
      PROVE  RingSound(received')
  BY <1>3, LandRowKeeps
<1> QED
  BY <1>1, <1>2, <1>3, NextReceived

\* A lane that was given up is named by its token.
LostIsNamed == lane.invalidated => lane.token # 0

\* What a step may make of the reader's lane.
LEMMA NextLane ==
    ASSUME TypeOK, NothingAhead, [Next]_vars
    PROVE  \/ lane' = lane
           \/ lane'.token = 0 /\ ~lane'.invalidated
           \/ lane'.token = lastToken + 1 /\ ~lane'.invalidated
           \/ lane.token # 0 /\ lane'.token = lane.token /\ lane'.invalidated
<1>1. ASSUME NEW fate \in Fate, Send(fate)
      PROVE  lane' = lane
  BY <1>1, SendEffect DEF Sends, readerVars
<1>2. ASSUME NEW row \in rows, ReceiveRow(row)
      PROVE  \/ lane' = lane
             \/ lane.token # 0 /\ lane'.token = lane.token /\ lane'.invalidated
  <2>1. row.token # 0
    BY RowTokens
  <2> QED
    BY <1>2, <2>1 DEF ReceiveRow, RefuseUnknown, RefuseStale, HoldEarly,
                      ResetStreamOf, LandRow, Names, TypeOK
<1>3. CASE \/ Change \/ Disturb \/ Admit \/ OpenStream \/ AskAgain
           \/ FlushWriter \/ HearAnswer \/ FlushAnswer \/ FlushReceipt
  BY <1>3 DEF Change, Disturb, Hide, Reopen, Rebind, Admit, OpenStream,
              AskAgain, FlushWriter, HearAnswer, HearReady, HearReset,
              HearAccept, Answer, FlushAnswer, FlushReceipt, readerVars
<1>4. CASE HearFrame
  BY <1>4 DEF HearFrame, HearOpen, HearClose, HearHide, HearSpawn, NoLane
<1>5. CASE UNCHANGED vars
  BY <1>5 DEF vars, readerVars
<1> QED
  BY <1>1, <1>2, <1>3, <1>4, <1>5 DEF Next

-----------------------------------------------------------------------------
(* The theorems. *)

\* What holds whatever disturbs the row.
BInv ==
    /\ IInv
    /\ DeltasReach
    /\ RingSound(received)
    /\ LostIsNamed

LEMMA InitBInv == Init => BInv /\ Vouched
<1> SUFFICES ASSUME Init
             PROVE  BInv /\ Vouched
  OBVIOUS
<1>1. IInv
  BY InitIInv
<1>2. /\ rows = {} /\ early = {} /\ receipts = {} /\ sent.acked = 0
      /\ ~lane.invalidated
      /\ received.token = 0 /\ received.ring = {}
  BY DEF Init, ClosedRow, NoLane, NoReceived
<1>3. Answering = {}
  BY DEF Init, Answering, ToSet
<1> QED
  BY <1>1, <1>2, <1>3 DEF BInv, DeltasReach, RingSound, LostIsNamed, Vouched

LEMMA NextBInv == BInv /\ [Next]_vars => BInv'
<1> SUFFICES ASSUME BInv, [Next]_vars
             PROVE  BInv'
  OBVIOUS
<1>1. TypeOK /\ NothingAhead /\ lastToken \in Nat
  BY BoundAssumption DEF BInv, IInv, TypeOK, Token
<1>2. IInv' /\ DeltasReach' /\ RingSound(received')
  BY <1>1, NextIInv, NextReach, NextRing DEF BInv
<1>3. LostIsNamed'
  BY <1>1, NextLane DEF BInv, LostIsNamed
<1> QED
  BY <1>2, <1>3 DEF BInv, RingSound

\* Deltas reach back no further than they may, the ring is sound, and IInv.
THEOREM BasesInvariant == Spec => []BInv
  BY InitBInv, NextBInv, PTL DEF Spec

\* Receipts, baselines and bases are what the reader has, when no property set
\* is declared again under a lane (Rebind forgets the images and keeps the lane).
THEOREM NothingTakenBack ==
    ASSUME "rebind" \notin Disturbance
    PROVE  Spec => []Vouched
<1>1. BInv /\ Vouched /\ [Next]_vars => Vouched'
  BY NextVouched DEF BInv
<1> QED
  BY <1>1, InitBInv, BasesInvariant, PTL DEF Spec

\* The writer never takes for confirmed what the reader has not landed.
THEOREM AckedIsReceived ==
    ASSUME "rebind" \notin Disturbance
    PROVE  Spec => []AckedWasReceived
<1>1. Vouched => AckedWasReceived
  BY DEF Vouched, AckedWasReceived, Confirmed, Keeps
<1> QED
  BY <1>1, NothingTakenBack, PTL

\* Every delta that changes something and could land finds its base: the span
\* of a delta (SNAPSHOT_DELTA_SPAN) fits the depth of the ring (RECEIVED_DEPTH).
THEOREM BasesAreKept ==
    ASSUME "rebind" \notin Disturbance, DeltaSpan <= ReceivedDepth
    PROVE  Spec => []BaseIsKept
<1>1. BInv /\ Vouched => BaseIsKept
  <2> SUFFICES ASSUME BInv, Vouched, NEW row \in rows,
                      Names(row), row.rev > AcceptedOf(row), row.mask # {},
                      row.from # 0
               PROVE  Bases(received, row) # {}
    BY DEF BaseIsKept, Bases
  <2>1. received.token = row.token /\ Keeps(received, row.from)
    BY DEF Vouched, Confirmed, Names
  <2>2. row.rev > received.accepted /\ row.rev <= row.from + DeltaSpan
    BY <2>1 DEF AcceptedOf, BInv, DeltasReach
  <2>3. /\ row.rev \in Nat /\ row.from \in Nat /\ received.accepted \in Nat
        /\ DeltaSpan \in Nat /\ ReceivedDepth \in Nat
    BY BoundAssumption, DepthAssumption
       DEF BInv, IInv, TypeOK, Row, Revision
  <2>4. received.accepted < row.from + ReceivedDepth
    BY <2>2, <2>3
  <2> QED
    BY <2>1, <2>4 DEF Keeps, Bases
<1> QED
  BY <1>1, BasesInvariant, NothingTakenBack, PTL

\* The reader only advances: no row, however late, takes it back in its stream
\* or to an earlier one.
THEOREM ReaderAdvances == Spec => PositionAdvances
<1> DEFINE Advances ==
             \/ received' = NoReceived
             \/ received'.token > received.token
             \/ /\ received'.token = received.token
                /\ received'.accepted >= received.accepted
<1>1. BInv /\ [Next]_vars => [Advances]_vars
  <2> SUFFICES ASSUME BInv, [Next]_vars
               PROVE  Advances
    OBVIOUS
  <2>1. /\ TypeOK /\ NothingAhead /\ Agreed /\ DeltasReach
        /\ RingSound(received)
    BY DEF BInv, IInv
  <2>2. received.token \in Nat /\ received.accepted \in Nat /\ lane.token \in Nat
    BY <2>1, BoundAssumption DEF TypeOK, Token, Revision
  <2>3. ASSUME NEW row \in rows, LandRow(row)
        PROVE  Advances
    <3>1. /\ received'.token = row.token /\ received' \in ReceivedType
          /\ received.token = row.token
                => received.accepted < received'.accepted
      BY <2>1, <2>3, LandRowKeeps
    <3>2. row.token = lane.token /\ row.token # 0
      BY <2>1, <2>3, RowTokens DEF LandRow, Names
    <3>3. received.token <= row.token
      BY <2>1, <3>2 DEF Agreed, WithinCounters
    <3>4. received'.accepted \in Nat
      BY <3>1, BoundAssumption DEF ReceivedType, Revision
    <3> QED
      BY <2>2, <3>1, <3>2, <3>3, <3>4
  <2>4. received' = received => Advances
    BY <2>2
  <2> QED
    BY <2>1, <2>3, <2>4, NextReceived
<1>2. PositionAdvances <=> [][Advances]_vars
  BY PTL DEF PositionAdvances
<1> QED
  BY <1>1, <1>2, BasesInvariant, PTL DEF Spec

\* A lane the reader gave up stays given up until its token is gone.
THEOREM LostStaysLost == Spec => NeverRevived
<1> DEFINE StaysLost ==
             lane.invalidated /\ lane'.token = lane.token => lane'.invalidated
<1>1. BInv /\ [Next]_vars => [StaysLost]_vars
  <2> SUFFICES ASSUME BInv, [Next]_vars
               PROVE  StaysLost
    OBVIOUS
  <2>1. TypeOK /\ NothingAhead /\ LostIsNamed
    BY DEF BInv, IInv
  <2>2. lane.token <= lastToken /\ lastToken \in Nat /\ lane.token \in Nat
    BY <2>1, BoundAssumption DEF BInv, IInv, Agreed, WithinCounters, TypeOK,
       Token
  <2>3. lane.token # lastToken + 1
    BY <2>2
  <2> QED
    BY <2>1, <2>3, NextLane DEF LostIsNamed
<1>2. NeverRevived <=> [][StaysLost]_vars
  BY PTL DEF NeverRevived
<1> QED
  BY <1>1, <1>2, BasesInvariant, PTL DEF Spec
=============================================================================

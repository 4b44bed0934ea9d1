--------------------------- MODULE DatagramProofs ---------------------------
(***************************************************************************)
(* Proofs about the numbers of the unreliable datagrams, which wrap.          *)
(*                                                                           *)
(* FreshGate, for every range of numbers, all routes and channels, and links *)
(* that fall behind and are silent for less than half the range: a stream    *)
(* takes what is newer than all it took and refuses nothing else, and judges *)
(* a datagram as a whole.                                                    *)
(*                                                                           *)
(* DatagramAcks, for every range of numbers, every ring and history that fit *)
(* it, and a link of any Lifetime and Silence that do: what a receiver       *)
(* echoes came, and what a sender reports is so.                             *)
(***************************************************************************)
EXTENDS FreshGate, Integers, TLAPS

CONSTANTS Modulus, Depth, Ring, Lifetime, Silence, Starts, Stops, MaxEchoes
VARIABLES dsent, ring, highest, toReceiver, freshest, history, toSender, seen, tracked,
          delivered, lost

Acks == INSTANCE DatagramAcks WITH sent <- dsent

-----------------------------------------------------------------------------
(* The numbers of a range wrap. *)

\* What a residue is.
LEMMA Quotient ==
    ASSUME NEW M \in Nat, M > 0, NEW x \in Int
    PROVE  /\ x \div M \in Int
           /\ x % M \in 0 .. M - 1
           /\ x = (M * (x \div M)) + (x % M)
<1>1. x % M \in 0 .. M - 1
  OBVIOUS
<1>2. x \div M \in Int
  OBVIOUS
<1>3. x % M = x - M * (x \div M)
  OBVIOUS
<1> DEFINE q == x \div M
           r == x % M
<1>4. q \in Int /\ r \in Int /\ r = x - M * q
  BY <1>1, <1>2, <1>3
<1> HIDE DEF q, r
<1>5. x = M * q + r
  BY <1>4
<1> QED
  BY <1>1, <1>2, <1>5, Zenon DEF q, r

\* A number has one residue.
LEMMA Residue ==
    ASSUME NEW M \in Nat, M > 0, NEW q \in Int, NEW r \in 0 .. M - 1
    PROVE  (M * q + r) % M = r
OBVIOUS

\* Two numbers that lie whole ranges apart have the same residue.
LEMMA Wraps ==
    ASSUME NEW M \in Nat, M > 0, NEW x \in Int, NEW q \in Int
    PROVE  (x + M * q) % M = x % M
<1> DEFINE k == x \div M
           r == x % M
<1>1. k \in Int /\ r \in 0 .. M - 1 /\ x = M * k + r
  BY Quotient
<1> HIDE DEF k, r
<1>2. k + q \in Int /\ x + M * q = M * (k + q) + r
  BY <1>1
<1>3. (M * (k + q) + r) % M = r
  BY <1>1, <1>2, Residue
<1> QED
  BY <1>2, <1>3 DEF r

\* The residue of a difference is that of the difference of the residues.
LEMMA Differs ==
    ASSUME NEW M \in Nat, M > 0, NEW x \in Int, NEW y \in Int
    PROVE  ((x % M) - (y % M)) % M = (x - y) % M
<1> DEFINE k == x \div M
           r == x % M
           l == y \div M
           t == y % M
<1>1. k \in Int /\ r \in 0 .. M - 1 /\ x = M * k + r
  BY Quotient
<1>2. l \in Int /\ t \in 0 .. M - 1 /\ y = M * l + t
  BY Quotient
<1> HIDE DEF k, r, l, t
<1>3. r - t \in Int /\ k - l \in Int /\ x - y = (r - t) + M * (k - l)
  BY <1>1, <1>2
<1>4. ((r - t) + M * (k - l)) % M = (r - t) % M
  BY <1>3, Wraps
<1>5. (r - t) % M = (x - y) % M
  BY <1>3, <1>4
<1> QED
  BY <1>5, Zenon DEF r, t

\* The residue of a number that lies within one range.
LEMMA Near ==
    ASSUME NEW M \in Nat, M > 0, NEW x \in Int, -M < x, x < M
    PROVE  x % M = IF x >= 0 THEN x ELSE x + M
<1>1. CASE x >= 0
  <2>1. x \in 0 .. M - 1 /\ M * 0 + x = x
    BY <1>1
  <2> QED
    BY <2>1, <1>1, Residue
<1>2. CASE x < 0
  <2>1. x + M \in 0 .. M - 1 /\ M * (-1) + (x + M) = x
    BY <1>2
  <2>2. (M * (-1) + (x + M)) % M = x + M
    BY <2>1, Residue
  <2> QED
    BY <2>1, <2>2, <1>2
<1> QED
  BY <1>1, <1>2

\* Two numbers within one range that have the same residue are one.
LEMMA SameNumber ==
    ASSUME NEW M \in Nat, M > 0, NEW x \in Int, NEW y \in Int,
           -M < x - y, x - y < M, x % M = y % M
    PROVE  x = y
<1>1. ((x % M) - (y % M)) % M = (x - y) % M
  BY Differs
<1>2. (x % M) - (y % M) = 0
  <2> DEFINE r == x % M
  <2>1. r \in Int
    BY Quotient
  <2> HIDE DEF r
  <2>2. r - r = 0
    BY <2>1
  <2> QED
    BY <2>2, Zenon DEF r
<1>3. (x - y) % M = IF x - y >= 0 THEN x - y ELSE x - y + M
  BY Near
<1>4. 0 % M = 0
  BY Near
<1> QED
  BY <1>1, <1>2, <1>3, <1>4

-----------------------------------------------------------------------------
(* The gate: the inductive invariant. *)

Datagrams == [number : 1 .. sent, frames : Seq(Streams) \ {<<>>}]

Typed ==
    /\ sent \in Nat /\ resets \in Nat
    /\ network \subseteq Datagrams
    /\ open = Closed \/ open \in Datagrams
    /\ newest \in [Streams -> 0 .. sent]
    /\ verdicts \subseteq Streams \X BOOLEAN

\* A stream holds the number of the newest datagram it took.
HoldsNewest ==
    last = [s \in Streams |-> IF newest[s] = 0 THEN None ELSE newest[s] % SeqModulus]

\* What may still arrive is not far behind what was sent.
NetworkIsYoung == \A d \in network : sent <= d.number + MaxLag

\* The datagram that is read is near what its streams, and all others, took.
OpenIsNear ==
    open # Closed =>
        /\ \A s \in Streams : newest[s] <= open.number + MaxLag
        /\ \A k \in DOMAIN open.frames :
            LET s == open.frames[k]
            IN  newest[s] # 0 => open.number <= newest[s] + MaxSilence

GInv == Typed /\ HoldsNewest /\ NetworkIsYoung /\ OpenIsNear /\ OneVerdict

-----------------------------------------------------------------------------
(* The gate decides by what the numbers stand for. *)

LEMMA Limits ==
    ASSUME Assumptions
    PROVE  /\ SeqModulus \in Nat /\ SeqModulus > 0
           /\ Half \in Nat /\ SeqModulus = 2 * Half
           /\ MaxLag \in Nat /\ MaxLag <= Half
           /\ MaxSilence \in Nat /\ MaxSilence < Half
<1>1. /\ SeqModulus \in Nat \ {0} /\ SeqModulus % 2 = 0
      /\ MaxLag \in Nat /\ MaxLag <= SeqModulus \div 2
      /\ MaxSilence \in Nat /\ MaxSilence < SeqModulus \div 2
  BY DEF Assumptions, ModulusAssumption, BoundsAssumption, LinkAssumption, Half
<1>2. SeqModulus \div 2 \in Nat /\ SeqModulus = 2 * (SeqModulus \div 2)
  BY <1>1
<1> QED
  BY <1>1, <1>2 DEF Half

\* How far ahead of what a stream holds a datagram seems to be.
LEMMA AheadIs ==
    ASSUME Assumptions, NEW n \in Int, NEW w \in Int,
           n - w <= MaxSilence, w - n <= MaxLag
    PROVE  ((n % SeqModulus) + SeqModulus - (w % SeqModulus)) % SeqModulus
               = IF n >= w THEN n - w ELSE n - w + SeqModulus
<1> DEFINE M == SeqModulus
           a == n % M
           b == w % M
<1>1. M \in Nat /\ M > 0 /\ -M < n - w /\ n - w < M
  BY Limits
<1>2. a \in Int /\ b \in Int
  BY <1>1, Quotient
<1>3. (a - b) % M = (n - w) % M
  BY <1>1, Differs
<1>4. (n - w) % M = IF n - w >= 0 THEN n - w ELSE (n - w) + M
  BY <1>1, Near
<1> HIDE DEF M, a, b
<1>5. a + M - b = (a - b) + (M * 1)
  BY <1>1, <1>2
<1>6. ((a - b) + (M * 1)) % M = (a - b) % M
  <2>1. a - b \in Int /\ 1 \in Int
    BY <1>2
  <2> QED
    BY <1>1, <2>1, Wraps, Zenon
<1>7. (a + M - b) % M = (n - w) % M
  BY <1>3, <1>5, <1>6, Zenon
<1>8. (n - w) % M = IF n >= w THEN n - w ELSE n - w + M
  BY <1>1, <1>4
<1> QED
  BY <1>7, <1>8, Zenon DEF M, a, b

\* The head of the datagram that is read is taken if, and only if, it is newer.
LEMMA AcceptIsTrue ==
    ASSUME Assumptions, GInv, open # Closed
    PROVE  LET s == Head(open.frames)
           IN  /\ s \in Streams
               /\ accept(s, open.number % SeqModulus) <=> open.number > newest[s]
<1> DEFINE s == Head(open.frames)
           n == open.number
           w == newest[s]
<1>1. /\ open.frames \in Seq(Streams) /\ open.frames # <<>>
      /\ n \in 1 .. sent /\ sent \in Nat
  BY DEF GInv, Typed, Datagrams
<1>2. s \in Streams /\ 1 \in DOMAIN open.frames /\ s = open.frames[1]
  BY <1>1
<1>3. w \in 0 .. sent /\ last[s] = IF w = 0 THEN None ELSE w % SeqModulus
  BY <1>2 DEF GInv, Typed, HoldsNewest
<1>4. w <= n + MaxLag /\ (w # 0 => n <= w + MaxSilence)
  BY <1>2 DEF GInv, OpenIsNear
<1>5. CASE w = 0
  BY <1>1, <1>3, <1>5 DEF accept
<1>6. CASE w # 0
  <2>1. n - w <= MaxSilence /\ w - n <= MaxLag
    <3> HIDE DEF n, w
    <3> QED
      BY <1>1, <1>3, <1>4, <1>6, Limits
  <2> DEFINE ahead == ((n % SeqModulus) + SeqModulus - (w % SeqModulus)) % SeqModulus
  <2>2. ahead = IF n >= w THEN n - w ELSE n - w + SeqModulus
    <3> HIDE DEF n, w
    <3>1. n \in Int /\ w \in Int
      BY <1>1, <1>3
    <3> QED
      BY <2>1, <3>1, AheadIs, Zenon
  <2>3. w % SeqModulus \in 0 .. SeqModulus - 1
    BY <1>3, Limits, Quotient
  <2>4. last[s] = w % SeqModulus /\ last[s] # None
    BY <1>3, <1>6, <2>3, Limits DEF None
  <2>5. accept(s, n % SeqModulus) <=> ahead # 0 /\ ahead < Half
    BY <2>4, Zenon DEF accept
  <2> HIDE DEF ahead, n, w, s
  <2>6. ahead # 0 /\ ahead < Half <=> n > w
    BY <1>1, <1>3, <2>1, <2>2, Limits
  <2> QED
    BY <1>2, <2>5, <2>6 DEF n, w, s
<1> QED
  BY <1>5, <1>6

-----------------------------------------------------------------------------
(* The gate: the steps. *)

LEMMA InitIsSound ==
    ASSUME Assumptions, Init
    PROVE  GInv
BY SMT DEF Init, GInv, Typed, HoldsNewest, NetworkIsYoung, OpenIsNear, OneVerdict, Datagrams

LEMMA SendIsSound ==
    ASSUME Assumptions, GInv, NEW k \in 1 .. MaxFrames, NEW frames \in [1 .. k -> Streams],
           Send(frames)
    PROVE  GInv'
<1>1. /\ sent' = sent + 1
      /\ \A d \in network' : \/ d \in network /\ sent + 1 - d.number <= MaxLag
                             \/ d = [number |-> sent + 1, frames |-> frames]
      /\ UNCHANGED <<last, open, verdicts, newest, resets>>
  BY DEF Send
<1>2. sent \in Nat /\ MaxLag \in Nat
  BY Limits DEF GInv, Typed
<1>3. frames \in Seq(Streams) \ {<<>>}
  BY DEF Assumptions, BoundsAssumption
<1>4. \A d \in Datagrams : d \in Datagrams'
  BY <1>1, <1>2 DEF Datagrams
<1>5. [number |-> sent + 1, frames |-> frames] \in Datagrams'
  BY <1>1, <1>2, <1>3 DEF Datagrams
<1>6. Typed'
  BY <1>1, <1>2, <1>4, <1>5 DEF GInv, Typed
<1>7. NetworkIsYoung'
  <2> SUFFICES ASSUME NEW d \in network'
               PROVE  sent' <= d.number + MaxLag
    BY DEF NetworkIsYoung
  <2>1. CASE d \in network /\ sent + 1 - d.number <= MaxLag
    <3>1. d.number \in Nat
      BY <1>2, <2>1 DEF GInv, Typed, Datagrams
    <3> QED
      BY <1>1, <1>2, <2>1, <3>1
  <2>2. CASE d = [number |-> sent + 1, frames |-> frames]
    BY <1>1, <1>2, <2>2
  <2> QED
    BY <1>1, <2>1, <2>2
<1>8. HoldsNewest' /\ OpenIsNear' /\ OneVerdict'
  BY <1>1 DEF GInv, HoldsNewest, OpenIsNear, OneVerdict
<1> QED
  BY <1>6, <1>7, <1>8 DEF GInv

LEMMA LoseIsSound ==
    ASSUME GInv, NEW d \in network, Lose(d)
    PROVE  GInv'
BY DEF GInv, Typed, HoldsNewest, NetworkIsYoung, OpenIsNear, OneVerdict, Datagrams, Lose

LEMMA OpenIsSound ==
    ASSUME Assumptions, GInv, NEW d \in network, NEW again \in BOOLEAN, open_datagram(d, again)
    PROVE  GInv'
<1>1. /\ open' = d /\ verdicts' = {} /\ network' \subseteq network
      /\ \A k \in 1 .. Len(d.frames) :
            newest[d.frames[k]] # 0 => d.number <= newest[d.frames[k]] + MaxSilence
      /\ UNCHANGED <<sent, last, newest, resets>>
  BY DEF open_datagram
<1>2. d \in Datagrams /\ d.number \in 1 .. sent /\ d.frames \in Seq(Streams) /\ sent \in Nat
  BY DEF GInv, Typed, Datagrams
<1>3. Typed'
  BY <1>1, <1>2 DEF GInv, Typed, Datagrams
<1>4. OpenIsNear'
  <2>1. \A s \in Streams : newest[s] <= d.number + MaxLag
    BY <1>2, Limits DEF GInv, Typed, NetworkIsYoung
  <2>2. DOMAIN d.frames = 1 .. Len(d.frames)
    BY <1>2
  <2> QED
    BY <1>1, <2>1, <2>2 DEF OpenIsNear
<1>5. HoldsNewest' /\ NetworkIsYoung' /\ OneVerdict'
  BY <1>1 DEF GInv, HoldsNewest, NetworkIsYoung, OneVerdict
<1> QED
  BY <1>3, <1>4, <1>5 DEF GInv

\* A frame is judged: the first of its stream by the gate, the others as that one.
LEMMA DispatchJudges ==
    ASSUME Assumptions, GInv, dispatch
    PROVE  \E s \in Streams, fresh \in BOOLEAN :
             /\ s = Head(open.frames) /\ open # Closed
             /\ verdicts' = verdicts \cup {<<s, fresh>>}
             /\ last' = IF fresh THEN [last EXCEPT ![s] = open.number % SeqModulus] ELSE last
             /\ newest' = IF fresh THEN [newest EXCEPT ![s] = open.number] ELSE newest
             /\ \/ <<s, fresh>> \in verdicts
                \/ /\ \A v \in verdicts : v[1] # s
                   /\ fresh <=> open.number > newest[s]
<1> DEFINE s == Head(open.frames)
           seq == open.number % SeqModulus
           judged == \E v \in verdicts : v[1] = s
           fresh == IF judged THEN <<s, TRUE>> \in verdicts ELSE accept(s, seq)
<1>1. open # Closed
  BY DEF dispatch, Closed
<1>2. s \in Streams /\ (accept(s, seq) <=> open.number > newest[s])
  BY <1>1, AcceptIsTrue
<1>3. /\ verdicts' = verdicts \cup {<<s, fresh>>}
      /\ last' = IF fresh THEN [last EXCEPT ![s] = seq] ELSE last
      /\ newest' = IF fresh THEN [newest EXCEPT ![s] = open.number] ELSE newest
  BY DEF dispatch
<1>4. fresh \in BOOLEAN
  <2>1. (<<s, TRUE>> \in verdicts) \in BOOLEAN
    OBVIOUS
  <2>2. accept(s, seq) \in BOOLEAN
    <3> DEFINE p == last[s] = None
               q == LET ahead == (seq + SeqModulus - last[s]) % SeqModulus
                    IN  ahead # 0 /\ ahead < Half
    <3>1. accept(s, seq) = (p \/ q)
      BY Zenon DEF accept
    <3> HIDE DEF p, q
    <3>2. (p \/ q) \in BOOLEAN
      OBVIOUS
    <3> QED
      BY <3>1, <3>2, Zenon
  <2> HIDE DEF s, seq, judged
  <2> QED
    BY <2>1, <2>2, Zenon
<1>5. CASE judged
  <2>1. PICK v \in verdicts : v[1] = s
    BY <1>5
  <2>2. \E t \in Streams, b \in BOOLEAN : v = <<t, b>>
    BY <2>1 DEF GInv, Typed
  <2>3. v = <<s, TRUE>> \/ v = <<s, FALSE>>
    <3>1. PICK t \in Streams, b \in BOOLEAN : v = <<t, b>>
      BY <2>2
    <3>2. t = s
      BY <2>1, <3>1
    <3> QED
      BY <3>1, <3>2
  <2>4. fresh <=> <<s, TRUE>> \in verdicts
    BY <1>5
  <2>5. <<s, fresh>> \in verdicts
    <3>1. CASE <<s, TRUE>> \in verdicts
      <4>1. fresh = TRUE
        BY <1>4, <2>4, <3>1
      <4> QED
        BY <3>1, <4>1
    <3>2. CASE <<s, TRUE>> \notin verdicts
      <4>1. fresh = FALSE
        BY <1>4, <2>4, <3>2
      <4> QED
        BY <2>1, <2>3, <3>2, <4>1
    <3> QED
      BY <3>1, <3>2
  <2> HIDE DEF fresh, judged, seq
  <2> QED
    BY <1>1, <1>2, <1>3, <1>4, <2>5 DEF seq
<1>6. CASE ~judged
  <2>1. fresh <=> open.number > newest[s]
    BY <1>2, <1>6
  <2>2. \A v \in verdicts : v[1] # s
    BY <1>6
  <2> HIDE DEF fresh, judged, seq
  <2> QED
    BY <1>1, <1>2, <1>3, <1>4, <2>1, <2>2 DEF seq
<1> QED
  BY <1>5, <1>6

LEMMA DispatchIsSound ==
    ASSUME Assumptions, GInv, dispatch
    PROVE  GInv'
<1>1. PICK s \in Streams, fresh \in BOOLEAN :
         /\ s = Head(open.frames) /\ open # Closed
         /\ verdicts' = verdicts \cup {<<s, fresh>>}
         /\ last' = IF fresh THEN [last EXCEPT ![s] = open.number % SeqModulus] ELSE last
         /\ newest' = IF fresh THEN [newest EXCEPT ![s] = open.number] ELSE newest
         /\ \/ <<s, fresh>> \in verdicts
            \/ /\ \A v \in verdicts : v[1] # s
               /\ fresh <=> open.number > newest[s]
  BY DispatchJudges
<1>2. /\ open.frames # <<>>
      /\ open' = IF Len(open.frames) = 1 THEN Closed
                 ELSE [open EXCEPT !.frames = Tail(@)]
      /\ UNCHANGED <<sent, network, resets>>
  BY DEF dispatch
<1>3. open \in Datagrams /\ open.number \in 1 .. sent /\ sent \in Nat
  BY <1>1 DEF GInv, Typed, Datagrams
<1>4. \/ open' = Closed
      \/ /\ open' \in Datagrams /\ open'.number = open.number
         /\ \A k \in DOMAIN open'.frames :
               k + 1 \in DOMAIN open.frames /\ open'.frames[k] = open.frames[k + 1]
  <2>1. CASE Len(open.frames) = 1
    BY <1>2, <2>1
  <2>2. CASE Len(open.frames) # 1
    <3>1. open.frames \in Seq(Streams) /\ Len(open.frames) \in Nat /\ Len(open.frames) > 1
      <4>1. open.frames \in Seq(Streams)
        BY <1>3 DEF Datagrams
      <4> DEFINE n == Len(open.frames)
      <4>2. n \in Nat /\ n # 0 /\ n # 1
        BY <1>2, <2>2, <4>1
      <4> HIDE DEF n
      <4>3. n \in Nat /\ n > 1
        BY <4>2
      <4> QED
        BY <4>1, <4>3 DEF n
    <3>2. /\ Tail(open.frames) \in Seq(Streams) /\ Tail(open.frames) # <<>>
          /\ \A k \in DOMAIN Tail(open.frames) :
                k + 1 \in DOMAIN open.frames /\ Tail(open.frames)[k] = open.frames[k + 1]
      BY <3>1
    <3>3. open'.frames = Tail(open.frames) /\ open'.number = open.number
          /\ open' = [number |-> open.number, frames |-> Tail(open.frames)]
      BY <1>2, <1>3, <2>2 DEF Datagrams
    <3> QED
      BY <1>3, <3>2, <3>3 DEF Datagrams
  <2> QED
    BY <2>1, <2>2
<1>5. newest \in [Streams -> 0 .. sent] /\ verdicts \subseteq Streams \X BOOLEAN
  BY DEF GInv, Typed
<1>6. \A t \in Streams : newest'[t] = newest[t] \/ newest'[t] = open.number
  BY <1>1, <1>5
<1>7. Typed'
  <2>1. newest' \in [Streams -> 0 .. sent]
    BY <1>1, <1>3, <1>5
  <2>2. verdicts' \subseteq Streams \X BOOLEAN
    BY <1>1, <1>5
  <2>3. open' = Closed \/ open' \in Datagrams'
    BY <1>2, <1>4 DEF Datagrams
  <2> QED
    BY <1>2, <2>1, <2>2, <2>3 DEF GInv, Typed, Datagrams
<1>8. HoldsNewest'
  <2>1. last = [t \in Streams |-> IF newest[t] = 0 THEN None ELSE newest[t] % SeqModulus]
    BY DEF GInv, HoldsNewest
  <2>2. CASE fresh
    <3>1. last' = [last EXCEPT ![s] = open.number % SeqModulus]
          /\ newest' = [newest EXCEPT ![s] = open.number]
      BY <1>1, <2>2
    <3>2. \A t \in Streams : newest'[t] = IF t = s THEN open.number ELSE newest[t]
      BY <1>5, <3>1
    <3>3. open.number # 0
      BY <1>3
    <3>4. last' = [t \in Streams |-> IF t = s THEN open.number % SeqModulus ELSE last[t]]
      BY <2>1, <3>1
    <3> QED
      BY <2>1, <3>2, <3>3, <3>4 DEF HoldsNewest
  <2>3. CASE ~fresh
    BY <1>1, <2>1, <2>3 DEF HoldsNewest
  <2> QED
    BY <2>2, <2>3
<1>9. OpenIsNear'
  <2> SUFFICES ASSUME open' # Closed
               PROVE  /\ \A t \in Streams : newest'[t] <= open.number + MaxLag
                      /\ \A k \in DOMAIN open'.frames :
                            newest'[open'.frames[k]] # 0 =>
                                open.number <= newest'[open'.frames[k]] + MaxSilence
    BY <1>4 DEF OpenIsNear
  <2>1. /\ \A t \in Streams : newest[t] <= open.number + MaxLag
        /\ \A k \in DOMAIN open.frames :
              newest[open.frames[k]] # 0 => open.number <= newest[open.frames[k]] + MaxSilence
    BY <1>1 DEF GInv, OpenIsNear
  <2>2. open.number <= open.number + MaxLag /\ open.number <= open.number + MaxSilence
    BY <1>3, Limits
  <2>3. \A t \in Streams : newest'[t] <= open.number + MaxLag
    BY <1>6, <2>1, <2>2
  <2>4. ASSUME NEW k \in DOMAIN open'.frames, newest'[open'.frames[k]] # 0
        PROVE  open.number <= newest'[open'.frames[k]] + MaxSilence
    <3> DEFINE t == open.frames[k + 1]
    <3>1. k + 1 \in DOMAIN open.frames /\ open'.frames[k] = t
      BY <1>4
    <3>2. t \in Streams
      BY <1>3, <3>1 DEF Datagrams
    <3>3. newest[t] # 0 => open.number <= newest[t] + MaxSilence
      BY <2>1, <3>1
    <3> HIDE DEF t
    <3> QED
      BY <1>6, <2>2, <2>4, <3>1, <3>2, <3>3
  <2> QED
    BY <2>3, <2>4
<1>10. OneVerdict'
  BY <1>1, <1>5 DEF GInv, OneVerdict
<1>11. NetworkIsYoung'
  BY <1>2 DEF GInv, NetworkIsYoung
<1> QED
  BY <1>7, <1>8, <1>9, <1>10, <1>11 DEF GInv

\* The copy on a route is gone, or the link is: what they held is forgotten.
LEMMA ClearRouteIsSound ==
    ASSUME Assumptions, GInv, NEW r \in Routes, clear_route(r)
    PROVE  GInv'
<1>1. /\ open = Closed
      /\ last' = [s \in Streams |-> IF s[1] = r THEN None ELSE last[s]]
      /\ newest' = [s \in Streams |-> IF s[1] = r THEN 0 ELSE newest[s]]
      /\ resets' = resets + 1
      /\ UNCHANGED <<sent, network, open, verdicts>>
  BY DEF clear_route
<1>2. sent \in Nat /\ newest \in [Streams -> 0 .. sent]
      /\ last = [s \in Streams |-> IF newest[s] = 0 THEN None ELSE newest[s] % SeqModulus]
  BY DEF GInv, Typed, HoldsNewest
<1>3. Typed'
  <2>1. newest' \in [Streams -> 0 .. sent]
    BY <1>1, <1>2
  <2>2. resets' \in Nat
    BY <1>1 DEF GInv, Typed
  <2> QED
    BY <1>1, <2>1, <2>2 DEF GInv, Typed, Datagrams
<1>4. HoldsNewest'
  <2>1. \A s \in Streams : newest'[s] = IF s[1] = r THEN 0 ELSE newest[s]
    BY <1>1
  <2>2. \A s \in Streams : (IF s[1] = r THEN None ELSE last[s])
                              = IF newest'[s] = 0 THEN None ELSE newest'[s] % SeqModulus
    BY <1>2, <2>1
  <2> QED
    BY <1>1, <2>2, Zenon DEF HoldsNewest, None
<1>5. NetworkIsYoung' /\ OpenIsNear' /\ OneVerdict'
  BY <1>1 DEF GInv, NetworkIsYoung, OpenIsNear, OneVerdict, Closed
<1> QED
  BY <1>3, <1>4, <1>5 DEF GInv

LEMMA ClearPeerIsSound ==
    ASSUME Assumptions, GInv, clear_peer
    PROVE  GInv'
<1>1. /\ open = Closed /\ resets' = resets + 1
      /\ last' = [s \in Streams |-> None]
      /\ newest' = [s \in Streams |-> 0]
      /\ sent' = 0 /\ network' = {}
      /\ UNCHANGED <<open, verdicts>>
  BY DEF clear_peer
<1>2. Typed'
  BY <1>1 DEF GInv, Typed, Datagrams
<1>3. HoldsNewest'
  BY <1>1 DEF HoldsNewest, None
<1>4. NetworkIsYoung' /\ OpenIsNear' /\ OneVerdict'
  BY <1>1 DEF GInv, NetworkIsYoung, OpenIsNear, OneVerdict, Closed
<1> QED
  BY <1>2, <1>3, <1>4 DEF GInv

LEMMA StepIsSound ==
    ASSUME Assumptions, GInv, [Next]_vars
    PROVE  GInv'
<1>1. CASE \E n \in 1 .. MaxFrames : \E frames \in [1 .. n -> Streams] : Send(frames)
  BY <1>1, SendIsSound
<1>2. CASE \E d \in network : Lose(d)
  BY <1>2, LoseIsSound
<1>3. CASE \E d \in network : \E again \in BOOLEAN : open_datagram(d, again)
  BY <1>3, OpenIsSound
<1>4. CASE dispatch
  BY <1>4, DispatchIsSound
<1>5. CASE \E r \in Routes : clear_route(r)
  BY <1>5, ClearRouteIsSound
<1>6. CASE clear_peer
  BY <1>6, ClearPeerIsSound
<1>7. CASE UNCHANGED vars
  BY <1>7 DEF vars, GInv, Typed, HoldsNewest, NetworkIsYoung, OpenIsNear, OneVerdict, Datagrams
<1> QED
  BY <1>1, <1>2, <1>3, <1>4, <1>5, <1>6, <1>7 DEF Next

\* Only dispatch gives a verdict.
LEMMA OnlyDispatchJudges ==
    ASSUME [Next]_vars, ~dispatch
    PROVE  verdicts' \subseteq verdicts
BY DEF Next, vars, Send, Lose, open_datagram, clear_route, clear_peer

\* A verdict that is given is true.
LEMMA StepJudgesTrue ==
    ASSUME Assumptions, GInv, [Next]_vars
    PROVE  TakesTheNewer /\ LeavesTheOld
<1>1. CASE dispatch
  <2>1. PICK s \in Streams, fresh \in BOOLEAN :
           /\ open # Closed
           /\ verdicts' = verdicts \cup {<<s, fresh>>}
           /\ \/ <<s, fresh>> \in verdicts
              \/ fresh <=> open.number > newest[s]
    BY <1>1, DispatchJudges
  <2>2. open.number \in Nat /\ newest[s] \in Nat
    BY <2>1 DEF GInv, Typed, Datagrams
  <2>3. \A t \in Streams, b \in BOOLEAN :
           <<t, b>> \in verdicts' \ verdicts => t = s /\ b = fresh
    BY <2>1
  <2>4. \A t \in Streams, b \in BOOLEAN :
           <<t, b>> \in verdicts' \ verdicts => (b <=> open.number > newest[t])
    BY <2>1, <2>3
  <2>5. \A t \in Streams : Judges(t, TRUE) => open.number > newest[t]
    BY <2>4 DEF Judges
  <2>6. ASSUME NEW t \in Streams, Judges(t, FALSE)
        PROVE  open.number <= newest[t]
    <3>1. t = s
      BY <2>3, <2>6 DEF Judges
    <3>2. ~(open.number > newest[t])
      BY <2>4, <2>6 DEF Judges
    <3> QED
      BY <2>2, <3>1, <3>2
  <2> QED
    BY <2>5, <2>6 DEF TakesTheNewer, LeavesTheOld
<1>2. CASE ~dispatch
  BY <1>2, OnlyDispatchJudges DEF TakesTheNewer, LeavesTheOld, Judges
<1> QED
  BY <1>1, <1>2

-----------------------------------------------------------------------------
(* The gate: the theorem. *)

LEMMA GateInvariant ==
    ASSUME Assumptions
    PROVE  Spec => []GInv
<1>1. Init => GInv
  BY InitIsSound
<1>2. GInv /\ [Next]_vars => GInv'
  BY StepIsSound
<1> QED
  BY <1>1, <1>2, PTL DEF Spec

\* A stream takes what is newer than all it took and refuses nothing else, though the
\* numbers wrap, whatever is lost, repeated and overtaken, and all frames of a stream
\* in one datagram share one verdict (repl/freshness_book.cpp, accept and
\* accept_in_datagram).
THEOREM GateTrue ==
    ASSUME Assumptions
    PROVE  Spec => GateIsTrue
<1>1. GInv /\ GInv' /\ [Next]_vars => [TakesTheNewer /\ LeavesTheOld /\ OneVerdict']_vars
  BY StepJudgesTrue DEF GInv
<1> QED
  BY <1>1, GateInvariant, PTL DEF Spec, GateIsTrue

-----------------------------------------------------------------------------
(* The reports: the inductive invariant. *)

Waiting == {d \in {ring[s] : s \in 0 .. Ring - 1} : d # 0}

Newest(n) == n \in seen /\ \A e \in seen : e <= n

\* The last datagram settled is one that came, and not many were sent since.
SettledCame ==
    /\ Acks!Settled \in Nat
    /\ dsent <= Acks!Settled + Silence
    /\ highest # Acks!None => highest = Acks!Seq(Acks!Settled) /\ Acks!Settled \in seen

\* What is on the link to the receiver is not old.
LinkIsYoung == \A d \in toReceiver : d + Lifetime >= dsent

\* An echo names what had come when it was sent, and it was sent not long ago.
EchoesCame ==
    \A e \in toSender :
        /\ e.at \in seen /\ e.ack = Acks!Seq(e.at)
        /\ e.at + Lifetime >= dsent \/ e.at + Silence >= dsent
        /\ \A i \in e.history : e.at - 1 - i \in seen

\* The receiver remembers the newest datagram that came, and some before it.
ReceiverKnows ==
    IF seen = {}
    THEN freshest = Acks!None
    ELSE \E n \in seen : /\ \A e \in seen : e <= n
                         /\ freshest = Acks!Seq(n)
                         /\ \A i \in history : n - 1 - i \in seen

\* What waits in the ring is one that the next echo may still report.
RingIsRecent ==
    \A s \in 0 .. Ring - 1 :
        ring[s] # 0 => ring[s] + Depth >= Acks!Settled

IInv ==
    /\ Acks!TypeOK /\ SettledCame /\ LinkIsYoung /\ EchoesCame
    /\ ReceiverKnows /\ RingIsRecent
    /\ Acks!DeliveredCame /\ Acks!LostWasPassed /\ Acks!ReportedOnce

\* One more number.
LEMMA OneMore ==
    ASSUME NEW n \in Nat, NEW S \in SUBSET (1 .. n), NEW T,
           \A x \in T : x \in S \/ x = n + 1
    PROVE  T \subseteq 1 .. n + 1
<1> SUFFICES ASSUME NEW x \in T
             PROVE  x \in 1 .. n + 1
  OBVIOUS
<1>1. CASE x \in S
  <2>1. x \in 1 .. n
    BY <1>1
  <2> QED
    BY <2>1
<1>2. CASE x = n + 1
  BY <1>2
<1> QED
  BY <1>1, <1>2

-----------------------------------------------------------------------------
(* The reports: what the parameters allow, and the numbers of datagrams. *)

LEMMA AcksLimits ==
    ASSUME Acks!Assumptions
    PROVE  /\ Modulus \in Nat /\ Modulus > 0
           /\ Ring \in Nat /\ Ring > 0 /\ Depth \in Nat /\ Depth > 0
           /\ Lifetime \in Nat /\ Silence \in Nat
           /\ 2 * Lifetime < Modulus /\ 2 * (Depth + Silence) < Modulus
           /\ \A d \in Starts \cup Stops : d \in Nat
BY SMT DEF Acks!Assumptions, Acks!NumberAssumption, Acks!LinkAssumption

LEMMA SeqInRange ==
    ASSUME Acks!Assumptions, NEW d \in Int
    PROVE  Acks!Seq(d) \in 0 .. Modulus - 1 /\ Acks!Seq(d) # Acks!None
BY AcksLimits, Quotient, SMT DEF Acks!Seq, Acks!None

\* How far apart two numbers are whose datagrams lie within one range.
LEMMA DistanceIs ==
    ASSUME Acks!Assumptions, NEW a \in Int, NEW b \in Int,
           -Modulus < a - b, a - b < Modulus
    PROVE  Acks!Distance(Acks!Seq(a), Acks!Seq(b)) = IF a >= b THEN a - b ELSE a - b + Modulus
<1>1. ((a % Modulus) - (b % Modulus)) % Modulus = (a - b) % Modulus
  BY AcksLimits, Differs
<1>2. (a - b) % Modulus = IF a - b >= 0 THEN a - b ELSE (a - b) + Modulus
  BY AcksLimits, Near
<1>3. Acks!Distance(Acks!Seq(a), Acks!Seq(b)) = (a - b) % Modulus
  BY <1>1 DEF Acks!Distance, Acks!Seq
<1> QED
  BY <1>2, <1>3

LEMMA SameSeq ==
    ASSUME Acks!Assumptions, NEW a \in Int, NEW b \in Int,
           -Modulus < a - b, a - b < Modulus, Acks!Seq(a) = Acks!Seq(b)
    PROVE  a = b
BY AcksLimits, SameNumber DEF Acks!Seq

\* Datagrams less than half the range apart are told apart in their order.
LEMMA FresherIs ==
    ASSUME Acks!Assumptions, NEW a \in Int, NEW b \in Int,
           2 * (a - b) < Modulus, 2 * (b - a) < Modulus
    PROVE  Acks!Fresher(Acks!Seq(a), Acks!Seq(b)) <=> a > b
<1>1. Modulus \in Nat /\ Modulus > 0
  BY AcksLimits
<1>2. -Modulus < a - b /\ a - b < Modulus
  BY <1>1
<1>3. Acks!Distance(Acks!Seq(a), Acks!Seq(b)) = IF a >= b THEN a - b ELSE a - b + Modulus
  BY <1>2, DistanceIs
<1>4. Acks!Seq(a) = Acks!Seq(b) <=> a = b
  BY <1>2, SameSeq
<1> QED
  BY <1>1, <1>3, <1>4 DEF Acks!Fresher

\* A datagram that was sent less than a range ago is found by its number.
LEMMA NameIs ==
    ASSUME Acks!Assumptions, NEW s \in Int, NEW h \in Int, h <= s, s - h < Modulus
    PROVE  s - Acks!Distance(Acks!Seq(s), Acks!Seq(h)) = h
<1>1. Acks!Distance(Acks!Seq(s), Acks!Seq(h)) = s - h
  BY DistanceIs, AcksLimits
<1> QED
  BY <1>1

\* The number that bit i of an echo names.
LEMMA BitNames ==
    ASSUME Acks!Assumptions, NEW a \in Int, NEW i \in Int
    PROVE  (Acks!Seq(a) - 1 - i) % Modulus = Acks!Seq(a - 1 - i)
<1> DEFINE q == a \div Modulus
           r == a % Modulus
<1>1. q \in Int /\ r \in 0 .. Modulus - 1 /\ a = (Modulus * q) + r
  BY AcksLimits, Quotient
<1>2. Modulus \in Nat /\ Modulus > 0
  BY AcksLimits
<1> HIDE DEF q, r
<1>3. r - 1 - i \in Int /\ a - 1 - i = (r - 1 - i) + (Modulus * q)
  BY <1>1, <1>2
<1>4. ((r - 1 - i) + (Modulus * q)) % Modulus = (r - 1 - i) % Modulus
  BY <1>1, <1>2, <1>3, Wraps
<1>5. (r - 1 - i) % Modulus = (a - 1 - i) % Modulus
  BY <1>3, <1>4
<1>6. Acks!Seq(a) = r /\ Acks!Seq(a - 1 - i) = (a - 1 - i) % Modulus
  BY DEF r, Acks!Seq
<1> QED
  BY <1>5, <1>6

-----------------------------------------------------------------------------
(* The reports: the steps. *)

\* The newest datagram that came is the one the receiver's number names.
LEMMA NewestCame ==
    ASSUME Acks!Assumptions, IInv, seen # {}
    PROVE  \E n \in seen :
             /\ n \in 1 .. dsent /\ Acks!Settled <= n /\ dsent <= n + Silence
             /\ \A e \in seen : e <= n
             /\ freshest = Acks!Seq(n) /\ freshest # Acks!None /\ Acks!Named(freshest) = n
             /\ \A i \in history : n - 1 - i \in seen
<1>1. PICK n \in seen : /\ \A e \in seen : e <= n
                        /\ freshest = Acks!Seq(n)
                        /\ \A i \in history : n - 1 - i \in seen
  BY DEF IInv, ReceiverKnows
<1>2. n \in 1 .. dsent /\ dsent \in Nat
  BY DEF IInv, Acks!TypeOK
<1>3. Acks!Settled <= n /\ dsent <= n + Silence
  <2>1. Acks!Settled \in Nat /\ dsent <= Acks!Settled + Silence
    BY DEF IInv, SettledCame
  <2>2. CASE highest = Acks!None
    <3>1. Acks!Settled = 0
      BY <2>2 DEF Acks!Settled
    <3> QED
      BY <3>1, <2>1, <1>2, AcksLimits
  <2>3. CASE highest # Acks!None
    <3>1. Acks!Settled \in seen
      BY <2>3 DEF IInv, SettledCame
    <3> QED
      BY <3>1, <1>1, <2>1, <1>2, AcksLimits
  <2> QED
    BY <2>2, <2>3
<1>4. Acks!Named(freshest) = n
  <2>1. n <= dsent /\ dsent - n < Modulus
    BY <1>2, <1>3, AcksLimits
  <2>2. dsent - Acks!Distance(Acks!Seq(dsent), Acks!Seq(n)) = n
    BY <1>2, <2>1, NameIs
  <2> QED
    BY <1>1, <2>2 DEF Acks!Named
<1> QED
  BY <1>1, <1>2, <1>3, <1>4, SeqInRange

\* The echo that is heard names its datagram, and those its bits stand for.
LEMMA EchoNames ==
    ASSUME Acks!Assumptions, IInv, NEW e \in toSender
    PROVE  /\ e.at \in seen /\ e.at \in 1 .. dsent
           /\ e.ack = Acks!Seq(e.at) /\ e.ack # Acks!None
           /\ dsent - e.at < Modulus
           /\ Acks!Reported(e) = {Acks!Seq(e.at)} \cup {Acks!Seq(e.at - 1 - i) : i \in e.history}
           /\ \A i \in e.history : i \in 0 .. Depth - 1 /\ e.at - 1 - i \in seen
<1>1. e.at \in seen /\ e.ack = Acks!Seq(e.at)
      /\ (e.at + Lifetime >= dsent \/ e.at + Silence >= dsent)
      /\ \A i \in e.history : e.at - 1 - i \in seen
  BY DEF IInv, EchoesCame
<1>2. e.at \in 1 .. dsent /\ dsent \in Nat
  BY <1>1 DEF IInv, Acks!TypeOK
<1>3. \A i \in e.history : i \in 0 .. Depth - 1
  BY DEF IInv, Acks!TypeOK
<1>4. \A i \in e.history : (Acks!Seq(e.at) - 1 - i) % Modulus = Acks!Seq(e.at - 1 - i)
  <2> SUFFICES ASSUME NEW i \in e.history
               PROVE  (Acks!Seq(e.at) - 1 - i) % Modulus = Acks!Seq(e.at - 1 - i)
    OBVIOUS
  <2>1. e.at \in Int /\ i \in Int
    BY <1>2, <1>3, AcksLimits
  <2> QED
    BY <2>1, BitNames, Zenon
<1>5. Acks!Reported(e) = {Acks!Seq(e.at)} \cup {Acks!Seq(e.at - 1 - i) : i \in e.history}
  BY <1>1, <1>4, Zenon DEF Acks!Reported
<1>6. dsent - e.at < Modulus
  BY <1>1, <1>2, AcksLimits
<1>7. e.ack # Acks!None
  BY <1>1, <1>2, SeqInRange
<1> QED
  BY <1>1, <1>2, <1>3, <1>5, <1>6, <1>7

LEMMA AcksInitIsSound ==
    ASSUME Acks!Assumptions, Acks!Init
    PROVE  IInv
<1>1. dsent \in Nat
  BY AcksLimits DEF Acks!Init
<1>2. /\ ring = [s \in 0 .. Ring - 1 |-> 0]
      /\ toReceiver = {} /\ toSender = {} /\ history = {}
      /\ tracked = {} /\ delivered = {} /\ lost = {}
  BY DEF Acks!Init
<1>3. \A s \in 0 .. Ring - 1 : ring[s] = 0
  BY <1>2
<1>4. LinkIsYoung /\ EchoesCame /\ Acks!DeliveredCame /\ Acks!LostWasPassed
  BY <1>2 DEF LinkIsYoung, EchoesCame, Acks!DeliveredCame, Acks!LostWasPassed
<1>5. Acks!ReportedOnce
  <2>1. {d \in {ring[s] : s \in 0 .. Ring - 1} : d # 0} = {}
    BY <1>3
  <2> QED
    BY <2>1, <1>2 DEF Acks!ReportedOnce
<1>6. CASE dsent = 0
  <2>1. highest = Acks!None /\ freshest = Acks!None /\ seen = {}
    BY <1>6 DEF Acks!Init
  <2>2. Acks!Settled = 0
    BY <2>1 DEF Acks!Settled
  <2>3. Acks!TypeOK
    BY <1>1, <1>2, <2>1, AcksLimits, SMT DEF Acks!TypeOK
  <2>4. SettledCame /\ ReceiverKnows /\ RingIsRecent
    BY <1>1, <1>3, <1>6, <2>1, <2>2, AcksLimits DEF SettledCame, ReceiverKnows, RingIsRecent
  <2> QED
    BY <1>4, <1>5, <2>3, <2>4 DEF IInv
<1>7. CASE dsent # 0
  <2>1. highest = Acks!Seq(dsent) /\ freshest = Acks!Seq(dsent) /\ seen = {dsent}
    BY <1>7 DEF Acks!Init
  <2>2. Acks!Seq(dsent) \in 0 .. Modulus - 1 /\ Acks!Seq(dsent) # Acks!None
    BY <1>1, SeqInRange
  <2>3. dsent - Acks!Distance(Acks!Seq(dsent), Acks!Seq(dsent)) = dsent
    BY <1>1, AcksLimits, NameIs
  <2>4. Acks!Settled = dsent
    BY <2>1, <2>2, <2>3 DEF Acks!Settled, Acks!Named
  <2>5. Acks!TypeOK
    <3>1. seen \cup tracked \cup delivered \cup lost \subseteq 1 .. dsent
      BY <1>1, <1>2, <1>7, <2>1
    <3>2. ring \in [0 .. Ring - 1 -> 0 .. dsent]
      BY <1>1, <1>2
    <3> QED
      BY <1>1, <1>2, <2>1, <2>2, <3>1, <3>2 DEF Acks!TypeOK
  <2>6. SettledCame
    BY <1>1, <2>1, <2>4, AcksLimits DEF SettledCame
  <2>7. ReceiverKnows /\ RingIsRecent
    BY <1>1, <1>2, <1>3, <2>1 DEF ReceiverKnows, RingIsRecent
  <2> QED
    BY <1>4, <1>5, <2>5, <2>6, <2>7 DEF IInv
<1> QED
  BY <1>6, <1>7

\* A datagram is sent: what was settled last keeps its name, and what the link
\* holds is young enough.
LEMMA SendKeeps ==
    ASSUME Acks!Assumptions, IInv, dsent' = dsent + 1, dsent + 1 <= Acks!Settled + Silence,
           toReceiver' = {d \in toReceiver \cup {dsent + 1} : Acks!Young(d)},
           toSender' = {e \in toSender : Acks!Young(e.at)},
           UNCHANGED <<highest, freshest, history, seen, delivered, lost>>
    PROVE  /\ Acks!Settled' = Acks!Settled
           /\ SettledCame' /\ LinkIsYoung' /\ EchoesCame' /\ ReceiverKnows'
           /\ Acks!DeliveredCame' /\ Acks!LostWasPassed'
           /\ dsent \in Nat
<1>1. dsent \in Nat /\ Acks!Settled \in Nat
  BY DEF IInv, Acks!TypeOK, SettledCame
<1>2. Acks!Settled' = Acks!Settled
  <2>1. CASE highest = Acks!None
    BY <2>1 DEF Acks!Settled
  <2>2. CASE highest # Acks!None
    <3>1. highest = Acks!Seq(Acks!Settled) /\ Acks!Settled \in 1 .. dsent
      BY <2>2 DEF IInv, SettledCame, Acks!TypeOK
    <3>2. (dsent + 1) - Acks!Distance(Acks!Seq(dsent + 1), Acks!Seq(Acks!Settled)) = Acks!Settled
      <4>1. dsent + 1 \in Int /\ Acks!Settled \in Int /\ Acks!Settled <= dsent + 1
            /\ (dsent + 1) - Acks!Settled < Modulus
        BY <1>1, <3>1, AcksLimits
      <4> QED
        BY <4>1, NameIs, Zenon
    <3>3. Acks!Settled' = dsent' - Acks!Distance(Acks!Seq(dsent'), highest)
      BY <2>2, Zenon DEF Acks!Settled, Acks!Named, Acks!Distance, Acks!Seq
    <3> QED
      BY <3>1, <3>2, <3>3, Zenon
  <2> QED
    BY <2>1, <2>2
<1>3. SettledCame'
  BY <1>1, <1>2, SMT DEF IInv, SettledCame, Acks!Seq
<1>4. LinkIsYoung'
  BY DEF LinkIsYoung, Acks!Young
<1>5. EchoesCame'
  <2> SUFFICES ASSUME NEW e \in toSender'
               PROVE  /\ e.at \in seen /\ e.ack = Acks!Seq(e.at)
                      /\ e.at + Lifetime >= dsent' \/ e.at + Silence >= dsent'
                      /\ \A i \in e.history : e.at - 1 - i \in seen
    BY DEF EchoesCame, Acks!Seq
  <2>1. e \in toSender /\ e.at + Lifetime >= dsent'
    BY DEF Acks!Young
  <2> QED
    BY <2>1 DEF IInv, EchoesCame
<1>6. ReceiverKnows'
  BY DEF IInv, ReceiverKnows, Acks!Seq
<1>7. Acks!DeliveredCame' /\ Acks!LostWasPassed'
  BY DEF IInv, Acks!DeliveredCame, Acks!LostWasPassed
<1> QED
  BY <1>1, <1>2, <1>3, <1>4, <1>5, <1>6, <1>7

LEMMA SendBareIsSound ==
    ASSUME Acks!Assumptions, IInv, Acks!SendBare
    PROVE  IInv'
<1>1. /\ dsent' = dsent + 1 /\ dsent + 1 <= Acks!Settled + Silence
      /\ toReceiver' = {d \in toReceiver \cup {dsent + 1} : Acks!Young(d)}
      /\ toSender' = {e \in toSender : Acks!Young(e.at)}
      /\ UNCHANGED <<ring, highest, freshest, history, seen, tracked,
                     delivered, lost>>
  BY DEF Acks!SendBare
<1>2. /\ Acks!Settled' = Acks!Settled
      /\ SettledCame' /\ LinkIsYoung' /\ EchoesCame' /\ ReceiverKnows'
      /\ Acks!DeliveredCame' /\ Acks!LostWasPassed'
      /\ dsent \in Nat
  BY <1>1, SendKeeps
<1>3. Acks!TypeOK'
  <2>1. toReceiver' \subseteq 1 .. dsent'
    <3>1. toReceiver \subseteq 1 .. dsent
      BY DEF IInv, Acks!TypeOK
    <3>2. \A d \in toReceiver' : d \in toReceiver \/ d = dsent + 1
      BY <1>1
    <3>3. toReceiver' \subseteq 1 .. dsent + 1
      BY <1>2, <3>1, <3>2, OneMore
    <3> QED
      BY <1>1, <3>3
  <2>2. ring' \in [0 .. Ring - 1 -> 0 .. dsent']
    BY <1>1, <1>2 DEF IInv, Acks!TypeOK
  <2>3. (seen \cup tracked \cup delivered \cup lost)' \subseteq 1 .. dsent'
    BY <1>1, <1>2 DEF IInv, Acks!TypeOK
  <2>4. \A e \in toSender' : e \in toSender
    BY <1>1
  <2> QED
    BY <1>1, <1>2, <2>1, <2>2, <2>3, <2>4 DEF IInv, Acks!TypeOK
<1>4. RingIsRecent'
  BY <1>1, <1>2 DEF IInv, RingIsRecent
<1>5. Acks!ReportedOnce'
  BY <1>1 DEF IInv, Acks!ReportedOnce
<1> QED
  BY <1>2, <1>3, <1>4, <1>5 DEF IInv

\* A datagram that carries rows finds its slot free: what waited there was
\* settled long ago.
LEMMA AcksSendIsSound ==
    ASSUME Acks!Assumptions, IInv, Acks!Send
    PROVE  IInv'
<1>1. /\ dsent' = dsent + 1 /\ dsent + 1 <= Acks!Settled + Silence
      /\ toReceiver' = {d \in toReceiver \cup {dsent + 1} : Acks!Young(d)}
      /\ toSender' = {e \in toSender : Acks!Young(e.at)}
      /\ Acks!Recorded(dsent + 1)
      /\ UNCHANGED <<highest, freshest, history, seen, delivered, lost>>
  BY DEF Acks!Send
<1>2. /\ Acks!Settled' = Acks!Settled
      /\ SettledCame' /\ LinkIsYoung' /\ EchoesCame' /\ ReceiverKnows'
      /\ Acks!DeliveredCame' /\ Acks!LostWasPassed'
      /\ dsent \in Nat
  BY <1>1, SendKeeps
<1> DEFINE d == dsent + 1
           slot == Acks!Seq(d) % Ring
<1>3. slot \in 0 .. Ring - 1
  <2>1. Acks!Seq(d) \in Int
    BY <1>2, SeqInRange, AcksLimits
  <2> QED
    BY <2>1, AcksLimits, Quotient
<1>4. ring \in [0 .. Ring - 1 -> 0 .. dsent] /\ tracked \subseteq 1 .. dsent
      /\ delivered \cup lost \subseteq 1 .. dsent /\ toReceiver \subseteq 1 .. dsent
      /\ seen \subseteq 1 .. dsent
  BY DEF IInv, Acks!TypeOK
<1> HIDE DEF d, slot
<1>5. \/ UNCHANGED <<ring, tracked>>
      \/ /\ ring[slot] = 0
         /\ ring' = [ring EXCEPT ![slot] = d]
         /\ tracked' = tracked \cup {d}
  <2>1. CASE ring[slot] # 0 /\ Acks!Seq(ring[slot]) # Acks!Seq(d)
    BY <1>1, <2>1 DEF Acks!Recorded, d, slot
  <2>2. CASE ring[slot] # 0 /\ Acks!Seq(ring[slot]) = Acks!Seq(d)
    <3>1. ring[slot] \in 1 .. dsent
      BY <1>3, <1>4, <2>2
    <3>2. ring[slot] + Depth >= Acks!Settled
      BY <1>3, <2>2 DEF IInv, RingIsRecent
    <3>3. Acks!Settled \in Nat
      BY DEF IInv, SettledCame
    <3>4. ring[slot] = d
      <4>1. -Modulus < ring[slot] - d /\ ring[slot] - d < Modulus
        BY <1>1, <1>2, <3>1, <3>2, <3>3, AcksLimits DEF d
      <4> QED
        BY <1>2, <2>2, <3>1, <4>1, SameSeq DEF d
    <3> QED
      BY <3>1, <3>4, <1>2 DEF d
  <2>3. CASE ring[slot] = 0
    BY <1>1, <2>3 DEF Acks!Recorded, d, slot
  <2> QED
    BY <2>1, <2>2, <2>3
<1>6. d \in 1 .. dsent' /\ dsent' = dsent + 1 /\ d \notin 1 .. dsent
  BY <1>1, <1>2 DEF d
<1>7. Acks!TypeOK'
  <2>1. toReceiver' \subseteq 1 .. dsent'
    <3>1. \A e \in toReceiver' : e \in toReceiver \/ e = dsent + 1
      BY <1>1
    <3>2. toReceiver' \subseteq 1 .. dsent + 1
      BY <1>2, <1>4, <3>1, OneMore
    <3> QED
      BY <1>1, <3>2
  <2>2. ring' \in [0 .. Ring - 1 -> 0 .. dsent']
    BY <1>2, <1>3, <1>4, <1>5, <1>6
  <2>3. (seen \cup tracked \cup delivered \cup lost)' \subseteq 1 .. dsent'
    <3>1. \A e \in 1 .. dsent : e \in 1 .. dsent'
      BY <1>2, <1>6
    <3>2. tracked' \subseteq 1 .. dsent'
      BY <3>1, <1>4, <1>5, <1>6
    <3> QED
      BY <1>1, <1>4, <3>1, <3>2
  <2>4. \A e \in toSender' : e \in toSender
    BY <1>1
  <2> QED
    BY <1>1, <1>2, <2>1, <2>2, <2>3, <2>4 DEF IInv, Acks!TypeOK
<1>8. RingIsRecent'
  <2> SUFFICES ASSUME NEW s \in 0 .. Ring - 1, ring'[s] # 0
               PROVE  ring'[s] + Depth >= Acks!Settled
    BY <1>2 DEF RingIsRecent
  <2>1. ring'[s] = ring[s] \/ ring'[s] = d
    BY <1>3, <1>4, <1>5
  <2>2. Acks!Settled \in Nat /\ Acks!Settled <= dsent
    <3>1. CASE highest = Acks!None
      BY <3>1, <1>2 DEF Acks!Settled
    <3>2. CASE highest # Acks!None
      BY <3>2, <1>2, <1>4 DEF IInv, SettledCame
    <3> QED
      BY <3>1, <3>2
  <2>3. d + Depth >= Acks!Settled
    BY <2>2, <1>2, AcksLimits DEF d
  <2>4. ring[s] # 0 => ring[s] + Depth >= Acks!Settled
    BY DEF IInv, RingIsRecent
  <2> QED
    BY <2>1, <2>3, <2>4
<1>9. Acks!ReportedOnce'
  <2>1. CASE UNCHANGED <<ring, tracked>>
    BY <1>1, <2>1 DEF IInv, Acks!ReportedOnce
  <2>2. CASE /\ ring[slot] = 0
             /\ ring' = [ring EXCEPT ![slot] = d]
             /\ tracked' = tracked \cup {d}
    <3>1. ring'[slot] = d /\ \A s \in 0 .. Ring - 1 : s # slot => ring'[s] = ring[s]
      BY <1>3, <1>4, <2>2
    <3>2. d # 0 /\ d \notin delivered \cup lost
      BY <1>4, <1>6
    <3>3. Waiting' = Waiting \cup {d}
      BY <1>3, <2>2, <3>1, <3>2 DEF Waiting
    <3>4. tracked = Waiting \cup delivered \cup lost
          /\ Waiting \cap (delivered \cup lost) = {}
          /\ delivered \cap lost = {}
      BY DEF IInv, Acks!ReportedOnce, Waiting
    <3>5. tracked' = Waiting' \cup delivered' \cup lost'
          /\ Waiting' \cap (delivered' \cup lost') = {}
          /\ delivered' \cap lost' = {}
      BY <1>1, <2>2, <3>2, <3>3, <3>4
    <3> QED
      BY <3>5 DEF Acks!ReportedOnce, Waiting
  <2> QED
    BY <1>5, <2>1, <2>2
<1> QED
  BY <1>2, <1>7, <1>8, <1>9 DEF IInv

\* What a history holds once a datagram is fresher by step.
LEMMA ShiftedHolds ==
    ASSUME Acks!Assumptions, NEW bits \in SUBSET (0 .. Depth - 1), NEW step \in Nat, step > 0,
           NEW j \in Acks!Shifted(bits, step)
    PROVE  /\ j \in 0 .. Depth - 1
           /\ j = step - 1 \/ j - step \in bits
<1>1. Depth \in Nat
  BY AcksLimits
<1>2. step < Depth
  BY <1>1 DEF Acks!Shifted
<1>3. CASE j = step - 1
  BY <1>1, <1>2, <1>3
<1>4. CASE j # step - 1
  <2>1. PICK i \in bits : i + step < Depth /\ j = i + step
    BY <1>1, <1>2, <1>4 DEF Acks!Shifted
  <2>2. i \in 0 .. Depth - 1
    BY <2>1
  <2>3. j - step = i
    BY <2>1, <2>2
  <2> QED
    BY <1>1, <2>1, <2>2, <2>3
<1> QED
  BY <1>3, <1>4

\* A datagram comes, for the first time or again.
LEMMA ArriveIsSound ==
    ASSUME Acks!Assumptions, IInv, NEW d \in toReceiver, Acks!Arrive(d)
    PROVE  IInv'
<1>1. /\ seen' = seen \cup {d}
      /\ UNCHANGED <<dsent, ring, highest, toReceiver, toSender, tracked,
                     delivered, lost>>
  BY DEF Acks!Arrive
<1>2. dsent \in Nat /\ d \in 1 .. dsent /\ d + Lifetime >= dsent
  BY DEF IInv, Acks!TypeOK, LinkIsYoung
<1>3. Acks!Settled' = Acks!Settled
  BY <1>1 DEF Acks!Settled, Acks!Named, Acks!Distance, Acks!Seq
<1>4. SettledCame'
  BY <1>1, <1>3 DEF IInv, SettledCame, Acks!Seq
<1>5. /\ LinkIsYoung' /\ RingIsRecent'
      /\ Acks!DeliveredCame' /\ Acks!LostWasPassed' /\ Acks!ReportedOnce'
  BY <1>1, <1>3 DEF IInv, LinkIsYoung, RingIsRecent, Acks!DeliveredCame,
                    Acks!LostWasPassed,
                    Acks!ReportedOnce
<1>6. EchoesCame'
  BY <1>1 DEF IInv, EchoesCame, Acks!Seq
<1>7. freshest' \in 0 .. Modulus - 1 /\ history' \subseteq 0 .. Depth - 1 /\ ReceiverKnows'
  <2>1. Acks!Seq(d) \in 0 .. Modulus - 1
    BY <1>2, SeqInRange
  <2>2. CASE seen = {}
    <3>1. freshest = Acks!None
      BY <2>2 DEF IInv, ReceiverKnows
    <3>2. freshest' = Acks!Seq(d) /\ history' = {}
      BY <3>1 DEF Acks!Arrive
    <3>3. seen' = {d}
      BY <1>1, <2>2
    <3> QED
      BY <1>2, <2>1, <3>2, <3>3 DEF ReceiverKnows, Acks!Seq
  <2>3. CASE seen # {}
    <3>1. PICK n \in seen :
             /\ n \in 1 .. dsent /\ dsent <= n + Silence
             /\ \A e \in seen : e <= n
             /\ freshest = Acks!Seq(n) /\ freshest # Acks!None
             /\ \A i \in history : n - 1 - i \in seen
      BY <2>3, NewestCame
    <3>2. history \subseteq 0 .. Depth - 1 /\ seen \subseteq 1 .. dsent
      BY DEF IInv, Acks!TypeOK
    <3>3. /\ 2 * (d - n) < Modulus /\ 2 * (n - d) < Modulus
          /\ -Modulus < d - n /\ d - n < Modulus
          /\ -Modulus < n - d /\ n - d < Modulus
      BY <1>2, <3>1, AcksLimits
    <3>4. Acks!Fresher(Acks!Seq(d), freshest) <=> d > n
      BY <1>2, <3>1, <3>3, FresherIs
    <3>5. CASE d > n
      <4>1. Acks!Distance(Acks!Seq(d), freshest) = d - n
        BY <1>2, <3>1, <3>3, <3>5, DistanceIs
      <4>2. freshest' = Acks!Seq(d) /\ history' = Acks!Shifted(history, d - n)
        BY <3>1, <3>4, <3>5, <4>1 DEF Acks!Arrive
      <4>3. d - n \in Nat /\ d - n > 0
        BY <1>2, <3>1, <3>5
      <4>4. ASSUME NEW j \in history'
            PROVE  j \in 0 .. Depth - 1 /\ d - 1 - j \in seen'
        <5>1. j \in 0 .. Depth - 1 /\ (j = (d - n) - 1 \/ j - (d - n) \in history)
          BY <3>2, <4>2, <4>3, ShiftedHolds
        <5>2. CASE j = (d - n) - 1
          <6>1. d - 1 - j = n
            BY <1>2, <3>1, <5>2
          <6> QED
            BY <1>1, <5>1, <6>1
        <5>3. CASE j - (d - n) \in history
          <6>1. n - 1 - (j - (d - n)) \in seen
            BY <3>1, <5>3
          <6>2. n - 1 - (j - (d - n)) = d - 1 - j
            BY <1>2, <3>1, <5>1, AcksLimits
          <6> QED
            BY <1>1, <5>1, <6>1, <6>2
        <5> QED
          BY <5>1, <5>2, <5>3
      <4>5. \A e \in seen' : e <= d
        BY <1>1, <1>2, <3>1, <3>2, <3>5
      <4>6. d \in seen' /\ freshest' = Acks!Seq(d)'
        BY <1>1, <4>2 DEF Acks!Seq
      <4> QED
        BY <2>1, <4>2, <4>4, <4>5, <4>6 DEF ReceiverKnows
    <3>6. CASE ~(d > n)
      <4>1. Acks!Distance(freshest, Acks!Seq(d)) = n - d
        BY <1>2, <3>1, <3>3, <3>6, DistanceIs
      <4>2. freshest' = freshest /\ history' = Acks!Recalled(Acks!Seq(d))
        BY <3>1, <3>4, <3>6 DEF Acks!Arrive
      <4>3. \A j \in history' : j \in history \/ (j = n - d - 1 /\ n - d \in 1 .. Depth)
        BY <4>1, <4>2 DEF Acks!Recalled
      <4>4. ASSUME NEW j \in history'
            PROVE  j \in 0 .. Depth - 1 /\ n - 1 - j \in seen'
        <5>1. CASE j \in history
          BY <1>1, <3>1, <3>2, <5>1
        <5>2. CASE j = n - d - 1 /\ n - d \in 1 .. Depth
          <6>1. n - 1 - j = d
            BY <1>2, <3>1, <5>2
          <6>2. j \in 0 .. Depth - 1
            BY <1>2, <3>1, <5>2, AcksLimits
          <6> QED
            BY <1>1, <6>1, <6>2
        <5> QED
          BY <4>3, <5>1, <5>2
      <4>5. \A e \in seen' : e <= n
        BY <1>1, <1>2, <3>1, <3>6
      <4>6. n \in seen' /\ freshest' = Acks!Seq(n)'
        BY <1>1, <3>1, <4>2 DEF Acks!Seq
      <4>7. freshest' \in 0 .. Modulus - 1
        BY <3>1, <4>2, SeqInRange
      <4> QED
        BY <4>4, <4>5, <4>6, <4>7 DEF ReceiverKnows
    <3> QED
      BY <3>5, <3>6
  <2> QED
    BY <2>2, <2>3
<1>8. Acks!TypeOK'
  <2>1. (seen \cup tracked \cup delivered \cup lost)' \subseteq 1 .. dsent'
    BY <1>1, <1>2 DEF IInv, Acks!TypeOK
  <2> QED
    BY <1>1, <1>7, <2>1 DEF IInv, Acks!TypeOK
<1> QED
  BY <1>4, <1>5, <1>6, <1>7, <1>8 DEF IInv

\* An echo says what the receiver knows.
LEMMA EchoIsSound ==
    ASSUME Acks!Assumptions, IInv, Acks!Echo
    PROVE  IInv'
<1> DEFINE echo == [ack |-> freshest, history |-> history, at |-> Acks!Named(freshest)]
<1>1. /\ freshest # Acks!None /\ toSender' = toSender \cup {echo}
      /\ UNCHANGED <<dsent, ring, highest, toReceiver, freshest, history, seen,
                     tracked, delivered, lost>>
  BY DEF Acks!Echo
<1>2. seen # {}
  BY <1>1 DEF IInv, ReceiverKnows
<1>3. PICK n \in seen :
         /\ n \in 1 .. dsent /\ dsent <= n + Silence
         /\ freshest = Acks!Seq(n) /\ Acks!Named(freshest) = n
         /\ \A i \in history : n - 1 - i \in seen
  BY <1>2, NewestCame
<1>4. echo.ack = Acks!Seq(n) /\ echo.at = n /\ echo.history = history
  BY <1>3
<1> HIDE DEF echo
<1>5. EchoesCame'
  <2> SUFFICES ASSUME NEW e \in toSender'
               PROVE  /\ e.at \in seen /\ e.ack = Acks!Seq(e.at)
                      /\ e.at + Lifetime >= dsent \/ e.at + Silence >= dsent
                      /\ \A i \in e.history : e.at - 1 - i \in seen
    BY <1>1 DEF EchoesCame, Acks!Seq
  <2>1. CASE e \in toSender
    BY <2>1 DEF IInv, EchoesCame
  <2>2. CASE e = echo
    <3>1. n + Silence >= dsent
      BY <1>3, AcksLimits DEF IInv, Acks!TypeOK
    <3> QED
      BY <1>3, <1>4, <2>2, <3>1
  <2> QED
    BY <1>1, <2>1, <2>2
<1>6. Acks!TypeOK'
  <2>1. Acks!Seq(n) \in 0 .. Modulus - 1
    BY <1>3, SeqInRange
  <2>2. history \subseteq 0 .. Depth - 1
    BY DEF IInv, Acks!TypeOK
  <2>3. \A e \in toSender' : /\ e.ack \in 0 .. Modulus - 1
                             /\ e.history \subseteq 0 .. Depth - 1
    BY <1>1, <1>4, <2>1, <2>2 DEF IInv, Acks!TypeOK
  <2> QED
    BY <1>1, <2>3 DEF IInv, Acks!TypeOK
<1>7. Acks!Settled' = Acks!Settled
  BY <1>1 DEF Acks!Settled, Acks!Named, Acks!Distance, Acks!Seq
<1>8. SettledCame' /\ ReceiverKnows'
  BY <1>1, <1>7 DEF IInv, SettledCame, ReceiverKnows, Acks!Seq
<1>9. /\ LinkIsYoung' /\ RingIsRecent'
      /\ Acks!DeliveredCame' /\ Acks!LostWasPassed' /\ Acks!ReportedOnce'
  BY <1>1, <1>7 DEF IInv, LinkIsYoung, RingIsRecent, Acks!DeliveredCame,
                    Acks!LostWasPassed,
                    Acks!ReportedOnce
<1> QED
  BY <1>5, <1>6, <1>8, <1>9 DEF IInv

\* An echo that is taken names a later datagram than the last one settled, so few
\* were sent past it.
LEMMA EchoAdvances ==
    ASSUME Acks!Assumptions, IInv, NEW e \in toSender,
           highest = Acks!None \/ Acks!Fresher(e.ack, highest)
    PROVE  dsent <= e.at + Silence
<1>1. /\ e.at \in seen /\ e.at \in 1 .. dsent /\ e.ack = Acks!Seq(e.at)
      /\ e.at + Lifetime >= dsent \/ e.at + Silence >= dsent
  BY EchoNames DEF IInv, EchoesCame
<1>2. dsent \in Nat /\ Acks!Settled \in Nat /\ dsent <= Acks!Settled + Silence
  BY DEF IInv, Acks!TypeOK, SettledCame
<1>3. CASE highest = Acks!None
  <2>1. Acks!Settled = 0
    BY <1>3 DEF Acks!Settled
  <2> QED
    BY <1>1, <1>2, <2>1, AcksLimits
<1>4. CASE highest # Acks!None
  <2>1. highest = Acks!Seq(Acks!Settled) /\ Acks!Settled \in 1 .. dsent
    BY <1>4 DEF IInv, SettledCame, Acks!TypeOK
  <2>2. 2 * (e.at - Acks!Settled) < Modulus /\ 2 * (Acks!Settled - e.at) < Modulus
    BY <1>1, <1>2, <2>1, AcksLimits
  <2>3. e.at > Acks!Settled
    BY <1>1, <1>4, <2>1, <2>2, FresherIs
  <2> QED
    BY <1>1, <1>2, <2>1, <2>3, AcksLimits
<1> QED
  BY <1>3, <1>4

\* What an echo that is taken reports delivered came, and what it gives up was
\* passed by more than its history.
LEMMA EchoSettles ==
    ASSUME Acks!Assumptions, IInv, NEW e \in toSender,
           highest = Acks!None \/ Acks!Fresher(e.ack, highest),
           NEW d \in Waiting
    PROVE  /\ d \in 1 .. dsent
           /\ Acks!Seq(d) \in Acks!Reported(e) => d \in seen
           /\ Acks!Passed(e.ack, d) <=> e.at > d + Depth
<1>1. /\ e.at \in seen /\ e.at \in 1 .. dsent
      /\ e.ack = Acks!Seq(e.at) /\ dsent - e.at < Modulus
      /\ Acks!Reported(e) = {Acks!Seq(e.at)} \cup {Acks!Seq(e.at - 1 - i) : i \in e.history}
      /\ \A i \in e.history : i \in 0 .. Depth - 1 /\ e.at - 1 - i \in seen
  BY EchoNames
<1>2. dsent \in Nat /\ Acks!Settled \in Nat /\ dsent <= Acks!Settled + Silence
  BY DEF IInv, Acks!TypeOK, SettledCame
<1>3. d \in 1 .. dsent /\ d + Depth >= Acks!Settled
  <2>1. PICK s \in 0 .. Ring - 1 : d = ring[s] /\ d # 0
    BY DEF Waiting
  <2>2. ring[s] \in 0 .. dsent
    BY DEF IInv, Acks!TypeOK
  <2> QED
    BY <1>2, <2>1, <2>2 DEF IInv, RingIsRecent
<1>4. dsent <= e.at + Silence
  BY EchoAdvances
<1>5. Acks!Seq(d) \in Acks!Reported(e) => d \in seen
  <2> SUFFICES ASSUME Acks!Seq(d) \in Acks!Reported(e)
               PROVE  d \in seen
    OBVIOUS
  <2>1. CASE Acks!Seq(d) = Acks!Seq(e.at)
    <3>1. -Modulus < d - e.at /\ d - e.at < Modulus
      BY <1>1, <1>2, <1>3, <1>4, AcksLimits
    <3>2. d = e.at
      BY <1>1, <1>3, <2>1, <3>1, SameSeq
    <3> QED
      BY <1>1, <3>2
  <2>2. CASE Acks!Seq(d) # Acks!Seq(e.at)
    <3>1. PICK i \in e.history : Acks!Seq(d) = Acks!Seq(e.at - 1 - i)
      BY <1>1, <2>2
    <3>2. i \in 0 .. Depth - 1 /\ e.at - 1 - i \in seen
      BY <1>1
    <3>3. e.at - 1 - i \in 1 .. dsent
      BY <3>2 DEF IInv, Acks!TypeOK
    <3>4. -Modulus < d - (e.at - 1 - i) /\ d - (e.at - 1 - i) < Modulus
      BY <1>1, <1>2, <1>3, <1>4, <3>2, AcksLimits
    <3>5. d = e.at - 1 - i
      BY <1>3, <3>1, <3>3, <3>4, SameSeq
    <3> QED
      BY <3>2, <3>5
  <2> QED
    BY <2>1, <2>2
<1>6. Acks!Passed(e.ack, d) <=> e.at > d + Depth
  <2>1. -Modulus < e.at - d /\ e.at - d < Modulus
    BY <1>1, <1>2, <1>3, <1>4, AcksLimits
  <2>2. Acks!Distance(e.ack, Acks!Seq(d)) = IF e.at >= d THEN e.at - d ELSE e.at - d + Modulus
    BY <1>1, <1>3, <2>1, DistanceIs
  <2>3. CASE e.at >= d
    <3>1. 2 * (e.at - d) < Modulus
      BY <1>1, <1>2, <1>3, <2>3, AcksLimits
    <3> QED
      BY <1>1, <1>3, <2>2, <2>3, <3>1, AcksLimits DEF Acks!Passed
  <2>4. CASE e.at < d
    <3>1. ~(2 * (e.at - d + Modulus) < Modulus)
      BY <1>1, <1>2, <1>3, <1>4, <2>4, AcksLimits
    <3> QED
      BY <1>1, <1>3, <2>2, <2>4, <3>1, AcksLimits DEF Acks!Passed
  <2> QED
    BY <1>1, <1>3, <2>3, <2>4
<1> QED
  BY <1>3, <1>5, <1>6

\* The sender takes an echo.
LEMMA HearEchoIsSound ==
    ASSUME Acks!Assumptions, IInv, NEW e \in toSender, Acks!HearEcho(e)
    PROVE  IInv'
<1> DEFINE taken == {d \in Waiting : Acks!Seq(d) \in Acks!Reported(e)}
           past == {d \in Waiting \ taken : Acks!Passed(e.ack, d)}
<1>1. /\ highest = Acks!None \/ Acks!Fresher(e.ack, highest)
      /\ highest' = e.ack
      /\ delivered' = delivered \cup taken
      /\ lost' = lost \cup past
      /\ ring' = [s \in 0 .. Ring - 1 |->
                     IF ring[s] \in taken \cup past THEN 0 ELSE ring[s]]
      /\ UNCHANGED <<dsent, toReceiver, freshest, history, toSender, seen, tracked>>
  BY DEF Acks!HearEcho, Waiting
<1>2. /\ e.at \in seen /\ e.at \in 1 .. dsent
      /\ e.ack = Acks!Seq(e.at) /\ e.ack # Acks!None
      /\ dsent - e.at < Modulus
  BY EchoNames
<1>3. \A d \in Waiting : /\ d \in 1 .. dsent
                         /\ Acks!Seq(d) \in Acks!Reported(e) => d \in seen
                         /\ Acks!Passed(e.ack, d) <=> e.at > d + Depth
  BY <1>1, EchoSettles
<1>4. dsent \in Nat /\ Acks!Settled \in Nat /\ dsent <= Acks!Settled + Silence
  BY DEF IInv, Acks!TypeOK, SettledCame
<1>5. taken \subseteq Waiting /\ past \subseteq Waiting /\ taken \cap past = {}
  OBVIOUS
<1>6. \A d \in taken : d \in seen
  BY <1>3
<1>7. \A d \in past : e.at > d + Depth
  BY <1>3
<1>8. \A d \in Waiting : d \notin taken \cup past => ~Acks!Passed(e.ack, d)
  OBVIOUS
<1> HIDE DEF taken, past
<1>9. Acks!Settled' = e.at
  <2>1. dsent - Acks!Distance(Acks!Seq(dsent), Acks!Seq(e.at)) = e.at
    BY <1>2, <1>4, NameIs
  <2>2. Acks!Settled' = dsent - Acks!Distance(Acks!Seq(dsent), e.ack)
    BY <1>1, <1>2, Zenon DEF Acks!Settled, Acks!Named, Acks!Distance, Acks!Seq
  <2> QED
    BY <1>2, <2>1, <2>2, Zenon
<1>10. SettledCame'
  <2>1. dsent <= e.at + Silence
    BY <1>1, EchoAdvances
  <2>2. e.at \in Nat
    BY <1>2
  <2> QED
    BY <1>1, <1>2, <1>9, <2>1, <2>2 DEF SettledCame, Acks!Seq
<1>11. \A s \in 0 .. Ring - 1 : ring'[s] # 0 => ring'[s] = ring[s] /\ ring[s] \notin taken \cup past
  BY <1>1
<1>12. RingIsRecent'
  <2> SUFFICES ASSUME NEW s \in 0 .. Ring - 1, ring'[s] # 0
               PROVE  ring'[s] + Depth >= e.at
    BY <1>9 DEF RingIsRecent
  <2>1. ring'[s] = ring[s] /\ ring[s] \in Waiting /\ ring[s] \notin taken \cup past
    BY <1>11 DEF Waiting
  <2>2. ~(e.at > ring[s] + Depth) /\ ring[s] \in 1 .. dsent
    BY <1>3, <1>8, <2>1
  <2> QED
    BY <1>2, <2>1, <2>2, AcksLimits
<1>13. Acks!ReportedOnce'
  <2>1. Waiting' = Waiting \ (taken \cup past)
    <3>1. \A s \in 0 .. Ring - 1 :
             ring'[s] = IF ring[s] \in taken \cup past THEN 0 ELSE ring[s]
      BY <1>1
    <3> QED
      BY <3>1 DEF Waiting
  <2>2. tracked = Waiting \cup delivered \cup lost
        /\ Waiting \cap (delivered \cup lost) = {}
        /\ delivered \cap lost = {}
    BY DEF IInv, Acks!ReportedOnce, Waiting
  <2>3. tracked' = Waiting' \cup delivered' \cup lost'
        /\ Waiting' \cap (delivered' \cup lost') = {}
        /\ delivered' \cap lost' = {}
    BY <1>1, <1>5, <2>1, <2>2
  <2> QED
    BY <2>3 DEF Acks!ReportedOnce, Waiting
<1>14. Acks!DeliveredCame'
  BY <1>1, <1>6 DEF IInv, Acks!DeliveredCame
<1>15. Acks!LostWasPassed'
  <2>1. \A d \in past : \E f \in seen : f > d + Depth
    BY <1>2, <1>7
  <2> QED
    BY <1>1, <2>1 DEF IInv, Acks!LostWasPassed
<1>16. LinkIsYoung' /\ EchoesCame' /\ ReceiverKnows'
  BY <1>1 DEF IInv, LinkIsYoung, EchoesCame, ReceiverKnows, Acks!Seq
<1>17. Acks!TypeOK'
  <2>1. highest' \in 0 .. Modulus - 1
    BY <1>1, <1>2, SeqInRange
  <2>2. ring' \in [0 .. Ring - 1 -> 0 .. dsent]
    <3>1. ring \in [0 .. Ring - 1 -> 0 .. dsent] /\ 0 \in 0 .. dsent
      BY <1>4 DEF IInv, Acks!TypeOK
    <3> QED
      BY <1>1, <3>1
  <2>3. (seen \cup tracked \cup delivered \cup lost)' \subseteq 1 .. dsent'
    <3>1. taken \cup past \subseteq 1 .. dsent
      BY <1>3, <1>5
    <3> QED
      BY <1>1, <3>1 DEF IInv, Acks!TypeOK
  <2> QED
    BY <1>1, <2>1, <2>2, <2>3 DEF IInv, Acks!TypeOK
<1> QED
  BY <1>10, <1>12, <1>13, <1>14, <1>15, <1>16, <1>17 DEF IInv

\* The link loses.
LEMMA AcksLoseIsSound ==
    ASSUME Acks!Assumptions, IInv, Acks!Lose
    PROVE  IInv'
<1>1. /\ toReceiver' \subseteq toReceiver /\ toSender' \subseteq toSender
      /\ UNCHANGED <<dsent, ring, highest, freshest, history, seen, tracked,
                     delivered, lost>>
  BY DEF Acks!Lose
<1>2. Acks!Settled' = Acks!Settled
  BY <1>1 DEF Acks!Settled, Acks!Named, Acks!Distance, Acks!Seq
<1>3. Acks!TypeOK'
  BY <1>1 DEF IInv, Acks!TypeOK
<1>4. LinkIsYoung' /\ EchoesCame' /\ ReceiverKnows'
  BY <1>1 DEF IInv, LinkIsYoung, EchoesCame, ReceiverKnows, Acks!Seq
<1>5. /\ SettledCame' /\ RingIsRecent'
      /\ Acks!DeliveredCame' /\ Acks!LostWasPassed' /\ Acks!ReportedOnce'
  BY <1>1, <1>2 DEF IInv, SettledCame, Acks!Seq, RingIsRecent, Acks!DeliveredCame,
                    Acks!LostWasPassed,
                    Acks!ReportedOnce
<1> QED
  BY <1>3, <1>4, <1>5 DEF IInv

LEMMA StutterIsSound ==
    ASSUME IInv, UNCHANGED Acks!vars
    PROVE  IInv'
<1>1. Acks!Settled' = Acks!Settled
  BY DEF Acks!vars, Acks!Settled, Acks!Named, Acks!Distance, Acks!Seq
<1>2. Acks!TypeOK' /\ LinkIsYoung' /\ EchoesCame' /\ ReceiverKnows'
  BY DEF Acks!vars, IInv, Acks!TypeOK, LinkIsYoung, EchoesCame, ReceiverKnows, Acks!Seq
<1>3. /\ SettledCame' /\ RingIsRecent'
      /\ Acks!DeliveredCame' /\ Acks!LostWasPassed' /\ Acks!ReportedOnce'
  BY <1>1 DEF Acks!vars, IInv, SettledCame, Acks!Seq, RingIsRecent, Acks!DeliveredCame,
                    Acks!LostWasPassed,
              Acks!ReportedOnce
<1> QED
  BY <1>2, <1>3 DEF IInv

-----------------------------------------------------------------------------
(* The reports: the theorem. *)

LEMMA AcksStepIsSound ==
    ASSUME Acks!Assumptions, IInv, [Acks!Next]_(Acks!vars)
    PROVE  IInv'
<1>1. CASE Acks!Send
  BY <1>1, AcksSendIsSound
<1>2. CASE Acks!SendBare
  BY <1>2, SendBareIsSound
<1>3. CASE \E d \in toReceiver : Acks!Arrive(d)
  BY <1>3, ArriveIsSound
<1>4. CASE Acks!Echo
  BY <1>4, EchoIsSound
<1>5. CASE \E e \in toSender : Acks!HearEcho(e)
  BY <1>5, HearEchoIsSound
<1>6. CASE Acks!Lose
  BY <1>6, AcksLoseIsSound
<1>7. CASE UNCHANGED Acks!vars
  BY <1>7, StutterIsSound
<1> QED
  BY <1>1, <1>2, <1>3, <1>4, <1>5, <1>6, <1>7 DEF Acks!Next

\* The inductive invariant names the newest datagram that came, as the property
\* chooses it.
LEMMA InvariantSays ==
    ASSUME IInv
    PROVE  Acks!EchoesAreTrue
<1>1. Acks!EchoIsTrue
  <2>1. CASE seen = {}
    BY <2>1 DEF IInv, ReceiverKnows, Acks!EchoIsTrue
  <2>2. CASE seen # {}
    <3> DEFINE latest == CHOOSE d \in seen : \A e \in seen : e <= d
    <3>1. PICK n \in seen : /\ \A e \in seen : e <= n
                            /\ freshest = Acks!Seq(n)
                            /\ \A i \in history : n - 1 - i \in seen
      BY <2>2 DEF IInv, ReceiverKnows
    <3>2. latest \in seen /\ \A e \in seen : e <= latest
      BY <3>1, Zenon
    <3> HIDE DEF latest
    <3>3. latest = n
      BY <3>1, <3>2 DEF IInv, Acks!TypeOK
    <3>4. freshest = Acks!Seq(latest) /\ \A i \in history : latest - 1 - i \in seen
      BY <3>1, <3>3
    <3> QED
      BY <2>2, <3>4 DEF Acks!EchoIsTrue, latest
  <2> QED
    BY <2>1, <2>2
<1> QED
  BY <1>1 DEF IInv, Acks!EchoesAreTrue

\* Whatever the link loses, repeats and reorders, an echo says only what came, what
\* is reported delivered came, what is reported lost can no longer be reported
\* delivered, and each datagram the ring took is reported once (datagram_seq_book.cpp,
\* wire/ack_book.cpp).
THEOREM EchoesTrue ==
    ASSUME Acks!Assumptions
    PROVE  Acks!Spec => []Acks!EchoesAreTrue
<1>1. Acks!Init => IInv
  BY AcksInitIsSound
<1>2. IInv /\ [Acks!Next]_(Acks!vars) => IInv'
  BY AcksStepIsSound
<1>3. IInv => Acks!EchoesAreTrue
  BY InvariantSays
<1> QED
  BY <1>1, <1>2, <1>3, PTL DEF Acks!Spec

=============================================================================

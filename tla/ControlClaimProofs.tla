------------------------- MODULE ControlClaimProofs -------------------------
(***************************************************************************)
(* Proofs about ControlClaim for every number of peers, requests, writes and *)
(* hides: the copies agree with what was decided, whatever they missed; and  *)
(* while no copy is freed, a request is answered by the decision about       *)
(* itself, and a claim resolves where its peer is in charge.                 *)
(***************************************************************************)
EXTENDS ControlClaim, TLAPS, SequenceTheorems, WellFoundedInduction

-----------------------------------------------------------------------------
(* Types. *)

Kinds == {"claim", "release"}
HoldNames == {"none", "soft", "exclusive"}
States == {"pending", "ok", "refused", "timeout", "gone"}
Outcomes == {"granted", "unauthorized", "unavailable"}

Waiting == [op : Nat, kind : Kinds, ask : Nat]
Request == [op : Nat, kind : Kinds, hold : HoldNames, successor : Controllers, ask : Nat]
Asked == [peer : Peers, kind : Kinds, whose : {"game", "copy"}, state : States, answer : Nat]
Entries == [controller : Controllers, tenure : Nat, hold : HoldNames, by : Nat]

ApplyMessage ==
    [at : {"apply"}, controller : Controllers, revision : Nat, moved : BOOLEAN,
     hold : HoldNames, op : Nat, outcome : Outcomes, ask : Nat]
SpawnMessage == [at : {"spawn"}, seed : Decision]
HideMessage == [at : {"hide"}]
Message == ApplyMessage \cup SpawnMessage \cup HideMessage

Typed ==
    /\ control \in Decision /\ shown \subseteq Peers
    /\ copy \in [Peers -> Decision \cup {NoCopy}]
    /\ lastOp \in [Peers -> Nat]
    /\ pending \in [Peers -> Seq(Waiting)]
    /\ up \in [Peers -> Seq(Request)]
    /\ down \in [Peers -> Seq(Message)]
    /\ asked \in Seq(Asked)
    /\ decided \in Seq(Entries) /\ Len(decided) = control.revision
    /\ {writes, hides} \subseteq Nat

-----------------------------------------------------------------------------
(* A copy at revision w, which is 0 for no copy, and the messages it has yet  *)
(* to read, of decisions d.                                                   *)

\* What is held is what was decided at its revision.
Agrees(d, held) ==
    /\ held \in Decision
    /\ held.revision \in 1 .. Len(d)
    /\ LET was == d[held.revision] IN
        /\ held.controller = was.controller /\ held.hold = was.hold
        /\ held.tenure = was.tenure

\* The revision of the copy once it has read m.
After(w, m) ==
    CASE m.at = "hide" -> 0
      [] m.at = "spawn" -> m.seed.revision
      [] OTHER -> IF w = 0 \/ m.revision <= w THEN w ELSE m.revision

\* What the copy takes from m is what was decided.
Sound(d, w, m) ==
    /\ m.at = "spawn" => Agrees(d, m.seed)
    /\ m.at = "apply" /\ w # 0 /\ w < m.revision =>
        /\ m.revision \in 1 .. Len(d)
        /\ m.controller = d[m.revision].controller /\ m.hold = d[m.revision].hold
        /\ d[m.revision].tenure = IF m.moved THEN m.revision ELSE d[w].tenure

\* Message by message, q leads the copy from revision w to revision last.
Leads(d, q, w, last) ==
    \E seen \in [0 .. Len(q) -> Nat] :
        /\ seen[0] = w /\ seen[Len(q)] = last
        /\ \A i \in 1 .. Len(q) : /\ seen[i] = After(seen[i - 1], q[i])
                                  /\ Sound(d, seen[i - 1], q[i])

\* More was decided since.
Extends(d, e) ==
    /\ d \in Seq(Entries) /\ e \in Seq(Entries)
    /\ Len(d) <= Len(e)
    /\ \A r \in 1 .. Len(d) : e[r] = d[r]

Standing(p) == IF p \in shown THEN control.revision ELSE 0

\* A copy agrees with what was decided, and what is on its way to it leads it to
\* the decision that stands or, if it is hidden, to no copy.
Follows(p) ==
    /\ copy[p] # NoCopy => Agrees(decided, copy[p])
    /\ Leads(decided, down[p], copy[p].revision, Standing(p))

Agreeing == Agrees(decided, control) /\ \A p \in Peers : Follows(p)

CInv == Typed /\ Agreeing

LEMMA AgreesStill ==
    ASSUME NEW d, NEW e, Extends(d, e), NEW held, Agrees(d, held)
    PROVE  Agrees(e, held)
<1>1. held.revision \in 1 .. Len(e) /\ e[held.revision] = d[held.revision]
  <2>1. Len(d) \in Nat /\ Len(e) \in Nat
    BY LenProperties DEF Extends
  <2> QED
    BY <2>1 DEF Extends, Agrees
<1> QED
  BY <1>1 DEF Agrees

LEMMA SoundStill ==
    ASSUME NEW d, NEW e, Extends(d, e), NEW w \in Nat, NEW m \in Message, Sound(d, w, m)
    PROVE  Sound(e, w, m)
<1>1. m.at = "spawn" => Agrees(e, m.seed)
  BY AgreesStill DEF Sound
<1>2. ASSUME m.at = "apply", w # 0, w < m.revision
      PROVE  /\ m.revision \in 1 .. Len(e)
             /\ m.controller = e[m.revision].controller /\ m.hold = e[m.revision].hold
             /\ e[m.revision].tenure = IF m.moved THEN m.revision ELSE e[w].tenure
  <2>1. Len(d) \in Nat /\ Len(e) \in Nat
    BY LenProperties DEF Extends
  <2>2. m.revision \in 1 .. Len(d) /\ w \in 1 .. Len(d)
    BY <1>2, <2>1 DEF Sound
  <2>3. e[m.revision] = d[m.revision] /\ e[w] = d[w] /\ m.revision \in 1 .. Len(e)
    BY <2>1, <2>2 DEF Extends
  <2> QED
    BY <1>2, <2>3 DEF Sound
<1> QED
  BY <1>1, <1>2 DEF Sound

LEMMA LeadsStill ==
    ASSUME NEW d, NEW e, Extends(d, e), NEW q \in Seq(Message), NEW w, NEW last,
           Leads(d, q, w, last)
    PROVE  Leads(e, q, w, last)
<1>1. PICK seen \in [0 .. Len(q) -> Nat] :
            /\ seen[0] = w /\ seen[Len(q)] = last
            /\ \A i \in 1 .. Len(q) : /\ seen[i] = After(seen[i - 1], q[i])
                                      /\ Sound(d, seen[i - 1], q[i])
  BY DEF Leads
<1>2. ASSUME NEW i \in 1 .. Len(q) PROVE Sound(e, seen[i - 1], q[i])
  <2>1. Len(q) \in Nat /\ i - 1 \in 0 .. Len(q) /\ q[i] \in Message
    BY <1>2
  <2>2. seen[i - 1] \in Nat
    BY <1>1, <2>1
  <2> QED
    BY <1>1, <1>2, <2>1, <2>2, SoundStill
<1> QED
  BY <1>1, <1>2 DEF Leads

LEMMA LeadsNowhere ==
    ASSUME NEW d, NEW w \in Nat
    PROVE  Leads(d, <<>>, w, w)
<1> DEFINE seen == [i \in 0 .. 0 |-> w]
<1>1. Len(<<>>) = 0 /\ seen \in [0 .. 0 -> Nat] /\ seen[0] = w
  OBVIOUS
<1>2. 1 .. 0 = {}
  OBVIOUS
<1> QED
  BY <1>1, <1>2 DEF Leads

\* A message is sent.
LEMMA LeadsOn ==
    ASSUME NEW d, NEW q \in Seq(Message), NEW w, NEW last \in Nat, Leads(d, q, w, last),
           NEW m \in Message, Sound(d, last, m)
    PROVE  Leads(d, Append(q, m), w, After(last, m))
<1>1. PICK seen \in [0 .. Len(q) -> Nat] :
            /\ seen[0] = w /\ seen[Len(q)] = last
            /\ \A i \in 1 .. Len(q) : /\ seen[i] = After(seen[i - 1], q[i])
                                      /\ Sound(d, seen[i - 1], q[i])
  BY DEF Leads
<1>2. After(last, m) \in Nat
  <2>1. CASE m \in ApplyMessage
    BY <2>1 DEF ApplyMessage, After
  <2>2. CASE m \in SpawnMessage
    BY <2>2 DEF SpawnMessage, Decision, After
  <2>3. CASE m \in HideMessage
    BY <2>3 DEF HideMessage, After
  <2> QED
    BY <2>1, <2>2, <2>3 DEF Message
<1> DEFINE n == Len(q) + 1
           next == [i \in 0 .. n |-> IF i = n THEN After(last, m) ELSE seen[i]]
<1>3. Len(q) \in Nat /\ n \in Nat /\ Len(Append(q, m)) = n
  OBVIOUS
<1>4. next \in [0 .. n -> Nat] /\ next[0] = w /\ next[n] = After(last, m)
  BY <1>1, <1>2, <1>3
<1>5. ASSUME NEW i \in 1 .. n
      PROVE  /\ next[i] = After(next[i - 1], Append(q, m)[i])
             /\ Sound(d, next[i - 1], Append(q, m)[i])
  <2>1. CASE i = n
    <3>1. Append(q, m)[i] = m /\ next[i - 1] = last /\ next[i] = After(last, m)
      BY <1>1, <1>3, <2>1
    <3> QED
      BY <3>1
  <2>2. CASE i # n
    <3>1. i \in 1 .. Len(q)
      BY <1>3, <1>5, <2>2
    <3>2. Append(q, m)[i] = q[i] /\ next[i - 1] = seen[i - 1] /\ next[i] = seen[i]
      BY <1>3, <3>1
    <3> QED
      BY <1>1, <3>1, <3>2
  <2> QED
    BY <2>1, <2>2
<1> HIDE DEF n, next
<1> QED
  BY <1>3, <1>4, <1>5 DEF Leads

\* A message is read.
LEMMA LeadsThence ==
    ASSUME NEW d, NEW q \in Seq(Message), NEW w, NEW last, Leads(d, q, w, last), q # <<>>
    PROVE  /\ Sound(d, w, Head(q))
           /\ Leads(d, Tail(q), After(w, Head(q)), last)
<1>1. PICK seen \in [0 .. Len(q) -> Nat] :
            /\ seen[0] = w /\ seen[Len(q)] = last
            /\ \A i \in 1 .. Len(q) : /\ seen[i] = After(seen[i - 1], q[i])
                                      /\ Sound(d, seen[i - 1], q[i])
  BY DEF Leads
<1> DEFINE n == Len(q) - 1
           next == [i \in 0 .. n |-> seen[i + 1]]
<1>2. Len(q) \in Nat \ {0} /\ n \in Nat /\ Len(Tail(q)) = n /\ Head(q) = q[1]
  OBVIOUS
<1>3. Sound(d, w, q[1]) /\ seen[1] = After(w, q[1])
  <2>1. 1 \in 1 .. Len(q) /\ 1 - 1 = 0
    BY <1>2
  <2> QED
    BY <1>1, <2>1
<1>4. next \in [0 .. n -> Nat] /\ next[0] = After(w, q[1]) /\ next[n] = last
  BY <1>1, <1>2, <1>3
<1>5. ASSUME NEW i \in 1 .. n
      PROVE  /\ next[i] = After(next[i - 1], Tail(q)[i])
             /\ Sound(d, next[i - 1], Tail(q)[i])
  <2>1. i + 1 \in 1 .. Len(q) /\ (i + 1) - 1 = i /\ (i - 1) + 1 = i
    BY <1>2, <1>5
  <2>2. Tail(q)[i] = q[i + 1] /\ next[i] = seen[i + 1] /\ next[i - 1] = seen[i]
    BY <1>2, <1>5, <2>1
  <2> QED
    BY <1>1, <2>1, <2>2
<1> HIDE DEF n, next
<1> QED
  BY <1>2, <1>3, <1>4, <1>5 DEF Leads

-----------------------------------------------------------------------------
(* The server decides. *)

\* What p is told of a decision.
Told(p, next, moved, issuer, op, ask) ==
    IF p = issuer THEN Apply(next, moved, op, "granted", ask)
    ELSE Apply(next, moved, 0, "granted", 0)

LEMMA ToldType ==
    ASSUME NEW p, NEW next \in Decision, NEW moved \in BOOLEAN, NEW issuer,
           NEW op \in Nat, NEW ask \in Nat
    PROVE  LET m == Told(p, next, moved, issuer, op, ask)
           IN  /\ m \in ApplyMessage /\ m.controller = next.controller
               /\ m.revision = next.revision /\ m.hold = next.hold
               /\ m.moved = moved /\ m.outcome = "granted"
               /\ m.op = IF p = issuer THEN op ELSE 0
               /\ m.ask = IF p = issuer THEN ask ELSE 0
BY DEF Told, Apply, ApplyMessage, Decision, HoldNames, Outcomes

LEMMA BroadcastTells ==
    ASSUME NEW q \in [Peers -> Seq(Message)], NEW tell \in [Peers -> Message],
           NEW sent, sent = [p \in Peers |-> IF p \in shown THEN Append(q[p], tell[p])
                                                            ELSE q[p]]
    PROVE  sent \in [Peers -> Seq(Message)]
OBVIOUS

\* Where the second of two entries lands.
LEMMA SecondOfTwo ==
    ASSUME NEW S, NEW s \in Seq(S), NEW t \in Seq(S), Len(t) = 2
    PROVE  (s \o t)[Len(s) + 2] = t[2]
<1> DEFINE n == Len(s) + 2
<1>1. n \in 1 .. Len(s) + Len(t) /\ ~(n <= Len(s)) /\ n - Len(s) = 2
  OBVIOUS
<1>2. \A i \in 1 .. Len(s) + Len(t) : (s \o t)[i] = IF i <= Len(s) THEN s[i] ELSE t[i - Len(s)]
  BY ConcatProperties, Zenon
<1> HIDE DEF n
<1>3. (s \o t)[n] = t[2]
  BY <1>1, <1>2, Zenon
<1> QED
  BY <1>3 DEF n

LEMMA DecidedType ==
    ASSUME NEW held \in Decision, NEW c \in Controllers, NEW hold \in HoldNames
    PROVE  /\ Decided(held, c, hold) \in Decision
           /\ Decided(held, c, hold).controller = c
           /\ Decided(held, c, hold).revision = held.revision + 1
           /\ Decided(held, c, hold).tenure =
                  IF c # held.controller THEN held.revision + 1 ELSE held.tenure
BY DEF Decided, Decision, HoldNames

LEMMA EntryType ==
    ASSUME NEW next \in Decision, NEW ask \in Nat
    PROVE  /\ Entry(next, ask) \in Entries
           /\ Entry(next, ask).controller = next.controller
           /\ Entry(next, ask).hold = next.hold
           /\ Entry(next, ask).tenure = next.tenure
BY DEF Entry, Entries, Decision, HoldNames

\* decide_control, whoever asked and wherever a handler hands the entity on.
LEMMA DecideAgrees ==
    ASSUME CInv, NEW c \in Controllers, NEW hold \in HoldNames, NEW issuer,
           NEW op \in Nat, NEW ask \in Nat, NEW on \in Controllers,
           Decide(c, hold, issuer, op, ask, on), UNCHANGED <<shown, copy>>
    PROVE  /\ control' \in Decision /\ decided' \in Seq(Entries)
           /\ Len(decided') = control'.revision
           /\ down' \in [Peers -> Seq(Message)]
           /\ Agreeing'
<1> DEFINE next == Decided(control, c, hold)
           moved == c # control.controller
           last == Decided(next, on, "none")
           flag == TRUE
           r == control.revision
<1>1. /\ control \in Decision /\ decided \in Seq(Entries) /\ Len(decided) = r
      /\ down \in [Peers -> Seq(Message)] /\ r \in 1 .. Len(decided) /\ r \in Nat
      /\ shown \subseteq Peers /\ copy \in [Peers -> Decision \cup {NoCopy}]
      /\ moved \in BOOLEAN /\ decided[r].tenure = control.tenure
  BY DEF CInv, Typed, Agreeing, Agrees, Decision
<1>2. /\ next \in Decision /\ next.controller = c /\ next.revision = r + 1
      /\ next.tenure = IF moved THEN r + 1 ELSE control.tenure
  BY <1>1, DecidedType
<1> HIDE DEF flag
<1>0. flag \in BOOLEAN /\ flag
  BY DEF flag
<1>3. Entry(next, ask) \in Entries
  BY <1>2, EntryType
<1>4. CASE moved /\ on \in HandsOn \ {c}
  <2>1. "none" \in HoldNames
    BY DEF HoldNames
  <2>2. /\ last \in Decision /\ last.controller = on /\ last.revision = r + 2
        /\ last.tenure = r + 2
    <3>1. on # next.controller
      BY <1>2, <1>4
    <3> HIDE DEF next
    <3>2. /\ last \in Decision /\ last.controller = on
          /\ last.revision = next.revision + 1 /\ last.tenure = next.revision + 1
      BY <1>2, <2>1, <3>1, DecidedType
    <3> QED
      BY <1>1, <1>2, <3>2
  <2> DEFINE after == [last EXCEPT !.controller = c]
             mid == broadcast_control(down, last, flag, Server, 0, 0)
  <2>3. /\ control' = last
        /\ decided' = decided \o <<Entry(next, ask), Entry(last, 0)>>
        /\ down' = broadcast_control(mid, after, flag, issuer, op, ask)
    BY <1>4 DEF Decide, flag
  <2>4. after \in Decision /\ after.revision = r + 2
    BY <2>2 DEF Decision
  <2>5. Entry(last, 0) \in Entries /\ Entry(last, 0).controller = last.controller
        /\ Entry(last, 0).hold = last.hold /\ Entry(last, 0).tenure = last.tenure
    BY <2>2, EntryType
  <2> HIDE DEF next, last, after
  <2>6. /\ decided' \in Seq(Entries) /\ Len(decided') = r + 2
        /\ decided'[r + 2] = Entry(last, 0) /\ Extends(decided, decided')
    <3> DEFINE two == <<Entry(next, ask), Entry(last, 0)>>
    <3>1. two \in Seq(Entries) /\ Len(two) = 2 /\ two[2] = Entry(last, 0)
      BY <1>3, <2>5
    <3> HIDE DEF two
    <3>2. decided' = decided \o two
      BY <2>3 DEF two
    <3>3. /\ decided' \in Seq(Entries) /\ Len(decided') = r + 2
      <4>1. /\ decided \in Seq(Entries) /\ Len(decided) = r /\ r \in Nat
        BY <1>1
      <4>2. /\ decided \o two \in Seq(Entries)
            /\ Len(decided \o two) = Len(decided) + Len(two)
        BY <3>1, <4>1, ConcatProperties
      <4>3. Len(decided) + Len(two) = r + 2
        BY <3>1, <4>1
      <4> QED
        BY <3>2, <4>2, <4>3
    <3>4. decided'[r + 2] = two[2]
      <4>1. decided \in Seq(Entries) /\ Len(decided) = r /\ r \in Nat
        BY <1>1
      <4>2. r + 2 \in 1 .. Len(decided) + Len(two) /\ r + 2 > Len(decided)
            /\ (r + 2) - Len(decided) = 2
        BY <3>1, <4>1
      <4>3. (decided \o two)[Len(decided) + 2] = two[2]
        BY <3>1, <4>1, SecondOfTwo
      <4> QED
        BY <3>2, <4>1, <4>3
    <3>5. \A i \in 1 .. Len(decided) : decided'[i] = decided[i]
      <4>1. decided \in Seq(Entries) /\ Len(decided) \in Nat
        BY <1>1
      <4> QED
        BY <3>1, <3>2, <4>1
    <3> QED
      BY <1>1, <3>1, <3>3, <3>4, <3>5 DEF Extends
  <2>7. /\ mid \in [Peers -> Seq(Message)]
        /\ \A p \in Peers : mid[p] = IF p \in shown
                                     THEN Append(down[p], Told(p, last, flag, Server, 0, 0))
                                     ELSE down[p]
    <3>1. flag \in BOOLEAN /\ 0 \in Nat
      BY <1>0
    <3> DEFINE tell == [p \in Peers |-> Told(p, last, flag, Server, 0, 0)]
    <3>2. mid = [p \in Peers |-> IF p \in shown THEN Append(down[p], tell[p]) ELSE down[p]]
      BY DEF broadcast_control, Told, mid
    <3>3. \A p \in Peers : Told(p, last, flag, Server, 0, 0) \in Message
      BY <2>2, <3>1, ToldType DEF Message
    <3>4. tell \in [Peers -> Message] /\ \A p \in Peers : tell[p] = Told(p, last, flag, Server, 0, 0)
      BY <3>3
    <3> HIDE DEF tell, mid
    <3> QED
      BY <1>1, <3>2, <3>4, BroadcastTells
  <2> HIDE DEF mid
  <2>8. /\ down' \in [Peers -> Seq(Message)]
        /\ \A p \in Peers : down'[p] = IF p \in shown
                                       THEN Append(mid[p], Told(p, after, flag, issuer, op, ask))
                                       ELSE mid[p]
    <3>1. flag \in BOOLEAN
      BY <1>0
    <3> DEFINE tell == [p \in Peers |-> Told(p, after, flag, issuer, op, ask)]
    <3>2. down' = [p \in Peers |-> IF p \in shown THEN Append(mid[p], tell[p]) ELSE mid[p]]
      BY <2>3, <2>7 DEF broadcast_control, Told
    <3>3. \A p \in Peers : Told(p, after, flag, issuer, op, ask) \in Message
      BY <2>4, <3>1, ToldType DEF Message
    <3>4. tell \in [Peers -> Message] /\ \A p \in Peers : tell[p] = Told(p, after, flag, issuer, op, ask)
      BY <3>3
    <3> HIDE DEF tell
    <3> QED
      <4>1. down' \in [Peers -> Seq(Message)]
        BY <2>7, <3>2, <3>4, BroadcastTells
      <4>2. \A p \in Peers : down'[p] = IF p \in shown THEN Append(mid[p], tell[p]) ELSE mid[p]
        BY <3>2, Zenon
      <4> QED
        BY <3>4, <4>1, <4>2
  <2>9. Agrees(decided', control')
    <3>1. control'.revision = r + 2 /\ r + 2 \in 1 .. Len(decided')
      BY <1>1, <2>2, <2>3, <2>6
    <3> DEFINE was == decided'[r + 2]
    <3>2. /\ last.controller = was.controller /\ last.hold = was.hold /\ last.tenure = was.tenure
      BY <2>5, <2>6
    <3> HIDE DEF was
    <3>3. control' = last /\ last \in Decision
      BY <2>2, <2>3
    <3> QED
      BY <3>1, <3>2, <3>3 DEF Agrees, was
  <2>10. ASSUME NEW p \in Peers PROVE Follows(p)'
    <3>1. copy'[p] # NoCopy => Agrees(decided', copy'[p])
      BY <2>6, AgreesStill DEF CInv, Agreeing, Follows
    <3>2. Leads(decided', down[p], copy[p].revision, Standing(p))
      BY <1>1, <2>6, LeadsStill DEF CInv, Agreeing, Follows
    <3>3. CASE p \notin shown
      BY <2>7, <2>8, <3>1, <3>2, <3>3 DEF Follows, Standing
    <3>4. CASE p \in shown
      <4> DEFINE m == Told(p, last, flag, Server, 0, 0)
                 n == Told(p, after, flag, issuer, op, ask)
      <4>1. /\ m \in ApplyMessage /\ m.controller = last.controller
            /\ m.revision = r + 2 /\ m.hold = last.hold /\ m.moved = flag
        <5>1. flag \in BOOLEAN /\ 0 \in Nat
          BY <1>0
        <5> QED
          BY <2>2, <5>1, ToldType
      <4>2. n \in ApplyMessage /\ n.revision = r + 2
        <5>1. flag \in BOOLEAN
          BY <1>0
        <5> QED
          BY <2>4, <5>1, ToldType
      <4> HIDE DEF m, n
      <4>3. m \in Message /\ m.at = "apply" /\ n \in Message /\ n.at = "apply"
        BY <4>1, <4>2 DEF Message, ApplyMessage
      <4>4. Standing(p) = r /\ r # 0 /\ Standing(p) \in Nat
        BY <1>1, <3>4 DEF Standing
      <4>5. After(r, m) = r + 2 /\ After(r + 2, n) = r + 2
        BY <1>1, <4>1, <4>2, <4>3, <4>4 DEF After
      <4>6. Sound(decided', r, m)
        BY <1>0, <1>1, <2>2, <2>5, <2>6, <4>1, <4>3 DEF Sound
      <4>7. Sound(decided', r + 2, n)
        BY <1>1, <4>2, <4>3 DEF Sound
      <4>8. Leads(decided', Append(down[p], m), copy[p].revision, r + 2)
        BY <1>1, <3>2, <4>3, <4>4, <4>5, <4>6, LeadsOn
      <4>9. Append(down[p], m) \in Seq(Message)
        BY <1>1, <4>3
      <4>10. Leads(decided', Append(Append(down[p], m), n), copy[p].revision, r + 2)
        <5>1. r + 2 \in Nat
          BY <1>1
        <5> QED
          BY <4>3, <4>5, <4>7, <4>8, <4>9, <5>1, LeadsOn
      <4>11. down'[p] = Append(Append(down[p], m), n)
        BY <2>7, <2>8, <3>4 DEF m, n
      <4>12. Standing(p)' = r + 2
        BY <2>2, <2>3, <3>4 DEF Standing
      <4> QED
        BY <3>1, <4>10, <4>11, <4>12 DEF Follows
    <3> QED
      BY <3>3, <3>4
  <2>11. Agreeing'
    BY <2>9, <2>10 DEF Agreeing
  <2>12. control' \in Decision /\ Len(decided') = control'.revision
    BY <2>2, <2>3, <2>6
  <2> QED
    BY <2>6, <2>8, <2>11, <2>12
<1>5. CASE ~(moved /\ on \in HandsOn \ {c})
  <2>1. /\ control' = next /\ decided' = Append(decided, Entry(next, ask))
        /\ down' = broadcast_control(down, next, moved, issuer, op, ask)
    BY <1>5 DEF Decide
  <2>2. Entry(next, ask).controller = next.controller
        /\ Entry(next, ask).hold = next.hold /\ Entry(next, ask).tenure = next.tenure
    BY <1>2, EntryType
  <2> HIDE DEF next, moved
  <2>3. /\ decided' \in Seq(Entries) /\ Len(decided') = r + 1
        /\ decided'[r + 1] = Entry(next, ask) /\ Extends(decided, decided')
    BY <1>1, <1>3, <2>1 DEF Extends
  <2>4. /\ down' \in [Peers -> Seq(Message)]
        /\ \A p \in Peers : down'[p] = IF p \in shown
                                       THEN Append(down[p], Told(p, next, moved, issuer, op, ask))
                                       ELSE down[p]
    <3> DEFINE tell == [p \in Peers |-> Told(p, next, moved, issuer, op, ask)]
    <3>2. down' = [p \in Peers |-> IF p \in shown THEN Append(down[p], tell[p]) ELSE down[p]]
      BY <1>1, <2>1 DEF broadcast_control, Told
    <3>3. \A p \in Peers : Told(p, next, moved, issuer, op, ask) \in Message
      BY <1>1, <1>2, ToldType DEF Message
    <3>4. tell \in [Peers -> Message] /\ \A p \in Peers : tell[p] = Told(p, next, moved, issuer, op, ask)
      BY <3>3
    <3> HIDE DEF tell
    <3> QED
      BY <1>1, <2>1, <3>2, <3>4, BroadcastTells
  <2>5. Agrees(decided', control')
    BY <1>1, <1>2, <2>1, <2>2, <2>3 DEF Agrees
  <2>6. ASSUME NEW p \in Peers PROVE Follows(p)'
    <3>1. copy'[p] # NoCopy => Agrees(decided', copy'[p])
      BY <2>3, AgreesStill DEF CInv, Agreeing, Follows
    <3>2. Leads(decided', down[p], copy[p].revision, Standing(p))
      BY <1>1, <2>3, LeadsStill DEF CInv, Agreeing, Follows
    <3>3. CASE p \notin shown
      BY <2>4, <3>1, <3>2, <3>3 DEF Follows, Standing
    <3>4. CASE p \in shown
      <4> DEFINE m == Told(p, next, moved, issuer, op, ask)
      <4>1. /\ m \in ApplyMessage /\ m.controller = next.controller
            /\ m.revision = r + 1 /\ m.hold = next.hold /\ m.moved = moved
        BY <1>1, <1>2, ToldType
      <4> HIDE DEF m
      <4>2. m \in Message /\ m.at = "apply"
        BY <4>1 DEF Message, ApplyMessage
      <4>3. Standing(p) = r /\ r # 0 /\ Standing(p) \in Nat
        BY <1>1, <3>4 DEF Standing
      <4>4. After(r, m) = r + 1
        BY <1>1, <4>1, <4>2, <4>3 DEF After
      <4>5. decided'[r].tenure = control.tenure
        BY <1>1, <2>3 DEF Extends
      <4>6. decided'[r + 1].tenure = IF m.moved THEN r + 1 ELSE decided'[r].tenure
        BY <1>2, <2>2, <2>3, <4>1, <4>5
      <4>7. Sound(decided', r, m)
        BY <1>1, <2>2, <2>3, <4>1, <4>2, <4>6 DEF Sound
      <4>8. Leads(decided', Append(down[p], m), copy[p].revision, r + 1)
        BY <1>1, <3>2, <4>2, <4>3, <4>4, <4>7, LeadsOn
      <4>9. down'[p] = Append(down[p], m) /\ Standing(p)' = r + 1
        BY <1>2, <2>1, <2>4, <3>4 DEF Standing, m
      <4> QED
        BY <3>1, <4>8, <4>9 DEF Follows
    <3> QED
      BY <3>3, <3>4
  <2>7. Agreeing'
    BY <2>5, <2>6 DEF Agreeing
  <2>8. control' \in Decision /\ Len(decided') = control'.revision
    BY <1>2, <2>1, <2>3
  <2> QED
    BY <2>3, <2>4, <2>7, <2>8
<1> QED
  BY <1>4, <1>5

-----------------------------------------------------------------------------
(* What is asked, and what becomes of it. *)

\* Requests are added and settle; who asked for what stays.
Keeps(was, is) ==
    /\ is \in Seq(Asked) /\ Len(was) <= Len(is)
    /\ \A k \in 1 .. Len(was) :
        is[k].peer = was[k].peer /\ is[k].kind = was[k].kind /\ is[k].whose = was[k].whose

LEMMA AskedMore ==
    ASSUME NEW was \in Seq(Asked), NEW p \in Peers, NEW kind \in Kinds,
           NEW whose \in {"game", "copy"}
    PROVE  LET is == Append(was, Asking(p, kind, whose))
           IN  /\ Keeps(was, is) /\ Len(is) = Len(was) + 1
               /\ is[Len(was) + 1] = Asking(p, kind, whose)
               /\ \A k \in 1 .. Len(was) : is[k] = was[k]
<1>1. Asking(p, kind, whose) \in Asked
  BY DEF Asking, Asked, States
<1> QED
  BY <1>1 DEF Keeps

\* Some of the requests become what they are settled to.
LEMMA AskedSettle ==
    ASSUME NEW was \in Seq(Asked), NEW gone, NEW state \in States, NEW is,
           is = [k \in 1 .. Len(was) |->
                    IF k \in gone THEN [was[k] EXCEPT !.state = state] ELSE was[k]]
    PROVE  /\ Keeps(was, is) /\ Len(is) = Len(was)
           /\ \A k \in 1 .. Len(was) :
                /\ is[k].answer = was[k].answer
                /\ is[k].state = IF k \in gone THEN state ELSE was[k].state
<1>1. Len(was) \in Nat
  OBVIOUS
<1>2. ASSUME NEW k \in 1 .. Len(was)
      PROVE  /\ is[k] \in Asked /\ is[k].answer = was[k].answer
             /\ is[k].peer = was[k].peer /\ is[k].kind = was[k].kind
             /\ is[k].whose = was[k].whose
             /\ is[k].state = IF k \in gone THEN state ELSE was[k].state
  <2>1. was[k] \in Asked
    OBVIOUS
  <2>2. CASE k \in gone
    <3>1. is[k] = [was[k] EXCEPT !.state = state]
      BY <2>2
    <3> QED
      BY <2>1, <2>2, <3>1 DEF Asked
  <2>3. CASE k \notin gone
    <3>1. is[k] = was[k]
      BY <2>3
    <3> QED
      BY <2>1, <2>3, <3>1
  <2> QED
    BY <2>2, <2>3
<1>3. is = [k \in 1 .. Len(was) |-> is[k]]
  OBVIOUS
<1>4. is \in Seq(Asked) /\ Len(is) = Len(was)
  BY <1>1, <1>2, <1>3
<1>5. Keeps(was, is)
  BY <1>1, <1>2, <1>4 DEF Keeps
<1> QED
  BY <1>2, <1>4, <1>5

LEMMA IssueType ==
    ASSUME Typed, NEW p \in Peers, NEW kind \in Kinds, NEW hold \in HoldNames,
           NEW successor \in Controllers, Issue(p, kind, hold, successor, pending[p])
    PROVE  /\ lastOp' \in [Peers -> Nat] /\ pending' \in [Peers -> Seq(Waiting)]
           /\ up' \in [Peers -> Seq(Request)]
<1> DEFINE ask == Len(asked) + 1
           op == lastOp[p] + 1
           waits == [op |-> op, kind |-> kind, ask |-> ask]
           request == [op |-> op, kind |-> kind, hold |-> hold,
                       successor |-> successor, ask |-> ask]
<1>1. ask \in Nat /\ op \in Nat
  BY DEF Typed
<1>2. waits \in Waiting /\ request \in Request
  BY <1>1 DEF Waiting, Request
<1>3. /\ lastOp' = [lastOp EXCEPT ![p] = op]
      /\ pending' = [pending EXCEPT ![p] = Append(pending[p], waits)]
      /\ up' = [up EXCEPT ![p] = Append(up[p], request)]
  BY DEF Issue, Typed
<1> HIDE DEF waits, request, ask, op
<1> QED
  BY <1>1, <1>2, <1>3 DEF Typed

LEMMA SameAgreeing ==
    ASSUME Agreeing, UNCHANGED <<control, shown, copy, down, decided>>
    PROVE  Agreeing'
BY DEF Agreeing, Follows, Standing

\* The game asks.
LEMMA AsksKeepsCInv ==
    ASSUME Assumptions, CInv, NEW p \in Peers, Asks(p)
    PROVE  CInv' /\ Keeps(asked, asked')
<1>1. ASSUME NEW hold \in Holds, claim_control(p, hold)
      PROVE  CInv' /\ Keeps(asked, asked')
  <2>1. hold \in HoldNames /\ p \in Controllers /\ "claim" \in Kinds
    BY DEF Assumptions, HoldsAssumption, HoldNames, Controllers, Kinds
  <2>2. /\ Issue(p, "claim", hold, p, pending[p])
        /\ asked' = Append(asked, Asking(p, "claim", "game"))
        /\ UNCHANGED <<control, shown, copy, down, decided, writes, hides>>
    BY <1>1 DEF claim_control, used
  <2>3. /\ lastOp' \in [Peers -> Nat] /\ pending' \in [Peers -> Seq(Waiting)]
        /\ up' \in [Peers -> Seq(Request)]
    BY <2>1, <2>2, IssueType DEF CInv
  <2>4. Keeps(asked, asked') /\ asked' \in Seq(Asked)
    BY <2>1, <2>2, AskedMore DEF CInv, Typed, Keeps
  <2>5. Agreeing'
    BY <2>2, SameAgreeing DEF CInv
  <2> QED
    BY <2>2, <2>3, <2>4, <2>5 DEF CInv, Typed
<1>2. ASSUME NEW successor \in Controllers \ {p}, release_control(p, successor)
      PROVE  CInv' /\ Keeps(asked, asked')
  <2>1. "none" \in HoldNames /\ successor \in Controllers /\ "release" \in Kinds
    BY DEF HoldNames, Kinds
  <2>2. /\ Issue(p, "release", "none", successor, pending[p])
        /\ asked' = Append(asked, Asking(p, "release", "game"))
        /\ UNCHANGED <<control, shown, copy, down, decided, writes, hides>>
    BY <1>2 DEF release_control, used
  <2>3. /\ lastOp' \in [Peers -> Nat] /\ pending' \in [Peers -> Seq(Waiting)]
        /\ up' \in [Peers -> Seq(Request)]
    BY <2>1, <2>2, IssueType DEF CInv
  <2>4. Keeps(asked, asked') /\ asked' \in Seq(Asked)
    BY <2>1, <2>2, AskedMore DEF CInv, Typed, Keeps
  <2>5. Agreeing'
    BY <2>2, SameAgreeing DEF CInv
  <2> QED
    BY <2>2, <2>3, <2>4, <2>5 DEF CInv, Typed
<1> QED
  BY <1>1, <1>2 DEF Asks

LEMMA ExpireKeepsCInv ==
    ASSUME CInv, NEW p \in Peers, NEW n \in 1 .. MaxPending, expire_control(p, n)
    PROVE  CInv' /\ Keeps(asked, asked')
<1> DEFINE gone == {k \in 1 .. Len(asked) :
                       \E i \in 1 .. n : SubSeq(pending[p], 1, n)[i].ask = k}
<1>1. /\ n \in 1 .. Len(pending[p])
      /\ pending' = [pending EXCEPT ![p] = SubSeq(pending[p], n + 1, Len(pending[p]))]
      /\ asked' = [k \in 1 .. Len(asked) |->
                      IF \E i \in 1 .. n : SubSeq(pending[p], 1, n)[i].ask = k
                      THEN [asked[k] EXCEPT !.state = "timeout"] ELSE asked[k]]
      /\ UNCHANGED <<control, shown, copy, lastOp, up, down, decided, writes, hides>>
  BY DEF expire_control, links, used, CInv, Typed
<1>2. asked' = [k \in 1 .. Len(asked) |->
                   IF k \in gone THEN [asked[k] EXCEPT !.state = "timeout"] ELSE asked[k]]
  BY <1>1
<1> HIDE DEF gone
<1>3. Keeps(asked, asked')
  <2>1. "timeout" \in States /\ asked \in Seq(Asked)
    BY DEF States, CInv, Typed
  <2> QED
    BY <1>2, <2>1, AskedSettle
<1>4. pending' \in [Peers -> Seq(Waiting)]
  <2>1. pending[p] \in Seq(Waiting)
    BY DEF CInv, Typed
  <2>2. SubSeq(pending[p], n + 1, Len(pending[p])) \in Seq(Waiting)
    BY <1>1, <2>1
  <2> QED
    BY <1>1, <2>2 DEF CInv, Typed
<1>5. Agreeing'
  BY <1>1, SameAgreeing DEF CInv
<1> QED
  BY <1>1, <1>3, <1>4, <1>5 DEF CInv, Typed, Keeps

-----------------------------------------------------------------------------
(* The server answers, hides and shows. *)

\* refuse_control tells the one that asked of the decision that stands.
LEMMA RefuseAgrees ==
    ASSUME CInv, NEW p \in Peers, NEW request \in Request, NEW outcome \in Outcomes,
           Refuse(p, request, outcome), UNCHANGED <<shown, copy>>
    PROVE  down' \in [Peers -> Seq(Message)] /\ Agreeing'
<1> DEFINE m == Apply(control, FALSE, request.op, outcome, request.ask)
           r == control.revision
<1>1. /\ control \in Decision /\ r \in Nat \ {0}
      /\ down \in [Peers -> Seq(Message)] /\ copy \in [Peers -> Decision \cup {NoCopy}]
  BY DEF CInv, Typed, Agreeing, Agrees, Decision
<1>2. m \in ApplyMessage /\ m.revision = r
  BY <1>1 DEF Apply, ApplyMessage, Decision, HoldNames, Request
<1>3. down' = [down EXCEPT ![p] = Append(down[p], m)] /\ UNCHANGED <<control, decided>>
  BY <1>1 DEF Refuse
<1> HIDE DEF m
<1>4. m \in Message /\ m.at = "apply"
  BY <1>2 DEF Message, ApplyMessage
<1>5. down' \in [Peers -> Seq(Message)]
  BY <1>1, <1>3, <1>4
<1>6. ASSUME NEW q \in Peers PROVE Follows(q)'
  <2>1. Follows(q)
    BY DEF CInv, Agreeing
  <2>2. CASE q # p
    <3>1. down'[q] = down[q]
      BY <1>1, <1>3, <2>2
    <3> QED
      BY <1>3, <2>1, <3>1 DEF Follows, Standing
  <2>3. CASE q = p
    <3>1. down'[p] = Append(down[p], m)
      BY <1>1, <1>3
    <3>2. Standing(p) \in {0, r} /\ Standing(p) \in Nat /\ Standing(p)' = Standing(p)
      BY <1>1, <1>3 DEF Standing
    <3>3. After(Standing(p), m) = Standing(p)
      BY <1>1, <1>2, <1>4, <3>2 DEF After
    <3>4. Sound(decided, Standing(p), m)
      BY <1>1, <1>2, <1>4, <3>2 DEF Sound
    <3>5. Leads(decided, Append(down[p], m), copy[p].revision, Standing(p))
      BY <1>1, <1>4, <2>1, <2>3, <3>2, <3>3, <3>4, LeadsOn DEF Follows
    <3> QED
      BY <1>3, <2>1, <2>3, <3>1, <3>2, <3>5 DEF Follows
  <2> QED
    BY <2>2, <2>3
<1>7. Agreeing'
  BY <1>3, <1>6 DEF Agreeing, CInv
<1> QED
  BY <1>5, <1>7

\* What is left of a typed queue once its head is taken.
LEMMA TailType ==
    ASSUME NEW S, NEW q \in [Peers -> Seq(S)], NEW p \in Peers, q[p] # <<>>
    PROVE  /\ Head(q[p]) \in S
           /\ [q EXCEPT ![p] = Tail(q[p])] \in [Peers -> Seq(S)]
OBVIOUS

LEMMA DecidesKeepsCInv ==
    ASSUME Assumptions, CInv, NEW p \in Peers, Decides(p)
    PROVE  CInv' /\ UNCHANGED <<shown, copy, lastOp, pending, abandoned, asked, hides>>
<1> DEFINE request == Head(up[p])
<1>1. PICK on \in Controllers :
            \/ \E denied \in BOOLEAN : decide_request(p, denied, on)
            \/ decide_release(p, on)
  BY DEF Decides
<1>2. /\ up[p] # <<>> /\ up' = [up EXCEPT ![p] = Tail(up[p])]
      /\ UNCHANGED <<shown, copy, lastOp, pending, abandoned, asked, writes, hides>>
  BY <1>1 DEF decide_request, decide_release, copies, used, CInv, Typed
<1>3. request \in Request /\ up' \in [Peers -> Seq(Request)]
  BY <1>2, TailType DEF CInv, Typed
<1>4. /\ request.hold \in HoldNames /\ request.op \in Nat /\ request.ask \in Nat
      /\ request.successor \in Controllers /\ p \in Controllers
      /\ "none" \in HoldNames /\ {"unauthorized", "unavailable"} \subseteq Outcomes
  BY <1>3 DEF Request, Controllers, HoldNames, Outcomes
<1>5. \/ \E outcome \in Outcomes : Refuse(p, request, outcome)
      \/ Decide(p, request.hold, p, request.op, request.ask, on)
      \/ Decide(request.successor, "none", p, request.op, request.ask, on)
  BY <1>1, <1>4 DEF decide_request, decide_release
<1> HIDE DEF request
<1>6. CASE \E outcome \in Outcomes : Refuse(p, request, outcome)
  <2>1. UNCHANGED <<control, decided>>
    BY <1>6 DEF Refuse
  <2>2. down' \in [Peers -> Seq(Message)] /\ Agreeing'
    BY <1>2, <1>3, <1>6, RefuseAgrees
  <2> QED
    BY <1>2, <1>3, <2>1, <2>2 DEF CInv, Typed
<1>7. CASE Decide(p, request.hold, p, request.op, request.ask, on)
  BY <1>2, <1>3, <1>4, <1>7, DecideAgrees DEF CInv, Typed
<1>8. CASE Decide(request.successor, "none", p, request.op, request.ask, on)
  BY <1>2, <1>3, <1>4, <1>8, DecideAgrees DEF CInv, Typed
<1> QED
  BY <1>2, <1>5, <1>6, <1>7, <1>8

LEMMA TransferKeepsCInv ==
    ASSUME CInv, NEW c \in Controllers, NEW on \in Controllers, transfer_steering(c, on)
    PROVE  CInv' /\ UNCHANGED <<shown, copy, lastOp, pending, abandoned, up, asked, hides>>
<1>1. /\ Decide(c, "none", Server, 0, 0, on) /\ writes' = writes + 1
      /\ UNCHANGED <<shown, copy, lastOp, pending, abandoned, up, asked, hides>>
  BY DEF transfer_steering, copies
<1>2. "none" \in HoldNames /\ 0 \in Nat /\ writes' \in Nat
  BY <1>1 DEF HoldNames, CInv, Typed
<1>3. /\ control' \in Decision /\ decided' \in Seq(Entries)
      /\ Len(decided') = control'.revision
      /\ down' \in [Peers -> Seq(Message)]
      /\ Agreeing'
  BY <1>1, <1>2, DecideAgrees
<1> QED
  BY <1>1, <1>2, <1>3 DEF CInv, Typed

LEMMA HideKeepsCInv ==
    ASSUME CInv, NEW p \in Peers, hide(p)
    PROVE  CInv'
<1> DEFINE m == [at |-> "hide"]
<1>1. m \in Message /\ m.at = "hide"
  BY DEF Message, HideMessage
<1>2. /\ p \in shown /\ shown' = shown \ {p} /\ hides' = hides + 1
      /\ down' = [down EXCEPT ![p] = Append(down[p], m)]
      /\ UNCHANGED <<control, copy, lastOp, pending, up, asked, decided, writes>>
  BY DEF hide, copies, CInv, Typed
<1> HIDE DEF m
<1>3. down' \in [Peers -> Seq(Message)] /\ hides' \in Nat
  BY <1>1, <1>2 DEF CInv, Typed
<1>4. ASSUME NEW q \in Peers PROVE Follows(q)'
  <2>1. Follows(q) /\ down \in [Peers -> Seq(Message)]
    BY DEF CInv, Agreeing, Typed
  <2>2. CASE q # p
    BY <1>2, <2>1, <2>2 DEF Follows, Standing
  <2>3. CASE q = p
    <3>1. Standing(p) \in Nat /\ Standing(p)' = 0
      BY <1>2 DEF Standing, CInv, Typed, Decision
    <3>2. After(Standing(p), m) = 0 /\ Sound(decided, Standing(p), m)
      BY <1>1 DEF After, Sound
    <3>3. Leads(decided, Append(down[p], m), copy[p].revision, 0)
      BY <1>1, <2>1, <2>3, <3>1, <3>2, LeadsOn DEF Follows
    <3> QED
      BY <1>2, <2>1, <2>3, <3>1, <3>3 DEF Follows
  <2> QED
    BY <2>2, <2>3
<1> QED
  BY <1>2, <1>3, <1>4 DEF CInv, Typed, Agreeing

LEMMA ShowKeepsCInv ==
    ASSUME CInv, NEW p \in Peers, show(p)
    PROVE  CInv'
<1> DEFINE m == [at |-> "spawn", seed |-> control]
<1>1. m \in Message /\ m.at = "spawn" /\ m.seed = control
  BY DEF Message, SpawnMessage, CInv, Typed
<1>2. /\ p \notin shown /\ shown' = shown \cup {p}
      /\ down' = [down EXCEPT ![p] = Append(down[p], m)]
      /\ UNCHANGED <<control, copy, lastOp, pending, up, asked, decided, writes, hides>>
  BY DEF show, copies, used, CInv, Typed
<1> HIDE DEF m
<1>3. down' \in [Peers -> Seq(Message)]
  BY <1>1, <1>2 DEF CInv, Typed
<1>4. ASSUME NEW q \in Peers PROVE Follows(q)'
  <2>1. Follows(q) /\ down \in [Peers -> Seq(Message)]
    BY DEF CInv, Agreeing, Typed
  <2>2. CASE q # p
    BY <1>2, <2>1, <2>2 DEF Follows, Standing
  <2>3. CASE q = p
    <3>1. Standing(p) = 0 /\ Standing(p)' = control.revision
      BY <1>2 DEF Standing, CInv, Typed, Decision
    <3>2. After(0, m) = control.revision /\ Sound(decided, 0, m)
      BY <1>1 DEF After, Sound, CInv, Agreeing
    <3>3. Leads(decided, Append(down[p], m), copy[p].revision, control.revision)
      BY <1>1, <2>1, <2>3, <3>1, <3>2, LeadsOn DEF Follows
    <3> QED
      BY <1>2, <2>1, <2>3, <3>1, <3>3 DEF Follows
  <2> QED
    BY <2>2, <2>3
<1> QED
  BY <1>2, <1>3, <1>4 DEF CInv, Typed, Agreeing

-----------------------------------------------------------------------------
(* A copy hears. *)

LEMMA LeastPlace ==
    ASSUME NEW T \in SUBSET Nat, T # {}
    PROVE  /\ (CHOOSE i \in T : \A k \in T : i <= k) \in T
<1>1. \E x \in T : \A y \in T : ~(<<y, x>> \in OpToRel(<, Nat))
  BY NatLessThanWellFounded, WFMin
<1>2. \E x \in T : \A y \in T : ~(y < x)
  BY <1>1 DEF OpToRel
<1>3. \E x \in T : \A y \in T : x <= y
  BY <1>2
<1> QED
  BY <1>3

LEMMA Removed ==
    ASSUME NEW S, NEW q \in Seq(S), NEW i \in 1 .. Len(q)
    PROVE  /\ RemoveAt(q, i) \in Seq(S)
           /\ Len(RemoveAt(q, i)) = Len(q) - 1
           /\ \A j \in 1 .. Len(RemoveAt(q, i)) : \E k \in 1 .. Len(q) : RemoveAt(q, i)[j] = q[k]
<1>1. Len(q) \in Nat /\ i \in Nat /\ i >= 1 /\ i <= Len(q)
  OBVIOUS
<1> DEFINE a == SubSeq(q, 1, i - 1)
           b == SubSeq(q, i + 1, Len(q))
<1>2. a \in Seq(S) /\ Len(a) = i - 1 /\ \A j \in 1 .. i - 1 : a[j] = q[j]
  BY <1>1
<1>3. /\ b \in Seq(S) /\ Len(b) = Len(q) - i
      /\ \A j \in 1 .. Len(q) - i : b[j] = q[i + j]
  BY <1>1
<1> HIDE DEF a, b
<1>4. /\ a \o b \in Seq(S) /\ Len(a \o b) = Len(a) + Len(b)
      /\ \A j \in 1 .. Len(a) + Len(b) : (a \o b)[j] = IF j <= Len(a) THEN a[j] ELSE b[j - Len(a)]
  BY <1>2, <1>3, ConcatProperties
<1>5. Len(a) + Len(b) = Len(q) - 1
  BY <1>1, <1>2, <1>3
<1>6. ASSUME NEW j \in 1 .. Len(q) - 1
      PROVE  \E k \in 1 .. Len(q) : (a \o b)[j] = q[k]
  <2>1. CASE j <= i - 1
    <3>1. j \in 1 .. i - 1 /\ j \in 1 .. Len(q)
      BY <1>1, <1>6, <2>1
    <3>2. (a \o b)[j] = q[j]
      BY <1>2, <1>4, <1>5, <1>6, <2>1, <3>1
    <3> QED
      BY <3>1, <3>2
  <2>2. CASE ~(j <= i - 1)
    <3>1. j - (i - 1) \in 1 .. Len(q) - i /\ i + (j - (i - 1)) = j + 1 /\ j + 1 \in 1 .. Len(q)
      BY <1>1, <1>6, <2>2
    <3>2. (a \o b)[j] = b[j - (i - 1)]
      BY <1>2, <1>4, <1>5, <1>6, <2>2
    <3> QED
      BY <1>3, <3>1, <3>2
  <2> QED
    BY <2>1, <2>2
<1>7. RemoveAt(q, i) = a \o b
  BY DEF RemoveAt, a, b
<1> QED
  BY <1>4, <1>5, <1>6, <1>7

LEMMA SequenceOf ==
    ASSUME NEW S, NEW n \in Nat, NEW f, f = [k \in 1 .. n |-> f[k]],
           \A k \in 1 .. n : f[k] \in S
    PROVE  f \in Seq(S) /\ Len(f) = n
OBVIOUS

Answer(a, state, answer) == [a EXCEPT !.state = state, !.answer = answer]

LEMMA OneAnswered ==
    ASSUME NEW a \in Asked, NEW state \in States, NEW answer \in Nat
    PROVE  LET b == Answer(a, state, answer)
           IN  /\ b \in Asked /\ b.peer = a.peer /\ b.kind = a.kind /\ b.whose = a.whose
               /\ b.state = state /\ b.answer = answer
BY DEF Asked, Answer

\* One request settles, by the decision about "answer".
LEMMA AskedAnswered ==
    ASSUME NEW was \in Seq(Asked), NEW t \in Nat, NEW state \in States, NEW answer \in Nat,
           NEW is,
           DOMAIN is = 1 .. Len(was), is = [k \in DOMAIN is |-> is[k]],
           \A k \in 1 .. Len(was) : is[k] = IF k = t THEN Answer(was[k], state, answer)
                                                     ELSE was[k]
    PROVE  /\ Keeps(was, is) /\ Len(is) = Len(was)
           /\ \A k \in 1 .. Len(was) :
                /\ k # t => is[k] = was[k]
                /\ k = t => is[k].state = state /\ is[k].answer = answer
<1>1. Len(was) \in Nat /\ DOMAIN was = 1 .. Len(was) /\ DOMAIN is = 1 .. Len(was)
  OBVIOUS
<1>2. ASSUME NEW k \in 1 .. Len(was)
      PROVE  /\ is[k] \in Asked
             /\ is[k].peer = was[k].peer /\ is[k].kind = was[k].kind
             /\ is[k].whose = was[k].whose
             /\ k # t => is[k] = was[k]
             /\ k = t => is[k].state = state /\ is[k].answer = answer
  <2>1. was[k] \in Asked
    OBVIOUS
  <2>2. CASE k = t
    <3>1. is[k] = Answer(was[k], state, answer)
      BY <2>2
    <3> QED
      BY <2>1, <2>2, <3>1, OneAnswered
  <2>3. CASE k # t
    <3>1. is[k] = was[k]
      BY <1>1, <2>3
    <3> QED
      BY <2>1, <2>3, <3>1
  <2> QED
    BY <2>2, <2>3
<1>3. is = [k \in 1 .. Len(was) |-> is[k]]
  BY <1>1
<1>4. is \in Seq(Asked) /\ Len(is) = Len(was)
  BY <1>1, <1>2, <1>3, SequenceOf
<1>5. Keeps(was, is)
  BY <1>1, <1>2, <1>4 DEF Keeps
<1> QED
  BY <1>2, <1>4, <1>5

Changes(was, is, t, state, answer) ==
    /\ Keeps(was, is) /\ Len(is) = Len(was)
    /\ \A k \in 1 .. Len(was) :
         /\ k # t => is[k] = was[k]
         /\ k = t => is[k].state = state /\ is[k].answer = answer

\* The same, as settle_control writes it.
LEMMA AskedChanges ==
    ASSUME NEW was \in Seq(Asked), NEW t \in Nat, NEW state \in States, NEW answer \in Nat,
           NEW is, is = [was EXCEPT ![t].state = state, ![t].answer = answer]
    PROVE  Changes(was, is, t, state, answer)
<1> DEFINE mid == [was EXCEPT ![t].state = state]
<1>1. DOMAIN was = 1 .. Len(was) /\ was = [k \in 1 .. Len(was) |-> was[k]]
  OBVIOUS
<1>2. /\ DOMAIN mid = 1 .. Len(was)
      /\ \A k \in 1 .. Len(was) :
            mid[k] = IF k = t THEN [was[k] EXCEPT !.state = state] ELSE was[k]
  BY <1>1
<1>3. is = [mid EXCEPT ![t].answer = answer]
  OBVIOUS
<1> HIDE DEF mid
<1>4. /\ DOMAIN is = 1 .. Len(was) /\ is = [k \in DOMAIN is |-> is[k]]
      /\ \A k \in 1 .. Len(was) :
            is[k] = IF k = t THEN [mid[k] EXCEPT !.answer = answer] ELSE mid[k]
  BY <1>2, <1>3
<1>5. ASSUME NEW k \in 1 .. Len(was)
      PROVE  is[k] = IF k = t THEN Answer(was[k], state, answer) ELSE was[k]
  <2>1. CASE k = t
    <3>1. is[k] = [[was[k] EXCEPT !.state = state] EXCEPT !.answer = answer]
      BY <1>2, <1>4, <2>1
    <3> QED
      BY <2>1, <3>1, Zenon DEF Answer
  <2>2. CASE k # t
    BY <1>2, <1>4, <2>2
  <2> QED
    BY <2>1, <2>2
<1> QED
  BY <1>4, <1>5, AskedAnswered DEF Changes

LEMMA SettleType ==
    ASSUME Typed, NEW p \in Peers, NEW heard \in ApplyMessage, NEW now,
           settle_control(p, heard, now)
    PROVE  /\ lastOp' \in [Peers -> Nat] /\ pending' \in [Peers -> Seq(Waiting)]
           /\ up' \in [Peers -> Seq(Request)] /\ Keeps(asked, asked')
<1> DEFINE waits == {i \in 1 .. Len(pending[p]) : pending[p][i].op = heard.op}
           given_up == {i \in 1 .. Len(abandoned[p]) : abandoned[p][i].op = heard.op}
<1>1. /\ pending[p] \in Seq(Waiting) /\ asked \in Seq(Asked)
      /\ Server \in Controllers /\ "none" \in HoldNames /\ "release" \in Kinds
  BY DEF Typed, Controllers, HoldNames, Kinds
<1>2. Keeps(asked, asked)
  BY <1>1 DEF Keeps
<1>3. CASE waits # {}
  <2> DEFINE i == CHOOSE j \in waits : \A k \in waits : j <= k
             held == pending[p][i]
  <2>1. /\ pending' = [pending EXCEPT ![p] = RemoveAt(pending[p], i)]
        /\ asked' = [asked EXCEPT ![held.ask].state = Outcome(p, held, heard, now),
                                  ![held.ask].answer = heard.ask]
        /\ UNCHANGED <<lastOp, up>>
    BY <1>3 DEF settle_control, Typed
  <2>2. i \in waits
    <3>1. waits \in SUBSET Nat
      BY <1>1
    <3> HIDE DEF waits
    <3> QED
      BY <1>3, <3>1, LeastPlace
  <2> HIDE DEF i
  <2>3. held \in Waiting /\ held.ask \in Nat /\ heard.ask \in Nat
    <3>1. i \in 1 .. Len(pending[p])
      BY <2>2
    <3>2. held \in Waiting
      BY <1>1, <3>1
    <3> HIDE DEF held
    <3> QED
      BY <3>2 DEF Waiting, ApplyMessage
  <2>4. Outcome(p, held, heard, now) \in States
    BY DEF Outcome, States
  <2>5. RemoveAt(pending[p], i) \in Seq(Waiting)
    BY <1>1, <2>2, Removed
  <2>6. pending' \in [Peers -> Seq(Waiting)]
    BY <2>1, <2>5 DEF Typed
  <2> HIDE DEF held
  <2>7. Keeps(asked, asked')
    <3> DEFINE t == held.ask
               state == Outcome(p, held, heard, now)
               answer == heard.ask
    <3>1. asked' = [asked EXCEPT ![t].state = state, ![t].answer = answer]
      BY <2>1
    <3>2. t \in Nat /\ state \in States /\ answer \in Nat
      BY <2>3, <2>4
    <3> HIDE DEF t, state, answer
    <3>3. Changes(asked, asked', t, state, answer)
      BY <1>1, <3>1, <3>2, AskedChanges
    <3> QED
      BY <3>3 DEF Changes
  <2> QED
    BY <2>1, <2>6, <2>7 DEF Typed
<1>4. CASE waits = {}
  <2>1. \/ /\ Issue(p, "release", "none", Server, pending[p])
           /\ asked' = Append(asked, Asking(p, "release", "copy"))
        \/ UNCHANGED <<lastOp, pending, up, asked>>
    BY <1>4 DEF settle_control
  <2>2. CASE /\ Issue(p, "release", "none", Server, pending[p])
             /\ asked' = Append(asked, Asking(p, "release", "copy"))
    BY <1>1, <2>2, IssueType, AskedMore
  <2>3. CASE UNCHANGED <<lastOp, pending, up, asked>>
    BY <1>2, <2>3 DEF Typed
  <2> QED
    BY <2>1, <2>2, <2>3
<1> QED
  BY <1>3, <1>4

LEMMA InstalledAgrees ==
    ASSUME NEW p \in Peers, NEW heard \in ApplyMessage, copy[p] # NoCopy, copy[p].revision # 0,
           Agrees(decided, copy[p]), Sound(decided, copy[p].revision, heard)
    PROVE  /\ Agrees(decided, Installed(p, heard))
           /\ Installed(p, heard).revision = After(copy[p].revision, heard)
<1>1. copy[p] \in Decision /\ copy[p].revision \in Nat /\ heard.at = "apply" /\ heard.revision \in Nat
  BY DEF Agrees, Decision, ApplyMessage
<1>2. CASE heard.revision <= copy[p].revision
  BY <1>1, <1>2 DEF Installed, After
<1>3. CASE copy[p].revision < heard.revision
  <2> DEFINE now == [controller |-> heard.controller, revision |-> heard.revision,
                     hold |-> heard.hold,
                     tenure |-> IF heard.moved THEN heard.revision ELSE copy[p].tenure]
  <2>1. Installed(p, heard) = now
    BY <1>1, <1>3 DEF Installed
  <2>2. now \in Decision
    BY <1>1 DEF Decision, ApplyMessage, HoldNames
  <2>3. /\ heard.revision \in 1 .. Len(decided)
        /\ heard.controller = decided[heard.revision].controller
        /\ heard.hold = decided[heard.revision].hold
        /\ decided[heard.revision].tenure =
              IF heard.moved THEN heard.revision ELSE decided[copy[p].revision].tenure
    BY <1>1, <1>3 DEF Sound
  <2>4. now.tenure = decided[heard.revision].tenure
    BY <2>3 DEF Agrees
  <2>5. Agrees(decided, now)
    BY <2>2, <2>3, <2>4 DEF Agrees
  <2>6. now.revision = After(copy[p].revision, heard)
    BY <1>1, <1>3 DEF After
  <2> QED
    BY <2>1, <2>5, <2>6
<1> QED
  BY <1>1, <1>2, <1>3

\* A copy at revision 0 is no copy.
LEMMA NoCopyYet ==
    ASSUME CInv, NEW p \in Peers
    PROVE  /\ copy[p].revision \in Nat
           /\ copy[p].revision = 0 <=> copy[p] = NoCopy
BY DEF CInv, Typed, Agreeing, Follows, Agrees, Decision, NoCopy

\* The copy of p read the head of what was on its way to it.
LEMMA HeardAgrees ==
    ASSUME CInv, NEW p \in Peers, down[p] # <<>>, Took(p),
           NEW now, copy' = [copy EXCEPT ![p] = now],
           now.revision = After(copy[p].revision, Head(down[p])),
           now # NoCopy => Agrees(decided, now),
           UNCHANGED <<control, shown, decided>>
    PROVE  Agreeing' /\ copy' \in [Peers -> Decision \cup {NoCopy}]
           /\ down' \in [Peers -> Seq(Message)]
<1>1. /\ down' = [down EXCEPT ![p] = Tail(down[p])] /\ down' \in [Peers -> Seq(Message)]
      /\ copy \in [Peers -> Decision \cup {NoCopy}] /\ down \in [Peers -> Seq(Message)]
  BY TailType DEF Took, CInv, Typed
<1>2. copy' \in [Peers -> Decision \cup {NoCopy}]
  BY <1>1 DEF Agrees
<1>3. ASSUME NEW q \in Peers PROVE Follows(q)'
  <2>1. Follows(q)
    BY DEF CInv, Agreeing
  <2>2. CASE q # p
    BY <1>1, <2>1, <2>2 DEF Follows, Standing
  <2>3. CASE q = p
    <3>1. Leads(decided, Tail(down[p]), After(copy[p].revision, Head(down[p])), Standing(p))
      BY <1>1, <2>1, <2>3, LeadsThence DEF Follows
    <3>2. copy'[p] = now /\ down'[p] = Tail(down[p]) /\ Standing(p)' = Standing(p)
      BY <1>1 DEF Standing
    <3> QED
      BY <2>3, <3>1, <3>2 DEF Follows
  <2> QED
    BY <2>2, <2>3
<1> QED
  BY <1>1, <1>2, <1>3 DEF Agreeing, CInv

LEMMA HearsKeepsCInv ==
    ASSUME CInv, NEW p \in Peers, Hears(p)
    PROVE  CInv' /\ Keeps(asked, asked')
<1> DEFINE m == Head(down[p])
           w == copy[p].revision
<1>1. down[p] # <<>> /\ Took(p) /\ UNCHANGED <<control, shown, decided, writes, hides>>
  BY DEF Hears, handle_control_apply, handle_hide, handle_spawn, hears, used
<1>2. m \in Message /\ Sound(decided, w, m)
  <2>1. Follows(p) /\ down \in [Peers -> Seq(Message)]
    BY DEF CInv, Agreeing, Typed
  <2> QED
    BY <1>1, <2>1, LeadsThence DEF Follows
<1>3. Keeps(asked, asked) /\ asked \in Seq(Asked)
  BY DEF CInv, Typed, Keeps
<1>4. w \in Nat /\ (w = 0 <=> copy[p] = NoCopy) /\ copy = [copy EXCEPT ![p] = copy[p]]
      /\ (copy[p] # NoCopy => Agrees(decided, copy[p]))
  BY NoCopyYet DEF CInv, Typed, Agreeing, Follows
<1>5. CASE handle_control_apply(p)
  <2>1. m \in ApplyMessage /\ m.at = "apply"
    BY <1>2, <1>5 DEF handle_control_apply, hears, Message, SpawnMessage, HideMessage
  <2>2. CASE copy[p] = NoCopy
    <3>1. UNCHANGED <<copy, lastOp, pending, up, asked>>
      BY <1>5, <2>2 DEF handle_control_apply, copies
    <3>2. w = After(w, m)
      BY <1>4, <2>1, <2>2 DEF After
    <3>3. Agreeing' /\ down' \in [Peers -> Seq(Message)]
      BY <1>1, <1>4, <2>2, <3>1, <3>2, HeardAgrees
    <3> QED
      BY <1>1, <1>3, <3>1, <3>3 DEF CInv, Typed
  <2>3. CASE copy[p] # NoCopy
    <3> DEFINE now == Installed(p, m)
    <3>1. copy' = [copy EXCEPT ![p] = now] /\ settle_control(p, m, now)
      BY <1>5, <2>3 DEF handle_control_apply
    <3>2. Agrees(decided, now) /\ now.revision = After(w, m)
      BY <1>2, <1>4, <2>1, <2>3, InstalledAgrees
    <3> HIDE DEF now
    <3>3. /\ Agreeing' /\ copy' \in [Peers -> Decision \cup {NoCopy}]
          /\ down' \in [Peers -> Seq(Message)]
      BY <1>1, <3>1, <3>2, HeardAgrees
    <3>4. /\ lastOp' \in [Peers -> Nat] /\ pending' \in [Peers -> Seq(Waiting)]
          /\ up' \in [Peers -> Seq(Request)] /\ Keeps(asked, asked')
      BY <2>1, <3>1, SettleType DEF CInv
    <3> QED
      BY <1>1, <3>3, <3>4 DEF CInv, Typed, Keeps
  <2> QED
    BY <2>2, <2>3
<1>6. CASE handle_hide(p)
  <2> DEFINE gone == {k \in 1 .. Len(asked) :
                         \E i \in 1 .. Len(pending[p]) : pending[p][i].ask = k}
  <2>1. /\ m.at = "hide" /\ copy' = [copy EXCEPT ![p] = NoCopy]
        /\ lastOp' = [lastOp EXCEPT ![p] = 0] /\ pending' = [pending EXCEPT ![p] = <<>>]
        /\ asked' = [k \in 1 .. Len(asked) |->
              IF \E i \in 1 .. Len(pending[p]) : pending[p][i].ask = k
              THEN [asked[k] EXCEPT !.state = "gone"] ELSE asked[k]]
        /\ up' = up
    BY <1>6 DEF handle_hide, hears
  <2>2. NoCopy.revision = After(w, m)
    BY <2>1 DEF After, NoCopy
  <2>3. /\ Agreeing' /\ copy' \in [Peers -> Decision \cup {NoCopy}]
        /\ down' \in [Peers -> Seq(Message)]
    BY <1>1, <2>1, <2>2, HeardAgrees
  <2>4. asked' = [k \in 1 .. Len(asked) |->
                     IF k \in gone THEN [asked[k] EXCEPT !.state = "gone"] ELSE asked[k]]
    BY <2>1
  <2> HIDE DEF gone
  <2>5. Keeps(asked, asked')
    <3>1. "gone" \in States
      BY DEF States
    <3> QED
      BY <1>3, <2>4, <3>1, AskedSettle
  <2>6. lastOp' \in [Peers -> Nat] /\ pending' \in [Peers -> Seq(Waiting)]
    BY <2>1 DEF CInv, Typed
  <2> QED
    BY <1>1, <2>1, <2>3, <2>5, <2>6 DEF CInv, Typed, Keeps
<1>7. CASE handle_spawn(p)
  <2>1. /\ m.at = "spawn" /\ copy' = [copy EXCEPT ![p] = m.seed]
        /\ UNCHANGED <<lastOp, pending, up, asked>>
    BY <1>7 DEF handle_spawn, hears
  <2>2. m.seed.revision = After(w, m)
    BY <2>1 DEF After
  <2>3. Agrees(decided, m.seed)
    BY <1>2, <2>1 DEF Sound
  <2> HIDE DEF m
  <2>4. /\ Agreeing' /\ copy' \in [Peers -> Decision \cup {NoCopy}]
        /\ down' \in [Peers -> Seq(Message)]
    BY <1>1, <2>1, <2>2, <2>3, HeardAgrees DEF m
  <2> QED
    BY <1>1, <1>3, <2>1, <2>4 DEF CInv, Typed
<1> QED
  BY <1>5, <1>6, <1>7 DEF Hears

-----------------------------------------------------------------------------
(* The copies agree with what was decided. *)

LEMMA InitCInv == Init => CInv
<1> SUFFICES ASSUME Init PROVE CInv
  OBVIOUS
<1> DEFINE first == [controller |-> Server, tenure |-> 1, hold |-> "none", by |-> 0]
<1>1. /\ control = Start /\ shown = Peers /\ copy = [p \in Peers |-> Start]
      /\ lastOp = [p \in Peers |-> 0] /\ pending = [p \in Peers |-> <<>>]
      /\ up = [p \in Peers |-> <<>>] /\ down = [p \in Peers |-> <<>>]
      /\ asked = <<>> /\ decided = <<first>> /\ writes = 0 /\ hides = 0
  BY DEF Init
<1>2. Start \in Decision /\ first \in Entries
  BY DEF Start, Decision, Entries, Controllers, HoldNames
<1>3. Start.revision = 1 /\ Start.controller = Server /\ Start.hold = "none" /\ Start.tenure = 1
  BY DEF Start
<1>4. first.controller = Server /\ first.hold = "none" /\ first.tenure = 1
  OBVIOUS
<1> HIDE DEF first
<1>5. decided \in Seq(Entries) /\ Len(decided) = 1 /\ decided[1] = first
  BY <1>1, <1>2
<1>6. Agrees(decided, Start)
  BY <1>2, <1>3, <1>4, <1>5 DEF Agrees
<1>7. Typed
  <2>1. pending \in [Peers -> Seq(Waiting)] /\ up \in [Peers -> Seq(Request)]
        /\ down \in [Peers -> Seq(Message)] /\ asked \in Seq(Asked)
    BY <1>1
  <2> QED
    BY <1>1, <1>2, <1>3, <1>5, <2>1 DEF Typed
<1>8. ASSUME NEW p \in Peers PROVE Follows(p)
  <2>1. copy[p] = Start /\ down[p] = <<>> /\ Standing(p) = 1 /\ copy[p].revision = 1
    BY <1>1, <1>3 DEF Standing
  <2>2. Leads(decided, <<>>, 1, 1)
    BY LeadsNowhere
  <2> QED
    BY <1>6, <2>1, <2>2 DEF Follows
<1> QED
  BY <1>1, <1>6, <1>7, <1>8 DEF CInv, Agreeing

LEMMA NextCInv ==
    ASSUME Assumptions, CInv, [Next]_vars
    PROVE  CInv' /\ Keeps(asked, asked')
<1>0. Keeps(asked, asked)
  BY DEF Keeps, CInv, Typed
<1>1. ASSUME NEW p \in Peers, Asks(p) PROVE CInv' /\ Keeps(asked, asked')
  BY <1>1, AsksKeepsCInv
<1>2. ASSUME NEW p \in Peers, Decides(p) PROVE CInv' /\ Keeps(asked, asked')
  BY <1>0, <1>2, DecidesKeepsCInv
<1>3. ASSUME NEW p \in Peers, Hears(p) PROVE CInv' /\ Keeps(asked, asked')
  BY <1>3, HearsKeepsCInv
<1>4. ASSUME NEW p \in Peers, hide(p) PROVE CInv' /\ Keeps(asked, asked')
  <2>1. asked' = asked
    BY <1>4 DEF hide
  <2> QED
    BY <1>0, <1>4, <2>1, HideKeepsCInv
<1>5. ASSUME NEW p \in Peers, show(p) PROVE CInv' /\ Keeps(asked, asked')
  <2>1. asked' = asked
    BY <1>5 DEF show
  <2> QED
    BY <1>0, <1>5, <2>1, ShowKeepsCInv
<1>6. ASSUME NEW p \in Peers, NEW n \in 1 .. MaxPending, expire_control(p, n)
      PROVE  CInv' /\ Keeps(asked, asked')
  BY <1>6, ExpireKeepsCInv
<1>7. ASSUME NEW c \in Controllers, NEW on \in Controllers, transfer_steering(c, on)
      PROVE  CInv' /\ Keeps(asked, asked')
  BY <1>0, <1>7, TransferKeepsCInv
<1>8. CASE UNCHANGED vars
  BY <1>0, <1>8 DEF vars, copies, links, used, CInv, Typed, Agreeing, Follows, Standing
<1> QED
  BY <1>1, <1>2, <1>3, <1>4, <1>5, <1>6, <1>7, <1>8 DEF Next

\* Whatever is asked, decided, handed on, hidden, shown and given up, the types and
\* the agreement of the copies hold, and so does what is on its way to them
\* (entity/control.cpp, Control::install; api/replication_core.cpp, broadcast_control).
THEOREM Invariant == ASSUME Assumptions PROVE Spec => []CInv
<1>1. Init => CInv
  BY InitCInv
<1>2. CInv /\ [Next]_vars => CInv'
  BY NextCInv
<1> QED
  BY <1>1, <1>2, PTL DEF Spec

\* A revision says the same to everyone: a copy has the controller, the hold and the
\* tenure that were decided at its revision, whatever it missed, was refused or was
\* seeded with (entity/control.cpp, Control::install).
THEOREM EveryCopyAgrees == ASSUME Assumptions PROVE Spec => []CopiesAgree
<1>1. CInv => CopiesAgree
  BY DEF CInv, Typed, Agreeing, Follows, Agrees, CopiesAgree, Decision
<1> QED
  BY <1>1, Invariant, PTL

-----------------------------------------------------------------------------
(* While no copy is freed, the operations of a peer name its requests. *)

Elements(q) == {q[i] : i \in 1 .. Len(q)}

LEMMA ElementsOf ==
    ASSUME NEW S, NEW q \in Seq(S), NEW x \in S
    PROVE  /\ Elements(Append(q, x)) = Elements(q) \cup {x}
           /\ q # <<>> => Head(q) \in Elements(q) /\ Elements(Tail(q)) \subseteq Elements(q)
           /\ \A n \in 1 .. Len(q) : Elements(SubSeq(q, n + 1, Len(q))) \subseteq Elements(q)
           /\ \A i \in 1 .. Len(q) : q[i] \in Elements(q)
           /\ \A i \in 1 .. Len(q) : Elements(RemoveAt(q, i)) \subseteq Elements(q)
<1>1. Len(q) \in Nat
  OBVIOUS
<1>2. Elements(Append(q, x)) = Elements(q) \cup {x}
  <2>1. Len(Append(q, x)) = Len(q) + 1 /\ Append(q, x)[Len(q) + 1] = x
        /\ \A i \in 1 .. Len(q) : Append(q, x)[i] = q[i]
    OBVIOUS
  <2>2. 1 .. Len(q) + 1 = (1 .. Len(q)) \cup {Len(q) + 1}
    BY <1>1
  <2> QED
    BY <2>1, <2>2 DEF Elements
<1>3. ASSUME q # <<>>
      PROVE  Head(q) \in Elements(q) /\ Elements(Tail(q)) \subseteq Elements(q)
  <2>1. 1 \in 1 .. Len(q) /\ Head(q) = q[1] /\ Len(Tail(q)) = Len(q) - 1
    BY <1>3
  <2>2. \A i \in 1 .. Len(q) - 1 : Tail(q)[i] = q[i + 1] /\ i + 1 \in 1 .. Len(q)
    BY <1>3
  <2> QED
    BY <2>1, <2>2 DEF Elements
<1>4. ASSUME NEW n \in 1 .. Len(q) PROVE Elements(SubSeq(q, n + 1, Len(q))) \subseteq Elements(q)
  <2>1. Len(SubSeq(q, n + 1, Len(q))) = Len(q) - n
        /\ \A i \in 1 .. Len(q) - n : SubSeq(q, n + 1, Len(q))[i] = q[n + i] /\ n + i \in 1 .. Len(q)
    BY <1>1
  <2> QED
    BY <2>1 DEF Elements
<1>5. \A i \in 1 .. Len(q) : q[i] \in Elements(q)
  BY DEF Elements
<1>6. \A i \in 1 .. Len(q) : Elements(RemoveAt(q, i)) \subseteq Elements(q)
  BY Removed DEF Elements
<1> QED
  BY <1>2, <1>3, <1>4, <1>5, <1>6

\* What waits, what was sent and what is answered under an operation of p is about
\* the one request of p that the operation names.
Named(p, name, ops, reqs, waits, sent, told) ==
    /\ name \in [1 .. ops -> 1 .. Len(reqs)]
    /\ \A o \in 1 .. ops : reqs[name[o]].peer = p
    /\ \A x \in waits \cup sent : /\ x.op \in 1 .. ops /\ x.ask = name[x.op]
                                  /\ x.kind = reqs[x.ask].kind
    /\ \A m \in told : /\ m.at = "apply"
                       /\ m.op # 0 => m.op \in 1 .. ops /\ m.ask = name[m.op]

Tickets(p) ==
    \E name : Named(p, name, lastOp[p], asked, Elements(pending[p]), Elements(up[p]),
                    Elements(down[p]))

LEMMA NamedStill ==
    ASSUME NEW p, NEW name, NEW ops \in Nat, NEW reqs \in Seq(Asked), NEW waits, NEW sent, NEW told,
           Named(p, name, ops, reqs, waits, sent, told),
           NEW reqs2, Keeps(reqs, reqs2),
           NEW waits2 \in SUBSET waits, NEW sent2 \in SUBSET sent, NEW told2,
           \A m \in told2 : \/ m \in told
                            \/ m.at = "apply" /\ m.op = 0
                            \/ m.at = "apply" /\ \E x \in sent : m.op = x.op /\ m.ask = x.ask
    PROVE  Named(p, name, ops, reqs2, waits2, sent2, told2)
<1>1. Len(reqs) \in Nat /\ Len(reqs2) \in Nat /\ Len(reqs) <= Len(reqs2)
  BY LenProperties DEF Keeps
<1>2. name \in [1 .. ops -> 1 .. Len(reqs)]
  BY DEF Named
<1>3. name \in [1 .. ops -> 1 .. Len(reqs2)]
  BY <1>1, <1>2
<1>4. \A o \in 1 .. ops : name[o] \in 1 .. Len(reqs)
  BY <1>2
<1>5. \A o \in 1 .. ops : reqs2[name[o]].peer = p
  BY <1>4 DEF Named, Keeps
<1>6. ASSUME NEW x \in waits2 \cup sent2
      PROVE  x.op \in 1 .. ops /\ x.ask = name[x.op] /\ x.kind = reqs2[x.ask].kind
  <2>1. x \in waits \cup sent
    BY <1>6
  <2>2. x.op \in 1 .. ops /\ x.ask = name[x.op] /\ x.kind = reqs[x.ask].kind
    BY <2>1 DEF Named
  <2>3. x.ask \in 1 .. Len(reqs)
    BY <1>4, <2>2
  <2> QED
    BY <2>2, <2>3 DEF Keeps
<1>7. ASSUME NEW m \in told2
      PROVE  m.at = "apply" /\ (m.op # 0 => m.op \in 1 .. ops /\ m.ask = name[m.op])
  BY <1>7 DEF Named
<1> QED
  BY <1>3, <1>5, <1>6, <1>7 DEF Named

\* Control::issue takes the next operation for the next request.
LEMMA NamedMore ==
    ASSUME NEW p \in Peers, NEW name, NEW ops \in Nat, NEW reqs \in Seq(Asked),
           NEW waits, NEW sent, NEW told,
           Named(p, name, ops, reqs, waits, sent, told),
           NEW kind \in Kinds, NEW whose \in {"game", "copy"},
           NEW w, w.op = ops + 1, w.ask = Len(reqs) + 1, w.kind = kind,
           NEW r, r.op = ops + 1, r.ask = Len(reqs) + 1, r.kind = kind,
           NEW told2 \in SUBSET told
    PROVE  \E name2 : Named(p, name2, ops + 1, Append(reqs, Asking(p, kind, whose)),
                            waits \cup {w}, sent \cup {r}, told2)
<1> DEFINE reqs2 == Append(reqs, Asking(p, kind, whose))
           n == Len(reqs) + 1
           name2 == [o \in 1 .. ops + 1 |-> IF o = ops + 1 THEN n ELSE name[o]]
<1>1. /\ Keeps(reqs, reqs2) /\ Len(reqs2) = n /\ Len(reqs) \in Nat
      /\ reqs2[n].peer = p /\ reqs2[n].kind = kind
  <2>1. /\ Keeps(reqs, reqs2) /\ Len(reqs2) = n /\ reqs2[n] = Asking(p, kind, whose)
    BY AskedMore
  <2>2. Asking(p, kind, whose).peer = p /\ Asking(p, kind, whose).kind = kind
    BY DEF Asking
  <2> QED
    BY <2>1, <2>2
<1>2. Named(p, name, ops, reqs2, waits, sent, told2)
  BY <1>1, NamedStill
<1> HIDE DEF reqs2
<1>3. n \in 1 .. n
  BY <1>1
<1>4. name \in [1 .. ops -> 1 .. n]
  BY <1>1, <1>2 DEF Named
<1>5. name2 \in [1 .. ops + 1 -> 1 .. n] /\ name2[ops + 1] = n
      /\ \A o \in 1 .. ops : name2[o] = name[o] /\ o \in 1 .. ops + 1
  BY <1>1, <1>3, <1>4
<1> HIDE DEF name2, n
<1>6. \A o \in 1 .. ops + 1 : reqs2[name2[o]].peer = p
  <2>1. \A o \in 1 .. ops + 1 : o = ops + 1 \/ o \in 1 .. ops
    OBVIOUS
  <2> QED
    BY <1>1, <1>2, <1>5, <2>1 DEF Named
<1>7. ASSUME NEW x \in (waits \cup {w}) \cup (sent \cup {r})
      PROVE  x.op \in 1 .. ops + 1 /\ x.ask = name2[x.op] /\ x.kind = reqs2[x.ask].kind
  <2>1. CASE x \in waits \cup sent
    BY <1>2, <1>5, <2>1 DEF Named
  <2>2. CASE x \in {w, r}
    <3>1. x.op = ops + 1 /\ x.ask = n /\ x.kind = kind
      BY <2>2 DEF n
    <3> QED
      BY <1>1, <1>5, <3>1
  <2> QED
    BY <2>1, <2>2
<1>8. ASSUME NEW m \in told2
      PROVE  m.at = "apply" /\ (m.op # 0 => m.op \in 1 .. ops + 1 /\ m.ask = name2[m.op])
  BY <1>2, <1>5 DEF Named
<1>9. Named(p, name2, ops + 1, reqs2, waits \cup {w}, sent \cup {r}, told2)
  BY <1>1, <1>5, <1>6, <1>7, <1>8 DEF Named
<1> QED
  BY <1>9 DEF reqs2

-----------------------------------------------------------------------------
(* A request is answered by the decision about itself. *)

\* Nothing is hidden, so no copy is freed and none is made.
TInv ==
    /\ hides = 0 /\ shown = Peers
    /\ \A p \in Peers : Tickets(p)
    /\ AnsweredForItself

LEMMA TicketsStill ==
    ASSUME CInv, NEW p \in Peers, Tickets(p), Keeps(asked, asked'), lastOp'[p] = lastOp[p],
           Elements(pending'[p]) \subseteq Elements(pending[p]),
           Elements(up'[p]) \subseteq Elements(up[p]),
           \A m \in Elements(down'[p]) :
               \/ m \in Elements(down[p])
               \/ m.at = "apply" /\ m.op = 0
               \/ m.at = "apply" /\ \E x \in Elements(up[p]) : m.op = x.op /\ m.ask = x.ask
    PROVE  Tickets(p)'
<1>1. PICK name : Named(p, name, lastOp[p], asked, Elements(pending[p]), Elements(up[p]),
                        Elements(down[p]))
  BY DEF Tickets
<1>2. lastOp[p] \in Nat /\ asked \in Seq(Asked)
  BY DEF CInv, Typed
<1>3. Named(p, name, lastOp[p], asked', Elements(pending'[p]), Elements(up'[p]),
            Elements(down'[p]))
  <2> DEFINE waits2 == Elements(pending'[p])
             sent2 == Elements(up'[p])
             told2 == Elements(down'[p])
             reqs2 == asked'
  <2>1. /\ Keeps(asked, reqs2) /\ waits2 \in SUBSET Elements(pending[p])
        /\ sent2 \in SUBSET Elements(up[p])
        /\ \A m \in told2 :
               \/ m \in Elements(down[p])
               \/ m.at = "apply" /\ m.op = 0
               \/ m.at = "apply" /\ \E x \in Elements(up[p]) : m.op = x.op /\ m.ask = x.ask
    OBVIOUS
  <2> HIDE DEF waits2, sent2, told2, reqs2
  <2>2. Named(p, name, lastOp[p], reqs2, waits2, sent2, told2)
    BY <1>1, <1>2, <2>1, NamedStill
  <2> QED
    BY <2>2 DEF waits2, sent2, told2, reqs2
<1> QED
  BY <1>3 DEF Tickets

\* Control::issue, while the links lose at most what was read.
LEMMA TicketsMore ==
    ASSUME CInv, NEW p \in Peers, NEW kind \in Kinds, NEW whose \in {"game", "copy"},
           NEW hold \in HoldNames, NEW successor \in Controllers, Tickets(p),
           Issue(p, kind, hold, successor, pending[p]),
           asked' = Append(asked, Asking(p, kind, whose)),
           Elements(down'[p]) \subseteq Elements(down[p])
    PROVE  Tickets(p)'
<1> DEFINE w == [op |-> lastOp[p] + 1, kind |-> kind, ask |-> Len(asked) + 1]
           r == [op |-> lastOp[p] + 1, kind |-> kind, hold |-> hold,
                 successor |-> successor, ask |-> Len(asked) + 1]
<1>1. PICK name : Named(p, name, lastOp[p], asked, Elements(pending[p]), Elements(up[p]),
                        Elements(down[p]))
  BY DEF Tickets
<1>2. /\ lastOp[p] \in Nat /\ asked \in Seq(Asked)
      /\ pending[p] \in Seq(Waiting) /\ up[p] \in Seq(Request) /\ Len(asked) \in Nat
  BY DEF CInv, Typed
<1>3. w \in Waiting /\ r \in Request
  BY <1>2 DEF Waiting, Request
<1>4. /\ lastOp'[p] = lastOp[p] + 1
      /\ pending'[p] = Append(pending[p], w)
      /\ up'[p] = Append(up[p], r)
  BY DEF Issue, CInv, Typed
<1>5. /\ w.op = lastOp[p] + 1 /\ w.ask = Len(asked) + 1 /\ w.kind = kind
      /\ r.op = lastOp[p] + 1 /\ r.ask = Len(asked) + 1 /\ r.kind = kind
  OBVIOUS
<1> HIDE DEF w, r
<1>6. /\ Elements(pending'[p]) = Elements(pending[p]) \cup {w}
      /\ Elements(up'[p]) = Elements(up[p]) \cup {r}
  BY <1>2, <1>3, <1>4, ElementsOf
<1> DEFINE told2 == Elements(down'[p])
<1>7. told2 \in SUBSET Elements(down[p])
  OBVIOUS
<1> HIDE DEF told2
<1>8. \E name2 : Named(p, name2, lastOp[p] + 1, Append(asked, Asking(p, kind, whose)),
                       Elements(pending[p]) \cup {w}, Elements(up[p]) \cup {r}, told2)
  BY <1>1, <1>2, <1>5, <1>7, NamedMore
<1> QED
  BY <1>4, <1>6, <1>8 DEF Tickets, told2

\* Nothing of p is touched.
LEMMA TicketsElsewhere ==
    ASSUME CInv, NEW p \in Peers, Tickets(p), Keeps(asked, asked'), lastOp'[p] = lastOp[p],
           pending'[p] = pending[p], up'[p] = up[p], down'[p] = down[p]
    PROVE  Tickets(p)'
BY TicketsStill

LEMMA AnswersKept ==
    ASSUME CInv, Keeps(asked, asked'), AnsweredForItself,
           \A k \in 1 .. Len(asked') :
               \/ k \in 1 .. Len(asked) /\ asked'[k].answer = asked[k].answer
               \/ asked'[k].answer \in {0, k}
    PROVE  AnsweredForItself'
BY DEF AnsweredForItself

\* A decision tells its issuer under its operation, and the others under none.
LEMMA DecideTells ==
    ASSUME Assumptions, CInv, NEW c \in Controllers, NEW hold \in HoldNames,
           NEW issuer, NEW op \in Nat, NEW ask \in Nat, NEW on \in Controllers,
           Decide(c, hold, issuer, op, ask, on), NEW p \in Peers
    PROVE  \A m \in Elements(down'[p]) :
               \/ m \in Elements(down[p])
               \/ m.at = "apply" /\ m.op = 0
               \/ m.at = "apply" /\ p = issuer /\ m.op = op /\ m.ask = ask
<1> DEFINE next == Decided(control, c, hold)
           moved == c # control.controller
           last == Decided(next, on, "none")
           flag == TRUE
<1>1. /\ control \in Decision /\ down \in [Peers -> Seq(Message)] /\ moved \in BOOLEAN
      /\ flag \in BOOLEAN /\ p # Server /\ "none" \in HoldNames
  BY DEF CInv, Typed, Assumptions, PeersAssumption, Server, HoldNames
<1>2. next \in Decision
  BY <1>1, DecidedType
<1>3. last \in Decision
  <2> HIDE DEF next
  <2> QED
    BY <1>1, <1>2, DecidedType
<1>4. CASE moved /\ on \in HandsOn \ {c}
  <2> DEFINE after == [last EXCEPT !.controller = c]
             m1 == Told(p, last, flag, Server, 0, 0)
             m2 == Told(p, after, flag, issuer, op, ask)
  <2>1. after \in Decision
    BY <1>3 DEF Decision
  <2>2. \/ down'[p] = down[p]
        \/ down'[p] = Append(Append(down[p], m1), m2)
    BY <1>1, <1>4 DEF Decide, broadcast_control, Told
  <2> HIDE DEF next, moved, last, flag, after
  <2>3. m1 \in ApplyMessage /\ m1.op = 0
    <3>1. 0 \in Nat
      OBVIOUS
    <3> QED
      BY <1>1, <1>3, <3>1, ToldType
  <2>4. m2 \in ApplyMessage /\ (m2.op = 0 \/ (p = issuer /\ m2.op = op /\ m2.ask = ask))
    BY <1>1, <2>1, ToldType
  <2> HIDE DEF m1, m2
  <2>5. /\ m1.at = "apply" /\ m2.at = "apply" /\ m1 \in Message /\ m2 \in Message
        /\ down[p] \in Seq(Message) /\ Append(down[p], m1) \in Seq(Message)
    BY <1>1, <2>3, <2>4 DEF ApplyMessage, Message
  <2>6. Elements(Append(Append(down[p], m1), m2)) = Elements(down[p]) \cup {m1} \cup {m2}
    <3>1. Elements(Append(down[p], m1)) = Elements(down[p]) \cup {m1}
      BY <2>5, ElementsOf
    <3> DEFINE q == Append(down[p], m1)
    <3>2. q \in Seq(Message)
      BY <2>5
    <3> HIDE DEF q
    <3>3. Elements(Append(q, m2)) = Elements(q) \cup {m2}
      BY <2>5, <3>2, ElementsOf
    <3> QED
      BY <3>1, <3>3 DEF q
  <2> QED
    BY <2>2, <2>3, <2>4, <2>5, <2>6
<1>5. CASE ~(moved /\ on \in HandsOn \ {c})
  <2> DEFINE m1 == Told(p, next, moved, issuer, op, ask)
  <2>1. \/ down'[p] = down[p]
        \/ down'[p] = Append(down[p], m1)
    BY <1>1, <1>5 DEF Decide, broadcast_control, Told
  <2> HIDE DEF next, moved, last
  <2>2. m1 \in ApplyMessage /\ (m1.op = 0 \/ (p = issuer /\ m1.op = op /\ m1.ask = ask))
    BY <1>1, <1>2, ToldType
  <2> HIDE DEF m1
  <2>3. m1.at = "apply" /\ m1 \in Message /\ down[p] \in Seq(Message)
    BY <1>1, <2>2 DEF ApplyMessage, Message
  <2>4. Elements(Append(down[p], m1)) = Elements(down[p]) \cup {m1}
    BY <2>3, ElementsOf
  <2> QED
    BY <2>1, <2>2, <2>3, <2>4
<1> QED
  BY <1>4, <1>5

LEMMA DecidesKeepsTickets ==
    ASSUME Assumptions, CInv, TInv, NEW p \in Peers, Decides(p)
    PROVE  TInv'
<1> DEFINE request == Head(up[p])
<1>1. UNCHANGED <<shown, copy, lastOp, pending, abandoned, asked, hides>>
  BY DecidesKeepsCInv
<1>2. PICK on \in Controllers :
            \/ \E denied \in BOOLEAN : decide_request(p, denied, on)
            \/ decide_release(p, on)
  BY DEF Decides
<1>3. up[p] # <<>> /\ up' = [up EXCEPT ![p] = Tail(up[p])]
  BY <1>2 DEF decide_request, decide_release, CInv, Typed
<1>4. /\ request \in Request /\ request \in Elements(up[p])
      /\ Elements(up'[p]) \subseteq Elements(up[p])
  <2>1. up[p] \in Seq(Request) /\ up'[p] = Tail(up[p])
    BY <1>3 DEF CInv, Typed
  <2>2. request \in Request
    BY <1>3, <2>1
  <2> HIDE DEF request
  <2> QED
    BY <1>3, <2>1, <2>2, ElementsOf DEF request
<1>5. /\ request.hold \in HoldNames /\ request.op \in Nat /\ request.ask \in Nat
      /\ request.successor \in Controllers /\ p \in Controllers
      /\ "none" \in HoldNames /\ {"unauthorized", "unavailable"} \subseteq Outcomes
  BY <1>4 DEF Request, Controllers, HoldNames, Outcomes
<1>6. \/ \E outcome \in Outcomes : Refuse(p, request, outcome)
      \/ Decide(p, request.hold, p, request.op, request.ask, on)
      \/ Decide(request.successor, "none", p, request.op, request.ask, on)
  BY <1>2, <1>5 DEF decide_request, decide_release
<1> HIDE DEF request
<1>7. ASSUME NEW q \in Peers
      PROVE  \A m \in Elements(down'[q]) :
                 \/ m \in Elements(down[q])
                 \/ m.at = "apply" /\ m.op = 0
                 \/ m.at = "apply" /\ q = p /\ m.op = request.op /\ m.ask = request.ask
  <2>1. ASSUME NEW outcome \in Outcomes, Refuse(p, request, outcome)
        PROVE  \A m \in Elements(down'[q]) :
                 \/ m \in Elements(down[q])
                 \/ m.at = "apply" /\ q = p /\ m.op = request.op /\ m.ask = request.ask
    <3> DEFINE a == Apply(control, FALSE, request.op, outcome, request.ask)
    <3>1. /\ a \in Message /\ a.at = "apply" /\ a.op = request.op /\ a.ask = request.ask
      BY <1>5, <2>1 DEF Apply, Message, ApplyMessage, CInv, Typed, Decision, HoldNames
    <3>2. /\ q # p => down'[q] = down[q]
          /\ q = p => down'[q] = Append(down[q], a)
      BY <2>1 DEF Refuse, CInv, Typed
    <3> HIDE DEF a
    <3>3. Elements(Append(down[q], a)) = Elements(down[q]) \cup {a}
      BY <3>1, ElementsOf DEF CInv, Typed
    <3> QED
      BY <3>1, <3>2, <3>3
  <2>2. CASE Decide(p, request.hold, p, request.op, request.ask, on)
    BY <1>5, <2>2, DecideTells
  <2>3. CASE Decide(request.successor, "none", p, request.op, request.ask, on)
    BY <1>5, <2>3, DecideTells
  <2> QED
    BY <1>6, <2>1, <2>2, <2>3
<1>8. Keeps(asked, asked')
  BY <1>1 DEF Keeps, CInv, Typed
<1>9. ASSUME NEW q \in Peers PROVE Tickets(q)'
  <2>1. /\ Tickets(q) /\ lastOp'[q] = lastOp[q] /\ pending'[q] = pending[q]
        /\ Elements(up'[q]) \subseteq Elements(up[q])
    BY <1>1, <1>3, <1>4 DEF TInv, CInv, Typed
  <2>2. \A m \in Elements(down'[q]) :
            \/ m \in Elements(down[q])
            \/ m.at = "apply" /\ m.op = 0
            \/ m.at = "apply" /\ \E x \in Elements(up[q]) : m.op = x.op /\ m.ask = x.ask
    BY <1>4, <1>7
  <2> QED
    BY <1>8, <2>1, <2>2, TicketsStill
<1> QED
  BY <1>1, <1>9 DEF TInv, AnsweredForItself

LEMMA TransferKeepsTickets ==
    ASSUME Assumptions, CInv, TInv, NEW c \in Controllers, NEW on \in Controllers,
           transfer_steering(c, on)
    PROVE  TInv'
<1>1. UNCHANGED <<shown, copy, lastOp, pending, abandoned, up, asked, hides>>
  BY TransferKeepsCInv
<1>2. Decide(c, "none", Server, 0, 0, on) /\ "none" \in HoldNames /\ 0 \in Nat
  BY DEF transfer_steering, HoldNames
<1>3. Keeps(asked, asked')
  BY <1>1 DEF Keeps, CInv, Typed
<1>4. ASSUME NEW q \in Peers PROVE Tickets(q)'
  <2>1. \A m \in Elements(down'[q]) :
               \/ m \in Elements(down[q])
               \/ m.at = "apply" /\ m.op = 0
    BY <1>2, DecideTells
  <2>2. Tickets(q) /\ lastOp'[q] = lastOp[q] /\ pending'[q] = pending[q] /\ up'[q] = up[q]
    BY <1>1 DEF TInv
  <2> QED
    BY <1>3, <2>1, <2>2, TicketsStill
<1> QED
  BY <1>1, <1>4 DEF TInv, AnsweredForItself

LEMMA AppendedAnswer ==
    ASSUME CInv, AnsweredForItself, NEW p \in Peers, NEW kind \in Kinds,
           NEW whose \in {"game", "copy"}, asked' = Append(asked, Asking(p, kind, whose))
    PROVE  AnsweredForItself' /\ Keeps(asked, asked')
<1>1. asked \in Seq(Asked) /\ Len(asked) \in Nat
  BY DEF CInv, Typed
<1>2. /\ Keeps(asked, asked') /\ Len(asked') = Len(asked) + 1
      /\ asked'[Len(asked) + 1] = Asking(p, kind, whose)
      /\ \A k \in 1 .. Len(asked) : asked'[k] = asked[k]
  BY <1>1, AskedMore
<1>3. Asking(p, kind, whose).answer = 0
  BY DEF Asking
<1>4. ASSUME NEW k \in 1 .. Len(asked') PROVE asked'[k].answer \in {0, k}
  <2>1. k \in 1 .. Len(asked) \/ k = Len(asked) + 1
    BY <1>1, <1>2
  <2> QED
    BY <1>2, <1>3, <2>1 DEF AnsweredForItself
<1> QED
  BY <1>2, <1>4 DEF AnsweredForItself

LEMMA AsksKeepsTickets ==
    ASSUME Assumptions, CInv, TInv, NEW p \in Peers, Asks(p)
    PROVE  TInv'
<1>1. ASSUME NEW kind \in Kinds, NEW hold \in HoldNames, NEW successor \in Controllers,
             Issue(p, kind, hold, successor, pending[p]),
             asked' = Append(asked, Asking(p, kind, "game")),
             UNCHANGED <<shown, down, hides>>
      PROVE  TInv'
  <2>1. AnsweredForItself' /\ Keeps(asked, asked')
    BY <1>1, AppendedAnswer DEF TInv
  <2>2. ASSUME NEW q \in Peers PROVE Tickets(q)'
    <3>1. CASE q = p
      <4>1. Elements(down'[p]) \subseteq Elements(down[p]) /\ Tickets(p)
        BY <1>1 DEF TInv
      <4> QED
        BY <1>1, <3>1, <4>1, TicketsMore
    <3>2. CASE q # p
      <4>1. /\ lastOp'[q] = lastOp[q] /\ pending'[q] = pending[q] /\ up'[q] = up[q]
            /\ down'[q] = down[q]
        BY <1>1, <3>2 DEF Issue, CInv, Typed
      <4> QED
        BY <2>1, <4>1, TicketsElsewhere DEF TInv
    <3> QED
      BY <3>1, <3>2
  <2> QED
    BY <1>1, <2>1, <2>2 DEF TInv
<1>2. ASSUME NEW hold \in Holds, claim_control(p, hold) PROVE TInv'
  <2>1. hold \in HoldNames /\ p \in Controllers /\ "claim" \in Kinds
    BY DEF Assumptions, HoldsAssumption, HoldNames, Controllers, Kinds
  <2> QED
    BY <1>1, <1>2, <2>1 DEF claim_control, used
<1>3. ASSUME NEW successor \in Controllers \ {p}, release_control(p, successor) PROVE TInv'
  <2>1. "none" \in HoldNames /\ successor \in Controllers /\ "release" \in Kinds
    BY DEF HoldNames, Kinds
  <2> QED
    BY <1>1, <1>3, <2>1 DEF release_control, used
<1> QED
  BY <1>2, <1>3 DEF Asks

LEMMA ExpireSettles ==
    ASSUME CInv, NEW p \in Peers, NEW n \in 1 .. MaxPending, expire_control(p, n)
    PROVE  /\ Len(asked') = Len(asked)
           /\ \A k \in 1 .. Len(asked) : /\ asked'[k].answer = asked[k].answer
                                         /\ asked'[k].state \in {"timeout", asked[k].state}
<1> DEFINE gone == {k \in 1 .. Len(asked) :
                       \E i \in 1 .. n : SubSeq(pending[p], 1, n)[i].ask = k}
<1>1. asked' = [k \in 1 .. Len(asked) |->
                   IF k \in gone THEN [asked[k] EXCEPT !.state = "timeout"] ELSE asked[k]]
  BY DEF expire_control
<1> HIDE DEF gone
<1>2. "timeout" \in States /\ asked \in Seq(Asked)
  BY DEF States, CInv, Typed
<1> QED
  BY <1>1, <1>2, AskedSettle

LEMMA ExpireKeepsTickets ==
    ASSUME CInv, TInv, NEW p \in Peers, NEW n \in 1 .. MaxPending, expire_control(p, n)
    PROVE  TInv'
<1>1. /\ n \in 1 .. Len(pending[p])
      /\ pending' = [pending EXCEPT ![p] = SubSeq(pending[p], n + 1, Len(pending[p]))]
      /\ UNCHANGED <<shown, lastOp, up, down, hides>>
  BY DEF expire_control, links, used, CInv, Typed
<1>2. Keeps(asked, asked')
  BY ExpireKeepsCInv
<1>3. AnsweredForItself'
  BY <1>2, ExpireSettles, AnswersKept DEF TInv
<1>4. Elements(pending'[p]) \subseteq Elements(pending[p])
  <2>1. pending[p] \in Seq(Waiting) /\ pending'[p] = SubSeq(pending[p], n + 1, Len(pending[p]))
    BY <1>1 DEF CInv, Typed
  <2> QED
    BY <1>1, <2>1, ElementsOf
<1>5. ASSUME NEW q \in Peers PROVE Tickets(q)'
  <2>1. /\ Tickets(q) /\ lastOp'[q] = lastOp[q] /\ up'[q] = up[q] /\ down'[q] = down[q]
    BY <1>1 DEF TInv
  <2>2. Elements(pending'[q]) \subseteq Elements(pending[q])
    BY <1>1, <1>4 DEF CInv, Typed
  <2> QED
    BY <1>2, <2>1, <2>2, TicketsStill
<1> QED
  BY <1>1, <1>3, <1>5 DEF TInv

\* settle_control settles the request that the answer is about.
Answers(p, heard, t) ==
    /\ t \in 1 .. Len(asked) /\ t = heard.ask /\ heard.op # 0 /\ asked[t].peer = p
    /\ Keeps(asked, asked') /\ Len(asked') = Len(asked)
    /\ \A k \in 1 .. Len(asked) : k # t => asked'[k] = asked[k]
    /\ asked'[t].answer = t
    /\ asked'[t].state = "ok" /\ asked[t].kind = "claim" => heard.outcome = "granted"

LEMMA SettleMeans ==
    ASSUME CInv, NEW p \in Peers, Tickets(p), NEW heard \in ApplyMessage,
           heard \in Elements(down[p]), NEW now, settle_control(p, heard, now)
    PROVE  \/ /\ \E t \in 1 .. Len(asked) : Answers(p, heard, t)
              /\ UNCHANGED <<lastOp, up>>
              /\ Elements(pending'[p]) \subseteq Elements(pending[p])
              /\ \A q \in Peers : q # p => pending'[q] = pending[q]
           \/ /\ Issue(p, "release", "none", Server, pending[p])
              /\ asked' = Append(asked, Asking(p, "release", "copy"))
           \/ UNCHANGED <<lastOp, pending, up, asked>>
<1> DEFINE waits == {i \in 1 .. Len(pending[p]) : pending[p][i].op = heard.op}
<1>1. CASE waits = {}
  BY <1>1 DEF settle_control
<1>2. CASE waits # {}
  <2> DEFINE i == CHOOSE j \in waits : \A k \in waits : j <= k
             held == pending[p][i]
             t == held.ask
             state == Outcome(p, held, heard, now)
             answer == heard.ask
  <2>1. /\ pending' = [pending EXCEPT ![p] = RemoveAt(pending[p], i)]
        /\ asked' = [asked EXCEPT ![t].state = state, ![t].answer = answer]
        /\ UNCHANGED <<lastOp, up>>
    BY <1>2 DEF settle_control, CInv, Typed
  <2>2. i \in waits
    <3>1. waits \in SUBSET Nat
      OBVIOUS
    <3> HIDE DEF waits
    <3> QED
      BY <1>2, <3>1, LeastPlace
  <2> HIDE DEF i
  <2>3. /\ pending[p] \in Seq(Waiting) /\ i \in 1 .. Len(pending[p]) /\ held.op = heard.op
        /\ asked \in Seq(Asked)
    BY <2>2 DEF CInv, Typed
  <2>4. held \in Waiting /\ held \in Elements(pending[p])
    BY <2>3 DEF Elements
  <2>5. Elements(RemoveAt(pending[p], i)) \subseteq Elements(pending[p])
    BY <2>3, <2>4, ElementsOf
  <2>6. /\ Elements(pending'[p]) \subseteq Elements(pending[p])
        /\ \A q \in Peers : q # p => pending'[q] = pending[q]
    BY <2>1, <2>5 DEF CInv, Typed
  <2> HIDE DEF held, waits
  <2>7. PICK name : Named(p, name, lastOp[p], asked, Elements(pending[p]), Elements(up[p]),
                          Elements(down[p]))
    BY DEF Tickets
  <2>8. /\ held.op \in 1 .. lastOp[p] /\ t = name[held.op] /\ held.kind = asked[t].kind
        /\ name[held.op] \in 1 .. Len(asked) /\ asked[name[held.op]].peer = p
    BY <2>4, <2>7 DEF Named
  <2>9. heard.op # 0 /\ answer = t /\ t \in 1 .. Len(asked) /\ asked[t].peer = p
    <3>1. lastOp[p] \in Nat
      BY DEF CInv, Typed
    <3>2. held.op # 0
      BY <2>8, <3>1
    <3> QED
      BY <2>3, <2>7, <2>8, <3>2 DEF Named
  <2>10. state \in States /\ t \in Nat /\ answer \in Nat
    BY <2>9 DEF Outcome, States
  <2>11. state = "ok" /\ held.kind = "claim" => heard.outcome = "granted"
    BY DEF Outcome
  <2> HIDE DEF t, state, answer
  <2>12. /\ Keeps(asked, asked') /\ Len(asked') = Len(asked)
         /\ \A k \in 1 .. Len(asked) : /\ k # t => asked'[k] = asked[k]
                                       /\ k = t => asked'[k].state = state /\ asked'[k].answer = answer
    <3>1. asked' = [asked EXCEPT ![t].state = state, ![t].answer = answer]
      BY <2>1
    <3>2. asked \in Seq(Asked)
      BY <2>3
    <3>3. Changes(asked, asked', t, state, answer)
      BY <2>10, <3>1, <3>2, AskedChanges
    <3> QED
      BY <3>3 DEF Changes
  <2>13. Answers(p, heard, t)
    BY <2>8, <2>9, <2>11, <2>12 DEF Answers, answer, t
  <2> QED
    BY <2>1, <2>6, <2>9, <2>13
<1> QED
  BY <1>1, <1>2

LEMMA HearsKeepsTickets ==
    ASSUME CInv, TInv, NEW p \in Peers, Hears(p)
    PROVE  TInv'
<1> DEFINE m == Head(down[p])
<1>1. /\ down[p] # <<>> /\ down' = [down EXCEPT ![p] = Tail(down[p])]
      /\ UNCHANGED <<shown, hides>> /\ Keeps(asked, asked')
  BY HearsKeepsCInv DEF Hears, handle_control_apply, handle_hide, handle_spawn, hears, used, Took
<1>2. /\ m \in Message /\ m \in Elements(down[p])
      /\ Elements(down'[p]) \subseteq Elements(down[p])
      /\ \A q \in Peers : q # p => down'[q] = down[q]
  <2>1. down[p] \in Seq(Message) /\ down'[p] = Tail(down[p])
    BY <1>1 DEF CInv, Typed
  <2>2. m \in Message
    BY <1>1, <2>1
  <2>3. m \in Elements(down[p]) /\ Elements(down'[p]) \subseteq Elements(down[p])
    <3> HIDE DEF m
    <3> QED
      BY <1>1, <2>1, <2>2, ElementsOf DEF m
  <2> QED
    BY <1>1, <2>2, <2>3 DEF CInv, Typed
<1>3. m.at = "apply"
  BY <1>2 DEF TInv, Tickets, Named
<1>4. m \in ApplyMessage
  BY <1>2, <1>3 DEF Message, SpawnMessage, HideMessage
<1> HIDE DEF m
<1>5. \/ UNCHANGED <<lastOp, pending, up, asked>>
      \/ \E now : settle_control(p, m, now)
  BY <1>3 DEF Hears, handle_control_apply, handle_hide, handle_spawn, hears, copies, m
<1>6. \/ /\ \E t \in 1 .. Len(asked) : Answers(p, m, t)
         /\ UNCHANGED <<lastOp, up>>
         /\ Elements(pending'[p]) \subseteq Elements(pending[p])
         /\ \A q \in Peers : q # p => pending'[q] = pending[q]
      \/ /\ Issue(p, "release", "none", Server, pending[p])
         /\ asked' = Append(asked, Asking(p, "release", "copy"))
      \/ UNCHANGED <<lastOp, pending, up, asked>>
  BY <1>2, <1>4, <1>5, SettleMeans DEF TInv
<1>7. CASE /\ \E t \in 1 .. Len(asked) : Answers(p, m, t)
           /\ UNCHANGED <<lastOp, up>>
           /\ Elements(pending'[p]) \subseteq Elements(pending[p])
           /\ \A q \in Peers : q # p => pending'[q] = pending[q]
  <2>1. PICK t \in 1 .. Len(asked) : Answers(p, m, t)
    BY <1>7
  <2>2. AnsweredForItself'
    BY <1>1, <2>1, AnswersKept DEF Answers, TInv
  <2>3. ASSUME NEW q \in Peers PROVE Tickets(q)'
    <3>1. /\ Elements(pending'[q]) \subseteq Elements(pending[q])
          /\ Elements(down'[q]) \subseteq Elements(down[q])
      BY <1>2, <1>7
    <3>2. Tickets(q) /\ lastOp'[q] = lastOp[q] /\ up'[q] = up[q]
      BY <1>7 DEF TInv
    <3> QED
      BY <1>1, <3>1, <3>2, TicketsStill
  <2> QED
    BY <1>1, <2>2, <2>3 DEF TInv
<1>8. CASE /\ Issue(p, "release", "none", Server, pending[p])
           /\ asked' = Append(asked, Asking(p, "release", "copy"))
  <2>1. "release" \in Kinds /\ "none" \in HoldNames /\ Server \in Controllers
    BY DEF Kinds, HoldNames, Controllers
  <2>2. AnsweredForItself'
    BY <1>8, <2>1, AppendedAnswer DEF TInv
  <2>3. ASSUME NEW q \in Peers PROVE Tickets(q)'
    <3>1. CASE q = p
      BY <1>2, <1>8, <2>1, <3>1, TicketsMore DEF TInv
    <3>2. CASE q # p
      <4>1. /\ lastOp'[q] = lastOp[q] /\ pending'[q] = pending[q] /\ up'[q] = up[q]
            /\ down'[q] = down[q]
        BY <1>2, <1>8, <3>2 DEF Issue, CInv, Typed
      <4> QED
        BY <1>1, <4>1, TicketsElsewhere DEF TInv
    <3> QED
      BY <3>1, <3>2
  <2> QED
    BY <1>1, <2>2, <2>3 DEF TInv
<1>9. CASE UNCHANGED <<lastOp, pending, up, asked>>
  <2>1. ASSUME NEW q \in Peers PROVE Tickets(q)'
    <3>1. Elements(down'[q]) \subseteq Elements(down[q])
      BY <1>2
    <3>2. /\ Tickets(q) /\ lastOp'[q] = lastOp[q] /\ up'[q] = up[q]
          /\ pending'[q] = pending[q]
      BY <1>9 DEF TInv
    <3> QED
      BY <1>1, <3>1, <3>2, TicketsStill
  <2> QED
    BY <1>1, <1>9, <2>1 DEF TInv, AnsweredForItself
<1> QED
  BY <1>6, <1>7, <1>8, <1>9

LEMMA InitTInv ==
    ASSUME Init
    PROVE  TInv
<1>1. ASSUME NEW p \in Peers PROVE Tickets(p)
  <2>1. /\ lastOp[p] = 0 /\ asked = <<>> /\ pending[p] = <<>> /\ up[p] = <<>> /\ down[p] = <<>>
    BY DEF Init
  <2>2. Elements(<<>>) = {} /\ 1 .. 0 = {} /\ Len(<<>>) = 0
    BY DEF Elements
  <2> DEFINE name == [o \in 1 .. 0 |-> 1]
  <2>3. name \in [1 .. 0 -> 1 .. 0]
    BY <2>2
  <2> HIDE DEF name
  <2>4. Named(p, name, 0, <<>>, {}, {}, {})
    BY <2>2, <2>3 DEF Named
  <2> QED
    BY <2>1, <2>2, <2>4 DEF Tickets
<1>2. hides = 0 /\ shown = Peers /\ asked = <<>>
  BY DEF Init
<1> QED
  BY <1>1, <1>2 DEF TInv, AnsweredForItself

LEMMA NextTInv ==
    ASSUME Assumptions, MaxHides = 0, CInv, TInv, [Next]_vars
    PROVE  TInv'
<1>1. ASSUME NEW p \in Peers PROVE ~hide(p) /\ ~show(p)
  BY DEF TInv, hide, show
<1>2. ASSUME NEW p \in Peers, Asks(p) PROVE TInv'
  BY <1>2, AsksKeepsTickets
<1>3. ASSUME NEW p \in Peers, Decides(p) PROVE TInv'
  BY <1>3, DecidesKeepsTickets
<1>4. ASSUME NEW p \in Peers, Hears(p) PROVE TInv'
  BY <1>4, HearsKeepsTickets
<1>5. ASSUME NEW p \in Peers, NEW n \in 1 .. MaxPending, expire_control(p, n) PROVE TInv'
  BY <1>5, ExpireKeepsTickets
<1>6. ASSUME NEW c \in Controllers, NEW on \in Controllers, transfer_steering(c, on) PROVE TInv'
  BY <1>6, TransferKeepsTickets
<1>7. CASE UNCHANGED vars
  BY <1>7 DEF vars, copies, links, used, TInv, Tickets, AnsweredForItself
<1> QED
  BY <1>1, <1>2, <1>3, <1>4, <1>5, <1>6, <1>7 DEF Next

\* While no copy is freed, a request settles by the decision about itself, however many
\* wait, time out and are given back (entity/control.cpp, Control::issue and settle; a copy
\* shown again counts its operations anew and may take an answer of the copy before).
THEOREM AnswersAreTheirOwn ==
    ASSUME Assumptions, MaxHides = 0
    PROVE  Spec => []AnsweredForItself
<1>1. Init => TInv
  BY InitTInv
<1>2. CInv /\ TInv /\ [Next]_vars => TInv'
  BY NextTInv
<1>3. TInv => AnsweredForItself
  BY DEF TInv
<1> QED
  BY <1>1, <1>2, <1>3, Invariant, PTL DEF Spec

-----------------------------------------------------------------------------
(* A claim resolves where its peer is in charge. *)

\* What waits in q for the copy of p at revision w: a grant is newer than the copy
\* and than all before it, and what grants a claim of p puts p in charge.
Ordered(p, q, w, top, reqs) ==
    \A i \in 1 .. Len(q) :
        /\ q[i].revision <= top
        /\ q[i].outcome = "granted" =>
            /\ w < q[i].revision
            /\ \A j \in 1 .. i - 1 : q[j].revision < q[i].revision
            /\ q[i].op # 0 /\ reqs[q[i].ask].kind = "claim" => q[i].controller = p

OInv ==
    \A p \in Peers :
        /\ copy[p] # NoCopy
        /\ Ordered(p, down[p], copy[p].revision, control.revision, asked)

\* What p is sent while nothing is hidden, and its operations.
LEMMA OnlyAnswers ==
    ASSUME CInv, TInv, NEW p \in Peers
    PROVE  /\ down[p] \in Seq(ApplyMessage)
           /\ \A i \in 1 .. Len(down[p]) : down[p][i].op # 0 => down[p][i].ask \in 1 .. Len(asked)
           /\ \A x \in Elements(up[p]) : x.ask \in 1 .. Len(asked) /\ x.kind = asked[x.ask].kind
<1>1. PICK name : Named(p, name, lastOp[p], asked, Elements(pending[p]), Elements(up[p]),
                        Elements(down[p]))
  BY DEF TInv, Tickets
<1>2. down[p] \in Seq(Message)
  BY DEF CInv, Typed
<1>3. ASSUME NEW i \in 1 .. Len(down[p])
      PROVE  /\ down[p][i] \in ApplyMessage
             /\ down[p][i].op # 0 => down[p][i].ask \in 1 .. Len(asked)
  <2>1. down[p][i] \in Message /\ down[p][i] \in Elements(down[p])
    BY <1>2 DEF Elements
  <2>2. down[p][i].at = "apply"
    BY <1>1, <2>1 DEF Named
  <2>3. down[p][i] \in ApplyMessage
    BY <2>1, <2>2 DEF Message, SpawnMessage, HideMessage
  <2>4. down[p][i].op # 0 => down[p][i].ask \in 1 .. Len(asked)
    BY <1>1, <2>1 DEF Named
  <2> QED
    BY <2>3, <2>4
<1>4. down[p] \in Seq(ApplyMessage)
  <2>1. Len(down[p]) \in Nat /\ down[p] = [k \in 1 .. Len(down[p]) |-> down[p][k]]
    BY <1>2
  <2> QED
    BY <1>3, <2>1, SequenceOf
<1>5. \A x \in Elements(up[p]) : x.ask \in 1 .. Len(asked) /\ x.kind = asked[x.ask].kind
  BY <1>1 DEF Named
<1> QED
  BY <1>3, <1>4, <1>5

\* Requests are added and settle.
LEMMA OrderedStill ==
    ASSUME NEW p, NEW q, NEW w, NEW top, NEW reqs, NEW reqs2, Keeps(reqs, reqs2),
           Ordered(p, q, w, top, reqs),
           \A i \in 1 .. Len(q) : q[i].op # 0 => q[i].ask \in 1 .. Len(reqs)
    PROVE  Ordered(p, q, w, top, reqs2)
BY DEF Ordered, Keeps

\* A message is sent: it refuses, or it tells of the next revision.
LEMMA OrderedOn ==
    ASSUME NEW p, NEW q \in Seq(ApplyMessage), NEW w \in Nat, NEW top \in Nat, NEW reqs,
           Ordered(p, q, w, top, reqs), w <= top, NEW top2 \in Nat, top <= top2,
           NEW m \in ApplyMessage, m.revision <= top2,
           m.outcome = "granted" =>
               /\ top < m.revision
               /\ m.op # 0 /\ reqs[m.ask].kind = "claim" => m.controller = p
    PROVE  Ordered(p, Append(q, m), w, top2, reqs)
<1> DEFINE n == Len(q) + 1
           s == Append(q, m)
<1>1. Len(s) = n /\ Len(q) \in Nat /\ s[n] = m /\ \A i \in 1 .. Len(q) : s[i] = q[i]
  OBVIOUS
<1>2. ASSUME NEW i \in 1 .. Len(q) PROVE q[i].revision \in Nat /\ q[i].revision <= top
  <2>1. q[i] \in ApplyMessage
    OBVIOUS
  <2>2. q[i].revision \in Nat
    BY <2>1 DEF ApplyMessage
  <2> QED
    BY <2>2 DEF Ordered
<1>3. m.revision \in Nat
  BY DEF ApplyMessage
<1> HIDE DEF s
<1>4. ASSUME NEW i \in 1 .. n
      PROVE  /\ s[i].revision <= top2
             /\ s[i].outcome = "granted" =>
                 /\ w < s[i].revision
                 /\ \A j \in 1 .. i - 1 : s[j].revision < s[i].revision
                 /\ s[i].op # 0 /\ reqs[s[i].ask].kind = "claim" => s[i].controller = p
  <2>1. CASE i = n
    <3>1. s[i] = m /\ \A j \in 1 .. i - 1 : s[j].revision \in Nat /\ s[j].revision <= top
      BY <1>1, <1>2, <2>1
    <3> QED
      BY <1>3, <3>1
  <2>2. CASE i # n
    <3>1. i \in 1 .. Len(q) /\ s[i] = q[i] /\ \A j \in 1 .. i - 1 : s[j] = q[j]
      BY <1>1, <2>2
    <3>2. q[i].revision <= top2
      BY <1>2, <3>1
    <3> QED
      BY <3>1, <3>2 DEF Ordered
  <2> QED
    BY <2>1, <2>2
<1> QED
  BY <1>1, <1>4 DEF Ordered, s

\* A message is read.
LEMMA OrderedThence ==
    ASSUME NEW p, NEW q \in Seq(ApplyMessage), NEW w \in Nat, NEW top, NEW reqs,
           Ordered(p, q, w, top, reqs), q # <<>>,
           NEW w2, w2 \in {w, Head(q).revision}
    PROVE  Ordered(p, Tail(q), w2, top, reqs)
<1> DEFINE t == Tail(q)
<1>1. /\ Len(t) = Len(q) - 1 /\ Len(q) \in Nat \ {0} /\ Head(q) = q[1]
      /\ \A i \in 1 .. Len(q) - 1 : t[i] = q[i + 1]
  OBVIOUS
<1> HIDE DEF t
<1>2. ASSUME NEW i \in 1 .. Len(t)
      PROVE  /\ t[i].revision <= top
             /\ t[i].outcome = "granted" =>
                 /\ w2 < t[i].revision
                 /\ \A j \in 1 .. i - 1 : t[j].revision < t[i].revision
                 /\ t[i].op # 0 /\ reqs[t[i].ask].kind = "claim" => t[i].controller = p
  <2>1. t[i] = q[i + 1] /\ i + 1 \in 1 .. Len(q) /\ 1 \in 1 .. (i + 1) - 1
    BY <1>1
  <2>2. \A j \in 1 .. i - 1 : t[j] = q[j + 1] /\ j + 1 \in 1 .. (i + 1) - 1
    BY <1>1
  <2> QED
    BY <1>1, <2>1, <2>2 DEF Ordered
<1> QED
  BY <1>2 DEF Ordered, t

\* A decision of a server whose handlers hand nothing on.
LEMMA DecideOrders ==
    ASSUME Assumptions, HandsOn = {}, CInv, TInv, OInv, NEW c \in Controllers,
           NEW hold \in HoldNames, NEW issuer \in Controllers, NEW op \in Nat, NEW ask \in Nat,
           NEW on \in Controllers, Decide(c, hold, issuer, op, ask, on),
           UNCHANGED <<copy, asked>>,
           issuer \in Peers /\ asked[ask].kind = "claim" => c = issuer
    PROVE  OInv'
<1> DEFINE next == Decided(control, c, hold)
           moved == c # control.controller
           r == control.revision
<1>1. /\ control \in Decision /\ r \in Nat /\ down \in [Peers -> Seq(Message)]
      /\ moved \in BOOLEAN /\ shown = Peers
  BY DEF CInv, Typed, Decision, TInv
<1>2. next \in Decision /\ next.controller = c /\ next.revision = r + 1
  BY <1>1, DecidedType
<1> HIDE DEF next, moved
<1>3. control' = next /\ down' = broadcast_control(down, next, moved, issuer, op, ask)
  BY DEF Decide, next, moved
<1>4. ASSUME NEW p \in Peers
      PROVE  copy'[p] # NoCopy /\ Ordered(p, down'[p], copy'[p].revision, r + 1, asked')
  <2> DEFINE m == Told(p, next, moved, issuer, op, ask)
             q == down[p]
             w == copy[p].revision
  <2>1. down'[p] = Append(q, m)
    BY <1>1, <1>3 DEF broadcast_control, Told
  <2>2. /\ m \in ApplyMessage /\ m.controller = c /\ m.revision = r + 1
        /\ m.op # 0 => p = issuer /\ m.op = op /\ m.ask = ask
    BY <1>1, <1>2, ToldType
  <2>3. m.op # 0 /\ asked[m.ask].kind = "claim" => m.controller = p
    BY <2>2
  <2>4. q \in Seq(ApplyMessage) /\ Ordered(p, q, w, r, asked) /\ copy[p] # NoCopy
    BY OnlyAnswers DEF OInv
  <2>5. w \in Nat /\ w <= r
    BY NoCopyYet, <2>4 DEF CInv, Agreeing, Follows, Agrees, Typed
  <2> HIDE DEF m, q, w, r
  <2>6. r \in Nat /\ r + 1 \in Nat /\ r <= r + 1 /\ r < r + 1 /\ m.revision <= r + 1
    BY <1>1, <2>2
  <2>7. Ordered(p, Append(q, m), w, r + 1, asked)
    BY <2>2, <2>3, <2>4, <2>5, <2>6, OrderedOn
  <2> QED
    BY <2>1, <2>4, <2>7 DEF w
<1> QED
  BY <1>2, <1>3, <1>4 DEF OInv

LEMMA RefuseOrders ==
    ASSUME CInv, TInv, OInv, NEW p \in Peers, NEW request \in Request,
           NEW outcome \in {"unauthorized", "unavailable"}, Refuse(p, request, outcome),
           UNCHANGED <<copy, asked>>
    PROVE  OInv'
<1> DEFINE m == Apply(control, FALSE, request.op, outcome, request.ask)
           r == control.revision
<1>1. control \in Decision /\ r \in Nat /\ down \in [Peers -> Seq(Message)]
  BY DEF CInv, Typed, Decision
<1>2. m \in ApplyMessage /\ m.revision = r /\ m.outcome # "granted"
  BY <1>1 DEF Apply, ApplyMessage, Decision, HoldNames, Request, Outcomes
<1>3. down' = [down EXCEPT ![p] = Append(down[p], m)] /\ UNCHANGED control
  BY <1>1 DEF Refuse
<1> HIDE DEF m
<1>4. ASSUME NEW q \in Peers
      PROVE  copy'[q] # NoCopy /\ Ordered(q, down'[q], copy'[q].revision, r, asked')
  <2> DEFINE w == copy[q].revision
             s == down[q]
  <2>1. s \in Seq(ApplyMessage) /\ Ordered(q, s, w, r, asked) /\ copy[q] # NoCopy
    BY OnlyAnswers DEF OInv
  <2>2. CASE q # p
    BY <1>1, <1>3, <2>1, <2>2
  <2>3. CASE q = p
    <3>1. w \in Nat /\ w <= r
      <4>1. Agrees(decided, copy[q]) /\ Agrees(decided, control) /\ Len(decided) = r
        BY <1>1, <2>1 DEF CInv, Agreeing, Follows, Typed
      <4>2. w \in 1 .. Len(decided)
        BY <4>1 DEF Agrees
      <4> HIDE DEF w
      <4> QED
        BY <4>1, <4>2 DEF Agrees
    <3>2. down'[q] = Append(s, m)
      BY <1>1, <1>3, <2>3
    <3> HIDE DEF s, w, r
    <3>3. r <= r /\ r \in Nat /\ m.revision <= r
      BY <1>1, <1>2
    <3>4. Ordered(q, Append(s, m), w, r, asked)
      BY <1>2, <2>1, <3>1, <3>3, OrderedOn
    <3> QED
      BY <2>1, <3>2, <3>4 DEF w
  <2> QED
    BY <2>2, <2>3
<1> QED
  BY <1>3, <1>4 DEF OInv

LEMMA DecidesKeepsOrder ==
    ASSUME Assumptions, HandsOn = {}, CInv, TInv, OInv, NEW p \in Peers, Decides(p)
    PROVE  OInv'
<1> DEFINE request == Head(up[p])
<1>1. UNCHANGED <<copy, asked>>
  BY DecidesKeepsCInv
<1>2. PICK on \in Controllers :
            \/ \E denied \in BOOLEAN : decide_request(p, denied, on)
            \/ decide_release(p, on)
  BY DEF Decides
<1>3. request \in Request /\ request \in Elements(up[p])
  <2>1. up[p] # <<>> /\ up[p] \in Seq(Request)
    BY <1>2 DEF decide_request, decide_release, CInv, Typed
  <2>2. request \in Request
    BY <2>1
  <2> HIDE DEF request
  <2> QED
    BY <2>1, <2>2, ElementsOf DEF request
<1>4. /\ request.hold \in HoldNames /\ request.op \in Nat /\ request.ask \in Nat
      /\ request.successor \in Controllers /\ p \in Controllers /\ "none" \in HoldNames
  BY <1>3 DEF Request, Controllers, HoldNames
<1>5. request.kind = asked[request.ask].kind
  BY <1>3, OnlyAnswers
<1>6. \/ \E outcome \in {"unauthorized", "unavailable"} : Refuse(p, request, outcome)
      \/ Decide(p, request.hold, p, request.op, request.ask, on)
      \/ /\ request.kind = "release"
         /\ Decide(request.successor, "none", p, request.op, request.ask, on)
  BY <1>2 DEF decide_request, decide_release
<1> HIDE DEF request
<1>7. CASE \E outcome \in {"unauthorized", "unavailable"} : Refuse(p, request, outcome)
  BY <1>1, <1>3, <1>7, RefuseOrders
<1>8. CASE Decide(p, request.hold, p, request.op, request.ask, on)
  BY <1>1, <1>4, <1>8, DecideOrders
<1>9. CASE /\ request.kind = "release"
           /\ Decide(request.successor, "none", p, request.op, request.ask, on)
  <2>1. asked[request.ask].kind # "claim"
    BY <1>5, <1>9
  <2> QED
    BY <1>1, <1>4, <1>9, <2>1, DecideOrders
<1> QED
  BY <1>6, <1>7, <1>8, <1>9

\* Nothing is sent and nothing is read.
LEMMA OrderKept ==
    ASSUME CInv, TInv, OInv, Keeps(asked, asked'), UNCHANGED <<control, copy, down>>
    PROVE  OInv'
BY OnlyAnswers, OrderedStill DEF OInv

LEMMA HearsKeepsOrder ==
    ASSUME CInv, TInv, OInv, NEW p \in Peers, Hears(p)
    PROVE  /\ OInv'
           /\ LET m == Head(down[p])
                  now == Installed(p, m)
              IN  /\ m \in ApplyMessage /\ m \in Elements(down[p])
                  /\ copy'[p] = now /\ settle_control(p, m, now)
                  /\ m.outcome = "granted" =>
                       /\ copy[p].revision < m.revision
                       /\ m.op # 0 /\ asked[m.ask].kind = "claim" => m.controller = p
<1> DEFINE m == Head(down[p])
           now == Installed(p, m)
           w == copy[p].revision
           r == control.revision
<1>1. /\ down[p] # <<>> /\ down' = [down EXCEPT ![p] = Tail(down[p])]
      /\ UNCHANGED control /\ Keeps(asked, asked')
  BY HearsKeepsCInv DEF Hears, handle_control_apply, handle_hide, handle_spawn, hears, used, Took
<1>2. /\ down[p] \in Seq(ApplyMessage) /\ down \in [Peers -> Seq(Message)] /\ copy[p] # NoCopy
      /\ copy \in [Peers -> Decision \cup {NoCopy}] /\ w \in Nat
  BY OnlyAnswers, NoCopyYet DEF OInv, CInv, Typed
<1>3. m \in ApplyMessage /\ m.at = "apply"
  <2>1. m \in ApplyMessage
    BY <1>1, <1>2
  <2> QED
    BY <2>1 DEF ApplyMessage
<1>4. m \in Elements(down[p])
  <2> HIDE DEF m
  <2> QED
    BY <1>1, <1>2, <1>3, ElementsOf DEF m
<1>5. copy' = [copy EXCEPT ![p] = now] /\ settle_control(p, m, now)
  BY <1>2, <1>3 DEF Hears, handle_control_apply, handle_hide, handle_spawn, hears
<1>6. /\ now # NoCopy
      /\ now.revision \in {w, m.revision}
  <2>1. Agrees(decided, now)
    <3>1. Follows(p) /\ w # 0
      BY <1>2, NoCopyYet DEF CInv, Agreeing
    <3>2. Sound(decided, w, m)
      BY <1>1, <1>2, <3>1, LeadsThence DEF Follows
    <3> QED
      BY <1>2, <1>3, <3>1, <3>2, InstalledAgrees DEF Follows
  <2>2. now # NoCopy
    BY <2>1 DEF Agrees, NoCopy
  <2> QED
    BY <2>2 DEF Installed
<1>7. m.outcome = "granted" =>
        w < m.revision /\ (m.op # 0 /\ asked[m.ask].kind = "claim" => m.controller = p)
  <2>1. m = down[p][1] /\ 1 \in 1 .. Len(down[p])
    BY <1>1, <1>2
  <2> QED
    BY <2>1 DEF OInv, Ordered
<1>8. ASSUME NEW q \in Peers
      PROVE  copy'[q] # NoCopy /\ Ordered(q, down'[q], copy'[q].revision, r, asked')
  <2> DEFINE s == down[q]
             t == Tail(s)
  <2>1. /\ s \in Seq(ApplyMessage) /\ Ordered(q, s, copy[q].revision, r, asked)
        /\ copy[q] # NoCopy
        /\ \A i \in 1 .. Len(s) : s[i].op # 0 => s[i].ask \in 1 .. Len(asked)
    BY OnlyAnswers DEF OInv
  <2>2. CASE q # p
    <3>1. down'[q] = s /\ copy'[q] = copy[q]
      BY <1>1, <1>2, <1>5, <2>2
    <3> HIDE DEF s
    <3> QED
      BY <1>1, <2>1, <3>1, OrderedStill
  <2>3. CASE q = p
    <3>1. down'[q] = t /\ copy'[q] = now /\ s # <<>> /\ Head(s) = m
      BY <1>1, <1>2, <1>5, <2>3
    <3>2. \A i \in 1 .. Len(t) : t[i].op # 0 => t[i].ask \in 1 .. Len(asked)
      <4>1. \A i \in 1 .. Len(t) : t[i] = s[i + 1] /\ i + 1 \in 1 .. Len(s)
        BY <2>1, <3>1
      <4> QED
        BY <2>1, <4>1
    <3> DEFINE w2 == now.revision
    <3>3. w2 \in {w, Head(s).revision}
      BY <1>6, <3>1
    <3> HIDE DEF s, now, w2, m
    <3>4. Ordered(p, t, w2, r, asked)
      BY <1>2, <2>1, <2>3, <3>1, <3>3, OrderedThence
    <3> HIDE DEF t
    <3>5. Ordered(p, t, w2, r, asked')
      BY <1>1, <3>2, <3>4, OrderedStill
    <3> QED
      BY <1>6, <2>3, <3>1, <3>5 DEF w2
  <2> QED
    BY <2>2, <2>3
<1>9. OInv'
  BY <1>1, <1>8 DEF OInv
<1>10. copy'[p] = now
  BY <1>2, <1>5
<1> QED
  BY <1>3, <1>4, <1>5, <1>7, <1>9, <1>10

LEMMA InitOInv ==
    ASSUME Init
    PROVE  OInv
<1>1. ASSUME NEW p \in Peers PROVE copy[p] = Start /\ down[p] = <<>>
  BY DEF Init
<1>2. Start # NoCopy
  <2>1. Start.revision = 1 /\ NoCopy.revision = 0
    BY DEF Start, NoCopy
  <2> QED
    BY <2>1
<1>3. 1 .. Len(<<>>) = {}
  OBVIOUS
<1> QED
  BY <1>1, <1>2, <1>3 DEF OInv, Ordered

LEMMA NextOInv ==
    ASSUME Assumptions, MaxHides = 0, HandsOn = {}, CInv, TInv, OInv, [Next]_vars
    PROVE  OInv'
<1>1. ASSUME NEW p \in Peers PROVE ~hide(p) /\ ~show(p)
  BY DEF TInv, hide, show
<1>2. Keeps(asked, asked')
  BY NextCInv
<1>3. ASSUME NEW p \in Peers, Asks(p) PROVE OInv'
  <2>1. UNCHANGED <<control, copy, down>>
    BY <1>3 DEF Asks, claim_control, release_control
  <2> QED
    BY <1>2, <2>1, OrderKept
<1>4. ASSUME NEW p \in Peers, Decides(p) PROVE OInv'
  BY <1>4, DecidesKeepsOrder
<1>5. ASSUME NEW p \in Peers, Hears(p) PROVE OInv'
  BY <1>5, HearsKeepsOrder
<1>6. ASSUME NEW p \in Peers, NEW n \in 1 .. MaxPending, expire_control(p, n) PROVE OInv'
  <2>1. UNCHANGED <<control, copy, down>>
    BY <1>6 DEF expire_control, links
  <2> QED
    BY <1>2, <2>1, OrderKept
<1>7. ASSUME NEW c \in Controllers, NEW on \in Controllers, transfer_steering(c, on) PROVE OInv'
  <2>1. /\ Decide(c, "none", Server, 0, 0, on) /\ UNCHANGED <<copy, asked>>
        /\ Server \notin Peers /\ Server \in Controllers /\ "none" \in HoldNames /\ 0 \in Nat
    BY <1>7 DEF transfer_steering, copies, Assumptions, PeersAssumption, Server, Controllers,
               HoldNames
  <2> QED
    BY <2>1, DecideOrders
<1>8. CASE UNCHANGED vars
  <2>1. UNCHANGED <<control, copy, down>>
    BY <1>8 DEF vars, copies, links
  <2> QED
    BY <1>2, <2>1, OrderKept
<1> QED
  BY <1>1, <1>3, <1>4, <1>5, <1>6, <1>7, <1>8 DEF Next

\* No step settles a claim as done on a copy that its peer does not control.
LEMMA NextInCharge ==
    ASSUME Assumptions, MaxHides = 0, CInv, TInv, OInv, Next
    PROVE  InCharge
<1>1. ASSUME NEW p \in Peers PROVE ~hide(p) /\ ~show(p)
  BY DEF TInv, hide, show
<1>2. ASSUME asked' = asked PROVE InCharge
  BY <1>2 DEF InCharge
<1>3. ASSUME NEW p \in Peers, NEW kind \in Kinds, NEW whose \in {"game", "copy"},
             asked' = Append(asked, Asking(p, kind, whose))
      PROVE  InCharge
  <2>1. asked \in Seq(Asked)
    BY DEF CInv, Typed
  <2>2. \A k \in 1 .. Len(asked) : asked'[k] = asked[k]
    BY <1>3, <2>1, AskedMore
  <2> QED
    BY <2>2 DEF InCharge
<1>4. ASSUME NEW p \in Peers, Asks(p) PROVE InCharge
  BY <1>3, <1>4 DEF Asks, claim_control, release_control, Kinds
<1>5. ASSUME NEW p \in Peers, Decides(p) PROVE InCharge
  BY <1>2, <1>5, DecidesKeepsCInv
<1>6. ASSUME NEW c \in Controllers, NEW on \in Controllers, transfer_steering(c, on)
      PROVE  InCharge
  BY <1>2, <1>6, TransferKeepsCInv
<1>7. ASSUME NEW p \in Peers, NEW n \in 1 .. MaxPending, expire_control(p, n) PROVE InCharge
  <2>1. \A k \in 1 .. Len(asked) : asked'[k].state \in {"timeout", asked[k].state}
    BY <1>7, ExpireSettles
  <2> QED
    BY <2>1 DEF InCharge
<1>8. ASSUME NEW p \in Peers, Hears(p) PROVE InCharge
  <2> DEFINE m == Head(down[p])
             now == Installed(p, m)
  <2>1. /\ m \in ApplyMessage /\ m \in Elements(down[p])
        /\ copy'[p] = now /\ settle_control(p, m, now)
        /\ m.outcome = "granted" =>
             /\ copy[p].revision < m.revision
             /\ m.op # 0 /\ asked[m.ask].kind = "claim" => m.controller = p
    BY <1>8, HearsKeepsOrder
  <2>2. m.outcome = "granted" => now.controller = m.controller
    <3>1. copy[p].revision \in Nat /\ m.revision \in Nat
      BY <2>1, NoCopyYet DEF ApplyMessage
    <3> QED
      BY <2>1, <3>1 DEF Installed
  <2> HIDE DEF m, now
  <2>3. \/ \E t \in 1 .. Len(asked) : Answers(p, m, t)
        \/ asked' = Append(asked, Asking(p, "release", "copy"))
        \/ asked' = asked
    BY <2>1, SettleMeans DEF TInv
  <2>4. ASSUME NEW t \in 1 .. Len(asked), Answers(p, m, t) PROVE InCharge
    <3>1. ASSUME asked'[t].state = "ok", asked[t].kind = "claim"
          PROVE  copy'[asked[t].peer].controller = asked[t].peer
      BY <2>1, <2>2, <2>4, <3>1 DEF Answers
    <3>2. \A k \in 1 .. Len(asked) : k # t => asked'[k] = asked[k]
      BY <2>4 DEF Answers
    <3> QED
      BY <3>1, <3>2 DEF InCharge
  <2> QED
    BY <1>2, <1>3, <2>3, <2>4 DEF Kinds
<1> QED
  BY <1>1, <1>4, <1>5, <1>6, <1>7, <1>8 DEF Next

\* While no copy is freed and no handler hands the entity on, a claim resolves on a copy
\* that its peer controls (entity/control.cpp, settle_claim; with a handler of
\* control_changed that hands on, api/entity.cpp tells the claimant of the wrong decision).
THEOREM ClaimsResolveInCharge ==
    ASSUME Assumptions, MaxHides = 0, HandsOn = {}
    PROVE  Spec => ResolvesInCharge
<1>1. Init => TInv /\ OInv
  BY InitTInv, InitOInv
<1>2. CInv /\ TInv /\ OInv /\ [Next]_vars => TInv' /\ OInv'
  BY NextTInv, NextOInv
<1>3. CInv /\ TInv /\ OInv /\ [Next]_vars => [InCharge]_vars
  BY NextInCharge
<1>4. ResolvesInCharge <=> [][InCharge]_vars
  BY PTL DEF ResolvesInCharge
<1> QED
  BY <1>1, <1>2, <1>3, <1>4, Invariant, PTL DEF Spec


=============================================================================

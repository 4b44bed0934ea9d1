--------------------------- MODULE RequestsProofs ---------------------------
(***************************************************************************)
(* Proofs about Requests for every number of peers, requests and nested      *)
(* handlers: what was asked is kept until it is answered, and a promise      *)
(* settles once.                                                             *)
(***************************************************************************)
EXTENDS Requests, TLAPS, SequenceTheorems, FiniteSetTheorems,
        NaturalsInduction

-----------------------------------------------------------------------------
(* One promise, and the peers "away" that left while it waited for them.      *)

\* A group counts each peer it asked, and is settled as their answers say.
Sound(pr, away) ==
    /\ pr.expected \subseteq pr.addressed
    /\ pr.refusal \in {"OK", "refused"}
    /\ pr.addressed = {} => pr.refusal = "OK"
    /\ pr.group =>
        /\ pr.expected \cap pr.results = {}
        /\ pr.refusal = "OK" => pr.addressed \subseteq pr.expected \cup pr.results \cup away
        /\ pr.state = "completed" => pr.refusal = "OK" /\ pr.expected = {}
        /\ pr.state = "failed" /\ pr.code = "refused" => pr.refusal = "refused" /\ pr.expected = {}

\* A promise becomes another that asks the same; once settled it stays itself.
Follows(pr, q) ==
    /\ q \in Promise
    /\ q.group = pr.group
    /\ q.addressed = pr.addressed
    /\ q.expected \subseteq pr.expected
    /\ pr.state # "pending" => q = pr

\* reject, of a promise that may fail with this code.
LEMMA Rejected ==
    ASSUME NEW pr \in Promise, NEW code \in Codes, NEW away, Sound(pr, away),
           code = "refused" /\ pr.group => pr.refusal = "refused" /\ pr.expected = {}
    PROVE  Follows(pr, reject(pr, code)) /\ Sound(reject(pr, code), away)
BY DEF Follows, Sound, reject, Promise, States, Codes

\* resolve, of a promise that nobody refused and that waits for no one.
LEMMA Resolved ==
    ASSUME NEW pr \in Promise, NEW away, Sound(pr, away),
           pr.group => pr.refusal = "OK" /\ pr.expected = {}
    PROVE  Follows(pr, resolve(pr)) /\ Sound(resolve(pr), away)
BY DEF Follows, Sound, resolve, Promise, States

\* settle_when_answered, whoever is still expected.
LEMMA SettledWhenAnswered ==
    ASSUME NEW pr \in Promise, NEW away, Sound(pr, away), pr.group
    PROVE  /\ Follows(pr, settle_when_answered(pr))
           /\ Sound(settle_when_answered(pr), away)
<1>1. CASE pr.expected # {}
  BY <1>1 DEF settle_when_answered, Follows
<1>2. CASE pr.expected = {} /\ pr.refusal # "OK"
  <2>1. settle_when_answered(pr) = reject(pr, pr.refusal)
    BY <1>2 DEF settle_when_answered
  <2>2. pr.refusal = "refused" /\ pr.refusal \in Codes
    BY <1>2 DEF Sound, Codes
  <2> QED
    BY <1>2, <2>1, <2>2, Rejected
<1>3. CASE pr.expected = {} /\ pr.refusal = "OK"
  <2>1. settle_when_answered(pr) = resolve(pr)
    BY <1>3 DEF settle_when_answered
  <2> QED
    BY <1>3, <2>1, Resolved
<1> QED
  BY <1>1, <1>2, <1>3

\* resolve_peer, refuse_peer and remove_peer of a peer that is still expected.
LEMMA Heard ==
    ASSUME NEW pr \in Promise, NEW away, Sound(pr, away), pr.group,
           NEW p \in Peers, Owes(pr, p)
    PROVE  /\ Follows(pr, resolve_peer(pr, p)) /\ Sound(resolve_peer(pr, p), away)
           /\ Follows(pr, refuse_peer(pr, p)) /\ Sound(refuse_peer(pr, p), away)
           /\ p \in away => Follows(pr, remove_peer(pr, p)) /\ Sound(remove_peer(pr, p), away)
<1> DEFINE kept == forget(pr, p)
           taken == [kept EXCEPT !.results = @ \cup {p}]
           noted == [kept EXCEPT !.refusal = "refused"]
<1>1. pr.state = "pending" /\ p \in pr.expected
  BY DEF Owes
<1>2. /\ taken \in Promise /\ taken.group = pr.group /\ taken.addressed = pr.addressed
      /\ taken.expected \subseteq pr.expected /\ taken.state = "pending"
      /\ Sound(taken, away)
  BY <1>1 DEF Promise, Sound, forget
<1>3. /\ noted \in Promise /\ noted.group = pr.group /\ noted.addressed = pr.addressed
      /\ noted.expected \subseteq pr.expected /\ noted.state = "pending"
      /\ Sound(noted, away)
  BY <1>1 DEF Promise, Sound, forget, Codes
<1>4. /\ kept \in Promise /\ kept.group = pr.group /\ kept.addressed = pr.addressed
      /\ kept.expected \subseteq pr.expected /\ kept.state = "pending"
      /\ p \in away => Sound(kept, away)
  BY <1>1 DEF Promise, Sound, forget
<1>5. /\ resolve_peer(pr, p) = settle_when_answered(taken)
      /\ refuse_peer(pr, p) = settle_when_answered(noted)
      /\ remove_peer(pr, p) = settle_when_answered(kept)
  BY DEF resolve_peer, refuse_peer, remove_peer
<1> HIDE DEF kept, taken, noted
<1>6. Follows(taken, settle_when_answered(taken)) /\ Sound(settle_when_answered(taken), away)
  BY <1>2, SettledWhenAnswered
<1>7. Follows(noted, settle_when_answered(noted)) /\ Sound(settle_when_answered(noted), away)
  BY <1>3, SettledWhenAnswered
<1>8. p \in away => /\ Follows(kept, settle_when_answered(kept))
                    /\ Sound(settle_when_answered(kept), away)
  BY <1>4, SettledWhenAnswered
<1> QED
  BY <1>1, <1>2, <1>3, <1>4, <1>5, <1>6, <1>7, <1>8 DEF Follows

\* A reply, or a refusal, of a peer that was asked.
LEMMA AnsweredOnce ==
    ASSUME NEW pr \in Promise, NEW away, Sound(pr, away), pr.state = "pending",
           NEW p \in Peers, NEW ok \in BOOLEAN
    PROVE  Follows(pr, answered(pr, p, ok)) /\ Sound(answered(pr, p, ok), away)
<1>1. CASE pr.group /\ ~Owes(pr, p)
  <2>1. answered(pr, p, ok) = pr
    BY <1>1 DEF answered, resolve_peer, refuse_peer
  <2> QED
    BY <2>1 DEF Follows
<1>2. CASE pr.group /\ Owes(pr, p)
  <2>1. answered(pr, p, ok) = IF ok THEN resolve_peer(pr, p) ELSE refuse_peer(pr, p)
    BY <1>2 DEF answered
  <2> QED
    BY <1>2, <2>1, Heard
<1>3. CASE ~pr.group /\ ok
  <2> DEFINE given == [pr EXCEPT !.results = {p}]
  <2>1. answered(pr, p, ok) = resolve(given)
    BY <1>3 DEF answered
  <2>2. /\ given \in Promise /\ Sound(given, away) /\ ~given.group /\ given.group = pr.group
        /\ given.addressed = pr.addressed /\ given.expected = pr.expected
    BY <1>3 DEF Promise, Sound
  <2> HIDE DEF given
  <2>3. Follows(given, resolve(given)) /\ Sound(resolve(given), away)
    BY <2>2, Resolved
  <2> QED
    BY <1>3, <2>1, <2>2, <2>3 DEF Follows
<1>4. CASE ~pr.group /\ ~ok
  <2>1. answered(pr, p, ok) = reject(pr, "refused")
    BY <1>4 DEF answered
  <2>2. "refused" \in Codes
    BY DEF Codes
  <2> QED
    BY <1>4, <2>1, <2>2, Rejected
<1> QED
  BY <1>1, <1>2, <1>3, <1>4

\* A round of a handler's loop.
LEMMA SettledOnce ==
    ASSUME NEW pr \in Promise, NEW away, Sound(pr, away),
           NEW why \in {"timeout", "left", "ended"}, NEW p,
           why = "left" /\ pr.group => p \in Peers /\ (Owes(pr, p) => p \in away)
    PROVE  /\ Follows(pr, Settled(pr, why, p)) /\ Sound(Settled(pr, why, p), away)
           /\ ~(why = "left" /\ pr.group) => Settled(pr, why, p).state # "pending"
<1>0. {"ERR_TIMEOUT", "ERR_UNAVAILABLE"} \subseteq Codes
  BY DEF Codes
<1>1. CASE why = "left" /\ pr.group
  <2>1. Settled(pr, why, p) = remove_peer(pr, p)
    BY <1>1 DEF Settled
  <2>2. CASE Owes(pr, p)
    BY <1>1, <2>1, <2>2, Heard
  <2>3. CASE ~Owes(pr, p)
    BY <1>1, <2>1, <2>3 DEF remove_peer, Follows
  <2> QED
    BY <2>2, <2>3
<1>2. ASSUME ~(why = "left" /\ pr.group)
      PROVE  \E code \in {"ERR_TIMEOUT", "ERR_UNAVAILABLE"} : Settled(pr, why, p) = reject(pr, code)
  BY <1>2 DEF Settled
<1>3. ASSUME NEW code \in {"ERR_TIMEOUT", "ERR_UNAVAILABLE"}
      PROVE  /\ Follows(pr, reject(pr, code)) /\ Sound(reject(pr, code), away)
             /\ reject(pr, code).state # "pending"
  <2>1. reject(pr, code).state # "pending"
    BY DEF reject, Promise
  <2> QED
    BY <1>0, <2>1, Rejected
<1> QED
  BY <1>1, <1>2, <1>3

-----------------------------------------------------------------------------
(* The inductive invariant.                                                   *)

Away(t) == {p \in Peers : <<t, p>> \in parted}

\* Handlers name requests that were sent, and hold back from the book what they
\* are to settle.
Framed ==
    \A f \in DOMAIN frames :
        /\ frames[f].todo \subseteq DOMAIN promise
        /\ frames[f].running \in DOMAIN promise \cup {0}
        /\ frames[f].why \in {"timeout", "ended"} => frames[f].todo \cap book = {}
        /\ frames[f].why = "reply" => frames[f].todo = {}
        /\ frames[f].why = "left" => frames[f].peer \in Peers
        /\ \A t \in frames[f].todo :
               frames[f].why = "left" /\ Owes(promise[t], frames[f].peer)
                   => frames[f].peer \in Away(t)

\* What only one of the books holds, or what is settled and held, is on its way out.
Booked ==
    /\ book \subseteq settles
    /\ \A t \in settles \ book :
           \E f \in DOMAIN frames : frames[f].why = "timeout" /\ t \in frames[f].todo
    /\ \A t \in book : ~Pending(t) =>
           \/ promise[t].addressed = {}
           \/ \E f \in DOMAIN frames : frames[f].why \in {"reply", "left"} /\ frames[f].running = t
    /\ \A t \in empties : promise[t].addressed = {}

\* Every promise is sound.
PromisesSound == \A t \in DOMAIN promise : Sound(promise[t], Away(t))

IInv == TypeOK /\ Framed /\ NoneForgotten /\ Booked /\ PromisesSound

-----------------------------------------------------------------------------
(* The stack of handlers. *)

\* The innermost handler, and the stack when it changes or ends.
LEMMA Stack ==
    ASSUME NEW S, NEW s \in Seq(S), s # <<>>
    PROVE  /\ Len(s) \in DOMAIN s
           /\ s[Len(s)] = Last(s)
           /\ Last(s) \in S
           /\ Front(s) \in Seq(S)
           /\ Len(Front(s)) = Len(s) - 1
           /\ DOMAIN Front(s) = DOMAIN s \ {Len(s)}
           /\ \A i \in DOMAIN Front(s) : Front(s)[i] = s[i]
<1> DEFINE n == Len(s)
<1>1. n \in Nat \ {0} /\ DOMAIN s = 1 .. n
  BY EmptySeq, LenProperties
<1>2. \A i \in 1 .. n : s[i] \in S
  BY ElementOfSeq
<1>3. Last(s) = s[n]
  BY DEF Last
<1>4. Front(s) = SubSeq(s, 1, n - 1)
  BY DEF Front
<1> HIDE DEF n
<1>5. \A i \in 1 .. n - 1 : s[i] \in S
  BY <1>1, <1>2
<1>6. 1 \in Int /\ n - 1 \in Int
  BY <1>1
<1>7. /\ SubSeq(s, 1, n - 1) \in Seq(S)
      /\ Len(SubSeq(s, 1, n - 1)) = IF 1 <= n - 1 THEN n - 1 - 1 + 1 ELSE 0
      /\ \A i \in 1 .. n - 1 - 1 + 1 : SubSeq(s, 1, n - 1)[i] = s[1 + i - 1]
  BY <1>5, <1>6, SubSeqProperties
<1>8. /\ Front(s) \in Seq(S)
      /\ Len(Front(s)) = n - 1
      /\ \A i \in 1 .. n - 1 : Front(s)[i] = s[i]
  <2> HIDE DEF n
  <2>1. \A i \in 1 .. n - 1 : 1 + i - 1 = i /\ i \in 1 .. n - 1 - 1 + 1
    BY <1>1
  <2>2. (IF 1 <= n - 1 THEN n - 1 - 1 + 1 ELSE 0) = n - 1
    BY <1>1
  <2> QED
    BY <1>4, <1>7, <2>1, <2>2
<1>9. DOMAIN Front(s) = 1 .. n - 1
  BY <1>8, LenProperties
<1>10. n \in 1 .. n /\ 1 .. n - 1 = (1 .. n) \ {n}
  BY <1>1
<1> QED
  BY <1>1, <1>2, <1>3, <1>8, <1>9, <1>10 DEF n

\* A sequence that gains an element.
LEMMA Gains ==
    ASSUME NEW S, NEW s \in Seq(S), NEW e \in S
    PROVE  /\ Append(s, e) \in Seq(S)
           /\ Len(Append(s, e)) = Len(s) + 1
           /\ DOMAIN Append(s, e) = DOMAIN s \cup {Len(s) + 1}
           /\ Len(s) + 1 \notin DOMAIN s
           /\ \A i \in DOMAIN s : Append(s, e)[i] = s[i]
           /\ Append(s, e)[Len(s) + 1] = e
<1>1. Len(s) \in Nat /\ DOMAIN s = 1 .. Len(s)
  BY LenProperties
<1>2. /\ Append(s, e) \in Seq(S)
      /\ Len(Append(s, e)) = Len(s) + 1
      /\ \A i \in 1 .. Len(s) : Append(s, e)[i] = s[i]
      /\ Append(s, e)[Len(s) + 1] = e
  BY AppendProperties
<1>3. DOMAIN Append(s, e) = 1 .. Len(s) + 1
  BY <1>2, LenProperties
<1>4. 1 .. Len(s) + 1 = (1 .. Len(s)) \cup {Len(s) + 1} /\ Len(s) + 1 \notin 1 .. Len(s)
  BY <1>1
<1> QED
  BY <1>1, <1>2, <1>3, <1>4

\* The stack when its innermost handler changes.
LEMMA Changed ==
    ASSUME NEW S, NEW s \in Seq(S), s # <<>>, NEW e \in S
    PROVE  /\ Append(Front(s), e) \in Seq(S)
           /\ DOMAIN Append(Front(s), e) = DOMAIN s
           /\ \A i \in DOMAIN s : Append(Front(s), e)[i] = IF i = Len(s) THEN e ELSE s[i]
<1>1. Len(s) \in Nat \ {0} /\ DOMAIN s = 1 .. Len(s)
  BY EmptySeq, LenProperties
<1>2. /\ Front(s) \in Seq(S)
      /\ Len(Front(s)) = Len(s) - 1
      /\ DOMAIN Front(s) = DOMAIN s \ {Len(s)}
      /\ Len(s) \in DOMAIN s
      /\ \A i \in DOMAIN Front(s) : Front(s)[i] = s[i]
  BY Stack
<1>6. /\ Append(Front(s), e) \in Seq(S)
      /\ DOMAIN Append(Front(s), e) = DOMAIN Front(s) \cup {Len(Front(s)) + 1}
      /\ \A i \in DOMAIN Front(s) : Append(Front(s), e)[i] = Front(s)[i]
      /\ Append(Front(s), e)[Len(Front(s)) + 1] = e
  BY <1>2, Gains
<1>7. Len(Front(s)) + 1 = Len(s)
  BY <1>1, <1>2
<1>8. DOMAIN Append(Front(s), e) = DOMAIN s
  BY <1>2, <1>6, <1>7
<1>9. ASSUME NEW i \in DOMAIN s
      PROVE  Append(Front(s), e)[i] = IF i = Len(s) THEN e ELSE s[i]
  BY <1>2, <1>6, <1>7
<1> QED
  BY <1>6, <1>8, <1>9

\* A stack of one handler.
LEMMA Alone ==
    ASSUME NEW S, NEW e \in S
    PROVE  /\ <<e>> \in Seq(S)
           /\ <<e>> # <<>>
           /\ DOMAIN <<e>> = {1}
           /\ <<e>>[1] = e
OBVIOUS

\* A set of requests has a first one.
LEMMA FirstOf ==
    ASSUME NEW T \in SUBSET Nat, T # {}
    PROVE  Min(T) \in T
<1>1. \E x \in T : \A y \in T : ~(<<y, x>> \in OpToRel(<, Nat))
  BY NatLessThanWellFounded, WFMin
<1>2. \E x \in T : \A y \in T : ~(y < x)
  BY <1>1 DEF OpToRel
<1>3. \E x \in T : \A y \in T : x =< y
  BY <1>2
<1> QED
  BY <1>3 DEF Min

-----------------------------------------------------------------------------
(* One promise changes. *)

\* A handler, or the deferred end of an empty group, replaces one promise.
LEMMA OnePromise ==
    ASSUME TypeOK, PromisesSound, NEW t \in DOMAIN promise, NEW q,
           Follows(promise[t], q), Sound(q, Away(t)),
           promise' = [promise EXCEPT ![t] = q], UNCHANGED parted
    PROVE  /\ promise' \in Seq(Promise)
           /\ Len(promise') = Len(promise)
           /\ DOMAIN promise' = DOMAIN promise
           /\ \A u \in DOMAIN promise : Follows(promise[u], promise'[u])
           /\ \A u \in DOMAIN promise : u # t => promise'[u] = promise[u]
           /\ promise'[t] = q
           /\ PromisesSound'
<1>1. promise \in Seq(Promise) /\ DOMAIN promise = 1 .. Len(promise)
  BY LenProperties DEF TypeOK
<1>2. q \in Promise
  BY DEF Follows
<1>3. /\ promise' \in Seq(Promise)
      /\ Len(promise') = Len(promise)
      /\ \A j \in 1 .. Len(promise) : promise'[j] = IF j = t THEN q ELSE promise[j]
  BY <1>1, <1>2, ExceptSeq
<1>4. DOMAIN promise' = DOMAIN promise
  BY <1>1, <1>3, LenProperties
<1>5. \A u \in DOMAIN promise : promise[u] \in Promise
  BY <1>1, ElementOfSeq
<1>6. \A u \in DOMAIN promise : Follows(promise[u], promise'[u])
  BY <1>1, <1>3, <1>5 DEF Follows
<1>7. \A u : Away(u)' = Away(u)
  BY DEF Away
<1>8. PromisesSound'
  BY <1>1, <1>3, <1>4, <1>7 DEF PromisesSound
<1> QED
  BY <1>1, <1>3, <1>4, <1>6, <1>8

\* What promises that follow their former selves still owe, they owed before.
LEMMA OwedBefore ==
    ASSUME NEW u \in DOMAIN promise, Follows(promise[u], promise'[u])
    PROVE  /\ Pending(u)' => Pending(u)
           /\ promise'[u].addressed = promise[u].addressed
           /\ \A p : Owes(promise'[u], p) => Owes(promise[u], p)
BY DEF Follows, Pending, Owes

\* A settled promise stays what it is.
SettledStay ==
    \A t \in DOMAIN promise : ~Pending(t) =>
        \A field \in {"state", "code", "results"} : promise'[t][field] = promise[t][field]

\* Promises that follow their former selves, and promises nobody touched.
LEMMA FollowersStay ==
    ASSUME \A u \in DOMAIN promise : Follows(promise[u], promise'[u])
    PROVE  SettledStay
<1> SUFFICES ASSUME NEW t \in DOMAIN promise, ~Pending(t),
                    NEW field \in {"state", "code", "results"}
             PROVE  promise'[t][field] = promise[t][field]
  BY DEF SettledStay
<1>1. promise'[t] = promise[t]
  BY DEF Follows, Pending
<1> QED
  BY <1>1

LEMMA SamePromises ==
    ASSUME UNCHANGED promise
    PROVE  SettledStay
BY DEF SettledStay

-----------------------------------------------------------------------------
(* The invariant holds initially, and every action keeps it. *)

\* Nothing was asked yet.
LEMMA InitIInv == Init => IInv
<1> SUFFICES ASSUME Init PROVE IInv
  OBVIOUS
<1> USE DEF Init
<1>1. /\ promise \in Seq(Promise) /\ Len(promise) = 0 /\ DOMAIN promise = {}
      /\ frames \in Seq(Frame) /\ DOMAIN frames = {}
  BY EmptySeq
<1>2. TypeOK
  BY <1>1, RequestsAssumption DEF TypeOK, BoundsAssumption
<1> QED
  BY <1>1, <1>2 DEF IInv, Framed, NoneForgotten, Booked, PromisesSound

\* rpc_request_call, rpc_request_call_group: a request enters both books.
LEMMA AskKeeps ==
    ASSUME IInv, NEW group \in BOOLEAN, NEW addressed \in SUBSET Peers, Ask(group, addressed)
    PROVE  IInv' /\ SettledStay
<1> DEFINE t == Len(promise) + 1
           new == [group |-> group, addressed |-> addressed, expected |-> addressed,
                   results |-> {}, refusal |-> "OK", state |-> "pending", code |-> "OK"]
<1> USE DEF IInv
<1>1. new \in Promise
  BY DEF Promise, Codes, States
<1>2. /\ promise' = Append(promise, new)
      /\ t \in Txns
      /\ book' = book \cup {t}
      /\ settles' = settles \cup {t}
      /\ empties' = IF addressed = {} THEN empties \cup {t} ELSE empties
      /\ calls' = calls \cup ({t} \X (addressed \cap present))
      /\ UNCHANGED <<frames, present, replies, moves, parted>>
  BY DEF Ask
<1> HIDE DEF t, new
<1>3. promise \in Seq(Promise)
  BY DEF TypeOK
<1>4. /\ promise' \in Seq(Promise)
      /\ Len(promise') = t
      /\ DOMAIN promise' = DOMAIN promise \cup {t}
      /\ t \notin DOMAIN promise
      /\ \A u \in DOMAIN promise : promise'[u] = promise[u]
      /\ promise'[t] = new
  BY <1>1, <1>2, <1>3, Gains DEF t
<1>5. \A u : Away(u)' = Away(u)
  BY <1>2 DEF Away
<1>6. Sound(new, Away(t)) /\ new.addressed = addressed
  BY DEF Sound, new
<1>7. PromisesSound'
  BY <1>4, <1>5, <1>6 DEF PromisesSound
<1>8. TypeOK'
  <2>1. Len(promise') <= MaxTxns
    BY <1>2, <1>4 DEF Txns
  <2>2. calls' \subseteq (DOMAIN promise') \X Peers
    BY <1>2, <1>4 DEF TypeOK
  <2>3. \A u \in DOMAIN promise' : promise'[u].group
               => promise'[u].expected \cap promise'[u].results = {}
    BY <1>7 DEF PromisesSound, Sound
  <2> QED
    BY <1>2, <1>4, <2>1, <2>2, <2>3 DEF TypeOK
<1>9. Framed'
  <2> SUFFICES ASSUME NEW f \in DOMAIN frames
               PROVE  /\ frames[f].todo \subseteq DOMAIN promise'
                      /\ frames[f].running \in DOMAIN promise' \cup {0}
                      /\ frames[f].why \in {"timeout", "ended"} => frames[f].todo \cap book' = {}
                      /\ frames[f].why = "reply" => frames[f].todo = {}
                      /\ frames[f].why = "left" => frames[f].peer \in Peers
                      /\ \A u \in frames[f].todo :
                            frames[f].why = "left" /\ Owes(promise'[u], frames[f].peer)
                                 => frames[f].peer \in Away(u)
    BY <1>2, <1>5 DEF Framed
  <2> QED
    BY <1>2, <1>4 DEF Framed
<1>10. NoneForgotten'
  BY <1>2, <1>4 DEF NoneForgotten, Pending
<1>11. Booked'
  <2>1. book' \subseteq settles'
    BY <1>2 DEF Booked
  <2>2. ASSUME NEW u \in settles' \ book'
        PROVE  \E f \in DOMAIN frames' : frames'[f].why = "timeout" /\ u \in frames'[f].todo
    BY <1>2 DEF Booked
  <2>3. ASSUME NEW u \in book', ~Pending(u)'
        PROVE  \/ promise'[u].addressed = {}
               \/ \E f \in DOMAIN frames' :
                     frames'[f].why \in {"reply", "left"} /\ frames'[f].running = u
    <3>1. u # t
      BY <1>4, <2>3 DEF Pending, new
    <3>2. u \in book /\ promise'[u] = promise[u]
      BY <1>2, <1>4, <3>1 DEF TypeOK
    <3> QED
      BY <1>2, <2>3, <3>2 DEF Booked, Pending
  <2>4. \A u \in empties' : promise'[u].addressed = {}
    BY <1>2, <1>4, <1>6 DEF Booked, TypeOK
  <2> QED
    BY <2>1, <2>2, <2>3, <2>4 DEF Booked
<1>12. SettledStay
  BY <1>4 DEF SettledStay
<1> QED
  BY <1>7, <1>8, <1>9, <1>10, <1>11, <1>12

\* A request that is in the book while no handler runs, and that asked someone,
\* is pending.
LEMMA AskedIsPending ==
    ASSUME IInv, frames = <<>>, NEW t \in book, promise[t].addressed # {}
    PROVE  Pending(t)
BY DEF IInv, Booked

\* Promises may settle outside of a handler when no book holds them.
LEMMA RequestKeeps ==
    ASSUME IInv, frames = <<>>,
           empties' \subseteq empties,
           promise' \in Seq(Promise),
           Len(promise') = Len(promise),
           DOMAIN promise' = DOMAIN promise,
           \A u \in DOMAIN promise : Follows(promise[u], promise'[u]),
           PromisesSound',
           \A u \in book : Pending(u) /\ ~Pending(u)' => promise[u].addressed = {},
           UNCHANGED <<book, settles, frames, present, calls, replies, moves, parted>>
    PROVE  IInv'
<1> USE DEF IInv
<1>1. \A u \in DOMAIN promise :
        /\ Pending(u)' => Pending(u)
        /\ promise'[u].addressed = promise[u].addressed
  BY OwedBefore
<1>2. TypeOK'
  <2>1. \A u \in DOMAIN promise' : promise'[u].group
             => promise'[u].expected \cap promise'[u].results = {}
    BY DEF PromisesSound, Sound
  <2> QED
    BY <2>1 DEF TypeOK
<1>3. Framed'
  BY DEF Framed
<1>4. NoneForgotten'
  BY <1>1 DEF NoneForgotten
<1>5. Booked'
  BY <1>1 DEF Booked, TypeOK
<1> QED
  BY <1>2, <1>3, <1>4, <1>5

\* The deferred end of a group that nobody is expected to answer.
LEMMA ResolveEmptyKeeps ==
    ASSUME IInv, NEW t \in Txns, ResolveEmpty(t)
    PROVE  IInv' /\ SettledStay
<1> USE DEF IInv
<1>1. /\ frames = <<>>
      /\ t \in empties
      /\ empties' = empties \ {t}
      /\ promise' = [promise EXCEPT ![t] = resolve(promise[t])]
      /\ UNCHANGED <<book, settles, frames, present, calls, replies, moves, parted>>
  BY DEF ResolveEmpty, Idle
<1>2. t \in DOMAIN promise /\ promise[t] \in Promise /\ Sound(promise[t], Away(t))
  <2>1. t \in DOMAIN promise
    BY <1>1 DEF TypeOK
  <2> QED
    BY <2>1, LenProperties, ElementOfSeq DEF TypeOK, PromisesSound
<1>3. promise[t].refusal = "OK" /\ promise[t].expected = {}
  BY <1>1, <1>2 DEF Booked, Sound
<1>4. /\ Follows(promise[t], resolve(promise[t]))
      /\ Sound(resolve(promise[t]), Away(t))
  BY <1>2, <1>3, Resolved
<1>5. /\ promise' \in Seq(Promise)
      /\ Len(promise') = Len(promise)
      /\ DOMAIN promise' = DOMAIN promise
      /\ \A u \in DOMAIN promise : Follows(promise[u], promise'[u])
      /\ PromisesSound'
      /\ \A u \in DOMAIN promise : u # t => promise'[u] = promise[u]
  BY <1>1, <1>2, <1>4, OnePromise
<1>6. \A u \in book : Pending(u) /\ ~Pending(u)' => promise[u].addressed = {}
  BY <1>1, <1>5 DEF Booked, Pending, TypeOK
<1> QED
  BY <1>1, <1>3, <1>5, <1>6, RequestKeeps, FollowersStay

\* rpc_handle_reply, rpc_handle_reply_failed: only a pending request hears an answer.
LEMMA HearReplyKeeps ==
    ASSUME IInv, NEW t \in Txns, NEW p \in Peers, NEW ok \in BOOLEAN, HearReply(t, p, ok)
    PROVE  IInv' /\ SettledStay
<1> DEFINE handler == [why |-> "reply", todo |-> {}, peer |-> p, running |-> t]
<1> USE DEF IInv
<1>1. /\ frames = <<>>
      /\ replies' = replies \ {<<t, p, ok>>}
      /\ UNCHANGED <<book, settles, present, calls, empties, moves, parted>>
  BY DEF HearReply, Idle
<1>2. CASE ~(admits(t, p) /\ t \in settles)
  <2>1. UNCHANGED <<promise, frames>>
    BY <1>2 DEF HearReply
  <2>2. \A u : Away(u)' = Away(u)
    BY <1>1 DEF Away
  <2>3. TypeOK'
    BY <1>1, <2>1 DEF TypeOK
  <2> QED
    BY <1>1, <2>1, <2>2, <2>3, SamePromises
    DEF Framed, NoneForgotten, Booked, PromisesSound, Pending
<1>3. CASE admits(t, p) /\ t \in settles
  <2>1. /\ promise' = [promise EXCEPT ![t] = answered(promise[t], p, ok)]
        /\ frames' = <<handler>>
    BY <1>3 DEF HearReply
  <2>2. t \in book /\ p \in promise[t].addressed
    BY <1>3 DEF admits
  <2>3. Pending(t)
    BY <1>1, <2>2, AskedIsPending
  <2>4. t \in DOMAIN promise /\ promise[t] \in Promise /\ Sound(promise[t], Away(t))
    <3>1. t \in DOMAIN promise
      BY <2>2 DEF TypeOK
    <3> QED
      BY <3>1, LenProperties, ElementOfSeq DEF TypeOK, PromisesSound
  <2>5. /\ Follows(promise[t], answered(promise[t], p, ok))
        /\ Sound(answered(promise[t], p, ok), Away(t))
    BY <2>3, <2>4, AnsweredOnce DEF Pending
  <2>6. /\ promise' \in Seq(Promise)
        /\ Len(promise') = Len(promise)
        /\ DOMAIN promise' = DOMAIN promise
        /\ \A u \in DOMAIN promise : Follows(promise[u], promise'[u])
        /\ \A u \in DOMAIN promise : u # t => promise'[u] = promise[u]
        /\ PromisesSound'
    BY <1>1, <2>1, <2>4, <2>5, OnePromise
  <2>7. /\ frames' \in Seq(Frame) /\ DOMAIN frames' = {1} /\ frames'[1] = handler
    <3>1. handler \in Frame
      BY DEF Frame
    <3> QED
      BY <2>1, <3>1, Alone
  <2> HIDE DEF handler
  <2>8. handler.why = "reply" /\ handler.todo = {} /\ handler.running = t
    BY DEF handler
  <2>9. TypeOK'
    <3>1. \A u \in DOMAIN promise' : promise'[u].group
               => promise'[u].expected \cap promise'[u].results = {}
      BY <2>6 DEF PromisesSound, Sound
    <3> QED
      BY <1>1, <2>6, <2>7, <3>1 DEF TypeOK
  <2>10. Framed'
    BY <2>4, <2>6, <2>7, <2>8 DEF Framed
  <2>11. NoneForgotten'
    <3> SUFFICES ASSUME NEW u \in DOMAIN promise, Pending(u)'
                 PROVE  u \in book \cap settles
      BY <1>1, <2>6 DEF NoneForgotten
    <3>1. Pending(u)
      BY <2>6, OwedBefore
    <3> QED
      BY <1>1, <3>1 DEF NoneForgotten
  <2>12. Booked'
    <3>1. \A u \in settles' \ book' : FALSE
      BY <1>1 DEF Booked
    <3>2. ASSUME NEW u \in book', ~Pending(u)'
          PROVE  \/ promise'[u].addressed = {}
                 \/ \E f \in DOMAIN frames' :
                      frames'[f].why \in {"reply", "left"} /\ frames'[f].running = u
      <4>1. CASE u = t
        BY <4>1, <2>7, <2>8
      <4>2. CASE u # t
        <5>1. u \in book /\ u \in DOMAIN promise
          BY <1>1 DEF TypeOK
        <5>2. promise'[u] = promise[u]
          BY <2>6, <4>2, <5>1
        <5> QED
          BY <1>1, <3>2, <5>1, <5>2 DEF Booked, Pending
      <4> QED
        BY <4>1, <4>2
    <3>3. \A u \in empties' : promise'[u].addressed = {}
      BY <1>1, <2>6, OwedBefore DEF Booked, TypeOK
    <3> QED
      BY <1>1, <3>1, <3>2, <3>3 DEF Booked
  <2> QED
    BY <2>6, <2>9, <2>10, <2>11, <2>12, FollowersStay
<1> QED
  BY <1>2, <1>3

\* Requests that were sent have numbers of transactions.
LEMMA SentTxns ==
    ASSUME TypeOK
    PROVE  /\ DOMAIN promise \subseteq Txns
           /\ \A t \in DOMAIN promise : t \in Nat \ {0} /\ promise[t] \in Promise
<1>1. /\ promise \in Seq(Promise)
      /\ Len(promise) <= MaxTxns
      /\ MaxTxns \in Nat
  BY RequestsAssumption DEF TypeOK, BoundsAssumption
<1>2. Len(promise) \in Nat /\ DOMAIN promise = 1 .. Len(promise)
  BY <1>1, LenProperties
<1>3. \A t \in 1 .. Len(promise) : promise[t] \in Promise
  BY <1>1, ElementOfSeq
<1>4. 1 .. Len(promise) \subseteq 1 .. MaxTxns
  BY <1>1, <1>2
<1> QED
  BY <1>2, <1>3, <1>4 DEF Txns

\* The other peer answers; nothing of this peer changes.
LEMMA ReplyKeeps ==
    ASSUME IInv, NEW t \in Txns, NEW p \in Peers, NEW ok \in BOOLEAN, Reply(t, p, ok)
    PROVE  IInv'
<1> USE DEF IInv
<1>1. /\ <<t, p>> \in calls
      /\ calls' = calls \ {<<t, p>>}
      /\ replies' = replies \cup {<<t, p, ok>>}
      /\ UNCHANGED <<promise, book, settles, frames, present, empties, moves, parted>>
  BY DEF Reply
<1>2. t \in DOMAIN promise
  BY <1>1 DEF TypeOK
<1>3. TypeOK'
  BY <1>1, <1>2 DEF TypeOK
<1>4. \A u : Away(u)' = Away(u)
  BY <1>1 DEF Away
<1> QED
  BY <1>1, <1>3, <1>4 DEF Framed, NoneForgotten, Booked, PromisesSound, Pending

\* A peer joins.
LEMMA JoinKeeps ==
    ASSUME IInv, NEW p \in Peers, Join(p)
    PROVE  IInv'
<1> USE DEF IInv
<1>1. /\ present' = present \cup {p}
      /\ moves < MaxMoves
      /\ moves' = moves + 1
      /\ UNCHANGED <<promise, book, settles, frames, calls, replies, empties, parted>>
  BY DEF Join
<1>2. moves' \in 0 .. MaxMoves
  BY <1>1, RequestsAssumption DEF TypeOK, BoundsAssumption
<1>3. TypeOK'
  BY <1>1, <1>2 DEF TypeOK
<1>4. \A u : Away(u)' = Away(u)
  BY <1>1 DEF Away
<1> QED
  BY <1>1, <1>3, <1>4 DEF Framed, NoneForgotten, Booked, PromisesSound, Pending

\* rpc_sweep_transactions: what leaves the one book the sweep has still to settle.
LEMMA SweepKeeps ==
    ASSUME IInv, NEW expired \in SUBSET book, Sweep(expired)
    PROVE  IInv'
<1> DEFINE handler == [why |-> "timeout", todo |-> expired, peer |-> NoPeer, running |-> 0]
<1> USE DEF IInv
<1>1. /\ frames = <<>>
      /\ book' = book \ expired
      /\ frames' = <<handler>>
      /\ UNCHANGED <<promise, settles, present, calls, replies, empties, moves, parted>>
  BY DEF Sweep, Idle
<1>2. expired \subseteq DOMAIN promise /\ expired \subseteq Txns
  BY SentTxns DEF TypeOK
<1>3. /\ frames' \in Seq(Frame) /\ DOMAIN frames' = {1} /\ frames'[1] = handler
  <2>1. handler \in Frame
    BY <1>2 DEF Frame
  <2> QED
    BY <1>1, <2>1, Alone
<1>4. /\ handler.why = "timeout" /\ handler.todo = expired /\ handler.running = 0
  OBVIOUS
<1> HIDE DEF handler
<1>5. DOMAIN frames = {}
  BY <1>1
<1>6. \A u : Away(u)' = Away(u)
  BY <1>1 DEF Away
<1>7. TypeOK'
  BY <1>1, <1>3 DEF TypeOK
<1>8. Framed'
  BY <1>1, <1>2, <1>3, <1>4 DEF Framed
<1>9. NoneForgotten'
  <2> SUFFICES ASSUME NEW u \in DOMAIN promise, Pending(u), u \notin book' \cap settles'
               PROVE  u \in expired /\ u \in settles
    BY <1>1, <1>3, <1>4 DEF NoneForgotten, Pending
  <2> QED
    BY <1>1, <1>5 DEF NoneForgotten
<1>10. Booked'
  BY <1>1, <1>3, <1>4, <1>5 DEF Booked, Pending
<1>11. PromisesSound'
  BY <1>1, <1>6 DEF PromisesSound
<1> QED
  BY <1>7, <1>8, <1>9, <1>10, <1>11

\* rpc_clear_session: what leaves both books the handler has still to settle.
LEMMA ClearSessionKeeps ==
    ASSUME IInv, ClearSession
    PROVE  IInv'
<1> DEFINE handler == [why |-> "ended", todo |-> book \cap settles, peer |-> NoPeer,
                       running |-> 0]
<1> USE DEF IInv
<1>1. /\ frames = <<>>
      /\ book' = {}
      /\ settles' = {}
      /\ frames' = <<handler>>
      /\ UNCHANGED <<promise, present, calls, replies, empties, moves, parted>>
  BY DEF ClearSession, Idle
<1>2. book \subseteq DOMAIN promise /\ book \subseteq Txns
  BY SentTxns DEF TypeOK
<1>3. /\ frames' \in Seq(Frame) /\ DOMAIN frames' = {1} /\ frames'[1] = handler
  <2>1. handler \in Frame
    BY <1>2 DEF Frame
  <2> QED
    BY <1>1, <2>1, Alone
<1>4. /\ handler.why = "ended" /\ handler.todo = book \cap settles /\ handler.running = 0
  OBVIOUS
<1> HIDE DEF handler
<1>5. DOMAIN frames = {}
  BY <1>1
<1>6. \A u : Away(u)' = Away(u)
  BY <1>1 DEF Away
<1>7. TypeOK'
  BY <1>1, <1>3 DEF TypeOK
<1>8. Framed'
  BY <1>1, <1>2, <1>3, <1>4 DEF Framed
<1>9. NoneForgotten'
  BY <1>1, <1>3, <1>4, <1>5 DEF NoneForgotten, Pending
<1>10. Booked'
  BY <1>1 DEF Booked
<1>11. PromisesSound'
  BY <1>1, <1>6 DEF PromisesSound
<1> QED
  BY <1>7, <1>8, <1>9, <1>10, <1>11

\* rpc_handle_disconnect: who leaves is noted for every group that awaits it.
LEMMA DepartKeeps ==
    ASSUME IInv, NEW p \in Peers, Depart(p)
    PROVE  IInv'
<1> DEFINE handler == [why |-> "left", todo |-> waiting_on(p), peer |-> p, running |-> 0]
           n == Len(frames) + 1
<1> USE DEF IInv
<1>1. /\ moves < MaxMoves
      /\ present' = present \ {p}
      /\ calls' = {c \in calls : c[2] # p}
      /\ replies' = {r \in replies : r[2] # p}
      /\ frames' = Append(frames, handler)
      /\ parted' = parted \cup {<<t, p>> : t \in {u \in DOMAIN promise : Owes(promise[u], p)}}
      /\ moves' = moves + 1
      /\ UNCHANGED <<promise, book, settles, empties>>
  BY DEF Depart
<1>2. waiting_on(p) \subseteq DOMAIN promise /\ waiting_on(p) \subseteq Txns
  BY SentTxns DEF waiting_on, TypeOK
<1>3. /\ frames' \in Seq(Frame)
      /\ DOMAIN frames' = DOMAIN frames \cup {n}
      /\ n \notin DOMAIN frames
      /\ \A f \in DOMAIN frames : frames'[f] = frames[f]
      /\ frames'[n] = handler
  <2>1. handler \in Frame
    BY <1>2 DEF Frame
  <2> QED
    BY <1>1, <2>1, Gains DEF TypeOK
<1>4. /\ handler.why = "left" /\ handler.todo = waiting_on(p)
      /\ handler.peer = p /\ handler.running = 0
  OBVIOUS
<1> HIDE DEF handler, n
<1>5. /\ \A u : Away(u) \subseteq Away(u)'
      /\ \A u \in DOMAIN promise : Owes(promise[u], p) => p \in Away(u)'
  BY <1>1 DEF Away
<1>6. TypeOK'
  <2>1. moves' \in 0 .. MaxMoves
    BY <1>1, RequestsAssumption DEF TypeOK, BoundsAssumption
  <2> QED
    BY <1>1, <1>3, <2>1 DEF TypeOK
<1>7. Framed'
  <2> SUFFICES ASSUME NEW f \in DOMAIN frames'
               PROVE  /\ frames'[f].todo \subseteq DOMAIN promise
                      /\ frames'[f].running \in DOMAIN promise \cup {0}
                      /\ frames'[f].why \in {"timeout", "ended"} => frames'[f].todo \cap book = {}
                      /\ frames'[f].why = "reply" => frames'[f].todo = {}
                      /\ frames'[f].why = "left" => frames'[f].peer \in Peers
                      /\ \A t \in frames'[f].todo :
                            frames'[f].why = "left" /\ Owes(promise[t], frames'[f].peer)
                                 => frames'[f].peer \in Away(t)'
    BY <1>1 DEF Framed
  <2>1. CASE f = n
    BY <1>2, <1>3, <1>4, <1>5, <2>1
  <2>2. CASE f # n
    BY <1>3, <1>5, <2>2 DEF Framed
  <2> QED
    BY <2>1, <2>2
<1>8. NoneForgotten'
  BY <1>1, <1>3 DEF NoneForgotten, Pending
<1>9. Booked'
  BY <1>1, <1>3 DEF Booked, Pending
<1>10. PromisesSound'
  <2> SUFFICES ASSUME NEW t \in DOMAIN promise
               PROVE  Sound(promise[t], Away(t)')
    BY <1>1 DEF PromisesSound
  <2> QED
    BY <1>5 DEF PromisesSound, Sound
<1> QED
  BY <1>6, <1>7, <1>8, <1>9, <1>10

\* The handlers in progress, when the innermost one goes on or ends.
LEMMA Innermost ==
    ASSUME TypeOK, frames # <<>>
    PROVE  /\ Len(frames) \in DOMAIN frames
           /\ frames[Len(frames)] = top
           /\ top \in Frame
           /\ Front(frames) \in Seq(Frame)
           /\ DOMAIN Front(frames) = DOMAIN frames \ {Len(frames)}
           /\ \A f \in DOMAIN Front(frames) : Front(frames)[f] = frames[f]
           /\ \A e \in Frame :
                /\ SetTop(e) \in Seq(Frame)
                /\ DOMAIN SetTop(e) = DOMAIN frames
                /\ \A f \in DOMAIN frames :
                     SetTop(e)[f] = IF f = Len(frames) THEN e ELSE frames[f]
<1>1. frames \in Seq(Frame)
  BY DEF TypeOK
<1>2. /\ Len(frames) \in DOMAIN frames
      /\ frames[Len(frames)] = Last(frames)
      /\ Last(frames) \in Frame
      /\ Front(frames) \in Seq(Frame)
      /\ DOMAIN Front(frames) = DOMAIN frames \ {Len(frames)}
      /\ \A f \in DOMAIN Front(frames) : Front(frames)[f] = frames[f]
  BY <1>1, Stack
<1>3. ASSUME NEW e \in Frame
      PROVE  /\ Append(Front(frames), e) \in Seq(Frame)
             /\ DOMAIN Append(Front(frames), e) = DOMAIN frames
             /\ \A f \in DOMAIN frames : Append(Front(frames), e)[f]
                   = IF f = Len(frames) THEN e ELSE frames[f]
  BY <1>1, Changed
<1> QED
  BY <1>2, <1>3 DEF top, SetTop

\* rpc_settle_close: only a settled request leaves the books.
LEMMA CallbacksReturnKeeps ==
    ASSUME IInv, CallbacksReturn
    PROVE  IInv'
<1> DEFINE n == Len(frames)
           rest == [top EXCEPT !.running = 0]
           closes == top.why \in {"reply", "left"} /\ ~Pending(top.running)
<1> USE DEF IInv
<1>1. /\ frames # <<>>
      /\ frames' = SetTop(rest)
      /\ UNCHANGED <<promise, present, calls, replies, empties, moves, parted>>
      /\ IF closes THEN book' = book \ {top.running} /\ settles' = settles \ {top.running}
         ELSE UNCHANGED <<book, settles>>
  BY DEF CallbacksReturn, rpc_settle_close
<1>2. /\ frames \in Seq(Frame)
      /\ n \in DOMAIN frames /\ frames[n] = top /\ top \in Frame
  BY <1>1, Innermost DEF TypeOK
<1>3. /\ rest \in Frame /\ rest.why = top.why /\ rest.todo = top.todo
      /\ rest.peer = top.peer /\ rest.running = 0
  BY <1>2 DEF Frame
<1>4. /\ frames' \in Seq(Frame)
      /\ DOMAIN frames' = DOMAIN frames
      /\ \A f \in DOMAIN frames : frames'[f] = IF f = n THEN rest ELSE frames[f]
  BY <1>1, <1>3, Innermost
<1> HIDE DEF n, rest, closes
<1>5. \A f \in DOMAIN frames : /\ frames'[f].why = frames[f].why
                               /\ frames'[f].todo = frames[f].todo
                               /\ frames'[f].peer = frames[f].peer
                               /\ frames'[f].running \in {0, frames[f].running}
                               /\ f # n => frames'[f].running = frames[f].running
  BY <1>2, <1>3, <1>4
<1>6. book' \subseteq book /\ settles' \subseteq settles
  BY <1>1
<1>7. \A u : Away(u)' = Away(u)
  BY <1>1 DEF Away
<1>8. TypeOK'
  BY <1>1, <1>4, <1>6 DEF TypeOK
<1>9. Framed'
  BY <1>1, <1>4, <1>5, <1>6, <1>7 DEF Framed
<1>10. NoneForgotten'
  <2> SUFFICES ASSUME NEW t \in DOMAIN promise, Pending(t)
               PROVE  \/ t \in book' \cap settles'
                      \/ \E f \in DOMAIN frames' :
                           /\ t \in frames'[f].todo
                           /\ \/ frames'[f].why = "ended"
                              \/ frames'[f].why = "timeout" /\ t \in settles'
    BY <1>1 DEF NoneForgotten, Pending
  <2>1. /\ t \in book => t \in book'
        /\ t \in settles => t \in settles'
    BY <1>1 DEF closes
  <2> QED
    BY <2>1, <1>4, <1>5 DEF NoneForgotten
<1>11. Booked'
  <2>1. book' \subseteq settles'
    BY <1>1 DEF Booked
  <2>2. ASSUME NEW t \in settles' \ book'
        PROVE  \E f \in DOMAIN frames' : frames'[f].why = "timeout" /\ t \in frames'[f].todo
    <3>1. t \in settles \ book
      BY <1>1, <2>2
    <3> QED
      BY <3>1, <1>4, <1>5 DEF Booked
  <2>3. ASSUME NEW t \in book', ~Pending(t)'
        PROVE  \/ promise'[t].addressed = {}
               \/ \E f \in DOMAIN frames' :
                     frames'[f].why \in {"reply", "left"} /\ frames'[f].running = t
    <3>1. t \in book /\ ~Pending(t)
      BY <1>1, <2>3 DEF Pending
    <3>2. CASE promise[t].addressed = {}
      BY <1>1, <3>2
    <3>3. ASSUME NEW f \in DOMAIN frames,
                 frames[f].why \in {"reply", "left"}, frames[f].running = t
          PROVE  frames'[f].why \in {"reply", "left"} /\ frames'[f].running = t
      <4>1. f # n
        BY <1>1, <1>2, <2>3, <3>1, <3>3 DEF closes
      <4> QED
        BY <1>5, <3>3, <4>1
    <3> QED
      BY <1>4, <3>1, <3>2, <3>3 DEF Booked
  <2> QED
    BY <1>1, <2>1, <2>2, <2>3 DEF Booked
<1>12. PromisesSound'
  BY <1>1, <1>7 DEF PromisesSound
<1> QED
  BY <1>8, <1>9, <1>10, <1>11, <1>12

\* A handler ends that has nothing left to settle.
LEMMA HandlerEndsKeeps ==
    ASSUME IInv, HandlerEnds
    PROVE  IInv'
<1> DEFINE n == Len(frames)
<1> USE DEF IInv
<1>1. /\ frames # <<>>
      /\ top.running = 0
      /\ top.todo = {}
      /\ frames' = Front(frames)
      /\ UNCHANGED <<promise, book, settles, present, calls, replies, empties, moves, parted>>
  BY DEF HandlerEnds
<1>2. /\ n \in DOMAIN frames /\ frames[n] = top
      /\ frames' \in Seq(Frame)
      /\ DOMAIN frames' = DOMAIN frames \ {n}
      /\ \A f \in DOMAIN frames' : frames'[f] = frames[f]
  BY <1>1, Innermost
<1> HIDE DEF n
<1>3. \A u : Away(u)' = Away(u)
  BY <1>1 DEF Away
<1>4. TypeOK'
  BY <1>1, <1>2 DEF TypeOK
<1>5. Framed'
  BY <1>1, <1>2, <1>3 DEF Framed
<1>6. NoneForgotten'
  BY <1>1, <1>2 DEF NoneForgotten, Pending
<1>7. Booked'
  <2>1. \A t \in book : t # 0
    BY SentTxns DEF TypeOK
  <2>2. ASSUME NEW t \in book, ~Pending(t), promise[t].addressed # {}
        PROVE  \E f \in DOMAIN frames' :
                   frames'[f].why \in {"reply", "left"} /\ frames'[f].running = t
    BY <1>1, <1>2, <2>1, <2>2 DEF Booked
  <2>3. ASSUME NEW t \in settles \ book
        PROVE  \E f \in DOMAIN frames' : frames'[f].why = "timeout" /\ t \in frames'[f].todo
    BY <1>1, <1>2, <2>3 DEF Booked
  <2> QED
    BY <1>1, <2>2, <2>3 DEF Booked, Pending
<1>8. PromisesSound'
  BY <1>1, <1>3 DEF PromisesSound
<1> QED
  BY <1>4, <1>5, <1>6, <1>7, <1>8

\* A round of a handler's loop: only a group that still waits stays pending.
LEMMA SettleNextKeeps ==
    ASSUME IInv, SettleNext
    PROVE  IInv' /\ SettledStay
<1>p. PICK t : t = Min(top.todo)
  OBVIOUS
<1>q. PICK q : q = Settled(promise[t], top.why, top.peer)
  OBVIOUS
<1> DEFINE n == Len(frames)
           found == top.why = "ended" \/ t \in settles
           rest == [top EXCEPT !.todo = @ \ {t}]
           running == [rest EXCEPT !.running = t]
<1> USE DEF IInv
<1>1. /\ frames # <<>> /\ top.running = 0 /\ top.todo # {}
      /\ IF found
         THEN /\ promise' = [promise EXCEPT ![t] = q]
              /\ settles' = IF top.why = "timeout" THEN settles \ {t} ELSE settles
              /\ frames' = SetTop(running)
         ELSE frames' = SetTop(rest) /\ UNCHANGED <<promise, settles>>
      /\ UNCHANGED <<book, present, calls, replies, empties, moves, parted>>
  BY <1>p, <1>q DEF SettleNext
<1>2. /\ frames \in Seq(Frame)
      /\ n \in DOMAIN frames /\ frames[n] = top /\ top \in Frame
  BY <1>1, Innermost DEF TypeOK
<1>3. t \in top.todo /\ t \in Txns /\ t \in DOMAIN promise /\ promise[t] \in Promise
      /\ Sound(promise[t], Away(t))
  <2>1. top.todo \subseteq DOMAIN promise
    BY <1>2 DEF Framed
  <2>2. t \in top.todo
    BY <1>1, <1>p, <2>1, SentTxns, FirstOf
  <2> QED
    BY <2>1, <2>2, SentTxns DEF PromisesSound
<1>4. /\ rest \in Frame /\ rest.why = top.why /\ rest.todo = top.todo \ {t}
      /\ rest.peer = top.peer /\ rest.running = 0
      /\ running \in Frame /\ running.why = top.why /\ running.todo = top.todo \ {t}
      /\ running.peer = top.peer /\ running.running = t
  BY <1>1, <1>2, <1>3 DEF Frame
<1> HIDE DEF n, found, rest, running
<1>5. /\ frames' \in Seq(Frame)
      /\ DOMAIN frames' = DOMAIN frames
      /\ \A f \in DOMAIN frames : f # n => frames'[f] = frames[f]
      /\ frames'[n] = IF found THEN running ELSE rest
  BY <1>1, <1>2, <1>4, Innermost DEF n
<1>6. /\ frames'[n].why = top.why
      /\ frames'[n].todo = top.todo \ {t}
      /\ frames'[n].peer = top.peer
      /\ frames'[n].running = IF found THEN t ELSE 0
  BY <1>4, <1>5
<1>7. \A u : Away(u)' = Away(u)
  BY <1>1 DEF Away
<1>8. /\ promise' \in Seq(Promise)
      /\ Len(promise') = Len(promise)
      /\ DOMAIN promise' = DOMAIN promise
      /\ \A u \in DOMAIN promise : Follows(promise[u], promise'[u])
      /\ \A u \in DOMAIN promise : u # t => promise'[u] = promise[u]
      /\ PromisesSound'
      /\ found /\ ~(top.why = "left" /\ promise[t].group) => promise'[t].state # "pending"
  <2>1. CASE ~found
    BY <1>1, <1>7, <2>1, SentTxns DEF PromisesSound, Follows, TypeOK
  <2>2. CASE found
    <3>1. top.why # "reply"
      BY <1>1, <1>2 DEF Framed
    <3>2. top.why \in {"timeout", "left", "ended"}
      BY <1>2, <3>1 DEF Frame
    <3>3. top.why = "left" => top.peer \in Peers
                              /\ (Owes(promise[t], top.peer) => top.peer \in Away(t))
      BY <1>2, <1>3 DEF Framed
    <3>4. /\ Follows(promise[t], q) /\ Sound(q, Away(t))
          /\ ~(top.why = "left" /\ promise[t].group) => q.state # "pending"
      BY <1>3, <3>2, <3>3, <1>q, SettledOnce
    <3> QED
      BY <1>1, <1>3, <2>2, <3>4, OnePromise DEF Pending
  <2> QED
    BY <2>1, <2>2
<1>9. \A u \in DOMAIN promise :
        /\ Pending(u)' => Pending(u)
        /\ promise'[u].addressed = promise[u].addressed
        /\ \A p : Owes(promise'[u], p) => Owes(promise[u], p)
  BY <1>8, OwedBefore
<1>10. settles' \subseteq settles
  BY <1>1
<1>11. TypeOK'
  <2>1. \A u \in DOMAIN promise' : promise'[u].group
             => promise'[u].expected \cap promise'[u].results = {}
    BY <1>8 DEF PromisesSound, Sound
  <2> QED
    BY <1>1, <1>5, <1>8, <1>10, <2>1 DEF TypeOK
<1>12. Framed'
  <2> SUFFICES ASSUME NEW f \in DOMAIN frames
               PROVE  /\ frames'[f].todo \subseteq DOMAIN promise
                      /\ frames'[f].running \in DOMAIN promise \cup {0}
                      /\ frames'[f].why \in {"timeout", "ended"} => frames'[f].todo \cap book = {}
                      /\ frames'[f].why = "reply" => frames'[f].todo = {}
                      /\ frames'[f].why = "left" => frames'[f].peer \in Peers
                      /\ \A u \in frames'[f].todo :
                            frames'[f].why = "left" /\ Owes(promise'[u], frames'[f].peer)
                                 => frames'[f].peer \in Away(u)
    BY <1>1, <1>5, <1>7, <1>8 DEF Framed
  <2>1. CASE f = n
    BY <1>2, <1>3, <1>6, <1>9, <2>1 DEF Framed
  <2>2. CASE f # n
    BY <1>5, <1>9, <2>2 DEF Framed
  <2> QED
    BY <2>1, <2>2
<1>13. NoneForgotten'
  <2> SUFFICES ASSUME NEW u \in DOMAIN promise, Pending(u)'
               PROVE  \/ u \in book \cap settles'
                      \/ \E f \in DOMAIN frames :
                           /\ u \in frames'[f].todo
                           /\ \/ frames'[f].why = "ended"
                              \/ frames'[f].why = "timeout" /\ u \in settles'
    BY <1>1, <1>5, <1>8 DEF NoneForgotten
  <2>1. Pending(u)
    BY <1>9
  <2>2. u \in settles /\ u \notin settles' => u = t /\ found /\ top.why = "timeout"
    BY <1>1
  <2>3. u \in settles => u \in settles'
    BY <1>3, <1>8, <2>2, SentTxns DEF Pending
  <2>4. CASE u \in book \cap settles
    BY <2>3, <2>4
  <2>5. ASSUME NEW f \in DOMAIN frames, u \in frames[f].todo,
               \/ frames[f].why = "ended"
               \/ frames[f].why = "timeout" /\ u \in settles
        PROVE  \/ frames'[f].why = "ended" /\ u \in frames'[f].todo
               \/ frames'[f].why = "timeout" /\ u \in settles' /\ u \in frames'[f].todo
    <3>1. CASE f # n
      BY <1>5, <2>3, <2>5, <3>1
    <3>2. CASE f = n /\ u # t
      BY <1>2, <1>6, <2>3, <2>5, <3>2
    <3>3. CASE f = n /\ u = t
      <4>1. found
        BY <1>2, <2>5, <3>3 DEF found
      <4>2. top.why # "left"
        BY <1>2, <2>5, <3>3
      <4> QED
        BY <1>8, <3>3, <4>1, <4>2 DEF Pending
    <3> QED
      BY <3>1, <3>2, <3>3
  <2> QED
    BY <2>1, <2>4, <2>5 DEF NoneForgotten
<1>14. Booked'
  <2>1. book \subseteq settles'
    <3>1. top.why = "timeout" => t \notin book
      BY <1>2, <1>3 DEF Framed
    <3> QED
      BY <1>1, <3>1 DEF Booked
  <2>2. ASSUME NEW u \in settles' \ book
        PROVE  \E f \in DOMAIN frames : frames'[f].why = "timeout" /\ u \in frames'[f].todo
    <3>1. u \in settles \ book
      BY <1>10, <2>2
    <3>2. PICK f \in DOMAIN frames : frames[f].why = "timeout" /\ u \in frames[f].todo
      BY <3>1 DEF Booked
    <3>3. CASE f # n
      BY <1>5, <3>2, <3>3
    <3>4. CASE f = n
      <4>1. top.why = "timeout" /\ u \in top.todo
        BY <1>2, <3>2, <3>4
      <4>2. u # t
        BY <1>1, <2>2, <3>1, <4>1 DEF found
      <4> QED
        BY <1>2, <1>6, <4>1, <4>2
    <3> QED
      BY <3>3, <3>4
  <2>3. ASSUME NEW u \in book, ~Pending(u)'
        PROVE  \/ promise'[u].addressed = {}
               \/ \E f \in DOMAIN frames :
                     frames'[f].why \in {"reply", "left"} /\ frames'[f].running = u
    <3>0. u \in DOMAIN promise /\ u # 0
      BY SentTxns DEF TypeOK
    <3>1. CASE Pending(u)
      <4>1. u = t /\ found
        BY <1>1, <1>8, <2>3, <3>0, <3>1 DEF Pending
      <4>2. top.why = "left"
        <5>1. top.why \notin {"timeout", "ended"}
          BY <1>2, <1>3, <4>1 DEF Framed
        <5>2. top.why # "reply"
          BY <1>1, <1>2 DEF Framed
        <5> QED
          BY <1>2, <5>1, <5>2 DEF Frame
      <4> QED
        BY <1>2, <1>6, <4>1, <4>2
    <3>2. CASE ~Pending(u)
      <4>1. ASSUME NEW f \in DOMAIN frames,
                   frames[f].why \in {"reply", "left"}, frames[f].running = u
            PROVE  frames'[f].why \in {"reply", "left"} /\ frames'[f].running = u
        BY <1>1, <1>2, <1>5, <3>0, <4>1
      <4> QED
        BY <1>9, <3>0, <3>2, <4>1 DEF Booked
    <3> QED
      BY <3>1, <3>2
  <2>4. \A u \in empties : promise'[u].addressed = {}
    BY <1>9 DEF Booked, TypeOK
  <2> QED
    BY <1>1, <1>5, <2>1, <2>2, <2>3, <2>4 DEF Booked
<1> QED
  BY <1>8, <1>11, <1>12, <1>13, <1>14, FollowersStay

\* Every step keeps the invariant, and unsettles nothing.
LEMMA NextIInv == IInv /\ [Next]_vars => IInv' /\ SettledStay
<1> SUFFICES ASSUME IInv, [Next]_vars PROVE IInv' /\ SettledStay
  OBVIOUS
<1>1. ASSUME NEW p \in Peers, Request(p) PROVE IInv' /\ SettledStay
  BY <1>1, AskKeeps DEF Request
<1>2. ASSUME NEW recipients \in SUBSET Peers, RequestGroup(recipients) PROVE IInv' /\ SettledStay
  BY <1>2, AskKeeps DEF RequestGroup
<1>3. ASSUME NEW p \in Peers, Depart(p) \/ Join(p) PROVE IInv' /\ SettledStay
  BY <1>3, DepartKeeps, JoinKeeps, SamePromises DEF Depart, Join
<1>4. ASSUME NEW t \in Txns, ResolveEmpty(t) PROVE IInv' /\ SettledStay
  BY <1>4, ResolveEmptyKeeps
<1>5. ASSUME NEW t \in Txns, NEW p \in Peers, NEW ok \in BOOLEAN,
             Reply(t, p, ok) \/ HearReply(t, p, ok)
      PROVE  IInv' /\ SettledStay
  BY <1>5, ReplyKeeps, HearReplyKeeps, SamePromises DEF Reply
<1>6. ASSUME NEW expired \in SUBSET book, Sweep(expired) PROVE IInv' /\ SettledStay
  BY <1>6, SweepKeeps, SamePromises DEF Sweep
<1>7. CASE ClearSession
  BY <1>7, ClearSessionKeeps, SamePromises DEF ClearSession
<1>8. CASE SettleNext
  BY <1>8, SettleNextKeeps
<1>9. CASE CallbacksReturn
  BY <1>9, CallbacksReturnKeeps, SamePromises DEF CallbacksReturn
<1>10. CASE HandlerEnds
  BY <1>10, HandlerEndsKeeps, SamePromises DEF HandlerEnds
<1>11. CASE UNCHANGED vars
  <2>1. \A u : Away(u)' = Away(u)
    BY <1>11 DEF vars, Away
  <2> QED
    BY <1>11, <2>1, SamePromises DEF vars, IInv, TypeOK, Framed, NoneForgotten, Booked, PromisesSound, Pending
<1> QED
  BY <1>1, <1>2, <1>3, <1>4, <1>5, <1>6, <1>7, <1>8, <1>9, <1>10, <1>11 DEF Next

\* The invariant holds in every state.
THEOREM Invariant == Spec => []IInv
<1>1. IInv /\ [Next]_vars => IInv'
  BY NextIInv
<1> QED
  BY <1>1, InitIInv, PTL DEF Spec

\* rpc.cpp, txn_book.cpp and promise.cpp: a request is kept until it settles, the
\* books agree between handlers, and a group is whole when it completes.
THEOREM RequestsKept == Spec => []RequestsAreKept
<1>1. IInv => RequestsAreKept
  <2> SUFFICES ASSUME IInv PROVE RequestsAreKept
    OBVIOUS
  <2> USE DEF IInv
  <2>1. BooksAgree
    <3> SUFFICES ASSUME frames = <<>>
                 PROVE  /\ book = settles
                        /\ \A t \in book : ~Pending(t) => promise[t].addressed = {}
      BY DEF BooksAgree, Idle
    <3>1. DOMAIN frames = {}
      OBVIOUS
    <3> QED
      BY <3>1 DEF Booked
  <2>2. GroupIsWhole
    <3> SUFFICES ASSUME NEW t \in DOMAIN promise, promise[t].group
                 PROVE  /\ promise[t].state = "completed" =>
                              /\ promise[t].refusal = "OK"
                              /\ \A p \in promise[t].addressed :
                                    p \in promise[t].results \/ <<t, p>> \in parted
                        /\ promise[t].state = "failed" /\ promise[t].code = "refused" =>
                              promise[t].refusal = "refused" /\ promise[t].expected = {}
      BY DEF GroupIsWhole
    <3> QED
      BY DEF PromisesSound, Sound, Away
  <2> QED
    BY <2>1, <2>2 DEF RequestsAreKept
<1> QED
  BY <1>1, Invariant, PTL

\* "A promise settles once" (NetwPromise.xml:7): whatever answers, expires, departs
\* or ends later, a settled promise keeps its state, code and results.
THEOREM PromisesSettleOnce == Spec => SettlesOnce
<1>1. IInv /\ [Next]_vars => [SettledStay]_vars
  BY NextIInv
<1> QED
  BY <1>1, Invariant, PTL DEF Spec, SettlesOnce, SettledStay
=============================================================================

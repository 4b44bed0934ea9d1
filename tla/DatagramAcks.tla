------------------------------ MODULE DatagramAcks ------------------------------
(***************************************************************************)
(* Sequence numbers and delivery reports of the unreliable datagrams from    *)
(* one peer to another (datagram_seq_book, wire/ack_book, repl/send_pass).   *)
(*                                                                           *)
(* The sender numbers its datagrams modulo 2^16 and tracks those that carry  *)
(* rows in a ring.  The receiver keeps the freshest number it has seen and   *)
(* a history of those before it, and echoes both on what it sends back.  An  *)
(* echo that is fresher than the last settles what the ring tracks: what it  *)
(* reports is delivered, and what it has passed by more than the history is  *)
(* lost.                                                                     *)
(*                                                                           *)
(* A datagram is named here by the count of those sent up to it, which the   *)
(* code does not have: it sees the number, the count modulo Modulus.         *)
(***************************************************************************)
EXTENDS Integers, FiniteSets

CONSTANTS
    Modulus,        \* 65536, how many numbers there are
    Depth,          \* HISTORY_DEPTH, 32
    Ring,           \* MAX_IN_FLIGHT, 128
    Lifetime,       \* how many later datagrams one on the link can outlive
    Silence,        \* how many datagrams are sent past the last one settled
    Starts,         \* how many datagrams a connection may have sent at first
    Stops,          \* bound on the datagrams sent: the counts to stop at
    MaxEchoes       \* bound on the echoes on the link

NumberAssumption ==
    /\ Modulus \in Nat /\ Ring \in Nat \ {0} /\ Depth \in Nat \ {0}
    /\ Modulus % Ring = 0
    /\ Depth < Ring
    /\ 2 * Ring <= Modulus

\* What a link does not do: deliver a datagram, or an echo, so late that its
\* number looks new again, or leave a connection open that echoes nothing.
LinkAssumption ==
    /\ {Lifetime, Silence, MaxEchoes} \subseteq Nat
    /\ Starts \cup Stops \subseteq Nat
    /\ 2 * Lifetime < Modulus
    /\ 2 * (Depth + Silence) < Modulus
Assumptions == NumberAssumption /\ LinkAssumption

None == -1

VARIABLES
    sent,           \* the datagrams sent so far, send_seqs
    ring,           \* what each slot of the ring tracks, 0 for nothing
    highest,        \* highest_acked_seq, None while nothing was echoed
    toReceiver,     \* the datagrams on the link
    freshest,       \* inbound_freshest, None while nothing came
    history,        \* inbound_history: the bits that are set
    toSender,       \* the echoes on the link
    seen,           \* the datagrams that came
    tracked,        \* the datagrams the ring took
    delivered,      \* the datagrams reported delivered
    lost            \* the datagrams reported lost

vars == <<sent, ring, highest, toReceiver, freshest, history, toSender,
          seen, tracked, delivered, lost>>

-----------------------------------------------------------------------------
(* Numbers. *)

Seq(datagram) == datagram % Modulus

\* distance, in uint16_t.
Distance(newer, older) == (newer - older) % Modulus

\* is_fresher, and a difference above 0 as int16_t.
Fresher(a, b) == a # b /\ 2 * Distance(a, b) < Modulus

\* The latest datagram up to the last one sent that has a number.
Named(seq) == sent - Distance(Seq(sent), seq)

-----------------------------------------------------------------------------
(* Receiver. *)

\* Mutant of Shifted: what falls out of the history stays.
ShiftedWide(bits, step) ==
    IF step >= Depth THEN {} ELSE {i + step : i \in bits} \cup {step - 1}

\* Mutant of Shifted: the bit of the datagram that was freshest is one too high.
ShiftedOver(bits, step) ==
    IF step >= Depth
    THEN {}
    ELSE {i + step : i \in {j \in bits : j + step < Depth}} \cup {step}

\* note_inbound: the history once a datagram is fresher by step.
Shifted(bits, step) ==
    IF step >= Depth
    THEN {}
    ELSE {i + step : i \in {j \in bits : j + step < Depth}} \cup {step - 1}

\* note_inbound: a datagram that is not fresher.
Recalled(seq) ==
    LET back == Distance(freshest, seq)
    IN  IF back \in 1 .. Depth THEN history \cup {back - 1} ELSE history

\* Mutant of Arrive: any datagram becomes the freshest.
ArriveAnyway(d) ==
    /\ d \in toReceiver
    /\ seen' = seen \cup {d}
    /\ freshest' = Seq(d)
    /\ history' = IF freshest = None THEN {}
                  ELSE Shifted(history, Distance(Seq(d), freshest))
    /\ UNCHANGED <<sent, ring, highest, toReceiver, toSender, tracked,
                   delivered, lost>>

\* note_inbound.  A datagram stays on the link: it may come again.
Arrive(d) ==
    /\ d \in toReceiver
    /\ seen' = seen \cup {d}
    /\ \/ /\ freshest = None
          /\ freshest' = Seq(d)
          /\ history' = {}
       \/ /\ freshest # None
          /\ Fresher(Seq(d), freshest)
          /\ freshest' = Seq(d)
          /\ history' = Shifted(history, Distance(Seq(d), freshest))
       \/ /\ freshest # None
          /\ ~Fresher(Seq(d), freshest)
          /\ freshest' = freshest
          /\ history' = Recalled(Seq(d))
    /\ UNCHANGED <<sent, ring, highest, toReceiver, toSender, tracked,
                   delivered, lost>>

\* frame_datagram, or send_standalone_ack where an echo is owed.
Echo ==
    /\ freshest # None
    /\ Cardinality(toSender) < MaxEchoes
    /\ toSender' = toSender \cup {[ack |-> freshest, history |-> history,
                                  at |-> Named(freshest)]}
    /\ UNCHANGED <<sent, ring, highest, toReceiver, freshest, history, seen,
                   tracked, delivered, lost>>

-----------------------------------------------------------------------------
(* Sender. *)

\* The last datagram that an echo was taken for.
Settled == IF highest = None THEN 0 ELSE Named(highest)

\* The datagrams and echoes that are not too old to be delivered.
Young(d) == d + Lifetime >= sent'

\* next_send_seq, of a datagram that carries no rows: a standalone echo.
SendBare ==
    /\ sent \notin Stops
    /\ sent + 1 <= Settled + Silence
    /\ sent' = sent + 1
    /\ toReceiver' = {d \in toReceiver \cup {sent + 1} : Young(d)}
    /\ toSender' = {e \in toSender : Young(e.at)}
    /\ UNCHANGED <<ring, highest, freshest, history, seen, tracked,
                   delivered, lost>>

\* Mutant of Recorded: what waits in a slot gives way.
RecordedOver(d) ==
    /\ ring' = [ring EXCEPT ![Seq(d) % Ring] = d]
    /\ tracked' = tracked \cup {d}

\* record_send: a slot that waits for the report of another number is left as
\* it is, and the datagram goes untracked.
Recorded(d) ==
    LET slot == Seq(d) % Ring
    IN  IF ring[slot] # 0 /\ Seq(ring[slot]) # Seq(d)
        THEN UNCHANGED <<ring, tracked>>
        ELSE /\ ring' = [ring EXCEPT ![slot] = d]
             /\ tracked' = tracked \cup {d}

\* send_datagram, then commit of the rows in it.
Send ==
    /\ sent \notin Stops
    /\ sent + 1 <= Settled + Silence
    /\ sent' = sent + 1
    /\ toReceiver' = {d \in toReceiver \cup {sent + 1} : Young(d)}
    /\ toSender' = {e \in toSender : Young(e.at)}
    /\ Recorded(sent + 1)
    /\ UNCHANGED <<highest, freshest, history, seen, delivered, lost>>

\* The numbers an echo reports.
Reported(echo) ==
    {echo.ack} \cup {(echo.ack - 1 - i) % Modulus : i \in echo.history}

\* Mutant of Passed: one datagram too early.
PassedEarly(last, d) ==
    LET ahead == Distance(last, Seq(d))
    IN  ahead >= Depth /\ 2 * ahead < Modulus

\* process_ack: what the highest number echoed has left behind.
Passed(last, d) ==
    LET ahead == Distance(last, Seq(d))
    IN  ahead > Depth /\ 2 * ahead < Modulus

\* Mutant of HearEcho: what is reported stays in the ring.
HearEchoKeeps(echo) ==
    /\ echo \in toSender
    /\ highest = None \/ Fresher(echo.ack, highest)
    /\ highest' = echo.ack
    /\ LET held == {d \in {ring[s] : s \in 0 .. Ring - 1} : d # 0}
           taken == {d \in held : Seq(d) \in Reported(echo)}
           past == {d \in held \ taken : Passed(echo.ack, d)}
       IN  /\ delivered' = delivered \cup taken
           /\ lost' = lost \cup past
           /\ ring' = [s \in 0 .. Ring - 1 |->
                          IF ring[s] \in past THEN 0 ELSE ring[s]]
    /\ UNCHANGED <<sent, toReceiver, freshest, history, toSender, seen,
                   tracked>>

\* session_note_state_ack: note_peer_ack lets an echo that is fresher through to
\* process_ack, so highest_acked_seq is the number of the last echo taken.
HearEcho(echo) ==
    /\ echo \in toSender
    /\ highest = None \/ Fresher(echo.ack, highest)
    /\ highest' = echo.ack
    /\ LET held == {d \in {ring[s] : s \in 0 .. Ring - 1} : d # 0}
           taken == {d \in held : Seq(d) \in Reported(echo)}
           past == {d \in held \ taken : Passed(echo.ack, d)}
       IN  /\ delivered' = delivered \cup taken
           /\ lost' = lost \cup past
           /\ ring' = [s \in 0 .. Ring - 1 |->
                          IF ring[s] \in taken \cup past THEN 0 ELSE ring[s]]
    /\ UNCHANGED <<sent, toReceiver, freshest, history, toSender, seen,
                   tracked>>

-----------------------------------------------------------------------------
(* Link. *)

Lose ==
    /\ \/ \E d \in toReceiver : /\ toReceiver' = toReceiver \ {d}
                                /\ toSender' = toSender
       \/ \E e \in toSender : /\ toSender' = toSender \ {e}
                              /\ toReceiver' = toReceiver
    /\ UNCHANGED <<sent, ring, highest, freshest, history, seen, tracked,
                   delivered, lost>>

-----------------------------------------------------------------------------
\* A fresh connection, or one that has settled all it sent and whose last
\* datagram alone is remembered.
Init ==
    /\ sent \in Starts
    /\ ring = [s \in 0 .. Ring - 1 |-> 0]
    /\ freshest = IF sent = 0 THEN None ELSE Seq(sent)
    /\ highest = freshest
    /\ seen = {sent} \ {0}
    /\ history = {}
    /\ toReceiver = {}
    /\ toSender = {}
    /\ tracked = {}
    /\ delivered = {}
    /\ lost = {}

Next ==
    \/ Send
    \/ SendBare
    \/ \E d \in toReceiver : Arrive(d)
    \/ Echo
    \/ \E e \in toSender : HearEcho(e)
    \/ Lose

Spec == Init /\ [][Next]_vars

-----------------------------------------------------------------------------
(* Properties. *)

\* Every variable holds a value of its type.
TypeOK ==
    /\ sent \in Nat
    /\ ring \in [0 .. Ring - 1 -> 0 .. sent]
    /\ {highest, freshest} \subseteq {None} \cup 0 .. Modulus - 1
    /\ toReceiver \subseteq 1 .. sent
    /\ history \subseteq 0 .. Depth - 1
    /\ \A e \in toSender : /\ e.ack \in 0 .. Modulus - 1
                           /\ e.history \subseteq 0 .. Depth - 1
    /\ seen \cup tracked \cup delivered \cup lost \subseteq 1 .. sent

\* The freshest number is that of the last datagram sent among those that came,
\* and a bit is set only for one that came, though the numbers wrap.
EchoIsTrue ==
    IF seen = {}
    THEN freshest = None
    ELSE LET newest == CHOOSE d \in seen : \A e \in seen : e <= d
         IN  /\ freshest = Seq(newest)
             /\ \A i \in history : newest - 1 - i \in seen

\* What is reported delivered came.
DeliveredCame == delivered \subseteq seen

\* What is reported lost was passed by more than the history reaches: it can no
\* longer be reported delivered.
LostWasPassed == \A d \in lost : \E e \in seen : e > d + Depth

\* A datagram the ring took waits there or is reported, and is reported once.
ReportedOnce ==
    LET waiting == {d \in {ring[s] : s \in 0 .. Ring - 1} : d # 0}
    IN  /\ tracked = waiting \cup delivered \cup lost
        /\ waiting \cap (delivered \cup lost) = {}
        /\ delivered \cap lost = {}

\* What is echoed and what is reported are true, as the five parts above say.
EchoesAreTrue ==
    TypeOK /\ EchoIsTrue /\ DeliveredCame /\ LostWasPassed /\ ReportedOnce

\* WIRE.md, section 2: "bit i is set when inbound seq ack - 1 - i was seen, so
\* one echo reports 33 datagrams".
EchoReportsWhatCame ==
    seen # {} =>
        LET newest == CHOOSE d \in seen : \A e \in seen : e <= d
        IN  \A i \in 0 .. Depth - 1 : newest - 1 - i \in seen => i \in history
=============================================================================

------------------------------- MODULE MCWire -------------------------------
(***************************************************************************)
(* The books of the wire on small instances: the bases of OPENs, the queue   *)
(* of control records, the echoes of datagrams, the gate of their freshness  *)
(* and the commands of a predicted entity.  They share no variable.  A       *)
(* behaviour moves the one that "moving" names and leaves the others where   *)
(* they start, so the behaviours of each are all there and their states add  *)
(* up instead of multiplying.                                                *)
(***************************************************************************)
EXTENDS OpenBasis, TLC

CONSTANTS
    Parts,                                  \* the books a run moves
    QueueRequests, QueueTokens, QueueMoves, \* bounds of ControlQueue
    LaneCommands, LaneFlight,               \* bounds of CommandLane
    l1, l2, l3, k1, k2, k3, f1, v1, v2, a, b, r, q

VARIABLES
    moving,
    qstream, qrequest, token, known, lane, qlastRequest, lastToken, out, receipts, link, qmoves,
    dsent, ring, highest, toReceiver, freshest, history, toSender, seen, tracked, delivered, lost,
    gsent, network, last, open, verdicts, newest, resets,
    epoch, next, authority_ack, ack_of_acks, confirmed, command_epoch, owner_floor, cursor, ack,
    inputs, journal, forth, back, done, rewires

\* l1 and l2 are two families of one route and ordinal.
SharedKeyOf == [l \in Lane |-> IF l = l3 THEN k2 ELSE k1]

\* Every lane has a key of its own.
OwnKeyOf == [l \in Lane |-> IF l = l1 THEN k1 ELSE IF l = l2 THEN k2 ELSE k3]

\* A check byte that collides for all fields.
CollidingCheck == [x \in Fields |-> 0]

\* The two families, the two values and the two peers of the queue are alike.
Alike == Permutations({l1, l2}) \cup Permutations({v1, v2}) \cup Permutations({a, b})

Queue == INSTANCE ControlQueue WITH
    Peer <- {a, b}, MaxRequest <- QueueRequests, MaxToken <- QueueTokens, MaxRecords <- 1,
    MaxMoves <- QueueMoves, stream <- qstream, request <- qrequest,
    lastRequest <- qlastRequest, moves <- qmoves

\* Twelve numbers, a ring of four, a history of two: a fresh connection, and one
\* whose numbers are about to wrap.
Acks == INSTANCE DatagramAcks WITH
    Modulus <- 12, Depth <- 2, Ring <- 4, Lifetime <- 2, Silence <- 3, Starts <- {0, 8},
    Stops <- {4, 13}, MaxEchoes <- 2, sent <- dsent

\* A range of six numbers, so that half of it is three: one stream whose numbers
\* wrap twice, and two streams in datagrams of two frames.
Wraps == INSTANCE FreshGate WITH
    Routes <- {r}, Channels <- {"rows"}, SeqModulus <- 6, MaxSent <- 14, MaxFrames <- 1,
    MaxLag <- 3, MaxSilence <- 2, MaxResets <- 1, sent <- gsent
Shared == INSTANCE FreshGate WITH
    Routes <- {r, q}, Channels <- {"rows"}, SeqModulus <- 6, MaxSent <- 3, MaxFrames <- 2,
    MaxLag <- 3, MaxSilence <- 2, MaxResets <- 1, sent <- gsent

\* A horizon of three commands, two of them in a frame and two records in an ack, behind a
\* buffer of one; both ends are wired again.
Commands == INSTANCE CommandLane WITH
    HORIZON <- 3, WINDOW <- 2, BUFFER <- 1, CEILING <- 1, ACK_WINDOW <- 3, ACK_RECORDS <- 2,
    MaxIndex <- LaneCommands, MaxEpoch <- 2, MaxRewires <- 1, MaxFlight <- LaneFlight,
    LateRows <- FALSE

ASSUME WireAssumption ==
    /\ Assumptions /\ Queue!Assumptions /\ Acks!Assumptions
    /\ Wraps!Assumptions /\ Shared!Assumptions /\ Commands!Assumptions

basisVars == vars
queueVars == <<qstream, qrequest, token, known, lane, qlastRequest, lastToken, out, receipts,
               link, qmoves>>
echoVars == <<dsent, ring, highest, toReceiver, freshest, history, toSender, seen, tracked,
              delivered, lost>>
gateVars == <<gsent, network, last, open, verdicts, newest, resets>>
laneVars == <<epoch, next, authority_ack, ack_of_acks, confirmed, command_epoch, owner_floor,
              cursor, ack, inputs, journal, forth, back, done, rewires>>
wireVars == <<moving, basisVars, queueVars, echoVars, gateVars, laneVars>>

Basing(A) ==
    moving = "bases" /\ A /\ UNCHANGED <<moving, queueVars, echoVars, gateVars, laneVars>>
Queueing(A) ==
    moving = "queue" /\ A /\ UNCHANGED <<moving, basisVars, echoVars, gateVars, laneVars>>
Echoing(A) ==
    moving = "echoes" /\ A /\ UNCHANGED <<moving, basisVars, queueVars, gateVars, laneVars>>
Gating(which, A) ==
    moving = which /\ A /\ UNCHANGED <<moving, basisVars, queueVars, echoVars, laneVars>>
Steering(A) ==
    moving = "lane" /\ A /\ UNCHANGED <<moving, basisVars, queueVars, echoVars, gateVars>>

WireInit ==
    /\ moving \in Parts
    /\ Init /\ Queue!Init /\ Acks!Init /\ Commands!Init
    /\ moving = "bases" \/ \A l, m \in Lane : fields[l] = fields[m]
    /\ moving = "echoes" \/ dsent = 0
    /\ IF moving = "wraps" THEN Wraps!Init ELSE Shared!Init

WireNext ==
    \/ Basing(Next) \/ Queueing(Queue!Next) \/ Echoing(Acks!Next)
    \/ Gating("wraps", Wraps!Next) \/ Gating("shared", Shared!Next)
    \/ Steering(Commands!Next)

WireSpec == WireInit /\ [][WireNext]_wireVars

\* What the books need to make up for a loss: the send pass asks and repairs, the
\* schedulers flush, the links deliver, and a park is answered or expires.  The owner
\* and the server of a lane have their frames, and acks are not lost for ever.
FairWireSpec ==
    /\ WireSpec
    /\ \A l \in Lane : /\ WF_wireVars(Basing(Ask(l)))
                       /\ WF_wireVars(Basing(AskAgain(l)))
                       /\ WF_wireVars(Basing(Decide(l) \/ Expire(l)))
    /\ WF_wireVars(Basing(Flush)) /\ WF_wireVars(Basing(ReadFrame))
    /\ WF_wireVars(Basing(FlushAnswer)) /\ WF_wireVars(Basing(HearReady \/ HearReset))
    /\ \A p \in {a, b} : /\ WF_wireVars(Queueing(Queue!OpenStream(p)))
                         /\ WF_wireVars(Queueing(Queue!AskAgain(p)))
                         /\ WF_wireVars(Queueing(Queue!Flush(p)))
                         /\ WF_wireVars(Queueing(Queue!Hear(p)))
                         /\ WF_wireVars(Queueing(Queue!Land(p)))
                         /\ WF_wireVars(Queueing(Queue!Stray(p)))
    /\ WF_wireVars(Steering(Commands!Author)) /\ WF_wireVars(Steering(Commands!Hold))
    /\ WF_wireVars(Steering(Commands!ServerFrame))
    /\ WF_wireVars(Steering(Commands!SomeCommands))
    /\ SF_wireVars(Steering(Commands!SomeAck))

-----------------------------------------------------------------------------
(* A token names one opening at both ends (wire/stream_book.cpp).                     *)
OneRequestPerToken == moving = "queue" => Queue!TypeOK /\ Queue!OneRequestPerToken

(* What a receiver echoes came, and what a sender reports is so                      *)
(* (datagram_seq_book.cpp, wire/ack_book.cpp).                                        *)
EchoesAreTrue == moving = "echoes" => Acks!EchoesAreTrue

(* A stream takes what is newer than all it took and refuses nothing else, and judges *)
(* a datagram as a whole (repl/freshness_book.cpp).                                   *)
GateIsTrue ==
    [][/\ moving = "wraps" => Wraps!TakesTheNewer /\ Wraps!LeavesTheOld
       /\ moving = "shared" => Shared!TakesTheNewer /\ Shared!LeavesTheOld
                               /\ Shared!OneVerdict']_gateVars

(* The server of a predicted entity runs each command once and in its turn, its acks  *)
(* name what it ran, and the owner takes nothing else for acked                        *)
(* (predict/engine.cpp, admit_command_frame, replay_tape_entry and build_ack_frame).   *)
CommandsAreTrue == moving = "lane" => Commands!CommandsAreTrue

(* Whatever was refused, dropped or held unlike at the two ends, every lane of an     *)
(* OPEN gets its stream, both rows of the queue come to stream and their writers to   *)
(* know it, and no command but those a buffer keeps waits to be run and acked: what   *)
(* is sent again makes up for each record and frame that is lost.                     *)
StreamsSettle ==
    <>[]/\ moving = "bases" => AllOpen
        /\ moving = "queue" => Queue!AllSettled
        /\ moving = "lane" => Commands!AllServed
=============================================================================

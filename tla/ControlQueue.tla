------------------------------ MODULE ControlQueue ------------------------------
(***************************************************************************)
(* The queue of control records that the two directions of a connection      *)
(* share (wire/control_scheduler.cpp).                                       *)
(*                                                                           *)
(* Each of two peers writes one row to the other and reads the other's.  As  *)
(* a writer it queues OPEN and CLOSE, as a reader READY, RESET and receipts, *)
(* all in one queue for the other peer.  A CLOSE carries a token the other   *)
(* peer minted, the answers and receipts a token of its own; drop_token      *)
(* forgets what waits under a token whoever minted it.                       *)
(*                                                                           *)
(* One direction with its rows and images is in RowStream.                   *)
(***************************************************************************)
EXTENDS Naturals, Sequences, SequencesExt

CONSTANTS
    Peer,           \* the two peers
    MaxRequest,     \* bound on the requests a peer mints
    MaxToken,       \* bound on the tokens a peer mints
    MaxRecords,     \* bound on the records on the link, each way
    MaxMoves        \* bound on the disturbances

PeerAssumption == \E p, q \in Peer : p # q /\ Peer = {p, q}

BoundAssumption == {MaxRequest, MaxToken, MaxRecords, MaxMoves} \subseteq Nat
Assumptions == PeerAssumption /\ BoundAssumption

VARIABLES
    stream,         \* what a peer's row is to the other peer
    request,        \* the request that stands for it, 0 for none
    token,          \* the token seated for it, 0 for none
    known,          \* whether a receipt came for it under that token
    lane,           \* the lane in a peer's reader book, NoLane for none
    lastRequest,    \* request_counter of a peer
    lastToken,      \* token_counter of a peer
    out,            \* the records a peer's scheduler holds
    receipts,       \* the tokens of the receipts it holds
    link,           \* the records and receipts on their way from a peer
    moves           \* disturbances so far

vars == <<stream, request, token, known, lane, lastRequest, lastToken, out,
          receipts, link, moves>>

Other(p) == CHOOSE q \in Peer : q # p

NoLane == [request |-> 0, token |-> 0, invalidated |-> FALSE]

Open(r) == [tag |-> "OPEN", request |-> r, token |-> 0]
Ready(r, t) == [tag |-> "READY", request |-> r, token |-> t]
Reset(r, t) == [tag |-> "RESET", request |-> r, token |-> t]
Close(t) == [tag |-> "CLOSE", request |-> 0, token |-> t]
Accept(t) == [tag |-> "ACCEPT", request |-> 0, token |-> t]

-----------------------------------------------------------------------------
(* The scheduler. *)

\* same_lifecycle_subject; a peer asks for one lane.
SameSubject(held, fresh) ==
    /\ held.tag = fresh.tag
    /\ \/ fresh.tag = "OPEN"
       \/ fresh.tag = "CLOSE" /\ held.token = fresh.token
       \/ /\ fresh.tag \in {"READY", "RESET"}
          /\ held.request = fresh.request
          /\ fresh.request = 0 => held.token = fresh.token

\* Mutant of Queued: a record waits beside one of the same subject.
QueuedTwice(queue, fresh) == Append(queue, fresh)

\* queue: a record takes the place of one of the same subject.
Queued(queue, fresh) ==
    LET same == {i \in DOMAIN queue : SameSubject(queue[i], fresh)}
    IN  IF same = {}
        THEN Append(queue, fresh)
        ELSE [i \in DOMAIN queue |-> IF i \in same THEN fresh ELSE queue[i]]

\* drop_token, on the records: every one of the token but an OPEN.
Dropped(queue, t) ==
    SelectSeq(queue, LAMBDA record : record.token # t \/ record.tag = "OPEN")

-----------------------------------------------------------------------------
(* Writer. *)

\* stream_seated: the row asks for a stream.
OpenStream(p) ==
    /\ stream[p] = "NONE"
    /\ lastRequest[p] < MaxRequest
    /\ lastRequest' = [lastRequest EXCEPT ![p] = @ + 1]
    /\ request' = [request EXCEPT ![p] = lastRequest[p] + 1]
    /\ stream' = [stream EXCEPT ![p] = "OPENING"]
    /\ out' = [out EXCEPT ![p] = Queued(@, Open(lastRequest[p] + 1))]
    /\ UNCHANGED <<token, known, lane, lastToken, receipts, link, moves>>

\* Mutant of AskAgain: an OPEN that has left is not asked again.
AskAgainNever(p) ==
    /\ stream[p] = "OPENING"
    /\ Open(request[p]) \in ToSet(out[p])
    /\ UNCHANGED vars

\* stream_seated: the OPEN is asked again after a repair interval.
AskAgain(p) ==
    /\ stream[p] = "OPENING"
    /\ Len(link[p]) < MaxRecords
    /\ out' = [out EXCEPT ![p] = Queued(@, Open(request[p]))]
    /\ UNCHANGED <<stream, request, token, known, lane, lastRequest, lastToken,
                   receipts, link, moves>>

\* The row's stream ends at the writer.
Ended(p) ==
    /\ stream' = [stream EXCEPT ![p] = "NONE"]
    /\ request' = [request EXCEPT ![p] = 0]
    /\ token' = [token EXCEPT ![p] = 0]
    /\ known' = [known EXCEPT ![p] = FALSE]

\* queue_closes: the row's anchor moved, and what streamed it is closed.
CloseStream(p) ==
    /\ moves < MaxMoves
    /\ moves' = moves + 1
    /\ stream[p] # "NONE"
    /\ Ended(p)
    /\ IF token[p] = 0
       THEN UNCHANGED <<out, receipts>>
       ELSE /\ out' = [out EXCEPT ![p] = Queued(Dropped(@, token[p]),
                                                Close(token[p]))]
            /\ receipts' = [receipts EXCEPT ![p] = @ \ {token[p]}]
    /\ UNCHANGED <<lane, lastRequest, lastToken, link>>

\* Mutant of HearReady: an answer seats whatever request it answers.
HearReadyAny(p) ==
    LET heard == Head(link[Other(p)])
    IN  /\ heard.tag = "READY"
        /\ IF stream[p] = "OPENING"
           THEN /\ stream' = [stream EXCEPT ![p] = "READY"]
                /\ token' = [token EXCEPT ![p] = heard.token]
           ELSE UNCHANGED <<stream, token>>
        /\ UNCHANGED <<request, known, lane, lastToken, out>>

\* stream_ready.
HearReady(p) ==
    LET heard == Head(link[Other(p)])
    IN  /\ heard.tag = "READY"
        /\ IF request[p] = heard.request
           THEN /\ stream' = [stream EXCEPT ![p] = "READY"]
                /\ token' = [token EXCEPT ![p] = heard.token]
           ELSE UNCHANGED <<stream, token>>
        /\ UNCHANGED <<request, known, lane, lastToken, out>>

\* stream_reset, by token alone where the request is 0.
HearReset(p) ==
    LET heard == Head(link[Other(p)])
    IN  /\ heard.tag = "RESET"
        /\ IF IF heard.request = 0
              THEN heard.token # 0 /\ token[p] = heard.token
              ELSE request[p] = heard.request /\ token[p] \in {0, heard.token}
           THEN Ended(p)
           ELSE UNCHANGED <<stream, request, token, known>>
        /\ UNCHANGED <<lane, lastToken, out>>

\* stream_receipt.
HearAccept(p) ==
    LET heard == Head(link[Other(p)])
    IN  /\ heard.tag = "ACCEPT"
        /\ known' = [known EXCEPT ![p] = @ \/ token[p] = heard.token]
        /\ UNCHANGED <<stream, request, token, lane, lastToken, out>>

-----------------------------------------------------------------------------
(* Reader. *)

\* StreamReaderBook::open, and the answer.
HearOpen(p) ==
    LET heard == Head(link[Other(p)])
        fresh == lastToken[p] + 1
    IN  /\ heard.tag = "OPEN"
        /\ \/ /\ heard.request < lane[p].request
              /\ out' = [out EXCEPT ![p] = Queued(@, Reset(heard.request, 0))]
              /\ UNCHANGED <<lane, lastToken>>
           \/ /\ heard.request = lane[p].request
              /\ out' = [out EXCEPT ![p] =
                            Queued(@, IF lane[p].invalidated
                                      THEN Reset(heard.request, lane[p].token)
                                      ELSE Ready(heard.request, lane[p].token))]
              /\ UNCHANGED <<lane, lastToken>>
           \/ /\ heard.request > lane[p].request
              /\ lastToken[p] < MaxToken
              /\ lastToken' = [lastToken EXCEPT ![p] = fresh]
              /\ lane' = [lane EXCEPT ![p] = [request |-> heard.request,
                                              token |-> fresh,
                                              invalidated |-> FALSE]]
              /\ out' = [out EXCEPT ![p] = Queued(@, Ready(heard.request, fresh))]
        /\ UNCHANGED <<stream, request, token, known>>

\* StreamReaderBook::close.
HearClose(p) ==
    LET heard == Head(link[Other(p)])
    IN  /\ heard.tag = "CLOSE"
        /\ lane' = [lane EXCEPT ![p] = IF @.token = heard.token THEN NoLane ELSE @]
        /\ UNCHANGED <<stream, request, token, known, lastToken, out>>

\* The link is reliable and ordered.
Hear(p) ==
    /\ link[Other(p)] # <<>>
    /\ link' = [link EXCEPT ![Other(p)] = Tail(@)]
    /\ \/ HearReady(p)
       \/ HearReset(p)
       \/ HearAccept(p)
       \/ HearOpen(p)
       \/ HearClose(p)
    /\ UNCHANGED <<lastRequest, receipts, moves>>

\* accept: a full row of the lane lands, and lands again while its receipt is
\* awaited.
Land(p) ==
    /\ stream[Other(p)] = "READY"
    /\ ~known[Other(p)]
    /\ token[Other(p)] = lane[p].token
    /\ receipts' = [receipts EXCEPT ![p] = @ \cup {lane[p].token}]
    /\ UNCHANGED <<stream, request, token, known, lane, lastRequest, lastToken,
                   out, link, moves>>

\* reset_stray: a row came under a token that no lane has.
Stray(p) ==
    /\ stream[Other(p)] = "READY"
    /\ token[Other(p)] # lane[p].token
    /\ Len(link[p]) < MaxRecords
    /\ out' = [out EXCEPT ![p] = Queued(@, Reset(0, token[Other(p)]))]
    /\ UNCHANGED <<stream, request, token, known, lane, lastRequest, lastToken,
                   receipts, link, moves>>

\* reset_stream_of: a delta comes over what was receipted, and the image it needs
\* is gone.  The same delta sent again finds the lane invalidated and asks for
\* nothing.
Invalidate(p) ==
    /\ moves < MaxMoves
    /\ moves' = moves + 1
    /\ stream[Other(p)] = "READY"
    /\ known[Other(p)]
    /\ token[Other(p)] = lane[p].token
    /\ ~lane[p].invalidated
    /\ lane' = [lane EXCEPT ![p].invalidated = TRUE]
    /\ out' = [out EXCEPT ![p] = Queued(Dropped(@, lane[p].token),
                                        Reset(lane[p].request, lane[p].token))]
    /\ receipts' = [receipts EXCEPT ![p] = @ \ {lane[p].token}]
    /\ UNCHANGED <<stream, request, token, known, lastRequest, lastToken, link>>

\* close_route at the reader.
ForgetLane(p) ==
    /\ moves < MaxMoves
    /\ moves' = moves + 1
    /\ lane[p] # NoLane
    /\ lane' = [lane EXCEPT ![p] = NoLane]
    /\ UNCHANGED <<stream, request, token, known, lastRequest, lastToken, out,
                   receipts, link>>

-----------------------------------------------------------------------------
\* flush: records in order, and receipts behind them.
Flush(p) ==
    /\ out[p] # <<>> \/ receipts[p] # {}
    /\ Len(link[p]) < MaxRecords
    /\ link' = [link EXCEPT ![p] =
                   @ \o out[p] \o SetToSeq({Accept(t) : t \in receipts[p]})]
    /\ out' = [out EXCEPT ![p] = <<>>]
    /\ receipts' = [receipts EXCEPT ![p] = {}]
    /\ UNCHANGED <<stream, request, token, known, lane, lastRequest, lastToken,
                   moves>>

Init ==
    /\ stream = [p \in Peer |-> "NONE"]
    /\ request = [p \in Peer |-> 0]
    /\ token = [p \in Peer |-> 0]
    /\ known = [p \in Peer |-> FALSE]
    /\ lane = [p \in Peer |-> NoLane]
    /\ lastRequest = [p \in Peer |-> 0]
    /\ lastToken = [p \in Peer |-> 0]
    /\ out = [p \in Peer |-> <<>>]
    /\ receipts = [p \in Peer |-> {}]
    /\ link = [p \in Peer |-> <<>>]
    /\ moves = 0

Next ==
    \E p \in Peer : \/ OpenStream(p)
                    \/ AskAgain(p)
                    \/ CloseStream(p)
                    \/ Hear(p)
                    \/ Land(p)
                    \/ Stray(p)
                    \/ Invalidate(p)
                    \/ ForgetLane(p)
                    \/ Flush(p)

Spec == Init /\ [][Next]_vars

\* The send pass asks and repairs, the scheduler flushes, the link delivers.
Fairness ==
    \A p \in Peer : /\ WF_vars(OpenStream(p))
                    /\ WF_vars(AskAgain(p))
                    /\ WF_vars(Flush(p))
                    /\ WF_vars(Hear(p))
                    /\ WF_vars(Land(p))
                    /\ WF_vars(Stray(p))

FairSpec == Spec /\ Fairness

-----------------------------------------------------------------------------
(* Properties. *)

Record ==
    [tag : {"OPEN", "READY", "RESET", "CLOSE", "ACCEPT"},
     request : 0 .. MaxRequest, token : 0 .. MaxToken]

\* Every variable holds a value of its type; a subject waits once.
TypeOK ==
    /\ stream \in [Peer -> {"NONE", "OPENING", "READY"}]
    /\ request \in [Peer -> 0 .. MaxRequest]
    /\ token \in [Peer -> 0 .. MaxToken]
    /\ known \in [Peer -> BOOLEAN]
    /\ lane \in [Peer -> [request : 0 .. MaxRequest, token : 0 .. MaxToken,
                          invalidated : BOOLEAN]]
    /\ lastRequest \in [Peer -> 0 .. MaxRequest]
    /\ lastToken \in [Peer -> 0 .. MaxToken]
    /\ \A p \in Peer :
          /\ ToSet(out[p]) \cup ToSet(link[p]) \subseteq Record
          /\ \A i, j \in DOMAIN out[p] : SameSubject(out[p][i], out[p][j]) => i = j
          /\ receipts[p] \subseteq 1 .. MaxToken

\* A token that a writer streams under and the other peer's lane has stands for
\* one request at both ends, so a row never lands in the lane of another
\* opening: no late or repeated answer, and no answer dropped by the direction
\* that shares the queue, seats a token for a request it was not minted for.
OneRequestPerToken ==
    \A p \in Peer :
        (stream[p] = "READY" /\ token[p] = lane[Other(p)].token) =>
            request[p] = lane[Other(p)].request

\* Peer p streams its row, the other peer serves the lane, and p knows it.
Settled(p) ==
    /\ stream[p] = "READY"
    /\ known[p]
    /\ token[p] = lane[Other(p)].token
    /\ ~lane[Other(p)].invalidated

\* The other peer gave the lane up, and nothing tells p any more.
Unheard(p) ==
    /\ stream[p] = "READY"
    /\ token[p] = lane[Other(p)].token
    /\ lane[Other(p)].invalidated

\* Once the disturbances are over both rows stream and both writers know it,
\* whatever READY, CLOSE and receipts the other direction dropped: repairs make
\* up for each.  Only a RESET that it dropped has no repair.
AllSettled == \A p \in Peer : Settled(p) \/ Unheard(p)
Recovers == <>[]AllSettled

\* WIRE.md, section 7: streams in opposite directions are told apart by the
\* direction of the lookup.  So a CLOSE that waits leaves, whatever becomes of
\* the stream that is read.
CloseIsKept ==
    [][\A p \in Peer, t \in 1 .. MaxToken :
          Close(t) \in ToSet(out[p]) => Close(t) \in ToSet(out'[p] \o link'[p])]_vars
=============================================================================

------------------------------ MODULE RowStream ------------------------------
(***************************************************************************)
(* One row of a property set, streamed by the peer that writes it to one    *)
(* peer that reads it.  Rows travel in unreliable datagrams that are lost,   *)
(* duplicated and reordered; OPEN, READY, RESET, ACCEPT and CLOSE travel in  *)
(* the two directions of one reliable ordered link, behind a scheduler that  *)
(* coalesces what it has not sent yet.                                       *)
(*                                                                           *)
(* Writer: store/peers.cpp (the lane's bookkeeping), repl/session_send.cpp   *)
(* (what is sent, and how).  Reader: wire/stream_book.cpp (which lane a      *)
(* token names), store/receive.cpp (which row lands), api/sync_pipeline.cpp  *)
(* (apply_row), api/session/sync.cpp (the control records).                  *)
(*                                                                           *)
(* The record is a state record under a constant anchor: the tenures and     *)
(* anchors that bind other lanes are the subject of LaneTenure.              *)
(***************************************************************************)
EXTENDS Naturals, Sequences, FiniteSets, SequencesExt

CONSTANTS
    Column,         \* the columns of the row
    Value,          \* the codes a column can hold
    NoImage,        \* no row at all
    DeltaSpan,      \* SNAPSHOT_DELTA_SPAN: how far back a delta may reach
    StageDepth,     \* SNAPSHOT_STAGE_DEPTH: revisions in flight the writer keeps
    ReceivedDepth,  \* RECEIVED_DEPTH: images the reader keeps
    Heartbeat,      \* whether the record is restated at rest
    MaxRequest,     \* the last request the writer's counter mints
    MaxToken,       \* the last token the reader's counter mints
    MaxRevision,    \* bound on the revisions of one stream
    MaxRows,        \* bound on the row datagrams in flight
    MaxFrames,      \* bound on the control records in flight, each way
    Disturbance,    \* the disturbances that happen: "hide", "reopen", "rebind"
    MaxMoves        \* bound on their number

ASSUME ColumnAssumption ==
    /\ IsFiniteSet(Column)
    /\ Column # {}

ASSUME ValueAssumption ==
    /\ Value # {}
    /\ NoImage \notin [Column -> Value]

ASSUME DepthAssumption ==
    /\ DeltaSpan \in Nat \ {0}
    /\ StageDepth \in Nat \ {0}
    /\ ReceivedDepth \in Nat \ {0}
    /\ Heartbeat \in BOOLEAN
    /\ Disturbance \subseteq {"hide", "reopen", "rebind"}

ASSUME BoundAssumption ==
    /\ MaxRequest \in Nat
    /\ MaxToken \in Nat
    /\ MaxRevision \in Nat
    /\ MaxRows \in Nat
    /\ MaxFrames \in Nat
    /\ MaxMoves \in Nat

Image == [Column -> Value]

VARIABLES
    image,          \* the row's codes as last gathered by the writer
    admitted,       \* the writer's view: the peer sees the row
    copied,         \* the writer's view: the peer holds a copy of the entity
    lastRequest,    \* request_counter
    sent,           \* PeerRows of the row for this peer, and its flights
    writerOut,      \* the writer's lifecycle records not flushed yet
    toReader,       \* reliable frames on their way to the reader
    rows,           \* row datagrams on their way to the reader
    known,          \* the reader holds the entity
    lastToken,      \* token_counter
    lane,           \* the reader book's lane at this address
    received,       \* the reader's Received for this writer
    early,          \* the early edge it holds, at most one
    shown,          \* the row the reader last landed
    readerOut,      \* the reader's lifecycle records not flushed yet
    receipts,       \* the reader's receipts not flushed yet
    toWriter,       \* reliable records on their way to the writer
    moves           \* disturbances so far

writerVars == <<image, admitted, copied, lastRequest, sent, writerOut>>
readerVars == <<known, lastToken, lane, received, early, shown, readerOut,
                receipts>>
vars == <<writerVars, toReader, rows, readerVars, toWriter, moves>>

-----------------------------------------------------------------------------
(* Data. *)

Request == 0 .. MaxRequest
Token == 0 .. MaxToken
Revision == 0 .. MaxRevision

Flight == [rev : Revision, image : Image, pinned : BOOLEAN]

Kept == [rev : Revision, image : Image]

\* A row datagram.  `from` is the revision its delta is written against, 0 for
\* an absolute row.  The reader reads `image` in the columns of `mask` only.
Row == [token : Token, rev : Revision, from : Revision,
        mask : SUBSET Column, image : Image]

\* PeerRows, one row of it, with the flights PeerSide keeps under its token.
Sent == [stream : {"NONE", "OPENING", "READY"},
         request : Request, token : Token,
         next : 1 .. MaxRevision + 1,
         acked : Revision, exposed : Revision, rest : Revision,
         baseline : Image \cup {NoImage},
         flights : SUBSET Flight, armed : BOOLEAN]

Control == [tag : {"OPEN", "CLOSE", "READY", "RESET", "ACCEPT",
                   "HIDE", "SPAWN"},
            request : Request, token : Token, rev : Revision]

Record(tag, request, token) ==
    [tag |-> tag, request |-> request, token |-> token, rev |-> 0]

Receipt == [token : Token, rev : Revision]

NoLane == [request |-> 0, token |-> 0, invalidated |-> FALSE]
NoReceived == [token |-> 0, accepted |-> 0, ring |-> {}]

-----------------------------------------------------------------------------
(* The control scheduler: one queue of lifecycle records, one set of         *)
(* receipts.  Both are per peer; this module names one peer on each side.    *)

SameSubject(held, fresh) ==
    /\ held.tag = fresh.tag
    /\ CASE fresh.tag = "OPEN" -> TRUE       \* one lane in this module
         [] fresh.tag = "CLOSE" -> held.token = fresh.token
         [] fresh.tag = "RESET" /\ fresh.request = 0 ->
                held.request = 0 /\ held.token = fresh.token
         [] OTHER -> held.request = fresh.request

\* Mutant of Queued: the queue keeps every record, as a plain queue would.
QueuedAlways(queue, fresh) == Append(queue, fresh)

\* The record of a subject that waits, if there is one, is replaced in its
\* place: queue keeps one record of a subject.
Queued(queue, fresh) ==
    LET same == {i \in DOMAIN queue : SameSubject(queue[i], fresh)}
    IN  IF same = {}
        THEN Append(queue, fresh)
        ELSE [i \in DOMAIN queue |-> IF i \in same THEN fresh ELSE queue[i]]

\* drop_token, on the lifecycle records: every one of the token, which is at
\* most one (OneRecordPerToken).
Dropped(queue, token) ==
    LET doomed == {i \in DOMAIN queue :
                       queue[i].token = token /\ queue[i].tag # "OPEN"}
    IN  IF doomed = {}
        THEN queue
        ELSE RemoveAt(queue, CHOOSE i \in doomed : TRUE)

\* accept: one receipt per token, at the greatest revision.
Accepted(held, token, rev) ==
    IF \E r \in held : r.token = token /\ r.rev >= rev
    THEN held
    ELSE {r \in held : r.token # token} \cup {[token |-> token, rev |-> rev]}

-----------------------------------------------------------------------------
(* The writer's lane. *)

\* close_row, reset_stream: what is left of the row's stream.
ClosedRow(stream) ==
    [stream |-> stream, request |-> 0, token |-> 0, next |-> 1,
     acked |-> 0, exposed |-> 0, rest |-> 0, baseline |-> NoImage,
     flights |-> {}, armed |-> FALSE]

Owed ==
    \/ sent.exposed > sent.acked
    \/ sent.acked = 0
    \/ image # sent.baseline

\* evict: the oldest unpinned flights go, until StageDepth are left.
Evicted(flights) ==
    LET loose == {f \in flights : ~f.pinned}
        Older(f) == {g \in loose : g.rev < f.rev}
    IN  flights \ {f \in loose :
                      Cardinality(Older(f)) + StageDepth < Cardinality(flights)}

\* Mutant of Minted: a pinned revision does not use up its number.
MintedTwice(w, pinned) ==
    LET made == [rev |-> w.next, image |-> image, pinned |-> pinned]
    IN  [w EXCEPT !.next = IF pinned THEN @ ELSE @ + 1,
                  !.exposed = IF w.next > @ THEN w.next ELSE @,
                  !.flights = Evicted(@ \cup {made})]

\* mint: the next revision goes in flight.
Minted(w, pinned) ==
    LET made == [rev |-> w.next, image |-> image, pinned |-> pinned]
    IN  [w EXCEPT !.next = @ + 1,
                  !.exposed = IF w.next > @ THEN w.next ELSE @,
                  !.flights = Evicted(@ \cup {made})]

Newest == {f \in sent.flights :
              /\ sent.exposed > sent.acked
              /\ f.rev = sent.exposed
              /\ f.image = image}

RestFlight == {f \in sent.flights :
                  /\ sent.rest > sent.acked
                  /\ f.rev = sent.rest
                  /\ f.image = image}

\* pinned_of, when it still states the row.
PinnedFlight == {f \in sent.flights :
                    /\ f.pinned
                    /\ \A g \in sent.flights : g.pinned => g.rev <= f.rev
                    /\ f.image = image}

Differing(base) == {c \in Column : base[c] # image[c]}

Absolute(rev) ==
    [token |-> sent.token, rev |-> rev, from |-> 0,
     mask |-> Column, image |-> image]

Delta(rev, from, base) ==
    [token |-> sent.token, rev |-> rev, from |-> from,
     mask |-> Differing(base), image |-> image]

\* encode: a delta against `base`, unless it lies too far back.
Encoded(rev, from, base) ==
    IF from # 0 /\ rev > from /\ rev - from <= DeltaSpan
    THEN Delta(rev, from, base)
    ELSE Absolute(rev)

-----------------------------------------------------------------------------
(* Writer: the game and the spawn layer. *)

\* The row is gathered with a new value in one column: owe_changed unpins every
\* flight, for none of them states the row any more.
Change ==
    /\ sent.next < MaxRevision
    /\ \E c \in Column, v \in Value :
          /\ v # image[c]
          /\ image' = [image EXCEPT ![c] = v]
    /\ sent' = [sent EXCEPT !.flights =
                   Evicted({[f EXCEPT !.pinned = FALSE] : f \in @})]
    /\ UNCHANGED <<admitted, copied, lastRequest, writerOut, toReader, rows,
                   readerVars, toWriter, moves>>

\* hide: the peer stops seeing the row.  The lane closes without a CLOSE, a
\* CLOSE of the same token that waits is dropped, and the spawn layer may take
\* the peer's copy away with a HIDE.
Hide ==
    /\ "hide" \in Disturbance
    /\ admitted
    /\ moves < MaxMoves
    /\ moves' = moves + 1
    /\ admitted' = FALSE
    /\ sent' = ClosedRow("NONE")
    /\ writerOut' = IF sent.stream = "READY" /\ sent.token # 0
                    THEN Dropped(writerOut, sent.token)
                    ELSE writerOut
    /\ \/ UNCHANGED <<copied, toReader>>
       \/ /\ Len(toReader) < MaxFrames
          /\ copied' = FALSE
          /\ toReader' = Append(toReader, Record("HIDE", 0, 0))
    /\ UNCHANGED <<image, lastRequest, rows, readerVars, toWriter>>

\* store_admit_row: the peer sees the row, on a copy it holds or is sent.
Admit ==
    /\ ~admitted
    /\ admitted' = TRUE
    /\ \/ /\ copied
          /\ UNCHANGED <<copied, toReader>>
       \/ /\ ~copied
          /\ Len(toReader) < MaxFrames
          /\ copied' = TRUE
          /\ toReader' = Append(toReader, Record("SPAWN", 0, 0))
    /\ UNCHANGED <<image, lastRequest, sent, writerOut, rows, readerVars,
                   toWriter, moves>>

\* row_streams_reopen: the writer closes the lane and says so.
Reopen ==
    /\ "reopen" \in Disturbance
    /\ sent.stream # "NONE"
    /\ moves < MaxMoves
    /\ moves' = moves + 1
    /\ sent' = ClosedRow("NONE")
    /\ writerOut' = IF sent.token = 0
                    THEN writerOut
                    ELSE Queued(Dropped(writerOut, sent.token),
                                Record("CLOSE", 0, sent.token))
    /\ UNCHANGED <<image, admitted, copied, lastRequest, toReader, rows,
                   readerVars, toWriter>>

-----------------------------------------------------------------------------
(* Writer: the send pass. *)

\* stream_seated finds no stream: stream_open mints a request.
OpenStream ==
    /\ admitted
    /\ sent.stream = "NONE"
    /\ lastRequest < MaxRequest
    /\ lastRequest' = lastRequest + 1
    /\ sent' = [ClosedRow("OPENING") EXCEPT !.request = lastRequest + 1]
    /\ writerOut' = Queued(writerOut, Record("OPEN", lastRequest + 1, 0))
    /\ UNCHANGED <<image, admitted, copied, toReader, rows, readerVars,
                   toWriter, moves>>

\* stream_seated finds an OPEN unanswered for a repair interval: the same
\* request is asked again.
AskAgain ==
    /\ admitted
    /\ sent.stream = "OPENING"
    /\ writerOut' = Queued(writerOut, Record("OPEN", sent.request, 0))
    /\ UNCHANGED <<image, admitted, copied, lastRequest, sent, toReader, rows,
                   readerVars, toWriter, moves>>

\* The datagram leaves, is lost on the way, or never leaves: then cancel
\* withdraws its revision from the flights.  (The bound on a withdrawal keeps
\* revisions for the row that is still owed.)
Dispatched(w, row, fate) ==
    /\ fate = "flown" => Cardinality(rows \cup {row}) <= MaxRows
    /\ fate = "withdrawn" => sent.next + 1 < MaxRevision
    /\ rows' = IF fate = "flown" THEN rows \cup {row} ELSE rows
    /\ sent' = IF fate = "withdrawn"
               THEN [w EXCEPT !.flights = {f \in @ : f.rev # row.rev}]
               ELSE w
    /\ UNCHANGED <<image, admitted, copied, lastRequest, writerOut, toReader,
                   readerVars, toWriter, moves>>

Fate == {"flown", "lost", "withdrawn"}

Seated == admitted /\ sent.stream = "READY"

\* FRESH: the row as it stands is not in flight.
SendFresh(fate) ==
    /\ Seated
    /\ Owed
    /\ Newest = {}
    /\ sent.next < MaxRevision
    /\ Dispatched([Minted(sent, FALSE) EXCEPT !.rest = sent.next,
                                              !.armed = TRUE],
                  Encoded(sent.next, sent.acked, sent.baseline), fate)

\* REFRESH: a due restatement of a row that rests, against the flight that
\* states it already or else against the baseline the reader confirmed.
SendRefresh(fate) ==
    /\ Seated
    /\ sent.armed
    /\ sent.next < MaxRevision
    /\ Owed => /\ Newest # {}
               /\ \/ RestFlight # {}
                  \/ sent.acked # 0 /\ image = sent.baseline
    /\ LET w == [Minted(sent, FALSE) EXCEPT !.armed = Heartbeat]
       IN  \/ /\ RestFlight = {}
              /\ Dispatched(w, Encoded(sent.next, sent.acked, sent.baseline),
                            fate)
           \/ \E f \in RestFlight :
                 Dispatched(w, Encoded(sent.next, f.rev, f.image), fate)

\* Mutant of SendRepair: only a row that was confirmed before is repaired.
SendRepairConfirmed(fate) ==
    /\ Seated
    /\ Owed
    /\ Newest # {}
    /\ sent.acked # 0
    /\ PinnedFlight = {}
    /\ sent.next <= MaxRevision
    /\ Dispatched([Minted(sent, TRUE) EXCEPT !.rest = sent.next,
                                             !.armed = TRUE],
                  Absolute(sent.next), fate)

\* REPAIR: a repair interval went by without a receipt, so the row is sent
\* whole under a revision that stays pinned, or again under the pinned one.
SendRepair(fate) ==
    /\ Seated
    /\ Owed
    /\ Newest # {}
    /\ \/ \E f \in PinnedFlight :
             Dispatched([sent EXCEPT !.rest = f.rev, !.armed = TRUE],
                        Absolute(f.rev), fate)
       \/ /\ PinnedFlight = {}
          /\ sent.next <= MaxRevision
          /\ Dispatched([Minted(sent, TRUE) EXCEPT !.rest = sent.next,
                                                   !.armed = TRUE],
                        Absolute(sent.next), fate)

\* flush: the head of the queue leaves on the reliable link.
FlushWriter ==
    /\ writerOut # <<>>
    /\ Len(toReader) < MaxFrames
    /\ toReader' = Append(toReader, Head(writerOut))
    /\ writerOut' = Tail(writerOut)
    /\ UNCHANGED <<image, admitted, copied, lastRequest, sent, rows,
                   readerVars, toWriter, moves>>

-----------------------------------------------------------------------------
(* Writer: the answers. *)

\* The next record on the link, and it is consumed.
Answer(tag) ==
    /\ toWriter # <<>>
    /\ Head(toWriter).tag = tag
    /\ toWriter' = Tail(toWriter)
    /\ UNCHANGED <<image, admitted, copied, lastRequest, toReader, rows,
                   readerVars, moves, writerOut>>

\* stream_ready: a READY for the request that stands seats its token; another
\* is ignored.
HearReady ==
    /\ Answer("READY")
    /\ LET r == Head(toWriter)
       IN  IF r.request # 0 /\ r.request = sent.request
           THEN sent' = [sent EXCEPT !.stream = "READY", !.token = r.token]
           ELSE UNCHANGED sent

\* stream_reset: by token when no request is named, else by the request that
\* stands, unless it holds another token.
HearReset ==
    /\ Answer("RESET")
    /\ LET r == Head(toWriter)
           named == IF r.request = 0
                    THEN r.token # 0 /\ sent.token = r.token
                    ELSE /\ sent.request = r.request
                         /\ sent.token \in {0, r.token}
       IN  sent' = IF named THEN ClosedRow("NONE") ELSE sent

\* Mutant of HearAccept: the receipt's token is not compared.
HearAcceptAny ==
    /\ Answer("ACCEPT")
    /\ LET r == Head(toWriter)
           promoted == {f \in sent.flights :
                           /\ r.rev \in 1 .. sent.exposed
                           /\ r.rev > sent.acked
                           /\ f.rev = r.rev}
       IN  \/ promoted = {} /\ UNCHANGED sent
           \/ \E f \in promoted :
                 sent' = [sent EXCEPT !.acked = f.rev,
                                      !.baseline = f.image,
                                      !.flights = {g \in @ : g.rev > f.rev}]

\* stream_receipt: a receipt newer than the last for a revision still in flight
\* makes its image the baseline.
HearAccept ==
    /\ Answer("ACCEPT")
    /\ LET r == Head(toWriter)
           promoted == {f \in sent.flights :
                           /\ sent.token = r.token
                           /\ r.rev \in 1 .. sent.exposed
                           /\ r.rev > sent.acked
                           /\ f.rev = r.rev}
       IN  \/ promoted = {} /\ UNCHANGED sent
           \/ \E f \in promoted :
                 sent' = [sent EXCEPT !.acked = f.rev,
                                      !.baseline = f.image,
                                      !.flights = {g \in @ : g.rev > f.rev}]

-----------------------------------------------------------------------------
(* Reader: the reliable link. *)

\* The next frame on the link, and it is consumed.
Frame(tag) ==
    /\ toReader # <<>>
    /\ Head(toReader).tag = tag
    /\ toReader' = Tail(toReader)
    /\ UNCHANGED <<writerVars, rows, receipts, toWriter, moves>>

\* Mutant of HearOpen: a newer request takes over the lane's token.
HearOpenKeepsToken ==
    /\ Frame("OPEN")
    /\ known
    /\ UNCHANGED <<known, received, early, shown>>
    /\ LET token == IF lane.token = 0 THEN lastToken + 1 ELSE lane.token
       IN  /\ token <= MaxToken
           /\ lastToken' = IF lane.token = 0 THEN token ELSE lastToken
           /\ lane' = [request |-> Head(toReader).request, token |-> token,
                       invalidated |-> FALSE]
           /\ readerOut' = Queued(readerOut,
                                  Record("READY", lane'.request, token))

\* Mutant of HearOpen: the request that stands is answered with a new token.
HearOpenMintsAgain ==
    /\ Frame("OPEN")
    /\ known
    /\ lastToken < MaxToken
    /\ UNCHANGED <<known, received, early, shown>>
    /\ lastToken' = lastToken + 1
    /\ lane' = [request |-> Head(toReader).request, token |-> lastToken + 1,
                invalidated |-> FALSE]
    /\ readerOut' = Queued(readerOut,
                           Record("READY", lane'.request, lastToken + 1))

\* Mutant of HearOpen: a superseded request is answered with the lane's token.
HearOpenResetsLane ==
    /\ Frame("OPEN")
    /\ known
    /\ UNCHANGED <<known, received, early, shown>>
    /\ LET r == Head(toReader).request
       IN  IF r > lane.request /\ lastToken < MaxToken
           THEN /\ lastToken' = lastToken + 1
                /\ lane' = [request |-> r, token |-> lastToken + 1,
                            invalidated |-> FALSE]
                /\ readerOut' = Queued(readerOut,
                                       Record("READY", r, lastToken + 1))
           ELSE /\ readerOut' = Queued(readerOut,
                                       Record("RESET", r, lane.token))
                /\ UNCHANGED <<lane, lastToken>>

\* Mutant of HearOpen: the request that stands makes its lane live again.
HearOpenRevives ==
    /\ Frame("OPEN")
    /\ known
    /\ UNCHANGED <<known, received, early, shown>>
    /\ LET r == Head(toReader).request
           token == IF r > lane.request THEN lastToken + 1 ELSE lane.token
       IN  /\ r >= lane.request
           /\ token <= MaxToken
           /\ lastToken' = IF r > lane.request THEN token ELSE lastToken
           /\ lane' = [request |-> r, token |-> token, invalidated |-> FALSE]
           /\ readerOut' = Queued(readerOut, Record("READY", r, token))

\* OPEN for a route the reader does not know is dropped.  Otherwise the book
\* answers it: a newer request replaces the lane under a new token, the request
\* that stands is answered as before, an older one is superseded.
HearOpen ==
    /\ Frame("OPEN")
    /\ UNCHANGED <<known, received, early, shown>>
    /\ LET r == Head(toReader).request
       IN  \/ /\ ~known
              /\ UNCHANGED <<lane, lastToken, readerOut>>
           \/ /\ known /\ r > lane.request /\ lastToken < MaxToken
              /\ lastToken' = lastToken + 1
              /\ lane' = [request |-> r, token |-> lastToken + 1,
                          invalidated |-> FALSE]
              /\ readerOut' = Queued(readerOut,
                                     Record("READY", r, lastToken + 1))
           \/ /\ known /\ r = lane.request
              /\ readerOut' = Queued(readerOut,
                                     Record(IF lane.invalidated THEN "RESET"
                                                                ELSE "READY",
                                            r, lane.token))
              /\ UNCHANGED <<lane, lastToken>>
           \/ /\ known
              /\ \/ r < lane.request
                 \/ r > lane.request /\ lastToken = MaxToken
              /\ readerOut' = Queued(readerOut, Record("RESET", r, 0))
              /\ UNCHANGED <<lane, lastToken>>

\* CLOSE ends the lane its token names, and no other.
HearClose ==
    /\ Frame("CLOSE")
    /\ lane' = IF lane.token = Head(toReader).token THEN NoLane ELSE lane
    /\ UNCHANGED <<known, lastToken, received, early, shown, readerOut>>

\* HIDE frees the reader's copy: close_route drops the lane, and the row goes
\* with its binding.
HearHide ==
    /\ Frame("HIDE")
    /\ known' = FALSE
    /\ lane' = NoLane
    /\ received' = NoReceived
    /\ early' = {}
    /\ shown' = NoImage
    /\ UNCHANGED <<lastToken, readerOut>>

HearSpawn ==
    /\ Frame("SPAWN")
    /\ known' = TRUE
    /\ UNCHANGED <<lastToken, lane, received, early, shown, readerOut>>

\* replace_binding: the property set is declared again, and its row starts over
\* with no received image while the book keeps the lane.
Rebind ==
    /\ "rebind" \in Disturbance
    /\ known
    /\ moves < MaxMoves
    /\ moves' = moves + 1
    /\ received' = NoReceived
    /\ early' = {}
    /\ UNCHANGED <<writerVars, toReader, rows, known, lastToken, lane, shown,
                   readerOut, receipts, toWriter>>

-----------------------------------------------------------------------------
(* Reader: rows. *)

\* The row a datagram states, over the image it was written against.
Decoded(row, base) ==
    [c \in Column |-> IF c \in row.mask THEN row.image[c] ELSE base[c]]

\* Mutant of Bases: the newest image kept stands in for the one named.
BasesNewest(got, row) ==
    IF row.from = 0
    THEN {row.image}
    ELSE {k.image : k \in {k \in got.ring :
                              /\ got.token = row.token
                              /\ \A j \in got.ring : j.rev <= k.rev}}

\* Mutant of Bases: the token the images were kept under is not compared.
BasesAnyToken(got, row) ==
    IF row.from = 0
    THEN {row.image}
    ELSE {k.image : k \in {k \in got.ring : k.rev = row.from}}

\* The images a row can be decoded over: one that is kept, when it is a delta;
\* any image, when every column is there.
Bases(got, row) ==
    IF row.from = 0
    THEN {row.image}
    ELSE {k.image : k \in {k \in got.ring :
                              got.token = row.token /\ k.rev = row.from}}

\* Mutant of Landed: the ring keeps one image fewer.
LandedShort(got, row, codes) ==
    LET kept == IF got.token = row.token THEN got.ring ELSE {}
        all == kept \cup {[rev |-> row.rev, image |-> codes]}
        Newer(k) == {j \in all : j.rev > k.rev}
    IN  [token |-> row.token, accepted |-> row.rev,
         ring |-> {k \in all : Cardinality(Newer(k)) + 1 < ReceivedDepth}]

\* keep_received: the newest ReceivedDepth images of one token.
Landed(got, row, codes) ==
    LET kept == IF got.token = row.token THEN got.ring ELSE {}
        all == kept \cup {[rev |-> row.rev, image |-> codes]}
        Newer(k) == {j \in all : j.rev > k.rev}
    IN  [token |-> row.token, accepted |-> row.rev,
         ring |-> {k \in all : Cardinality(Newer(k)) < ReceivedDepth}]

\* A datagram leaves the network, or a copy of it stays behind.
Arrives(row) ==
    /\ row \in rows
    /\ rows' \in {rows, rows \ {row}}
    /\ UNCHANGED <<writerVars, toReader, toWriter, moves, known, lastToken>>

Names(row) == known /\ lane.token = row.token

\* Mutant of AcceptedOf: an absolute row, which needs no base, has no position.
AcceptedOfDelta(row) ==
    IF received.token = row.token /\ row.from # 0
    THEN received.accepted ELSE 0

AcceptedOf(row) == IF received.token = row.token THEN received.accepted ELSE 0

\* No entity, or no lane of that token.  A stray token is answered RESET, at
\* most once per repair interval.
RefuseUnknown(row) ==
    /\ Arrives(row)
    /\ ~Names(row)
    /\ \/ UNCHANGED readerOut
       \/ /\ known
          /\ readerOut' = Queued(readerOut, Record("RESET", 0, row.token))
    /\ UNCHANGED <<lane, received, early, shown, receipts>>

\* A row as new as the last is receipted again, an older one is dropped.
RefuseStale(row) ==
    /\ Arrives(row)
    /\ Names(row)
    /\ row.rev <= AcceptedOf(row)
    /\ receipts' = IF row.rev = AcceptedOf(row)
                   THEN Accepted(receipts, row.token, row.rev)
                   ELSE receipts
    /\ UNCHANGED <<lane, received, early, shown, readerOut>>

\* Mutant of HoldEarly: the row that is held is receipted already.
HoldEarlyReceipted(row) ==
    /\ Arrives(row)
    /\ Names(row)
    /\ row.rev > AcceptedOf(row)
    /\ Bases(received, row) = {}
    /\ row.mask = {}
    /\ early' = {row}
    /\ receipts' = Accepted(receipts, row.token, row.rev)
    /\ UNCHANGED <<lane, received, shown, readerOut>>

\* A delta that changes nothing and whose base may still come is held, the
\* newest of its stream.
HoldEarly(row) ==
    /\ Arrives(row)
    /\ Names(row)
    /\ row.rev > AcceptedOf(row)
    /\ Bases(received, row) = {}
    /\ row.mask = {}
    /\ early' = IF \/ received.token = row.token /\ row.from <= received.accepted
                   \/ \E e \in early : e.token = row.token /\ e.rev >= row.rev
                THEN early
                ELSE {row}
    /\ UNCHANGED <<lane, received, shown, readerOut, receipts>>

\* Mutant of ResetStreamOf: the lane is given up without a mark.
ResetStreamOfUnmarked(row) ==
    /\ Arrives(row)
    /\ Names(row)
    /\ row.rev > AcceptedOf(row)
    /\ Bases(received, row) = {}
    /\ row.mask # {}
    /\ receipts' = {r \in receipts : r.token # row.token}
    /\ readerOut' = Queued(Dropped(readerOut, row.token),
                           Record("RESET", lane.request, row.token))
    /\ UNCHANGED <<lane, received, early, shown>>

\* Any other delta without its base invalidates the lane, once: its token is
\* dropped from the scheduler and RESET asks for a new stream.
ResetStreamOf(row) ==
    /\ Arrives(row)
    /\ Names(row)
    /\ row.rev > AcceptedOf(row)
    /\ Bases(received, row) = {}
    /\ row.mask # {}
    /\ IF lane.invalidated
       THEN UNCHANGED <<lane, readerOut, receipts>>
       ELSE /\ lane' = [lane EXCEPT !.invalidated = TRUE]
            /\ receipts' = {r \in receipts : r.token # row.token}
            /\ readerOut' = Queued(Dropped(readerOut, row.token),
                                   Record("RESET", lane.request, row.token))
    /\ UNCHANGED <<received, early, shown>>

\* take_early_edge: the held edge lands when the row it restates just landed,
\* waits while that row may still come, and is dropped otherwise.
EdgeDue(got) ==
    {e \in early : e.token = got.token /\ e.from = got.accepted}

EdgeWaits(got) ==
    {e \in early : e.token = got.token /\ e.from > got.accepted}

\* The row lands, is receipted, and takes along the early edge that waited for
\* it.
LandRow(row) ==
    /\ Arrives(row)
    /\ Names(row)
    /\ row.rev > AcceptedOf(row)
    /\ early' = EdgeWaits([token |-> row.token, accepted |-> row.rev])
    /\ \E base \in Bases(received, row) :
          LET codes == Decoded(row, base)
              first == Landed(received, row, codes)
          IN  /\ shown' = codes
              /\ \/ /\ EdgeDue(first) = {}
                    /\ received' = first
                    /\ receipts' = Accepted(receipts, row.token, row.rev)
                 \/ \E e \in EdgeDue(first) :
                       /\ received' = Landed(first, e, Decoded(e, codes))
                       /\ receipts' = Accepted(receipts, e.token, e.rev)
    /\ UNCHANGED <<lane, readerOut>>

-----------------------------------------------------------------------------
(* Reader: the flush.  A receipt may leave before a lifecycle record that    *)
(* does not fit the budget.                                                  *)

FlushAnswer ==
    /\ readerOut # <<>>
    /\ Len(toWriter) < MaxFrames
    /\ toWriter' = Append(toWriter, Head(readerOut))
    /\ readerOut' = Tail(readerOut)
    /\ UNCHANGED <<writerVars, toReader, rows, known, lastToken, lane,
                   received, early, shown, receipts, moves>>

FlushReceipt ==
    /\ Len(toWriter) < MaxFrames
    /\ \E r \in receipts :
          /\ \A q \in receipts : r.token <= q.token
          /\ receipts' = receipts \ {r}
          /\ toWriter' = Append(toWriter,
                                [Record("ACCEPT", 0, r.token)
                                    EXCEPT !.rev = r.rev])
    /\ UNCHANGED <<writerVars, toReader, rows, known, lastToken, lane,
                   received, early, shown, readerOut, moves>>

-----------------------------------------------------------------------------
Init ==
    /\ image \in Image
    /\ admitted = TRUE
    /\ copied = TRUE
    /\ lastRequest = 0
    /\ sent = ClosedRow("NONE")
    /\ writerOut = <<>>
    /\ toReader = <<>>
    /\ rows = {}
    /\ known = TRUE
    /\ lastToken = 0
    /\ lane = NoLane
    /\ received = NoReceived
    /\ early = {}
    /\ shown = NoImage
    /\ readerOut = <<>>
    /\ receipts = {}
    /\ toWriter = <<>>
    /\ moves = 0

Send(fate) == SendFresh(fate) \/ SendRefresh(fate) \/ SendRepair(fate)

ReceiveRow(row) ==
    \/ RefuseUnknown(row)
    \/ RefuseStale(row)
    \/ HoldEarly(row)
    \/ ResetStreamOf(row)
    \/ LandRow(row)

HearAnswer == HearReady \/ HearReset \/ HearAccept

HearFrame == HearOpen \/ HearClose \/ HearHide \/ HearSpawn

Disturb == Hide \/ Reopen \/ Rebind

Next ==
    \/ Change
    \/ Disturb
    \/ Admit
    \/ OpenStream
    \/ AskAgain
    \/ \E fate \in Fate : Send(fate)
    \/ FlushWriter
    \/ HearAnswer
    \/ HearFrame
    \/ \E row \in rows : ReceiveRow(row)
    \/ FlushAnswer
    \/ FlushReceipt

Spec == Init /\ [][Next]_vars

\* The send pass, the scheduler's flush and the link keep working; a row that
\* is repaired again and again is not lost every time, and what is on the
\* network arrives.  Nothing is assumed of the game and the spawn layer.
Fairness ==
    /\ WF_vars(OpenStream)
    /\ WF_vars(AskAgain)
    /\ SF_vars(SendFresh("flown"))
    /\ SF_vars(SendRepair("flown"))
    /\ WF_vars(FlushWriter)
    /\ WF_vars(HearAnswer)
    /\ WF_vars(HearFrame)
    /\ WF_vars(\E row \in rows : ReceiveRow(row) /\ row \notin rows')
    /\ WF_vars(FlushAnswer)
    /\ SF_vars(FlushReceipt)

FairSpec == Spec /\ Fairness

-----------------------------------------------------------------------------
(* Safety. *)

\* Every variable holds a value of its type: counters stay within their bounds
\* and each queue holds control records.
TypeOK ==
    /\ image \in Image
    /\ admitted \in BOOLEAN
    /\ copied \in BOOLEAN
    /\ lastRequest \in Request
    /\ sent \in Sent
    /\ writerOut \in Seq(Control)
    /\ toReader \in Seq(Control)
    /\ rows \in SUBSET Row
    /\ known \in BOOLEAN
    /\ lastToken \in Token
    /\ lane \in [request : Request, token : Token, invalidated : BOOLEAN]
    /\ received \in [token : Token, accepted : Revision, ring : SUBSET Kept]
    /\ early \in SUBSET Row
    /\ shown \in Image \cup {NoImage}
    /\ readerOut \in Seq(Control)
    /\ receipts \in SUBSET Receipt
    /\ toWriter \in Seq(Control)
    /\ moves \in 0 .. MaxMoves

\* What a row says of column c of a revision of its stream: a delta also says
\* what its base holds in the columns it leaves out.
RowSays(row, rev, c, v) ==
    /\ row.image[c] = v
    /\ \/ row.rev = rev
       \/ row.from = rev /\ rev # 0 /\ c \notin row.mask

\* A row on the network or held early, the writer's flights and the baseline it
\* holds confirmed, the images the reader keeps: each says what it holds in
\* column c of revision rev of the stream named by token.
RowsSay(token, rev, c, v) ==
    \E row \in rows \cup early : row.token = token /\ RowSays(row, rev, c, v)

WriterSays(token, rev, c, v) ==
    /\ sent.token = token
    /\ \/ \E f \in sent.flights : f.rev = rev /\ f.image[c] = v
       \/ sent.acked = rev /\ rev # 0 /\ sent.baseline[c] = v

ReaderSays(token, rev, c, v) ==
    /\ received.token = token
    /\ \E k \in received.ring : k.rev = rev /\ k.image[c] = v

Says(token, rev, c, v) ==
    \/ RowsSay(token, rev, c, v)
    \/ WriterSays(token, rev, c, v)
    \/ ReaderSays(token, rev, c, v)

\* A token and a revision name one image, everywhere: the writer's flights and
\* baseline, the datagrams on the network in any order and number, and what
\* the reader keeps never disagree, so a delta is decoded over the image it was
\* written against (encode and mint against land_frame and received_image).
Coherent ==
    \A token \in Token, rev \in Revision, c \in Column, v, w \in Value :
        Says(token, rev, c, v) /\ Says(token, rev, c, w) => v = w

\* Every row the reader could land now is decoded to the very image the writer
\* minted, whatever was lost or overtaken before it (land_frame).
DecodesExactly ==
    \A row \in rows :
        Names(row) /\ row.rev > AcceptedOf(row)
            => \A base \in Bases(received, row) : Decoded(row, base) = row.image

\* A READY for the request that stands always names the token it was answered
\* with first: stream_ready never moves flights from one token to another, and
\* never seats a token under which other rows were ever sent.
OneTokenPerRequest ==
    \A r \in ToSet(toWriter) :
        (/\ r.tag = "READY"
         /\ r.request = sent.request
         /\ sent.request # 0)
        => /\ sent.token \in {0, r.token}
           /\ sent.token = 0
                 => \A rev \in Revision, c \in Column, v \in Value :
                       ~Says(r.token, rev, c, v)

\* The writer never takes for confirmed what the reader has not landed: the
\* baseline is no newer than the row the reader accepted (stream_receipt
\* against keep_received).  A row that is bound again starts over, so this is
\* said of readers whose property set is declared once.
AckedWasReceived ==
    sent.acked # 0 /\ lane.token = sent.token
        => /\ received.token = sent.token
           /\ sent.acked <= received.accepted

\* Every delta that changes something and could still land finds its base among
\* the images the reader keeps, whatever overtook it: the span of a delta fits
\* the depth of the ring (SNAPSHOT_DELTA_SPAN, RECEIVED_DEPTH), so a lane is
\* never invalidated by loss or reordering alone.
BaseIsKept ==
    \A row \in rows :
        Names(row) /\ row.rev > AcceptedOf(row) /\ row.mask # {}
            => Bases(received, row) # {}

\* A RESET on its way, wherever it waits, never names a lane the reader still
\* serves: reset_stray and reset_stream_of give up only lanes that are lost,
\* and no later OPEN brings such a token back.
ResetsOnlyTheLost ==
    \A r \in ToSet(readerOut) \cup ToSet(toWriter) :
        r.tag = "RESET" /\ r.token # 0
            => lane.token # r.token \/ lane.invalidated

\* drop_token never finds more than one record of its token: the writer closes
\* a token once, and a lane the reader serves has no record but its READY.  So
\* giving up a lane forgets that lane's record and nothing else.
OneRecordPerToken ==
    /\ \A i, j \in DOMAIN writerOut :
          writerOut[i].token = writerOut[j].token /\ writerOut[i].token # 0
              => i = j
    /\ lane.token # 0 /\ ~lane.invalidated
          => \A i, j \in DOMAIN readerOut :
                readerOut[i].token = lane.token
                /\ readerOut[j].token = lane.token => i = j

\* The reader never steps back in a stream, and never returns to an earlier
\* one: while it keeps its copy of the row, the token and the revision it
\* accepted only advance (admits).
PositionAdvances ==
    [][received' = NoReceived
       \/ received'.token > received.token
       \/ /\ received'.token = received.token
          /\ received'.accepted >= received.accepted]_vars

\* A lane the reader gave up stays given up: no OPEN, repeated or late, makes
\* an invalidated lane live again under the same token (StreamBook::open).
NeverRevived ==
    [][lane.invalidated /\ lane'.token = lane.token
          => lane'.invalidated]_vars

-----------------------------------------------------------------------------
(* The inductive invariant. *)

\* The records on their way to each end, queued or on the link.
Asking == ToSet(writerOut) \cup ToSet(toReader)
Answering == ToSet(readerOut) \cup ToSet(toWriter)

\* A lane the writer does not hold READY keeps nothing of a stream, and the
\* request that stands is the last one minted.
IdleIsEmpty ==
    /\ sent.stream = "NONE" => sent = ClosedRow("NONE")
    /\ sent.stream = "OPENING" =>
          sent = [ClosedRow("OPENING") EXCEPT !.request = lastRequest]
    /\ sent.stream # "NONE" => sent.request = lastRequest /\ lastRequest # 0
    /\ sent.stream = "READY" => sent.token # 0
    /\ sent.acked # 0 => sent.baseline # NoImage

\* Requests come from the writer's counter and tokens from the reader's.
WithinCounters ==
    /\ lane.request <= lastRequest
    /\ lane.token <= lastToken
    /\ lane.request # 0 <=> lane.token # 0
    /\ received.token <= lastToken
    /\ lane.token # 0 => received.token <= lane.token
    /\ \A r \in ToSet(writerOut) : r.tag \in {"OPEN", "CLOSE"}
    /\ \A r \in Asking :
          /\ r.tag = "OPEN" => r.request \in 1 .. lastRequest
          /\ r.tag = "CLOSE" => r.token \in 1 .. lastToken
    /\ \A r \in Answering :
          /\ r.tag = "READY" => r.request \in 1 .. lastRequest
          /\ r.tag = "READY" => r.token # 0
          /\ r.tag \in {"READY", "RESET"} => r.token <= lastToken

\* The lane at the reader's end is the one the request that stands was
\* answered with.
Standing(token) == lane.request = sent.request /\ lane.token = token

\* No HIDE on the link comes after the OPEN of a request.
HidesFirst(queue, request) ==
    \A i, j \in DOMAIN queue :
        /\ queue[i].tag = "HIDE"
        /\ queue[j].tag = "OPEN"
        /\ queue[j].request = request
        => i < j

\* Whatever answered the request that stands names the lane the reader holds,
\* and nothing on its way to the reader ends that lane.
AnswersStand ==
    sent.request # 0 =>
    /\ sent.stream = "READY" => Standing(sent.token)
    /\ \A r \in Answering :
          r.tag = "READY" /\ r.request = sent.request => Standing(r.token)
    /\ lane.request = sent.request =>
          /\ \A r \in Asking : r.tag = "CLOSE" => r.token # lane.token
          /\ \A r \in ToSet(toReader) : r.tag # "HIDE"
    /\ HidesFirst(toReader, sent.request)

\* Nothing is said of a stream before its token is minted and seated, nor of a
\* revision before it is.
NothingAhead ==
    /\ \A token \in Token, rev \in Revision, c \in Column, v \in Value :
          Says(token, rev, c, v) => token \in 1 .. lastToken /\ rev # 0
    /\ sent.stream = "OPENING" /\ lane.request = sent.request =>
          \A rev \in Revision, c \in Column, v \in Value :
              ~Says(lane.token, rev, c, v)
    /\ sent.stream = "READY" =>
          \A rev \in Revision, c \in Column, v \in Value :
              Says(sent.token, rev, c, v) => rev < sent.next

\* What holds of the control records alone.
Agreed ==
    /\ IdleIsEmpty
    /\ WithinCounters
    /\ AnswersStand
    /\ ResetsOnlyTheLost

\* The invariant that the proof carries through every step.
IInv ==
    /\ TypeOK
    /\ Agreed
    /\ NothingAhead
    /\ Coherent

-----------------------------------------------------------------------------
(* Liveness. *)

\* Once the game leaves the row alone, the peer that sees it shows it as it
\* stands and the writer knows so and rests, whatever was lost, hidden,
\* reopened or answered late before (classify's repair, AskAgain, the receipt).
Converges == <>[](admitted => shown = image /\ ~Owed)
=============================================================================

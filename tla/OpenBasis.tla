------------------------------- MODULE OpenBasis -------------------------------
(***************************************************************************)
(* The OPEN basis of one direction of a connection: what an OPEN leaves out  *)
(* because both ends are taken to remember it (wire/control_record.cpp).     *)
(*                                                                           *)
(* The writer asks for its lanes through the scheduler, which coalesces      *)
(* OPENs and packs them into frames; each OPEN states only the fields that   *)
(* differ from what the writer's basis holds under the lane's route and      *)
(* ordinal.  The reader resolves a frame against its own basis.  It answers  *)
(* READY to what it seats, and RESET with token 0 to an OPEN that it cannot  *)
(* resolve or that it parked for too long.  A RESET with token 0 clears the  *)
(* writer's basis, and only that.                                            *)
(*                                                                           *)
(* Tokens, rows and the life of a lane once it is READY are in RowStream.    *)
(***************************************************************************)
EXTENDS Naturals, Sequences, FiniteSets, SequencesExt

CONSTANTS
    Lane,           \* the lanes the writer wants open: route, ordinal, family
    Key,            \* the keys of a basis: route and ordinal
    KeyOf,          \* the key of a lane; families share it
    Field,          \* epoch, tenure, anchor, anchor author, schema
    Value,          \* what a field can hold
    CheckOf,        \* the check byte of a full set of fields
    Unresolved,     \* no fields at all
    Capacity,       \* CONTROL_BASIS_CAPACITY
    MaxRequest,     \* bound on the requests minted
    MaxFrames,      \* bound on the frames and answers on the link, each way
    MaxRepeats,     \* bound on the OPENs asked again while the last is under way
    MaxMoves,       \* bound on the lanes bound anew or retired
    MaxRefusals     \* bound on the OPENs the reader resolves and does not seat

Fields == [Field -> Value]

LaneAssumption ==
    /\ KeyOf \in [Lane -> Key]
    /\ IsFiniteSet(Lane)
    /\ IsFiniteSet(Field)
    /\ DOMAIN CheckOf = Fields
    /\ Unresolved \notin Fields

BoundAssumption ==
    /\ Capacity \in Nat \ {0}
    /\ {MaxRequest, MaxFrames, MaxRepeats, MaxMoves, MaxRefusals} \subseteq Nat
Assumptions == LaneAssumption /\ BoundAssumption

VARIABLES
    fields,         \* what each lane is bound to now
    opened,         \* what it was bound to when it last asked
    stream,         \* the writer's lanes
    request,        \* the request that stands for each lane
    lastRequest,    \* request_counter
    writerOut,      \* the OPENs that wait in the writer's scheduler
    sent,           \* the writer's basis
    toReader,       \* frames on their way
    heard,          \* the reader's basis
    readerOut,      \* the answers that wait in the reader's scheduler
    toWriter,       \* answers on their way
    parked,         \* the request the reader parked for each lane, 0 for none
    repeats,        \* OPENs asked again so far while the last was under way
    moves,          \* lanes bound anew or retired so far
    refusals        \* OPENs not seated so far

vars == <<fields, opened, stream, request, lastRequest, writerOut, sent, toReader, heard,
          readerOut, toWriter, parked, repeats, moves, refusals>>

-----------------------------------------------------------------------------
(* A basis: the fields of each key it holds, and the keys in the order in    *)
(* which they entered.                                                       *)

Empty == [opens |-> <<>>, arrivals |-> <<>>]

Holds(basis, key) == key \in DOMAIN basis.opens

\* note: an update leaves a key's place; a new key past the capacity evicts the
\* one that entered first.
Noted(basis, key, held) ==
    LET full == Len(basis.arrivals) >= Capacity
        kept == IF Holds(basis, key) \/ ~full
                THEN DOMAIN basis.opens
                ELSE DOMAIN basis.opens \ {Head(basis.arrivals)}
    IN  [opens |-> [k \in kept \cup {key} |->
                        IF k = key THEN held ELSE basis.opens[k]],
         arrivals |-> IF Holds(basis, key)
                      THEN basis.arrivals
                      ELSE Append(IF full THEN Tail(basis.arrivals)
                                          ELSE basis.arrivals, key)]

-----------------------------------------------------------------------------
(* Frames.  An OPEN on the link carries what the writer meant; the reader    *)
(* reads `meant` in the fields of `stated`, and its check byte.              *)

\* write_open: what differs from the basis is stated.
Stated(basis, open) ==
    LET key == KeyOf[open.lane]
    IN  IF Holds(basis, key)
        THEN {x \in Field : basis.opens[key][x] # open.meant[x]}
        ELSE Field

\* The bases the writer goes through while it appends the OPENs of a frame.
BasesWhile(opens) ==
    LET after[i \in 0 .. Len(opens)] ==
            IF i = 0
            THEN sent
            ELSE Noted(after[i - 1], KeyOf[opens[i].lane], opens[i].meant)
    IN  after

\* append, for every OPEN of a frame in turn.
Framed(opens) ==
    [i \in DOMAIN opens |->
        [lane |-> opens[i].lane, request |-> opens[i].request,
         meant |-> opens[i].meant,
         stated |-> Stated(BasesWhile(opens)[i - 1], opens[i])]]

\* Mutant of Resolution: what the frame itself stated before is not looked up.
ResolutionUnstaged(frame) ==
    [i \in DOMAIN frame |->
        LET key == KeyOf[frame[i].lane]
            known == Holds(heard, key)
            read == [x \in Field |-> IF x \in frame[i].stated \/ ~known
                                     THEN frame[i].meant[x]
                                     ELSE heard.opens[key][x]]
        IN  IF \/ frame[i].stated = Field
               \/ /\ known
                  /\ CheckOf[read] = CheckOf[frame[i].meant]
            THEN read
            ELSE Unresolved]

\* read_open, for every OPEN of a frame in turn: fields that are not stated come
\* from the last OPEN of the key that this frame resolved, or else from the
\* basis as it was before the frame.
Resolution(frame) ==
    LET resolved[i \in DOMAIN frame] ==
            LET key == KeyOf[frame[i].lane]
                staged == {j \in 1 .. i - 1 : /\ KeyOf[frame[j].lane] = key
                                              /\ resolved[j] # Unresolved}
                held == IF staged # {} THEN resolved[Max(staged)]
                        ELSE IF Holds(heard, key) THEN heard.opens[key]
                        ELSE Unresolved
                read == [x \in Field |-> IF x \in frame[i].stated
                                            \/ held = Unresolved
                                         THEN frame[i].meant[x]
                                         ELSE held[x]]
            IN  IF \/ frame[i].stated = Field
                   \/ /\ held # Unresolved
                      /\ CheckOf[read] = CheckOf[frame[i].meant]
                THEN read
                ELSE Unresolved
    IN  resolved

\* Mutant of HeardAfter: a key the basis holds is not replaced.
HeardAfterOnce(frame) ==
    LET resolved == Resolution(frame)
        after[i \in 0 .. Len(frame)] ==
            IF i = 0
            THEN heard
            ELSE IF \/ resolved[i] = Unresolved
                    \/ Holds(after[i - 1], KeyOf[frame[i].lane])
            THEN after[i - 1]
            ELSE Noted(after[i - 1], KeyOf[frame[i].lane], resolved[i])
    IN  after[Len(frame)]

\* read_control_frame: the OPENs that were resolved are noted once the whole
\* frame is read.
HeardAfter(frame) ==
    LET resolved == Resolution(frame)
        after[i \in 0 .. Len(frame)] ==
            IF i = 0
            THEN heard
            ELSE IF resolved[i] = Unresolved
            THEN after[i - 1]
            ELSE Noted(after[i - 1], KeyOf[frame[i].lane], resolved[i])
    IN  after[Len(frame)]

\* queue, of an OPEN: one for each lane.
QueuedOpen(queue, open) ==
    IF \E i \in DOMAIN queue : queue[i].lane = open.lane
    THEN [i \in DOMAIN queue |->
             IF queue[i].lane = open.lane THEN open ELSE queue[i]]
    ELSE Append(queue, open)

\* queue, of an answer: one of a tag for each request.
QueuedAnswer(queue, answer) ==
    IF answer \in ToSet(queue) THEN queue ELSE Append(queue, answer)

-----------------------------------------------------------------------------
(* Writer. *)

\* The binding a lane asked with is not the one it has.
Moved(l) == stream[l] # "NONE" /\ opened[l] # fields[l]

\* queue_open: the OPEN states the binding of now.
Opening(l, number) == [lane |-> l, meant |-> fields[l], request |-> number]

\* stream_seated: a lane that has no stream, or one that moved and is closed for
\* it, asks with a new request.
Ask(l) ==
    /\ stream[l] = "NONE" \/ Moved(l)
    /\ lastRequest < MaxRequest
    /\ lastRequest' = lastRequest + 1
    /\ stream' = [stream EXCEPT ![l] = "OPENING"]
    /\ request' = [request EXCEPT ![l] = lastRequest + 1]
    /\ opened' = [opened EXCEPT ![l] = fields[l]]
    /\ writerOut' = QueuedOpen(writerOut, Opening(l, lastRequest + 1))
    /\ UNCHANGED <<fields, sent, toReader, heard, readerOut, toWriter, parked,
                   repeats, moves, refusals>>

\* The request that stands for a lane is asked or answered somewhere.
UnderWay(l) ==
    \/ \E open \in ToSet(writerOut \o FlattenSeq(toReader)) : open.request = request[l]
    \/ \E answer \in ToSet(readerOut \o toWriter) : answer.request = request[l]
    \/ parked[l] = request[l]

\* Mutant of AskAgain: an OPEN that has left is taken to be answered some time.
AskAgainQueued(l) ==
    /\ stream[l] = "OPENING"
    /\ ~Moved(l)
    /\ \E open \in ToSet(writerOut) : open.request = request[l]
    /\ writerOut' = QueuedOpen(writerOut, Opening(l, request[l]))
    /\ UNCHANGED <<fields, opened, stream, request, lastRequest, sent, toReader,
                   heard, readerOut, toWriter, parked, repeats, moves, refusals>>

\* stream_seated: an OPEN unanswered for a repair interval is asked again.
AskAgain(l) ==
    /\ stream[l] = "OPENING"
    /\ ~Moved(l)
    /\ UnderWay(l) => repeats < MaxRepeats
    /\ repeats' = IF UnderWay(l) THEN repeats + 1 ELSE repeats
    /\ writerOut' = QueuedOpen(writerOut, Opening(l, request[l]))
    /\ UNCHANGED <<fields, opened, stream, request, lastRequest, sent, toReader,
                   heard, readerOut, toWriter, parked, moves, refusals>>

\* The lane gets another tenure or anchor.  Its stream stays until the send pass.
Bind(l) ==
    /\ moves < MaxMoves
    /\ moves' = moves + 1
    /\ \E bound \in Fields \ {fields[l]} : fields' = [fields EXCEPT ![l] = bound]
    /\ UNCHANGED <<opened, stream, request, lastRequest, writerOut, sent, toReader,
                   heard, readerOut, toWriter, parked, repeats, refusals>>

\* The row is hidden from the peer, or retired and later published at another
\* epoch: its stream is closed, and an OPEN that waits still leaves.
Retire(l) ==
    /\ moves < MaxMoves
    /\ stream[l] # "NONE"
    /\ moves' = moves + 1
    /\ \E bound \in Fields : fields' = [fields EXCEPT ![l] = bound]
    /\ stream' = [stream EXCEPT ![l] = "NONE"]
    /\ request' = [request EXCEPT ![l] = 0]
    /\ UNCHANGED <<opened, lastRequest, writerOut, sent, toReader, heard,
                   readerOut, toWriter, parked, repeats, refusals>>

\* flush: as many OPENs as the budget takes leave in one frame, and the basis
\* folds them.
Flush ==
    /\ Len(toReader) < MaxFrames
    /\ \E n \in 1 .. Len(writerOut) :
          LET opens == SubSeq(writerOut, 1, n)
          IN  /\ toReader' = Append(toReader, Framed(opens))
              /\ sent' = BasesWhile(opens)[n]
              /\ writerOut' = SubSeq(writerOut, n + 1, Len(writerOut))
    /\ UNCHANGED <<fields, opened, stream, request, lastRequest, heard, readerOut,
                   toWriter, parked, repeats, moves, refusals>>

\* stream_ready: the request that stands is answered.
HearReady ==
    /\ toWriter # <<>>
    /\ Head(toWriter).tag = "READY"
    /\ toWriter' = Tail(toWriter)
    /\ stream' = [l \in Lane |-> IF request[l] = Head(toWriter).request
                                 THEN "READY" ELSE stream[l]]
    /\ UNCHANGED <<fields, opened, request, lastRequest, writerOut, sent, toReader,
                   heard, readerOut, parked, repeats, moves, refusals>>

\* Mutant of HearReset: clearing the basis leaves its order of arrival.
HearResetHalf ==
    /\ toWriter # <<>>
    /\ Head(toWriter).tag = "RESET"
    /\ toWriter' = Tail(toWriter)
    /\ sent' = [Empty EXCEPT !.arrivals = sent.arrivals]
    /\ LET named == {l \in Lane : /\ stream[l] = "OPENING"
                                  /\ request[l] = Head(toWriter).request}
       IN  /\ stream' = [l \in Lane |-> IF l \in named THEN "NONE" ELSE stream[l]]
           /\ request' = [l \in Lane |-> IF l \in named THEN 0 ELSE request[l]]
    /\ UNCHANGED <<fields, opened, lastRequest, writerOut, toReader, heard, readerOut,
                   parked, repeats, moves, refusals>>

\* RESET with token 0: the basis is forgotten whole, and the lane whose request
\* is named asks anew, unless a token is seated.
HearReset ==
    /\ toWriter # <<>>
    /\ Head(toWriter).tag = "RESET"
    /\ toWriter' = Tail(toWriter)
    /\ sent' = Empty
    /\ LET named == {l \in Lane : /\ stream[l] = "OPENING"
                                  /\ request[l] = Head(toWriter).request}
       IN  /\ stream' = [l \in Lane |-> IF l \in named THEN "NONE" ELSE stream[l]]
           /\ request' = [l \in Lane |-> IF l \in named THEN 0 ELSE request[l]]
    /\ UNCHANGED <<fields, opened, lastRequest, writerOut, toReader, heard, readerOut,
                   parked, repeats, moves, refusals>>

-----------------------------------------------------------------------------
(* Reader. *)

\* What becomes of an OPEN: one that is not resolved is answered RESET.  One
\* that is resolved is seated, parked for a decision that has not come yet, or
\* left without an answer: its route or epoch is not live, or it is refused.
Outcome(resolved) ==
    IF resolved = Unresolved THEN {"RESET"} ELSE {"READY", "PARK", "NONE"}

\* The answers of a frame join those that wait.
Answered(frame, outcome) ==
    LET after[i \in 0 .. Len(frame)] ==
            IF i = 0
            THEN readerOut
            ELSE IF outcome[i] \in {"READY", "RESET"}
            THEN QueuedAnswer(after[i - 1], [tag |-> outcome[i],
                                             request |-> frame[i].request])
            ELSE after[i - 1]
    IN  after[Len(frame)]

\* row_control_receive: a frame is read whole, then each record is applied.
ReadFrame ==
    /\ toReader # <<>>
    /\ toReader' = Tail(toReader)
    /\ LET frame == Head(toReader)
           resolved == Resolution(frame)
       IN  /\ heard' = HeardAfter(frame)
           /\ \E outcome \in [DOMAIN frame -> {"READY", "RESET", "PARK", "NONE"}] :
                 /\ \A i \in DOMAIN frame : outcome[i] \in Outcome(resolved[i])
                 /\ refusals' = refusals
                       + Cardinality({i \in DOMAIN frame :
                                         /\ resolved[i] # Unresolved
                                         /\ outcome[i] # "READY"})
                 /\ refusals' <= MaxRefusals
                 /\ readerOut' = Answered(frame, outcome)
                 /\ parked' = [l \in Lane |->
                       LET mine == {i \in DOMAIN frame : frame[i].lane = l}
                       IN  IF \E i \in mine : outcome[i] = "PARK"
                           THEN frame[CHOOSE i \in mine : TRUE].request
                           ELSE IF \E i \in mine : outcome[i] = "READY"
                           THEN 0
                           ELSE parked[l]]
    /\ UNCHANGED <<fields, opened, stream, request, lastRequest, writerOut, sent,
                   toWriter, repeats, moves>>

\* seat_or_park, of a park whose decision came: it is seated or refused.
Decide(l) ==
    /\ parked[l] # 0
    /\ parked' = [parked EXCEPT ![l] = 0]
    /\ \/ readerOut' = QueuedAnswer(readerOut, [tag |-> "READY",
                                                request |-> parked[l]])
       \/ readerOut' = readerOut
    /\ UNCHANGED <<fields, opened, stream, request, lastRequest, writerOut, sent,
                   toReader, heard, toWriter, repeats, moves, refusals>>

\* expire_parks: a decision that did not come in time is a RESET.
Expire(l) ==
    /\ parked[l] # 0
    /\ parked' = [parked EXCEPT ![l] = 0]
    /\ readerOut' = QueuedAnswer(readerOut, [tag |-> "RESET",
                                             request |-> parked[l]])
    /\ UNCHANGED <<fields, opened, stream, request, lastRequest, writerOut, sent,
                   toReader, heard, toWriter, repeats, moves, refusals>>

\* flush, of the reader's answers.
FlushAnswer ==
    /\ readerOut # <<>>
    /\ Len(toWriter) < MaxFrames
    /\ toWriter' = Append(toWriter, Head(readerOut))
    /\ readerOut' = Tail(readerOut)
    /\ UNCHANGED <<fields, opened, stream, request, lastRequest, writerOut, sent,
                   toReader, heard, parked, repeats, moves, refusals>>

-----------------------------------------------------------------------------
Init ==
    /\ fields \in [Lane -> Fields]
    /\ opened = fields
    /\ stream = [l \in Lane |-> "NONE"]
    /\ request = [l \in Lane |-> 0]
    /\ lastRequest = 0
    /\ writerOut = <<>>
    /\ sent = Empty
    /\ toReader = <<>>
    /\ heard = Empty
    /\ readerOut = <<>>
    /\ toWriter = <<>>
    /\ parked = [l \in Lane |-> 0]
    /\ repeats = 0
    /\ moves = 0
    /\ refusals = 0

Next ==
    \/ \E l \in Lane : \/ Ask(l)
                       \/ AskAgain(l)
                       \/ Bind(l)
                       \/ Retire(l)
                       \/ Decide(l)
                       \/ Expire(l)
    \/ Flush
    \/ ReadFrame
    \/ FlushAnswer
    \/ HearReady
    \/ HearReset

Spec == Init /\ [][Next]_vars

\* The send pass asks every tick and again after an interval, the schedulers
\* flush, the link delivers, and a park expires.
Fairness ==
    /\ \A l \in Lane : /\ WF_vars(Ask(l))
                       /\ WF_vars(AskAgain(l))
                       /\ WF_vars(Decide(l) \/ Expire(l))
    /\ WF_vars(Flush)
    /\ WF_vars(ReadFrame)
    /\ WF_vars(FlushAnswer)
    /\ WF_vars(HearReady \/ HearReset)

FairSpec == Spec /\ Fairness

-----------------------------------------------------------------------------
(* Properties. *)

Open == [lane : Lane, request : 1 .. MaxRequest, meant : Fields]

\* Every variable holds a value of its type; a basis holds at most Capacity
\* keys, each once in its order.
TypeOK ==
    /\ fields \in [Lane -> Fields]
    /\ opened \in [Lane -> Fields]
    /\ stream \in [Lane -> {"NONE", "OPENING", "READY"}]
    /\ request \in [Lane -> 0 .. MaxRequest]
    /\ lastRequest \in 0 .. MaxRequest
    /\ \A open \in ToSet(writerOut) : open \in Open
    /\ \A basis \in {sent, heard} :
          /\ DOMAIN basis.opens = ToSet(basis.arrivals)
          /\ Len(basis.arrivals) = Cardinality(DOMAIN basis.opens)
          /\ Len(basis.arrivals) <= Capacity
          /\ \A k \in DOMAIN basis.opens : basis.opens[k] \in Fields
    /\ parked \in [Lane -> 0 .. MaxRequest]

\* The next frame is resolved to what the writer meant or not at all, even if
\* the check byte tells nothing apart: bases that were cleared, evicted in
\* another order or shared by two families never lend an OPEN a stale field.
ResolvesExactly ==
    toReader # <<>> =>
        \A i \in DOMAIN Head(toReader) :
            Resolution(Head(toReader))[i] \in {Unresolved, Head(toReader)[i].meant}

\* Where both ends hold a key, and no frame on the link names it, they hold the
\* same fields.
HeldAlike ==
    \A k \in DOMAIN sent.opens \cap DOMAIN heard.opens :
        \/ \E frame \in ToSet(toReader) :
              \E i \in DOMAIN frame : KeyOf[frame[i].lane] = k
        \/ sent.opens[k] = heard.opens[k]

\* The two bases never lead an OPEN astray, as the three parts above say.
BasesAgree == TypeOK /\ ResolvesExactly /\ HeldAlike

\* Once the lanes rest and the reader seats what it resolves, every lane gets
\* its stream, whatever the two bases held: an OPEN that is not resolved is
\* asked again in full.
AllOpen == \A l \in Lane : stream[l] = "READY" /\ ~Moved(l)
Opens == <>[]AllOpen

\* WIRE.md, section 10: "both ends evict the same key", so once every frame is
\* read the reader holds each key that the writer's basis holds.
BothEvictTheSame ==
    toReader = <<>> => DOMAIN sent.opens \subseteq DOMAIN heard.opens
=============================================================================

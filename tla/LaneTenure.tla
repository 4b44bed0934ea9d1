----------------------------- MODULE LaneTenure -----------------------------
(* The lanes of one writer to one reader, bound to the tenure of the entity's    *)
(* controller.  A decision that moves control reaches both ends on their own      *)
(* links: the writer parks and resumes its lanes (store/peers.cpp,                 *)
(* repl/session_send.cpp), the reader moves them, raises their floors and holds    *)
(* those of a writer it would not seat (wire/stream_book.cpp,                      *)
(* api/session/sync.cpp).  Control records are reliable and in order, rows are     *)
(* lost and reordered.                                                             *)
EXTENDS Integers, Sequences, FiniteSets, SequencesExt

CONSTANTS
    Routes,                 \* one lane per route
    DORMANT_LANE_CAP, STREAM_BINDING_SPAN,
    MaxRowsPerTenure,       \* bound: rows a lane carries under one tenure
    MaxDecisions,           \* bound: decisions of the server
    MaxRepairs,             \* bound: OPENs sent again
    MaxExpiries             \* bound: parked OPENs that expire

RoutesAssumption == IsFiniteSet(Routes) /\ Routes # {}
SpanAssumption == {DORMANT_LANE_CAP, STREAM_BINDING_SPAN} \subseteq Nat \ {0}
BoundsAssumption ==
    {MaxRowsPerTenure, MaxDecisions, MaxRepairs, MaxExpiries} \subseteq Nat
Assumptions == RoutesAssumption /\ SpanAssumption /\ BoundsAssumption

VARIABLES
    decided,        \* the decisions of the server, in order
    installed,      \* how many of them each end has installed
    lane,           \* PeerRows of the writer
    dormant,        \* PeerSide::dormant of the writer: its parked lanes, oldest first
    held_lane,      \* StreamReaderBook lanes of the reader
    parks,          \* OPENs the reader parked
    to_reader, to_writer,   \* ROW_CONTROL
    rows,           \* rows in flight
    heard,          \* of every route, the last row the reader took: its tenure, and the reader's
    minted          \* requests and tokens given out, repairs and expiries spent
vars == <<decided, installed, lane, dormant, held_lane, parks, to_reader, to_writer, rows,
          heard, minted>>

Ends == {"writer", "reader"}

(* The tenure of a route and whether it is the writer that steers it, as an end has installed it. *)
ViewAfter(n, r) ==
    LET moves == {k \in 1 .. n : decided[k].route = r}
    IN IF moves = {} THEN [route |-> r, steers |-> TRUE, revision |-> 1, tenure |-> 1]
       ELSE decided[CHOOSE k \in moves : \A j \in moves : j <= k]
View(end, r) == ViewAfter(installed[end], r)

NoLane == [stream |-> "NONE", request |-> 0, token |-> 0, origin |-> 0, opened |-> 0, next_rev |-> 1]
NoHeld == [request |-> 0, token |-> 0, origin |-> 0, tenure |-> 0, floor |-> 0, held |-> FALSE,
           newest |-> 0]
NoPark == [request |-> 0, tenure |-> 0]

Open(r, request, tenure) == [tag |-> "OPEN", route |-> r, request |-> request, tenure |-> tenure]
Close(token) == [tag |-> "CLOSE", token |-> token]
Ready(request, token) == [tag |-> "READY", request |-> request, token |-> token]
Reset(request) == [tag |-> "RESET", request |-> request]

Closes(tokens) == LET live == SelectSeq(tokens, LAMBDA t : t # 0)
                  IN [n \in DOMAIN live |-> Close(live[n])]

\* Mutant of binding_floor: a tenure is one revision wide.
binding_floorLow(origin, tenure) == tenure - origin

binding_floor(origin, tenure) == (tenure - origin) * STREAM_BINDING_SPAN

-----------------------------------------------------------------------------
(* A decision of the server: the tenure moves with the controller, the revision always.          *)
Decide(r) ==
    /\ Len(decided) < MaxDecisions
    /\ \E steers \in BOOLEAN :
          LET now == ViewAfter(Len(decided), r)
          IN decided' = Append(decided,
                 [route |-> r, steers |-> steers, revision |-> now.revision + 1,
                  tenure |-> IF steers # now.steers THEN now.revision + 1 ELSE now.tenure])
    /\ UNCHANGED <<installed, lane, dormant, held_lane, parks, to_reader, to_writer, rows, heard,
                   minted>>

-----------------------------------------------------------------------------
(* The writer.  A book is [lane, dormant, closed]: closed are the tokens to send CLOSE for.       *)
WriterBook == [lane |-> lane, dormant |-> dormant, closed |-> <<>>]

wake(listed, r) ==
    IF r \in ToSet(listed) THEN RemoveAt(listed, CHOOSE n \in DOMAIN listed :
           listed[n] = r /\ \A k \in 1 .. n - 1 : listed[k] # r)
    ELSE listed

close_row(b, r) ==
    [b EXCEPT !.lane[r] = NoLane,
              !.dormant = IF b.lane[r].stream = "DORMANT" THEN wake(@, r) ELSE @]

evict_dormant(b) ==
    LET r == Head(b.dormant)
    IN [close_row(b, r) EXCEPT !.closed = Append(@, b.lane[r].token)]

\* Mutant of park_tenures_other_than: parks one lane more than the cap.
park_tenures_other_thanMore(b, r, tenure) ==
    CASE b.lane[r].opened = tenure \/ b.lane[r].stream \in {"NONE", "DORMANT"} -> b
      [] b.lane[r].stream = "OPENING" /\ b.lane[r].opened # tenure -> close_row(b, r)
      [] b.lane[r].stream = "READY" /\ b.lane[r].opened # tenure ->
           [b EXCEPT !.lane[r].stream = "DORMANT", !.dormant = Append(@, r)]

park_tenures_other_than(b, r, tenure) ==
    CASE b.lane[r].opened = tenure \/ b.lane[r].stream \in {"NONE", "DORMANT"} -> b
      [] b.lane[r].stream = "OPENING" /\ b.lane[r].opened # tenure -> close_row(b, r)
      [] b.lane[r].stream = "READY" /\ b.lane[r].opened # tenure ->
           LET parked == [b EXCEPT !.lane[r].stream = "DORMANT", !.dormant = Append(@, r)]
           IN IF Len(parked.dormant) > DORMANT_LANE_CAP THEN evict_dormant(parked) ELSE parked

Resumable(l, tenure) ==
    LET floor == binding_floor(l.origin, tenure)
    IN /\ l.stream \in {"READY", "DORMANT"}
       /\ tenure >= l.origin /\ tenure >= l.opened
       /\ (l.next_rev > floor /\ floor # 0) => l.opened = tenure

\* Mutant of stream_resume: the lane that resumes stays in the list of parked lanes.
stream_resumeListed(b, r, tenure) ==
    LET l == b.lane[r]
        floor == binding_floor(l.origin, tenure)
        rev == IF l.opened # tenure /\ floor > l.next_rev THEN floor ELSE l.next_rev
    IN [b EXCEPT !.lane[r] = [l EXCEPT !.stream = "READY", !.opened = tenure, !.next_rev = rev]]

stream_resume(b, r, tenure) ==
    LET l == b.lane[r]
        floor == binding_floor(l.origin, tenure)
        rev == IF l.opened # tenure /\ floor > l.next_rev THEN floor ELSE l.next_rev
    IN [b EXCEPT !.dormant = IF l.stream = "DORMANT" THEN wake(@, r) ELSE @,
                 !.lane[r] = [l EXCEPT !.stream = "READY", !.opened = tenure, !.next_rev = rev]]

(* A lane that is parked, or was opened under another tenure, resumes or closes.                 *)
Unparked(b, r, tenure) ==
    LET l == b.lane[r]
    IN IF ~(l.stream = "DORMANT" \/ (l.stream # "NONE" /\ l.opened # tenure)) THEN b
       ELSE IF Resumable(l, tenure) THEN stream_resume(b, r, tenure)
       ELSE [close_row(b, r) EXCEPT !.closed = Append(@, l.token)]

InstallAtWriter ==
    /\ installed["writer"] < Len(decided)
    /\ installed' = [installed EXCEPT !["writer"] = @ + 1]
    /\ LET d == decided[installed'["writer"]]
           moved == d.tenure # View("writer", d.route).tenure
           b == IF moved THEN park_tenures_other_than(WriterBook, d.route, d.tenure) ELSE WriterBook
       IN /\ lane' = b.lane /\ dormant' = b.dormant
          /\ to_reader' = to_reader \o Closes(b.closed)
    /\ UNCHANGED <<decided, held_lane, parks, to_writer, rows, heard, minted>>

(* A row of a lane is due: the lane is seated, and carries the row if it is READY.                *)
Asks(b, r, tenure, request) ==
    [close_row(b, r) EXCEPT !.lane[r] = [NoLane EXCEPT !.stream = "OPENING", !.request = request,
                                                       !.origin = tenure, !.opened = tenure]]

RowsLeft(l) ==
    LET floor == binding_floor(l.origin, l.opened)
        first == IF floor = 0 THEN 1 ELSE floor
    IN l.next_rev < first + MaxRowsPerTenure

SendRow(r) ==
    LET view == View("writer", r)
        b == Unparked(WriterBook, r, view.tenure)
        l == b.lane[r]
    IN /\ view.steers
       /\ \/ /\ l.stream = "READY"
             /\ lane' = [b.lane EXCEPT ![r].next_rev = IF RowsLeft(l) THEN @ + 1 ELSE @]
             /\ rows' = IF RowsLeft(l)
                        THEN rows \cup {[route |-> r, token |-> l.token, revision |-> l.next_rev,
                                         tenure |-> view.tenure]}
                        ELSE rows
             /\ dormant' = b.dormant
             /\ to_reader' = to_reader \o Closes(b.closed)
             /\ UNCHANGED minted
          \/ /\ l.stream = "OPENING" /\ l.opened = view.tenure
             /\ minted.repairs < MaxRepairs
             /\ minted' = [minted EXCEPT !.repairs = @ + 1]
             /\ to_reader' = to_reader \o Closes(b.closed)
                                       \o <<Open(r, l.request, view.tenure)>>
             /\ lane' = b.lane /\ dormant' = b.dormant /\ UNCHANGED rows
          \/ /\ l.stream = "NONE"
             /\ LET request == minted.requests + 1
                    asked == Asks(b, r, view.tenure, request)
                IN /\ minted' = [minted EXCEPT !.requests = request]
                   /\ to_reader' = to_reader \o Closes(b.closed)
                                             \o <<Open(r, request, view.tenure)>>
                   /\ lane' = asked.lane /\ dormant' = asked.dormant /\ UNCHANGED rows
    /\ UNCHANGED <<decided, installed, held_lane, parks, to_writer, heard>>

Named(request) == {r \in Routes : lane[r].request = request}

(* stream_ready.  An answer to an OPEN the writer no longer knows changes nothing.               *)
TakeReady ==
    /\ to_writer # <<>> /\ Head(to_writer).tag = "READY"
    /\ to_writer' = Tail(to_writer)
    /\ LET m == Head(to_writer)
       IN lane' = [r \in Routes |-> IF r \in Named(m.request)
                                    THEN [lane[r] EXCEPT !.stream = "READY", !.token = m.token]
                                    ELSE lane[r]]
    /\ UNCHANGED <<decided, installed, dormant, held_lane, parks, to_reader, rows, heard, minted>>

(* stream_reset: the OPEN expired in the park of the reader.                                     *)
TakeReset ==
    /\ to_writer # <<>> /\ Head(to_writer).tag = "RESET"
    /\ to_writer' = Tail(to_writer)
    /\ LET named == {r \in Named(Head(to_writer).request) : lane[r].token = 0}
           b == [WriterBook EXCEPT !.lane = [r \in Routes |-> IF r \in named THEN NoLane ELSE lane[r]]]
       IN lane' = b.lane
    /\ UNCHANGED <<decided, installed, dormant, held_lane, parks, to_reader, rows, heard, minted>>

-----------------------------------------------------------------------------
(* The reader.  A book is [held, parks, answers, tokens]: answers go out as ROW_CONTROL.          *)
ReaderBook == [held |-> held_lane, parks |-> parks, answers |-> <<>>, tokens |-> minted.tokens]

open_seat(tenure, view) ==
    CASE tenure > view.tenure -> "PARK"
      [] tenure < view.tenure \/ ~view.steers -> "REFUSE"
      [] OTHER -> "SEAT"

(* StreamReaderBook::open and the answer it gives.                                               *)
answer_open(b, r, request, tenure) ==
    LET unparked == IF b.parks[r].request <= request THEN [b EXCEPT !.parks[r] = NoPark] ELSE b
        held == b.held[r]
        token == b.tokens + 1
    IN CASE held.token # 0 /\ request < held.request ->
              [unparked EXCEPT !.answers = Append(@, Reset(request))]
         [] held.token # 0 /\ request = held.request ->
              [unparked EXCEPT !.answers = Append(@, Ready(request, held.token))]
         [] OTHER ->
              [unparked EXCEPT !.tokens = token,
                  !.answers = Append(@, Ready(request, token)),
                  !.held[r] = [NoHeld EXCEPT !.request = request, !.token = token,
                                             !.origin = tenure, !.tenure = tenure]]

park(b, r, request, tenure) ==
    IF b.parks[r].request > request THEN b
    ELSE [b EXCEPT !.parks[r] = [request |-> request, tenure |-> tenure]]

seat_or_park(b, r, request, tenure, view) ==
    LET seat == open_seat(tenure, view)
    IN IF seat = "SEAT" THEN answer_open(b, r, request, view.tenure)
       ELSE IF seat = "PARK" THEN park(b, r, request, tenure)
       ELSE b

ReaderTakes(b) ==
    /\ held_lane' = b.held /\ parks' = b.parks
    /\ to_writer' = to_writer \o b.answers
    /\ minted' = [minted EXCEPT !.tokens = b.tokens]

TakeOpen ==
    /\ to_reader # <<>> /\ Head(to_reader).tag = "OPEN"
    /\ to_reader' = Tail(to_reader)
    /\ LET m == Head(to_reader)
       IN ReaderTakes(seat_or_park(ReaderBook, m.route, m.request, m.tenure, View("reader", m.route)))
    /\ UNCHANGED <<decided, installed, lane, dormant, rows, heard>>

TakeClose ==
    /\ to_reader # <<>> /\ Head(to_reader).tag = "CLOSE"
    /\ to_reader' = Tail(to_reader)
    /\ held_lane' = [r \in Routes |-> IF held_lane[r].token = Head(to_reader).token THEN NoHeld
                                      ELSE held_lane[r]]
    /\ UNCHANGED <<decided, installed, lane, dormant, parks, to_writer, rows, heard, minted>>

\* Mutant of follow_tenure: a lane that was held once stays held.
follow_tenureSticks(held, view) ==
    IF held.token = 0 \/ held.tenure >= view.tenure THEN held
    ELSE [held EXCEPT !.tenure = view.tenure, !.floor = binding_floor(held.origin, view.tenure),
                      !.held = @ \/ open_seat(view.tenure, view) # "SEAT"]

(* Every bound lane of an earlier tenure follows; the lane of a writer not seated is held.        *)
follow_tenure(held, view) ==
    IF held.token = 0 \/ held.tenure >= view.tenure THEN held
    ELSE [held EXCEPT !.tenure = view.tenure, !.floor = binding_floor(held.origin, view.tenure),
                      !.held = open_seat(view.tenure, view) # "SEAT"]

(* take_parks, then each park is seated, parked again or refused.                                *)
reseat_parks(b, r, view) ==
    LET p == b.parks[r]
    IN IF p.request = 0 THEN b
       ELSE seat_or_park([b EXCEPT !.parks[r] = NoPark], r, p.request, p.tenure, view)

InstallAtReader ==
    /\ installed["reader"] < Len(decided)
    /\ installed' = [installed EXCEPT !["reader"] = @ + 1]
    /\ LET d == decided[installed'["reader"]]
           moved == d.tenure # View("reader", d.route).tenure
           followed == [ReaderBook EXCEPT !.held[d.route] = follow_tenure(@, d)]
       IN ReaderTakes(IF moved THEN reseat_parks(followed, d.route, d) ELSE ReaderBook)
    /\ UNCHANGED <<decided, lane, dormant, to_reader, rows, heard>>

ExpirePark(r) ==
    /\ parks[r].request # 0 /\ minted.expiries < MaxExpiries
    /\ minted' = [minted EXCEPT !.expiries = @ + 1]
    /\ parks' = [parks EXCEPT ![r] = NoPark]
    /\ to_writer' = Append(to_writer, Reset(parks[r].request))
    /\ UNCHANGED <<decided, installed, lane, dormant, held_lane, to_reader, rows, heard>>

(* SyncPipeline::apply_row: the sender steers, the lane admits the row, the store holds none newer. *)
admits_row(held, row) == /\ held.token = row.token /\ ~held.held
                         /\ row.revision >= held.floor /\ row.revision > held.newest

TakeRow(row) ==
    LET r == row.route
        view == View("reader", r)
    IN /\ rows' = rows \ {row}
       /\ IF view.steers /\ admits_row(held_lane[r], row)
          THEN /\ held_lane' = [held_lane EXCEPT ![r].newest = row.revision]
               /\ heard' = [heard EXCEPT ![r] = [sent |-> row.tenure, under |-> view.tenure]]
          ELSE UNCHANGED <<held_lane, heard>>
    /\ UNCHANGED <<decided, installed, lane, dormant, parks, to_reader, to_writer, minted>>

LoseRow(row) ==
    /\ rows' = rows \ {row}
    /\ UNCHANGED <<decided, installed, lane, dormant, held_lane, parks, to_reader, to_writer,
                   heard, minted>>

-----------------------------------------------------------------------------
Init ==
    /\ decided = <<>> /\ installed = [end \in Ends |-> 0]
    /\ lane = [r \in Routes |-> NoLane] /\ dormant = <<>>
    /\ held_lane = [r \in Routes |-> NoHeld] /\ parks = [r \in Routes |-> NoPark]
    /\ to_reader = <<>> /\ to_writer = <<>> /\ rows = {}
    /\ heard = [r \in Routes |-> [sent |-> 0, under |-> 0]]
    /\ minted = [requests |-> 0, tokens |-> 0, repairs |-> 0, expiries |-> 0]

Next ==
    \/ InstallAtWriter \/ InstallAtReader
    \/ TakeReady \/ TakeReset \/ TakeOpen \/ TakeClose
    \/ \E r \in Routes : Decide(r) \/ SendRow(r) \/ ExpirePark(r)
    \/ \E row \in rows : TakeRow(row) \/ LoseRow(row)

Spec == Init /\ [][Next]_vars

(* Decisions and control records arrive, and a lane with rows to send is seated every tick.       *)
Fairness ==
    /\ WF_vars(InstallAtWriter) /\ WF_vars(InstallAtReader)
    /\ WF_vars(TakeReady \/ TakeReset) /\ WF_vars(TakeOpen \/ TakeClose)
    /\ \A r \in Routes : WF_vars(SendRow(r))

FairSpec == Spec /\ Fairness

-----------------------------------------------------------------------------
TypeOK ==
    /\ \A end \in Ends : installed[end] \in 0 .. Len(decided)
    /\ \A r \in Routes :
          /\ lane[r].stream \in {"NONE", "OPENING", "READY", "DORMANT"}
          /\ lane[r].stream \in {"READY", "DORMANT"} <=> lane[r].token # 0
          /\ lane[r].stream # "NONE" => lane[r].origin \in 1 .. lane[r].opened
          /\ held_lane[r].token \in 0 .. minted.tokens
          /\ held_lane[r].token # 0 => held_lane[r].origin \in 1 .. held_lane[r].tenure
          /\ parks[r].request \in 0 .. minted.requests
    /\ ToSet(dormant) \subseteq Routes /\ Len(dormant) <= DORMANT_LANE_CAP

(* extension/WIRE.md:314, "every revision of an earlier tenure lies below" the floor.  A row the       *)
(* reader takes was not sent under an earlier decision than the one it has installed, however the *)
(* row was delayed and control went to and fro meanwhile.                                         *)
NoneOfAnEarlierTenure == \A r \in Routes : heard[r].sent >= heard[r].under

(* The list the writer closes its oldest parked lane from holds every parked lane once, and no    *)
(* lane that is served or gone.                                                                   *)
ParkedAreListed ==
    /\ IsInjective(dormant)
    /\ ToSet(dormant) = {r \in Routes : lane[r].stream = "DORMANT"}

(* The fences of the tenures hold, and the parks are kept, as the three parts above say.          *)
TenuresAreFenced == TypeOK /\ NoneOfAnEarlierTenure /\ ParkedAreListed

(* extension/WIRE.md:303, "Parking one more closes the lane that parked first": a lane that the        *)
(* decision of another route closes is not one the writer serves.                                 *)
EvictsAParkedLane ==
    [][\A r \in Routes :
          (/\ installed'["writer"] # installed["writer"]
           /\ decided[installed'["writer"]].route # r
           /\ lane[r].stream # "NONE" /\ lane'[r].stream = "NONE") => ~View("writer", r).steers]_vars

(* extension/WIRE.md:306, a receiver "holds at most what the writer's limit allows": with nothing in   *)
(* flight, the lanes the writer parked and those it serves.                                       *)
ReaderWithinLimit ==
    (to_reader = <<>> /\ to_writer = <<>>) =>
        Cardinality({r \in Routes : held_lane[r].token # 0})
            <= DORMANT_LANE_CAP + Cardinality({r \in Routes : lane[r].stream \in {"OPENING", "READY"}})

(* Once the last decision is installed, the rows of a writer it names are heard: the lanes of     *)
(* both ends agree, the lane is not held, and its next revision is not below the floor.           *)
Heard(r) ==
    /\ lane[r].stream = "READY" /\ lane[r].token = held_lane[r].token /\ ~held_lane[r].held
    /\ lane[r].next_rev >= held_lane[r].floor
AllHeard == \A r \in Routes : ViewAfter(Len(decided), r).steers => Heard(r)
ControllerIsHeard == <>[]AllHeard
=============================================================================

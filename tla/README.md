# A verification of diejor/networked

`networked` is a GDExtension that replicates a Godot 4 scene tree between peers.
Its core is C++ under `src/extension/src` with headers in
`src/extension/include/netw`; the protocol it speaks is written down in
`src/extension/WIRE.md`. This directory holds TLA+ modules translated from that
code, the TLC runs that check them on small instances, and proofs checked by
TLAPS for every instance.

Paths below are relative to `src/extension/src` unless they start with `src/`.

## 1. The system and its parts

A *session* joins peers over an engine transport that offers a reliable ordered
channel and an unreliable one. Entities live on *routes*; an entity's author
gathers the properties it replicates into *rows* of a column store and sends them
to every peer that should see them. Which peer authors an entity is decided by
the server and counted in *tenures*. What is promised to the game (calls that
wait for a route, requests to peers, deferred calls, joins, saves) is kept in
books that callbacks of the game call back into.

| Part | State it keeps | Hard about it | What makes it correct | Module |
|---|---|---|---|---|
| Row stream, writer (`store/peers.cpp`, `repl/session_send.cpp`) | stream state, request, token, next revision, confirmed baseline, flights, pins | loss, late receipts, repairs that repeat a revision, several streams of one row | a delta is decoded over the image it was written against; what is confirmed was received | `RowStream` |
| Row stream, reader (`wire/stream_book.cpp`, `store/receive.cpp`, `api/sync_pipeline.cpp`) | the lane per address, tokens, ring of images, early edge, receipts | reordering, strays, rows of old streams | position only advances; RESET names only what is lost | `RowStream` |
| Tenures of a lane (the same files) | parked OPENs and lanes, floors, holds | a decision crosses the rows and records it is about | no row of an earlier tenure; the writer in charge is heard | `LaneTenure` |
| Control scheduler (`wire/control_scheduler.cpp`) | one queue of lifecycle records, one set of receipts | coalescing, both directions in one queue | what waits is dropped only when it no longer matters | `ControlQueue` |
| OPEN basis (`wire/control_record.cpp`) | the fields the last OPEN of a key stated | both ends keep a copy, each evicts | an OPEN that resolves has the fields the writer meant | `OpenBasis` |
| Datagram books (`datagram_seq_book.cpp`, `wire/ack_book.cpp`) | 16-bit numbers, a history of 32, notes | wrap-around, late reports | a packet is settled once; a report is never about another | `DatagramAcks` |
| Freshness (`repl/freshness_book.cpp`) | the newest number a stream took | wrap-around, several frames in a datagram, silence | only what is overtaken is refused | `FreshGate` |
| Control of an entity (`entity/control.cpp`, `api/entity.cpp`) | controller, revision, tenure, hold; claims that wait or were given up | timeouts that race grants, copies freed and shown, handlers that hand on | a claim is answered by its own decision; copies agree | `ControlClaim` |
| Routes and leases (`liveness_core.cpp`, `api/session/transfer.cpp`) | counters, blocks leased to clients, reports of a transfer | the server dies and another takes over | no route is given twice; a lease is honoured | `RouteLease`, `RouteIds` |
| Liveness of routes (`liveness_core.cpp`, `spawn/pipeline.cpp`, `call_park.cpp`) | waiters, parked spawns and calls | a route that comes, goes and comes back | a callback fires once, while its route lives | `WhenLive` |
| Deferred calls (`settle_queue.cpp`) | queued rows, windows, batches being drained | callbacks that defer, cancel and flush | each call runs once or is reported | `SettleQueue` |
| Requests (`txn_book.cpp`, `api/promise.cpp`, `api/group_promise.cpp`) | open transactions, promises, groups | a late answer, a deadline and a departure race | answered exactly once | `Requests` |
| Connecting (`connect/core.cpp`, `session_core.cpp`) | the attempt, the session state, a peer being made | callbacks at every step that join, cancel, leave | one attempt; it settles; no peer is left open | `ConnectAttempt` |
| Admission (`api/session/admission.cpp`, `api/netw_multiplayer.cpp`) | links that authenticate, verdicts that are awaited, the roster, players, peers to be dropped | promises that settle late, deadlines, links that begin again under their peer id, two joins of one account, a halt | a player stands for the link its verdict was about; an account plays once | `Admission` |
| Databases (`persist/database.cpp`) | a queue, locks per record, connections, flushes | the calls that answer an operation call back | operations on a record keep their order | `Database` |
| Record files (`persist/file_store.cpp`, `record_file.cpp`) | a file per format and a staging file | a process that dies, a disk that fails | a read finds what was last written | `FileStore` |
| Saved entities (`persist/binding.cpp`, `api/session/persistence.cpp`) | what a node holds, has staged and has stored | the last save of one node against the first load of the next | no saved value is lost | `SavedEntity` |
| Commands of a predicted entity (`predict/engine.cpp`, `predict/drive.cpp`, `predict/journal.cpp`, `api/predict_slot_engine.cpp`) | the owner's tape, epoch and acks; the server's inputs, cursor, journal and floor | lost frames, holes, an epoch that ends under way, two ends that hold for each other | commands run once, in order, in their epoch; an ack is of what it names; nobody waits for ever | `CommandLane` |
| Interest and scenes (`interest/`, `scene_*.cpp`) | layers, perception, membership | hysteresis, load races | seen iff perceived | not modelled |
| Comparison and recovery of predictions, lag compensation, display, simulation, clock | numeric | | left to tests | not modelled |

They interact through a few channels. Rows travel in unreliable datagrams;
lifecycle records (OPEN, READY, RESET, CLOSE) and receipts (ACCEPT) on the
reliable link through the scheduler; the spawn layer's verbs (SPAWN, HIDE,
DESPAWN, REPARENT), decisions about control and the reports of a transfer on the
reliable link beside them. A poll reads what arrived, runs handlers, drains the
deferred calls and sends. Everything of one peer runs on the main thread: the
interleavings are those of messages and of *callbacks*, a handler of the game
that calls back into the book that is calling it. The modules with a stack
(`SettleQueue`, `Requests`, `Database`, `ConnectAttempt`) are about the second,
the others about the first.

`PROJECT.json` lists every part, modelled or not, the hazards of the code at
their lines, and the lines each definition stands for.

## 2. How the modules are run

The components share no variable except through what the code passes between
them, and what it passes is modelled inside the component that is hurt by it (the
decision a lane reads is in `LaneTenure`, the answer a saved row gets in
`SavedEntity`). Each can so be checked by itself. Five modules put the
components of one layer on small instances:

| Module | Components | `Parts` |
|---|---|---|
| `MCRowStream` | `RowStream` | |
| `MCWire` | `OpenBasis`, `ControlQueue`, `DatagramAcks`, `FreshGate`, `CommandLane` | bases, queue, echoes, wraps, shared, lane |
| `MCPromises` | `Requests`, `SettleQueue`, `WhenLive`, `ConnectAttempt`, `Admission` | deferred, ordered, requests, chain, parked, joins, admits, rejoins |
| `MCEntities` | `RouteLease` (with `RouteIds`), `LaneTenure`, `ControlClaim` | leases, halt, fence, lanes, claims, shown, handed |
| `MCStorage` | `Database`, `FileStore`, `SavedEntity` | database, quick, crashing, switching, failing, handed, refused, doubted, blind, settling |

A behaviour of such a module moves the one part that `moving` names and leaves
the others where they start. The states of the parts add up instead of
multiplying, each part has all of its behaviours, and a property reads
`moving = part => ...`. A part is an instance of a component with bounds of its
own: "fence" is one lane of four narrow tenures and "lanes" two lanes of which one
may be parked, both of `LaneTenure`.

| Run | Parts and bounds | Shows |
|---|---|---|
| `rowstream_loss` | 1 stream, 4 revisions, 2 datagrams in flight, 2 columns, ring, span and stage of 2 | loss, duplication, reordering, withdrawal, eviction, early edges. Two datagrams are enough to overtake, four revisions to push the base of a delta out of a ring of two |
| `rowstream_reopen` | 2 requests, 2 tokens, 2 disturbances of hide, reopen and rebind | hide, show, reopen and redeclare while OPEN, READY, CLOSE and rows of the older stream are on their way; the inductive invariant of the proofs |
| `rowstream_converge` | 2 requests, 3 revisions, 1 disturbance, fair | the row converges |
| `wire_sound` | bases, queue, echoes, wraps, shared, lane | safety of the five books of the wire |
| `wire_settles` | bases, queue, lane, fair | every lane opens, both directions of a queue stream, the commands of an owner are run and acked |
| `promises_kept` | deferred, ordered, requests, chain, parked, joins, admits (2 links, 1 new declaration, a halt or none), rejoins (3 links) | safety of what is promised to the game |
| `promises_settle` | deferred, requests, chain, joins, rejoins (2 links, a halt or none), fair | each promise ends, each link is let in or dropped |
| `entities_sound` | leases (2 moves of the server), fence, lanes, claims, shown | safety of routes, tenures and claims; the refinement |
| `entities_settle` | leases (refills), halt, fence, handed, fair | leases come, halts end, lanes and copies follow |
| `storage_sound` | all of `MCStorage` but settling | order, connections, files, saved values |
| `storage_settles` | database, settling, fair | all is answered, what living nodes hold is stored |
| `routelease_claims` | leases, one claim of routes by a script, 1 move | the violation of finding 9 |

The bounds are constants with names that begin with `Max` (and `Tickets`,
`QuickOps`, `FenceDecisions`); each limits how often the game or the environment
acts, never what the code does in answer. `CHECK_DEADLOCK` is off throughout,
because at those bounds the game has no more to do and the system rests.

## 3. RowStream: one row, one writer, one reader

`RowStream.tla` is the whole life of one row of a state record between the peer
that writes it and one that reads it.

| State | Code |
|---|---|
| `image` | the row's codes in the writer's table |
| `sent` | `PeerRows` for one row, and the flights `PeerSide` keeps under its token |
| `lastRequest`, `lastToken` | `request_counter` of the writer, `token_counter` of the reader's book |
| `writerOut`, `readerOut`, `receipts` | the scheduler of each end |
| `toReader`, `toWriter` | the reliable link, each way |
| `rows` | row datagrams on the network; one that arrives may stay (duplication), any may arrive next (reordering) or never (loss) |
| `lane` | the reader book's lane: request, token, invalidated |
| `received`, `early`, `shown` | `Received` (token, accepted revision, ring of images), the early edge it holds, the row on the screen |

Every action is one handler. The writer's: `Change` (`owe_changed`), `Hide`,
`Admit`, `Reopen`, `OpenStream` and `AskAgain` (`stream_seated`), the sends
`SendFresh`, `SendRefresh`, `SendRepair` (`classify`, `encode`, `commit_send`,
`cancel`), `HearReady`, `HearReset`, `HearAccept`. The reader's: `HearOpen`,
`HearClose`, `HearHide`, `HearSpawn`, `Rebind`, and the five ways a datagram ends
(`RefuseUnknown`, `RefuseStale`, `HoldEarly`, `ResetStreamOf`, `LandRow`). The two
flushes move records onto the link.

Abstractions. Time is choice: a repair interval may pass whenever a repair is
enabled. The budget of a datagram is a choice of `Dispatched`: the row flies, is
lost, or does not fit and its flight is withdrawn. A row is a function from
columns to codes; a delta carries a mask and a full image of which the reader
reads the masked columns only. The lane belongs to a record under a constant
anchor, so tenures, binding floors and parks do not occur (they are
`LaneTenure`'s). The branch of `stream_ready` that moves flights from one token
to another is left out: `OneTokenPerRequest` shows, and a theorem proves, that it
is never reached.

| Property | Meaning |
|---|---|
| `Coherent` | a token and a revision name one image, wherever a copy is |
| `DecodesExactly` | every row that could land lands as the writer meant it |
| `AckedWasReceived` | the writer's baseline is never newer than what the reader landed |
| `BaseIsKept` | loss and reordering alone never invalidate a lane: the span of a delta fits the ring |
| `OneTokenPerRequest` | a request is answered with one fresh token |
| `ResetsOnlyTheLost` | no RESET on its way names a lane still served |
| `PositionAdvances` | token and revision at the reader only advance |
| `NeverRevived` | an invalidated lane never lives again under its token |
| `Converges` | once the game rests, the reader shows the row and the writer knows it |

Fairness (`FairSpec`): the send pass runs every tick and asks again and repairs
after an interval (weak fairness of `OpenStream`, `AskAgain`; strong fairness of
the sends, since a row that is sent again and again is not lost every time); the
scheduler flushes every tick; the reliable link delivers; a row on the network
arrives. Nothing is assumed of the game or the spawn layer. Running out of tokens
is not only a bound: the book refuses an OPEN when its counter is spent, and so
does `HearOpen`.

## 4. The books of the wire

### ControlQueue: both directions in one queue

Two peers each write one row and read the other's. A peer holds *one* queue of
control records for the other (`ControlScheduler::Peer`), with the OPEN and CLOSE
of its writer beside the READY, RESET and receipts of its reader. A CLOSE names a
token the other peer minted; an answer names one of its own; both count from 1.
`drop_token`, which `queue_close` and `reset_stream_of` call, goes by the number.

Rows are not in the module: `Land` is a full row that lands and is receipted
while the writer awaits its receipt, `Stray` a row under a token no lane has,
`Invalidate` a delta whose base the reader lost, which takes a writer that was
receipted. That a delta sent again to an invalidated lane asks for nothing is
`StreamReaderBook::invalidate`, which answers once.

`OneRequestPerToken`: a token that both ends hold stands for one request; no late,
repeated or dropped answer seats a row in the lane of another opening. Part
"queue": 2 requests and 3 tokens a peer, 2 disturbances; two requests are needed
for a late answer, a third token for a lane forgotten and opened again under the
same request. Its liveness (`AllSettled`, in `StreamsSettle`) has a request and a
token more for each disturbance, or the system would rest at the bound.

### OpenBasis: what an OPEN leaves out

An OPEN states only the fields (epoch, tenure, anchor, anchor author, schema) in
which it differs from the last OPEN of its key, the route and ordinal. Each end
keeps a `ControlBasis` of those; a check byte over all the fields is meant to
catch the two ends in disagreement. The module is one direction of it.

`Stated` is `ControlFrameWriter::append` against the basis and the OPENs earlier
in the frame; `Flush` sends any prefix, which is the byte budget, and folds it.
`Resolution` and `HeardAfter` are `read_control_frame`: the frame is resolved
with its own OPENs staged, and folded if it is well-formed. `ReadFrame` answers
READY, leaves an OPEN of an older binding without an answer, parks a newer one,
or resets what it could not resolve; a decision then seats what is parked
(`Decide`) or the repair interval ends it (`Expire`). `HearReset` with token 0
clears the writer's basis.

Fields are one value of a small set. A frame carries what its writer meant so
that `ResolvesExactly` can compare; the code has no such thing and nothing else
reads it. The check byte of the runs collides always, so what is shown does not
rest on it. A parked stream of the *writer* is left out: a lane bound anew asks
again.

`BasesAgree` is `ResolvesExactly` (an OPEN is resolved to what the writer meant or
not at all) with `HeldAlike` (a key both ends hold, and no frame names, has the
same fields at both). Part "bases" has 3 lanes of 2 keys and a basis of 1, so
that two families share a key and every other OPEN evicts; in `wire_settles` 3
keys share a basis of 2, the two ends evict different keys, OPENs arrive
unresolved, and `StreamsSettle` says that every lane opens all the same.

### DatagramAcks: numbers, histories, reports

Datagrams are numbered modulo `Modulus` and tracked in a ring (`AckBook`); the
receiver keeps the freshest number and a history of the `Depth` before it
(`note_inbound`) and echoes both; an echo settles the ring (`process_ack`): what
it reports is delivered, what it passed is lost. The arithmetic is the code's,
`uint16_t` distances and `int16_t` freshness, at a smaller modulus.

Datagrams and echoes are lost, repeated and reordered. The model names a
datagram by its count, which the code does not have. Two assumptions about the
link are needed, for a 16-bit number means nothing without them: no datagram
outlives half the numbers on the link (`Lifetime`), and a connection that sends
half the numbers past its last report has heard an echo (`Silence`). At 60
datagrams a second both are nine minutes of silence or delay.

`EchoesAreTrue`: the echo names the newest that came, and only such as came, across
the wrap; what is reported delivered came; what is reported lost is past anything
an echo can report; what the ring takes waits there or is reported, once. Part
"echoes" has 12 numbers, a ring of 4, a history of 2, and starts with a fresh
connection and with one about to wrap. Round trips are times, and the governor
that reads the reports is floating-point; both are left to unit tests.

### FreshGate: what is overtaken

Every unreliable datagram carries its number, and the gate keeps the newest that
each route and channel took. A frame is fresh if its number is newer or is that of
the datagram being read (`judged_seq`): the frames of a datagram stand or fall
together. `GateIsTrue`: what is taken is newer than all the stream took, nothing
else is refused, and one datagram is judged once. The modulus is 6, half of it 3;
"wraps" goes around it twice with one stream, "shared" has two streams in
datagrams of two frames. `LinkAssumption` bounds `MaxLag` (a datagram outlives fewer
numbers than half) and `MaxSilence` (no stream is silent for half the numbers); the
second is not one the code may make, and finding 15 is what happens without it. The row frames (`SYNC_ROW*`) skip the gate
and are `RowStream`'s.

### CommandLane: the commands of a predicted entity

The peer that steers an entity (its *owner*) runs ahead of the server: at
`SCHEDULE_FRAME` and `SCHEDULE_STEPPED` each frame writes one command on a tape,
runs it and sends the newest few that no ack names (`Author`, `Hold`). The server
holds what comes, fills near its cursor what did not (`Filled`), waits until its
buffer is full, runs one command a frame, skips ahead when it lags (`Resynced`),
and acks what it ran (`Consume`, `Idle`). The owner holds when it is a horizon
ahead of the acks. Either end is wired again at any time (`OwnerRewires`,
`ServerRewires`), as `rewire_on` does when the node is reparented or its authority
changes: the owner then begins a new epoch of its tape.

A command is the epoch it was written in; `inputs` and `journal` say so of each
command the server holds and ran, and `done` remembers the newest it ran in each
epoch. Frames are lost when the way is full, and one that a later frame of its
channel overtook is refused, which is `FreshGate`'s. What a command does and how
states compare is not modelled: `CommandLane` is about which command runs and
who knows of it. Epochs are a byte in the code and do not wrap here. Both acks and
rows of state move `authority_ack`; an ack names its epoch and a row does not.

`CommandsAreTrue` has four parts. `RunsInTurn`: the server runs the commands of
an epoch one after the other, each once and none of another epoch, and accounts
for those it skips; a server that is wired anew begins a new turn (finding 31).
`AcksNameTheirOwn`: the records of an ack carry no numbers and count on from its
base, so a gap in the journal would move them onto other commands; there is none.
`OwnerKnowsTheTruth`: what the owner takes for acked was run or skipped in this
very epoch, so it is at most the horizon ahead of the server. `TypeOK` is the last.
`AllServed`, in `StreamsSettle`: of what the owner wrote no more than the buffer
waits, and the owner hears of the rest.

Bounds: horizon 3 (64 in the code), window 2, buffer 1, ceiling 1, ack window 3,
2 records in an ack, 4 commands in an epoch, 2 epochs, 1 rewire of the server, 2
frames under way in a direction (1 in `wire_settles`). The window is smaller than
the horizon, so that a loss leaves a hole; four commands fill the horizon and go
one past it; buffer and ceiling together are less than the horizon, so that the
server skips. `LateRows` FALSE keeps rows and acks in order (finding 29), and
`BufferAssumption` keeps the buffer below the horizon (finding 30).

### Fairness

Both writers ask again and flush, the links deliver, a basis that refused is
heard of; the owner and the server of a lane have their frames (`Author`, `Hold`
and `ServerFrame`, weak), commands that are sent again and again arrive (weak, as a
frame that is lost makes room for the next), and so do acks (strong). Nothing is
assumed of rows of state.

## 5. What is promised to the game

### SettleQueue: deferred calls

`settle_queue.cpp`: calls queue under a key, wait out a window, and a drain runs
what is due in passes until nothing is left or too many passes have run. `frames`
is the stack of drains in progress, since a callback may flush. Callbacks defer,
cancel, cancel all of a key and flush, at any depth up to `MaxDepth`.

`CallsAreKept`: each call is in exactly one place (waiting, in a batch, run,
cancelled, given up and reported), one row waits per key, and no window is cut
short. In part "ordered" it says that calls run in the order they were deferred,
while no callback flushes (`RunsInOrder`); a flush inside a batch overtakes the rest of that batch
(finding 4).

### Requests: transactions, promises, groups

`txn_book.cpp`, the handlers of `api/session/rpc.cpp` and `api/replication_core.cpp`,
promises and groups. A transaction is answered by a reply, its deadline, the
departure of its peer, or the end of the session; the handlers of a promise call
back to request more, which nests. Nothing is assumed of the other peers: a reply
may come from anyone, for any transaction, at any time, twice.

`RequestsAreKept`: no pending promise without an entry in the book, no entry
without its promise, and a group accounts for each addressed peer exactly once.
`SettlesOnce`: a promise never changes its answer.

### WhenLive: waiting for a route

`liveness_core.cpp` (waiters), the parked spawns of `spawn/pipeline.cpp`, and the
parked calls of `api/session/rpc.cpp`: a callback, a spawn under a parent that is
not there and a call to a route that is not live all wait for the route. The
route comes (perhaps after its scene is loaded), is hidden, comes back, or never
comes and the deadline passes. `todo` is what the handler in progress still has to
do; between two of its steps the game may act.

The order in which waiters of different routes are swept is left open.
`WAIT_ADOPT` and `WAIT_SPAWNER` parks, waiters that survive a reparent and the
`transfer_generation` check are not modelled; give-up and expiry are one action.

`WaitersAreKept`: a waiter is answered once, a parked spawn is woken when its
parent lives, none is left behind by a route that is gone. `CalledWhileLive`: a
callback that is told its route lives is called while it does. `CallsInOrder`
(part "parked"): calls of a sender to a route run in the order they came, parked
or not.

### ConnectAttempt: joins

`connect/core.cpp` with the states of `session_core.cpp`. The model is a stack of
the C++ calls in progress; a frame of the game lies on it wherever the code calls
out (a promise settles, a signal is emitted), and `Habits`, a set of pairs of a
place and a call, says what the game does there. A peer the game asks for while no
attempt is under way is an attempt without a promise. Peers come into being, are
assigned, connect, are refused, vanish and are closed.

Providers, probes, browsing, the address book and configuration callbacks are not
modelled; the own session refuses for one reason; the leave of a host has the
shape of a client's. A peer assigned inside the callback of a ticket claims its
offer. A peer whose last reference is dropped counts as closed.

`AttemptsAreWhole`: an attempt is answered once, one runs at a time, no peer is
left open that nobody has, a failure is announced once, the attempt and the
session follow each other. `JoinsResolveTrue`: a join resolves on the peer that was
made for it, a session exits what it entered, and moves along legal edges. Part
"joins" takes the habits in which these hold; findings 18 to 23 are the others.

### Admission: who is let in

The server's side of a link, from the peer the transport brings to the player that
is published. `row` holds all of one peer id: the transport and what
SceneMultiplayer says of it (`inner`), the link's `LinkHandshake`, the packets each
way, the pending admission with its promise, the player, the roster, the peers
settled away (`settled_peer_departures`) and those to be dropped
(`turned_away_peers`). `halt_joins` are the joins parked while a new server waits
for reports. A poll is `session_poll_admissions` (what is overdue), then what the
transport brings (one action per packet: hello, join, confirmed, completed, leave; a
link begins or ends), then `poll_ends` (the turned away and the refused). Promises of
providers and the handler settle at any time (`session_admission_settled`), also
those of links that are gone; `Declare` is a declaration made anew or one whose
object was freed; `player_kick` is the game's.

`auth_receive_join` runs the whole of `session_take_join`, and with it, where no
admission is declared, `session_finish_join`: the former player of the account
leaves, the link is told it is admitted, or the player is published if the link is
through already. A message is its kind; "foreign" and "other" are of another build.
The dial counts the links of an id, which the code does not do: it is there to say
which link a verdict was asked for. Which of several players of an account
`player_find_account` returns is left open. The client answers hello and ADMITTED as
the library's own client does.

Not modelled: proofs that the server challenges a client for, the game's own
authentication callback, a join sent over a link that is connected, entities kept for
an account that returns, and what the roster tells the others.

`AdmissionsAreSound` has three parts. `PlayersAreAdmitted`: a player's link is
connected, on the roster, and the verdict was asked for that link. `AccountPlaysOnce`:
no account plays twice, nor beside the server's own player. `RefusedStaysOut`: a link
that was refused is never completed, and whoever was settled away holds no player.
Two exceptions are named in the formulas and are findings 32 and 33. `NoLinkWaits`, in
`EveryPromiseSettles`: no link authenticates for ever, nobody who was turned away
stays, no verdict is awaited for ever.

Bounds: two peer ids, two accounts of which one is the server's, guests. "admits" has
one provider, two links and one new declaration; "rejoins" has no provider and three
links, so that an id is used again while another link of the account is under way.

### What settles

`EveryPromiseSettles` says that ever again nothing waits: no deferred call, no
pending request, no waiter, no attempt and no link that authenticates. It assumes that the session polls:
windows pass, drains go on, deadlines are swept (weak fairness per transaction,
for a sweep takes all that are due), handlers and callbacks return, a scene that
loads is loaded or found missing (strong, since a route may be hidden and shown
meanwhile), and that a connection that is tried is answered, refused or lost. Of
links it assumes that polls begin and end and deadlines pass (weak), and that a
packet that waits is read and a link that closes is gone in some poll (strong, for
both happen only while a poll reads).
`FairPromisesSpec` assumes nothing of other peers' replies.

## 6. Entities

### RouteLease and RouteIds: no route twice

The server mints routes from a counter and leases blocks to clients, who mint from
them; a spawn the server admits spends its block and refills it. When the server
leaves, another takes over: peers report what is left of their leases and the
highest route they know, and the halt ends when all reports are in or the deadline
passes. `RouteIds` is the promise: routes are handed out, and none to two entities.
`RefinesIds` says that `RouteLease` implements it (with `Ids!Spec` in the form TLC
checks fastest, `Init` and a step or a stutter).

The grants of the server are kept by peer, since the code looks at one peer's at a
time. The order in which the queues of a halt are served decides only which peer gets
which block; it is left open, so that those queues are sets and no founder is special
(the two of the run are permuted by its symmetry). A block of a lease that is used up is
always the first: `lease_spans` and `spend_lease` drop it, or what is before the one
used, as the loops of the code do.

The move happens at all peers at once, messages of the old term are dropped, and
who has learned of a route is a choice when it is minted and admitted. A report is
sent in the poll of the move (`ReportFits`) or ends in a later one. Releasing the
worlds of peers that rejoin is not modelled.

`LeasesAreSound`: a route is minted by one peer, once; no member holds a route that
may still be minted; and a peer whose report came is held to hold what it may mint.
Section 9 proves it, and the refinement. `LeasedSpawnAdmitted`: a spawn under a route
of its sender's lease is not dropped (without a move; finding 9 lists what moves
do to it). `LeasesCome`: a client without a route gets one and halts end, when
clients spend their leases on spawns that are flushed and no move drains them.

### LaneTenure: who may write a lane

One writer and one reader of some lanes, each of which learns of a decision when
the control layer tells it. A decision parks the lane of the writer that loses
control, resumes one it gets back, and at the reader raises the floor, lands or
drops what was held and answers a parked OPEN. The tables of rows are
`RowStream`'s; anchors, epochs, hides and stray RESETs are not modelled.

`TenuresAreFenced`: the reader takes no row of an earlier tenure than the one it
has; the list of parked lanes is the lanes that are parked. A tenure here sends
fewer rows than its span; the real span is 256 and two tenures make a gap of 512
rows (finding 12 is what happens above it). `ControlSettles` says that, when
decisions are over, the writer in charge is heard.

### ControlClaim: who is in charge

The server's `Control` and the copy of each peer, the requests on their way, the
pending and the abandoned ones at the issuer. Claims time out, grants come late
and are given back, copies are freed and shown again, soft holds are taken back.
`HandsOn` lets a handler of `control_changed` at the server hand the entity on.

Immediate and fixed transfers, the host's own claims (which have no lag), claim
images, adoption and departures are not modelled, nor are the two refusals of
`decide_request` that look at none of this state (`api/entity.cpp:1470`): of an entity
whose transfer is fixed or immediate, and of a requester that does not control the
entity it names as its source.

`ClaimsAreAnswered`: a copy agrees with the decision of its revision; a request is
settled by the decision about itself; no claim that failed at its issuer leaves
the issuer in charge. `ResolvesInCharge`: a claim resolves on a copy its peer
controls. `ControlSettles`: copies that are shown come to the last decision.

### Fairness

Links deliver (weak), a poll sends what is armed and takes what came, the deadline
of reports passes, a lane in service sends a row. The game owes nothing.

## 7. Storage

### Database

`persist/database.cpp`: operations queue, lock their records, are issued to a
connection and answered in an order of the backend's choice, or inside the call
itself (`Prompt`, part "quick"). The stack has the pump, the settling of an
operation, the callbacks of its promise, the flushes that are released. Callbacks
submit, flush, open and close. A record's value is the set of operations that
contributed to it, so that a patch over a stale base shows.

Schemas, migration, envelopes, scans and snapshots are not modelled; `clear`
happens at destruction only; `FAULTED`, which nothing sets, is left out.

`OperationsAreOrdered`: locks are exact, a patch is applied to the current value, and
operations on one record settle in the order they were admitted.
`ConnectionsAreSound`: no connection is closed under an operation, reached by another
slot's, or left open; a flush that answers OK answers after what was admitted
before it.

### FileStore

One record in two formats and the staging file: stage, store, rename, remove the
stale one. A process dies at any step and the next may be configured with the
other format; the disk may be full, a file may not open, not be renamed or not be
removable. Power loss
(what the operating system has not yet written) is not modelled.

`ReadsLastWritten`: an idle store reads the value last written or erased, or, after
an interrupted operation, that or what it was to leave. `KeepsUntilRename`: a
replacement that fails or dies before its rename leaves the record whole.

### SavedEntity

One record and the nodes that carry it one after the other (`Lives`): they enter,
load, change, are saved by the tick or a flush, leave, and save one last time. The
database answers operations of a record in order, and the answer and its handler
are one step. A row is one value, fresh at each change unless `Reverts`. `Faults`
are rows that are refused and rows of which the answer is doubted (stored or not);
a tenure stands for the session's and for the generation of the database.
`Handover` is when the next node of the record is made: after the last save of the
former was answered ("released"), after it was sent ("sent"), or as soon as the
node was freed ("freed").

Refused roots, several property sets, writes of another authority, and game
callbacks that re-enter are not modelled; the interval of each node is a choice.

`RowsAreKept`: a value that was stored is not overwritten by an older one; a node
whose load was published while it lived does not go with changes unsaved; a flush
that answers OK has stored what it found changed. `CleanIsTrue`: what a node calls clean is what the database
holds; a node in the tree of the server is bound. The parts take the constants under
which these hold, and section 8 lists the others.

### Fairness

The calls in progress go on; the backend answers each operation and each open
(strong fairness per operation: they answer in any order); no file has to be
written; a departure settles at the end of the frame, intervals pass, a row that is
written again and again is not refused every time.

## 8. What the models found

Each item gives the property that fails, where, and what the repository says. Only
finding 9a is kept as a run (`routelease_claims`); every other one is reproduced by
running the component with the constants given, against the property named, which
the component's module states. The passing runs take the constants that leave the
case out, and their comments say so.

1. `OpenBasis`, `BothEvictTheSame` (3 keys, `Capacity` 2, a refusal).
   `api/session/sync.cpp:1051`: a RESET with token 0 clears the writer's basis alone, with
   the order in which keys entered, so the two ends no longer evict the same key;
   `WIRE.md:443` says "so both ends evict the same key". It costs a round trip and
   never a wrong field (`BasesAgree`, `StreamsSettle`).
2. `DatagramAcks`, `EchoReportsWhatCame`. `datagram_seq_book.cpp:52`: a step of exactly
   32 clears the history where bit 31 should be set. `WIRE.md:64`: "bit i is set
   when inbound seq ack - 1 - i was seen". What came may count as lost.
3. `ControlQueue`, `CloseIsKept` (2 requests, 2 tokens, 2 moves).
   `wire/control_scheduler.cpp:105`: `drop_token` goes by the number, while the queue holds
   tokens of both directions. A reader that gives up lane 7 drops a waiting CLOSE
   of the other direction's stream 7, and the other way round a RESET, which is
   never queued again. `WIRE.md:290`: "A token is looked up under the connection that
   sent it." `StreamsSettle` shows that the rest is made up for.
4. `SettleQueue`, `CancelledNeverRuns`, `FlushLeavesNone` (3 asks). `settle_queue.cpp:115`
   and `:87`: the rows of a batch under way are a local, which neither a cancel nor
   a nested flush sees. `NetwMultiplayer.xml:2524` says a cancel "Removes the call",
   `:2538` that a flush "Runs every call queued ... until none are left".
5. `Requests`, `DepartureRejects`. `api/group_promise.cpp:128`: a peer that leaves is
   forgotten and not rejected. `NetwMultiplayer.xml:2117`: "A peer that disconnects
   counts as rejected." (`NetwGroupPromise.xml:7` says what the code does.)
6. `WhenLive`, `JumpExpiresNoCall` (`MaxJumps` 1). `api/session/rpc.cpp:768`: parked
   calls count ticks of the clock, which the first sync moves by any amount, and so
   expire at once; their waiters count ticks run.
   `tests/session_when_live_laws.cpp:76`: "so the jump of a first sync does not
   expire it".
7. `WhenLive`, `ExpiresAtDeadline` (`ParkSpan` 2, a route hidden and shown).
   `spawn/pipeline.cpp:3026`: the waiter a parked spawn leaves on its parent survives the
   cancel of the park and ends the next park of that route early.
   `tests/spawn_park_tests.cpp:76`: "a wait expires once the count reaches its
   deadline".
8. `LaneTenure`, `EvictsAParkedLane` (`MaxRepairs` 1, two routes). `store/peers.cpp:700`:
   a second READY takes a parked lane out of the park and leaves it in the list of
   parked lanes; the next eviction closes a lane in service. `WIRE.md:303`.
9. `RouteLease`, `RoutesStayDistinct` and others. (a) `MaxClaims` 1:
   `api/session/entity.cpp:3270`, claiming routes does not ask for the halt of a move, so
   a new server mints from a counter below leases it has not heard of; `WIRE.md:932`:
   "so every route in the session stays distinct". (b) `ReportFits` FALSE, 1 mint:
   `api/session/transfer.cpp:856`, a report in two frames whose sender is dropped in
   between loses its floor, and a spawn it sent was admitted. (c) `HonestSpawnAdmitted`
   with a move: `transfer.cpp:669`, a route minted before the move whose spawn is
   flushed after it is in no report; the spawn is dropped without a word. (d)
   `LeaseComes` with a move, or with 2 discards: `entity.cpp:1278`, a client that had
   none left at the move is granted none; `spawn/pipeline.cpp:1084`, routes given up by the
   client still count at the server. `lifecycle/rule.cpp:245`: "More are granted as its
   spawns are admitted".
10. `LaneTenure`, `ReaderWithinLimit`. `store/peers.cpp:882`: a lane that loses control
    while it opens is closed without a CLOSE; the reader keeps what it mints for
    it. `WIRE.md:306`: "so it holds at most what the writer's limit allows".
11. `ControlClaim`, `AnsweredForItself` (`MaxHides` 1). `entity/control.cpp:170`: a copy
    shown again counts its requests from 1 like the copy before it, and takes the
    answer to the old one's. `WIRE.md:756`: "minted by the issuer, per entity".
12. `LaneTenure`, `NoneOfAnEarlierTenure` (`MaxRowsPerTenure` 4, span 1).
    `wire/stream_book.cpp:256`: more than 512 rows in a tenure lie above the floor of the
    next but one; when control left and came back unheard by the writer they are
    taken. `WIRE.md:314`: "every revision of an earlier tenure lies below it".
13. `ControlClaim`, `NoOneIsLeftInControl` (`MaxHides` 1): `api/replication_core.cpp:311`, a
    claim decided after its copy was hidden is granted to a peer nobody tells.
    `GivesBackOnlyTheLate` (2 asked): `api/entity.cpp:1327`, the late grant of a claim
    that timed out makes the copy release what a second claim was granted.
14. `ControlClaim`, `ResolvesInCharge` (`HandsOn` {"server"}). `api/entity.cpp:1600`:
    the revision and hold of a decision are read after the handlers of
    `control_changed` ran, the controller before. When one hands the entity on, the
    claimant resolves a claim while another is in control.
15. `FreshGate`, `RefusesOnlyTheOld` (`MaxSilence` 4, which `LinkAssumption` excludes). `repl/freshness_book.cpp:23`:
    nothing ages the gate of a route and channel that is silent for 32768 datagrams,
    nine minutes; what it sends next is refused as long again.
16. `Database`. `SettlesInOrder` with batches: `persist/database.cpp:462`, an operation
    that is blocked does not keep its other records for it, and a later write
    overtakes a batch. `ClosesAfterItsWork` with `FlushCalls` {"submit", "close"}, with
    {"submit"} and `Prompt`, or with {"close"}, `Prompt` and a game that opens where a
    close is answered: `:366`, the queue is looked at before the flushes are answered
    and not after, so a close releases the connection over an operation, and the
    locks with it (`LocksAreExact`). `ReachesItsOwnSlot`, the
    same with two slots: `:275`, that operation is then issued to the next slot.
    `NoConnectionLeftOpen` with `Reopens`: `api/session/persistence.cpp:243`, an open that
    is refused lets the connection it asked for go. `FlushWaitsForEarlierOnly`:
    `:356`, a flush waits for all that is admitted after it as well. `EndAnswersAll`:
    `:102`, the promises of an open and a close are dropped at the end.
17. `FileStore`. `ReadsLastWritten` with `Switches` and a crash: `persist/file_store.cpp:152`,
    both files are left and a later process of the other format reads the older.
    With `ShortWrites`: `record_file.cpp:173`, a staging file cut short by a full disk is
    renamed over the record. `OneFile` with `StuckFiles`: `file_store.cpp:154`, the
    result of removing the stale file is dropped.
18. `ConnectAttempt`, `OneAttemptRuns`, habits `<<"frame", "join">>`, `<<"trying", "join">>`,
    `<<"skipped", "join">>`, 3 tickets: `connect/core.cpp:628`, a callback of the cancelled attempt begins one
    that the outer call overwrites.
19. `ResolvesOnItsPeer`, habits `<<"frame", "join">>`, `<<"trying", "create">>`,
    `<<"outbid", "assign">>`: `core.cpp:775`, a peer the game assigns while a join makes its
    own takes that join online.
20. `AttemptFollowsSession`, habit `<<"entered", "cancel">>`: `core.cpp:813`, a handler of "entered" that cancels leaves
    the attempt online with the session offline.
21. `ExitsWhatItEntered`, habit `<<"exiting", "leave">>`, and `MovesAlongEdges`, habit
    `<<"exiting", "unassign">>`: `session_core.cpp:90` and `:91`, the state
    is set after the handlers of "exiting" ran; one that leaves emits it twice, one
    that clears the peer ends disconnecting after offline.
22. `FollowsItsPeer`, habit `<<"leaving", "assignOwn">>`, `OwnPeers` 2: `session_core.cpp:123`, a peer assigned while a leave waits is left
    open under a session that goes offline.
23. `ClosesTheRefusedPeer` (`HearsLate`): `api/netw_multiplayer.cpp:3339`, the deferred
    close of a refusal does not say of which peer, and closes that of the next join.
24. `SavedEntity`. `NoLostUpdate` with `Handover` "freed": the last write of a node
    freed while an earlier one is in flight is submitted after the read of the next
    node, which loads the older row and overwrites the last change
    (`api/session/persistence.cpp:1207`). The same with "sent" and refused rows: a last
    write that is retried overwrites saves of the next node.
25. `FreeingSaves` (`Gated`, one life): a root mounted and freed before its first read
    finds no row (`mount(1)`, `exit(1, TRUE)`, `read_settled(TRUE)`, `settle_departure(1)`).
    `api/session/persistence.cpp:721`: the load succeeds, but `persist_publish` returns where
    the root is gone, so the root stays withheld and the departure releases the
    binding with no last save, though nothing was in the database to overwrite.
    `LeavesItsLast` with `Reloads`: the same for a root freed while an explicit reload
    is out. `NetwPersistence.xml:17`: "Freeing the root saves one last time, unless it
    never entered the tree".
26. `LivingIsBound` with `Readmits`: a node put back in the tree while its last write
    is out is released when that answers and never saved again.
27. `CleanMeansStored` with `Reverts` and doubted rows: returning to the baseline
    counts as clean though the database holds the doubted value
    (`persistence.cpp:1039`).
28. Not stated as properties: `free()` followed at once by a flush or a leave answers
    OK and loses the row of the node, whose departure settles at the end of the
    frame (`NetwSession.xml:138`: "including rows of entities that already left"); a
    row that changed while its write was in flight is not in a flush
    (`NetwSession.xml:144`: "every changed row is stored").
29. `CommandLane`, `OwnerKnowsTheTruth` (`LateRows` TRUE). `repl/session_send.cpp:364` and
    `predict/engine.cpp:12754`: a row of state carries its ack without the epoch it
    counts in, and is believed once an ack of the new epoch has come. A row of the
    old epoch that this ack overtakes gives the owner an ack the server has not
    reached, and the owner runs further ahead than `NetwPrediction.xml:379` allows ("The
    most ticks a client may predict ahead of the last input the server
    acknowledged"), until the tape catches up.
30. `CommandLane`, `AllServed` (`BUFFER` = `HORIZON`, which `BufferAssumption` excludes).
    `api/prediction.cpp:382` bounds `replay_buffer_depth` below and not above: from 64 on the
    owner holds at its horizon before the buffer of the server is full, and
    neither ever moves.
31. `CommandLane`, not stated as a property: a server that is wired anew while its
    owner is not (`predict/engine.cpp:13293`, `:13300`) takes the epoch for a new one and
    runs the commands that no ack named a second time.

32. `Admission`, `PlayersAreAdmitted` without its first disjunct (a halted server, 2
    links). `api/session/rpc.cpp:340`: a link that ends while it authenticates is forgotten
    by `auth_forget_link`, which leaves `halt_joins` alone, unlike
    `session_settle_peer_loss`. The join that was parked is accepted when the halt ends,
    finds no link that joins, and its player is published for a peer that is gone;
    nothing takes that player away again.
33. `Admission`, `AccountPlaysOnce` without `beside` (2 links). `api/netw_multiplayer.cpp:2203`
    looks for the account among the players that are published, and a link that was
    admitted has none until it is through. Two links of one account that are admitted
    in the same moments both play. `NetwPlayer.xml:30`: "A second join with the same
    account replaces this player".
34. Not stated as properties: the former player of an account is turned away before
    the handler of the new join is looked at (`api/netw_multiplayer.cpp:2209`, `:2228`), so
    a join that fails there loses both; and `turned_away_peers` goes by peer id, so an
    id that is used again within two polls is dropped in the place of the former.

## 9. Proofs

Each proof module states a theorem after the lemmas it rests on; they hold for every value of
the constants that meets the named assumptions of the component, without a bound.

| Module | Theorem | What holds always | Beyond the component's own assumptions |
|---|---|---|---|
| `RowStreamProofs` | `TypeCorrect`, `Invariant` | `TypeOK`, `IInv` | |
| | `ImagesCohere`, `RowsDecodeExactly`, `RequestsKeepTheirToken`, `OnlyTheLostAreReset` | `Coherent`, `DecodesExactly`, `OneTokenPerRequest`, `ResetsOnlyTheLost` | |
| | `ReaderAdvances`, `LostStaysLost` | `PositionAdvances`, `NeverRevived` | |
| | `AckedIsReceived` | `AckedWasReceived` | no rebind |
| | `BasesAreKept` | `BaseIsKept` | no rebind, `DeltaSpan <= ReceivedDepth` |
| `OpenBasisProofs` | `NeverLedAstray` | `BasesAgree` | |
| `DatagramProofs` | `EchoesTrue`, `GateTrue` | `EchoesAreTrue`, `GateIsTrue` | |
| `RequestsProofs` | `RequestsKept`, `PromisesSettleOnce` | `RequestsAreKept`, `SettlesOnce` | |
| `ControlClaimProofs` | `EveryCopyAgrees` | `CopiesAgree` | |
| | `AnswersAreTheirOwn` | `AnsweredForItself` | `MaxHides = 0` |
| | `ClaimsResolveInCharge` | `ResolvesInCharge` | `MaxHides = 0`, `HandsOn = {}` |
| `RouteLeaseProofs` | `LeasesSound`, `LeasesImplementRouteIds` | `LeasesAreSound`, `RefinesIds` | `Prompt` |
| `FileStoreProofs` | `TypeCorrect`, `ReplacesOrKeeps` | `TypeOK`, `KeepsUntilRename` | |
| | `ReadsWhatWasWritten` | `ReadsLastWritten`, `OneFile` | `Reliable` |
| `DatabaseProofs` | `TypeCorrect` | `TypeOK` | |
| | `FlushesWait` | `FlushIsHonest`, `EndAnswersTheQueue` | |
| | `ConnectionsClosed` | `NoConnectionLeftOpen` | `~Reopens` |
| | `WorkServed` | `ClosesAfterItsWork`, `ReachesItsOwnSlot` | `Calm` |
| | `ConnectionsSound` | `ConnectionsAreSound` | `Calm`, `~Reopens` |
| | `OrderKept` | `OperationsAreOrdered` | `Calm`, `Apart` |

The safety properties are not inductive; below is what each rests on. `ResolvesInCharge`,
`KeepsUntilRename` and `ReadsLastWritten` are here those of `ControlClaim` and
`FileStore`, which `MCEntities` and `MCStorage` take for each of their parts.
`Calm` and `Apart` are defined where they are used; the run `storage_sound` meets both, and
finding 16 is what fails without them.

### RowStream: one name, one image

`Coherent` rests on an argument of two halves.

1. *Records* (`Agreed`). Requests come from one counter and tokens from another.
   While a request stands, the lane at the reader's end, every READY that answers
   the request and the token the writer seats all agree, and nothing on the link
   can end that lane: a CLOSE or a HIDE is only put there when no request stands,
   and the link keeps it before the OPEN that follows (`HidesFirst`). Most steps
   are instances of one lemma, `StandingStep`.
2. *Images* (`Says`, `NothingAhead`). `Says(token, rev, c, v)`: some copy
   anywhere claims that column `c` of revision `rev` of stream `token` holds `v`; a
   delta also claims what its base holds in the columns it leaves out. Every step
   but a send says nothing new (`NothingNew`); a send says something new only of
   the next revision, of which nothing was said before (`NothingAhead`), and it
   says one thing. Landing a row says nothing new because decoding is exact, and
   decoding is exact because the base and the delta agree where the delta is
   silent, which is `Coherent` again.

### RowStream: what the reader keeps

`BInv` says that the reader's ring holds one image of a revision, none newer than
the row that was accepted. A row that lands pushes out only images that are
`ReceivedDepth` revisions back (`LandedKeeps`, by counting the newer ones:
revisions are distinct, so as many newer images lie in as many revisions).
`Vouched` adds that every receipt, wherever it waits, and the writer's baseline
are revisions the reader landed under that token and keeps until the ring is
full again. `BaseIsKept` follows when the span of a delta fits the ring; the code
has 32 for both (`SNAPSHOT_DELTA_SPAN`, `RECEIVED_DEPTH`). `Vouched` is not claimed of
a reader that declares the property set again: `Rebind` forgets the images and
keeps the lane, and the next delta finds no base and is answered RESET.

### OpenBasis

`BasesAgree` speaks of the next frame and of what both ends hold now; the argument
needs what lies between. `Linked` says that there is an *image* before and after
every frame on the link, what the writer last meant for each key: the reader's
basis is part of the first, the writer's of the last, and each OPEN of a frame
leads from image to image, leaving out only what the image before it held
(`Tells`). Whatever either end evicts or forgets leaves these true, since a basis
need only be part of its image. The reader resolves an OPEN to what was meant or
not at all (`ResolvesMeant`, by induction over the OPENs of the frame), and not at
all only if it held nothing of the key, so that what it notes is part of the next
image (`HeardRecalls`). Nothing is assumed of the check byte.

### Datagram numbers

Both components hold a datagram's count beside its number, and both rest on one
fact: among counts less than half the modulus apart, the number decides which is the
later, and by how much (`Wraps`, `Differs`, `Near`). What takes an invariant is that
the counts that meet *are* that close.

In `DatagramAcks` it has a part for each place a count waits. A datagram on the way is
within `Lifetime` of the last sent (`LinkIsYoung`). The receiver holds the number of
the newest that came, and each bit of its history is a datagram that came
(`ReceiverKnows`). An echo on the way says what was true when it left, and so names
only what came since, which never becomes false (`EchoesCame`). What still waits in
the ring is within `Depth` of the last datagram that was settled (`RingIsRecent`), and no
more than `Silence` were sent since (`SettledCame`), so that an echo's number means one
of them. What was reported lost lies further behind
an echo the sender has read than any history reaches (`LostWasPassed`), which no later
echo undoes, so it is never reported delivered as well.

In `FreshGate` the held number is that of the newest datagram a frame of the stream
was taken from (`HoldsNewest`), and `OpenIsNear` keeps the datagram that is being read
close to it: no stream took a datagram more than `MaxLag` newer than the one being read,
and none of its streams was silent for longer than `MaxSilence`. `GateIsTrue` is an action property and follows step by step.

### Requests

`IInv` describes the stack of callbacks: for every frame what its book still has
to tell and whom it may name, that frames below a frame are not disturbed by it,
and that whoever is named waits (`BooksAgree` alone is silent while a frame is on
the stack). A promise changes only as `Follows` allows: its group, its members and, once
it settled, its answer stay.

### ControlClaim

`decided` is a history of all decisions, and `CInv` says of each copy that the
messages queued for it *lead* it from its revision to the standing one (`Leads`):
message by message there is a revision the copy is at once it has read them, and
what it takes at each is what was decided at that revision. A queue is extended
at its end and read at its front, a copy that is freed starts at none, and a
spawn carries the whole decision, so hides do no harm here. `TInv` ties operation
numbers to asks: while a copy is not freed, its numbers only grow, so at most one
ask has a number. With hides this fails, which is finding 11, and so the theorem
asks for none. `OInv` says that a grant on its way is newer than what the copy
holds and than every grant before it. Handlers that hand control on break it,
which is finding 14.

### RouteLease

`LeasesAreSound` compares all peers with each other; what it rests on is mostly said peer
by peer. `PeerOK` follows the routes one peer may mint in the order in which it will: the
blocks of its lease, then those on their way to it, each after the last (`InLine`). What
it minted and the server has not heard of, armed or in a spawn on the link, comes before
them (`MintedBefore`), so that admitting such a spawn spends nothing of what is still to
be minted. Nothing of the peer lies above its *ceiling* (`Below`): the counter of the
server or, while its report is awaited, the greater of that and the floor the report
carries. A peer that is awaited has its report first on the link, with all that it may
mint, and nothing was granted to it since (`Reports`); what any other may mint is within
what the server granted it (`Heard`). `Distinct` is the one part about two peers: no two may
mint one route, and nobody knows a route that another may still mint. `Quiet` says that
reports have no second frame, and that who is not in the session sends and knows nothing.

Each action touches the line of one peer, gives new blocks above the counter
(`Granting`, in whatever order), or ends the halt; `Views` restates the invariant with all it
speaks of as arguments, so that what one peer's step does is proved once (`PeerStep`) and
the others are carried along (`PeersOn`). A move is the hard step. It drops what is on
every link, reads the ceiling of each peer off its report (`RouteFloor`) and leaves the
new server with the counter `route_floor`. The halt ends with
the counter above every floor that came, and those whose floor did not come are gone
(`Settling`).

`Prompt` asks that a report goes out in the poll of the move (`ReportFits`) and that
nobody claims routes during a halt (`MaxClaims = 0`); finding 9 (a) and (b) are what the
code does otherwise, and `routelease_claims` shows the first. `entities_sound` meets both.

For the refinement, a client owns what is in its line. Minting is `Mint` or `MintFresh`;
every other step is a stutter or `Give` (`Passes`), in which the peers that go lose what they
owned. A step that frees and grants in one, such as a departure that ends a halt, is why
`Give` allows for both.

### FileStore

`Shaped` types the operation under way and says what a replacement knows of the
file it replaces; it is enough for `KeepsUntilRename`, whatever fails. `Stored`
follows the operation from call to call: what is staged, renamed, and still to be
hidden. `Reliable` names the two cases in which a read finds what was written:
writes are whole, and either the format is never switched or it is switched while
no file gets stuck and no process dies. Outside of them the code does not promise
it, and section 8 says how it fails.

### Database

The stack may hold any depth of calls inside answers, so each invariant has a part
about the stack, and lemmas that say when a frame may be put on it (`Framing`,
`ResumedPush`, `FreedPush`) or taken off it.

`Calmed` is about the end of a close: while a *finish* frame lies on the stack and the
database closes, nothing is queued and no flush waits, and as long as anything lies
over that frame the database stays open or closing. That is what `Calm` buys, and finding
16 is what happens without it. `Working` follows: what is queued is of the connection in
use and of this generation, and that connection is open. `Exact` says the locks of
the issued rows and nothing else are held, and with it two operations that are
outstanding share no record (`Disjoint`), so a patch still finds what it read.

`Ordered` is about the walks of `pump`. One that was interrupted by an answer goes on
from its row, though the queue may have lost rows before it in between. `Resumed` says
where such a walk can lie on the stack, and `WalksOn` that on top it has passed only rows
that are issued or blocked. Since a batch is blocked by any of its records, the row
issued next has nothing before it that it shares a record with (`Behind`) only if
operations name the same records or none in common: `Apart`. `InTurn`, the order of
the answers, is then immediate.

`Claimed` says of every connection still awaited that it is the one the database
waits for, or is written down as abandoned, under a generation that is over or
closing. `Honest` says of every flush that is being released that what it waits for has
left the queue; neither needs to know what the game calls.

### What is only model-checked

All liveness, which is beyond the prover, and every invariant of the modules that are
not in the table. Where a report takes two polls the leases are only checked to end
their halts. Of `ClaimsAreAnswered`, two of
the four parts are proved; `NoOneIsLeftInControl` is not, since it rests on the
give-back that a full book of abandoned claims drops. `SettleQueue` and
`ConnectAttempt` filter their queues (`SelectSeq`), of which the prover's library says
nothing and which it cannot unfold by induction.

## 10. Not modelled

- Interest (`interest/`), scene membership and loading: who sees what is a free
  choice in `RowStream` and `WhenLive`. Next in line after this.
- Of admission: proofs, the game's authentication callback, the roster's names,
  kept entities (section 5).
- Window and retained families of rows, anchors, the column store's slots.
- Reparenting, adoption, the placement of nodes.
- Of prediction: `SCHEDULE_TICK`, comparison and recovery (the replay after a
  divergence), quarantine and fallback, the relay of commands, islands. Clock, lag compensation, display, simulation and
  bodies: floating-point over physics, which TLC cannot enumerate; link shaping,
  a test double of the network.
- Wire formats: pure bit-level round trips, which unit tests enumerate.
- Schemas, scripts, diagnostics, editor and engine glue: sequential, and no state
  of the protocol depends on them.

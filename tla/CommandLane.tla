---------------------------- MODULE CommandLane ----------------------------
(* The commands of one predicted entity, from the peer that steers it to the  *)
(* server, at SCHEDULE_FRAME or SCHEDULE_STEPPED (api/predict_slot_engine.cpp *)
(* and predict/engine.cpp over predict/drive.cpp and predict/journal.cpp).    *)
(* The owner writes one command a frame on its tape, runs it, and sends the   *)
(* newest few that no ack names; the server runs one command a frame, in the  *)
(* order of the tape, behind a buffer, and acks what it ran.  The owner holds *)
(* once it is a horizon ahead of the acks.  Either end is wired again at any  *)
(* time: the owner then begins a new epoch of its tape, and the server        *)
(* forgets what it holds.  Frames are lost, and one that a later frame of its *)
(* channel overtook is refused (FreshGate).                                   *)
EXTENDS Integers, Sequences, FiniteSetsExt

CONSTANTS
    HORIZON,        \* ACK_AGE_MAX
    WINDOW,         \* the window of the input set, and two
    BUFFER,         \* replay_buffer_depth
    CEILING,        \* max_consume_lag_ticks; 0 never skips
    ACK_WINDOW,     \* ACK_WINDOW_MAX
    ACK_RECORDS,    \* ACK_RECORD_MAX
    MaxIndex,       \* bound on the commands of an epoch
    MaxEpoch,       \* bound on the epochs of the owner
    MaxRewires,     \* bound on the rewires of the server
    MaxFlight,      \* bound on the frames under way in a direction
    LateRows        \* a row of state may be overtaken by an ack

SizesAssumption == {HORIZON, WINDOW, ACK_WINDOW, ACK_RECORDS, MaxEpoch, MaxFlight} \subseteq Nat \ {0}
(* A buffer of the whole horizon never fills: the owner holds, and so does the server. *)
BufferAssumption == {BUFFER, CEILING, MaxIndex, MaxRewires} \subseteq Nat /\ BUFFER < HORIZON
Assumptions == SizesAssumption /\ BufferAssumption /\ LateRows \in BOOLEAN

Index == 0..(MaxIndex - 1)
Epoch == 1..MaxEpoch
None == 0                           \* no epoch, no command
Missing == -1                       \* filled in, nobody wrote it
Skipped == -2                       \* left out, to catch up

VARIABLES
    epoch,          \* owner: Slot::tape_epoch
    next,           \* owner: next_tape_entry_index
    authority_ack,  \* owner: latest_authority_ack
    ack_of_acks,    \* owner: lane_cursor.ack_of_acks
    confirmed,      \* owner: lane_cursor.ack_domain_confirmed
    command_epoch,  \* server: the epoch it follows
    owner_floor,    \* server: owner_ack_floor
    cursor,         \* server: replay_cursor
    ack,            \* server: lane_cursor.ack
    inputs,         \* server: each command held, by the epoch it was written in
    journal,        \* server: rows [at, ran, closed], oldest first
    forth, back,    \* frames under way, oldest first
    done,           \* history: the newest command run or skipped in each epoch
    rewires         \* rewires of the server so far
owner == <<epoch, next, authority_ack, ack_of_acks, confirmed>>
server == <<command_epoch, owner_floor, cursor, ack, inputs, journal>>
vars == <<owner, server, forth, back, done, rewires>>

Last(s) == s[Len(s)]
Larger(x, y) == IF x > y THEN x ELSE y
Sent(way, frame) ==     \* where there is no room the oldest frame is lost
    LET all == Append(way, frame)
    IN  IF Len(all) > MaxFlight THEN Tail(all) ELSE all

Init ==
    /\ epoch = 1 /\ next = 0 /\ authority_ack = -1 /\ ack_of_acks = -1
    /\ confirmed = TRUE
    /\ command_epoch = None /\ owner_floor = -1 /\ cursor = -1 /\ ack = -1
    /\ inputs = [i \in Index |-> None] /\ journal = <<>>
    /\ forth = <<>> /\ back = <<>>
    /\ done = [e \in Epoch |-> -1] /\ rewires = 0

-----------------------------------------------------------------------------
(* The owner. *)

horizon_full == next - authority_ack - 1 >= HORIZON

(* build_command_frame: what no ack names yet, at most a window of it. *)
CommandFrame(upTo) ==
    [epoch |-> epoch, floor |-> ack_of_acks,
     from |-> Max({0, ack_of_acks + 1, upTo - WINDOW}), until |-> upTo - 1]
send_command_frame(upTo) ==
    forth' = IF CommandFrame(upTo).from > CommandFrame(upTo).until THEN forth
             ELSE Sent(forth, CommandFrame(upTo))

(* predict_frame_step: a frame writes the next command and runs it. *)
Author ==
    /\ ~horizon_full /\ next < MaxIndex
    /\ next' = next + 1
    /\ send_command_frame(next + 1)
    /\ UNCHANGED <<epoch, authority_ack, ack_of_acks, confirmed, server, back, done, rewires>>

(* predict_frame_step held at the horizon, and a frame of simulate_solver that *)
(* does not simulate: the commands are sent again.                             *)
Hold ==
    /\ send_command_frame(next)
    /\ UNCHANGED <<owner, server, back, done, rewires>>

(* rewire_on at the owner: a new epoch begins (reset_for_rewire, reset_tape). *)
OwnerRewires ==
    /\ epoch < MaxEpoch
    /\ epoch' = epoch + 1 /\ next' = 0 /\ authority_ack' = -1 /\ ack_of_acks' = -1
    /\ confirmed' = FALSE
    /\ UNCHANGED <<server, forth, back, done, rewires>>

-----------------------------------------------------------------------------
(* The server. *)

held == {i \in Index : inputs[i] # None}

(* admit_command_frame: an epoch that is not the one followed begins anew. *)
Follows(frame) == frame.epoch = command_epoch
AdmittedOver(kept, frame) ==
    [i \in Index |-> IF kept[i] = None /\ i \in frame.from..frame.until
                     THEN frame.epoch ELSE kept[i]]
\* Mutant of Admitted: a new epoch keeps the commands of the last.
AdmittedOntoOld(frame) == AdmittedOver(inputs, frame)

Admitted(frame) ==
    AdmittedOver(IF Follows(frame) THEN inputs ELSE [i \in Index |-> None], frame)

HearCommands(n) ==
    LET frame == forth[n]
        started == Follows(frame) /\ cursor >= 0
    IN  /\ inputs' = Admitted(frame)
        /\ command_epoch' = frame.epoch
        /\ owner_floor' = Larger(IF Follows(frame) THEN owner_floor ELSE -1, frame.floor)
        /\ cursor' = IF started THEN cursor ELSE Min({i \in Index : inputs'[i] # None})
        /\ ack' = IF Follows(frame) THEN ack ELSE -1
        /\ journal' = IF Follows(frame) THEN journal ELSE <<>>
        /\ forth' = SubSeq(forth, n + 1, Len(forth))
        /\ UNCHANGED <<owner, back, done, rewires>>

(* command_depth_from *)
Depth(commands) ==
    IF cursor < 0 THEN 0
    ELSE Cardinality({i \in Index : i >= cursor
                                    /\ \A j \in cursor..i : commands[j] # None})

(* admit_missing_commands: near the cursor, what is older than a command held   *)
(* and has not come counts as missing.                                          *)
Filled ==
    [i \in Index |-> IF /\ cursor >= 0 /\ i \in cursor..(cursor + BUFFER)
                        /\ inputs[i] = None /\ \E j \in held : j > i
                     THEN Missing ELSE inputs[i]]

(* resync_tape_if_stranded: the cursor a replay begins at. *)
Resynced(depth) ==
    IF CEILING = 0 \/ depth <= BUFFER + CEILING THEN cursor ELSE cursor + depth - BUFFER - 1

(* declare_skipped_run *)
Declared(target) ==
    [k \in 1..(target - cursor) |-> [at |-> cursor + k - 1, ran |-> Skipped, closed |-> TRUE]]

(* Journal::last_closed: the end of its closed rows, from the oldest on. *)
LastClosed(rows) ==
    LET closed == {k \in 1..Len(rows) : \A j \in 1..k : rows[j].closed}
    IN  IF closed = {} THEN -1 ELSE rows[Max(closed)].at

(* publish_ack_frame and build_ack_frame: the rows the owner has no ack of.  The  *)
(* frame names the first of them; the others count on from it.                    *)
Frontier(rows, at) == IF at < LastClosed(rows) THEN at ELSE LastClosed(rows)
AckFrames(rows, at) ==
    LET frontier == Frontier(rows, at)
        base == Max({owner_floor + 1, frontier - ACK_WINDOW + 1, rows[1].at})
        due == SelectSeq(rows, LAMBDA row : row.at \in base..frontier)
    IN  IF frontier < 0 \/ base > frontier THEN <<>>
        ELSE <<[kind |-> "ack", epoch |-> command_epoch, base |-> base,
                rows |-> SubSeq(due, 1, IF Len(due) < ACK_RECORDS THEN Len(due) ELSE ACK_RECORDS)]>>

(* What an engine sends at the end of its frame: an ack, and a row of the state,  *)
(* which names the command it ran, or none.                                       *)
Answer(rows, at, row) ==
    LET acks == AckFrames(rows, at)
        afterAck == IF acks = <<>> THEN back ELSE Sent(back, acks[1])
    IN  back' = IF row THEN Sent(afterAck, [kind |-> "row", ack |-> at]) ELSE afterAck

(* consume_frame_step that replays, and finalize_recorded_state: the ack is built  *)
(* before the row that ran closes.                                                 *)
Consume == \E commands \in {Filled}, depth \in {Depth(Filled)} :
    LET target == Resynced(depth)
        opened == journal \o Declared(target)
                  \o <<[at |-> target, ran |-> commands[target], closed |-> FALSE]>>
    IN  /\ depth > BUFFER
        /\ inputs' = commands
        /\ journal' = [opened EXCEPT ![Len(opened)].closed = TRUE]
        /\ ack' = target /\ cursor' = target + 1
        /\ done' = [done EXCEPT ![command_epoch] = Larger(@, target)]
        /\ \E row \in BOOLEAN : Answer(opened, target, row)
        /\ UNCHANGED <<owner, command_epoch, owner_floor, forth, rewires>>

(* consume_frame_step that holds or starves: its row of state names no command. *)
Idle ==
    /\ Depth(Filled) <= BUFFER
    /\ inputs' = Filled
    /\ Answer(journal, ack, FALSE)
    /\ UNCHANGED <<owner, command_epoch, owner_floor, cursor, ack, journal, forth, done, rewires>>

ServerFrame == Consume \/ Idle

(* rewire_on at the server.  The ack it had stays. *)
ServerRewires ==
    /\ rewires < MaxRewires
    /\ rewires' = rewires + 1
    /\ command_epoch' = None /\ owner_floor' = -1 /\ cursor' = -1
    /\ inputs' = [i \in Index |-> None] /\ journal' = <<>>
    /\ UNCHANGED <<owner, ack, forth, back, done>>

-----------------------------------------------------------------------------
(* The owner hears. *)

(* A frame leaves the way with what it overtakes. *)
Taken(n) ==
    IF ~LateRows THEN SubSeq(back, n + 1, Len(back))
    ELSE SelectSeq(SubSeq(back, 1, n), LAMBDA frame : frame.kind # back[n].kind)
         \o SubSeq(back, n + 1, Len(back))

(* receive_ack_frame and admit_ack_run: an ack of another epoch is refused. *)
HearAck(n) ==
    LET frame == back[n]
        newest == frame.base + Len(frame.rows) - 1
    IN  /\ frame.kind = "ack"
        /\ back' = Taken(n)
        /\ IF frame.epoch # epoch THEN UNCHANGED owner
           ELSE /\ ack_of_acks' = Larger(ack_of_acks, newest)
                /\ authority_ack' = Larger(authority_ack, newest)
                /\ confirmed' = TRUE
                /\ UNCHANGED <<epoch, next>>
        /\ UNCHANGED <<server, forth, done, rewires>>

(* open_state_comparison: a row names a command but no epoch.  It counts once an  *)
(* ack of the epoch has come.                                                     *)
HearRow(n) ==
    /\ back[n].kind = "row"
    /\ back' = Taken(n)
    /\ authority_ack' = IF confirmed THEN Larger(authority_ack, back[n].ack) ELSE authority_ack
    /\ UNCHANGED <<epoch, next, ack_of_acks, confirmed, server, forth, done, rewires>>

SomeCommands == \E n \in 1..Len(forth) : HearCommands(n)
SomeAck == \E n \in 1..Len(back) : HearAck(n)
SomeRow == \E n \in 1..Len(back) : HearRow(n)

Next ==
    \/ Author \/ Hold \/ OwnerRewires
    \/ SomeCommands \/ ServerFrame \/ ServerRewires
    \/ SomeAck \/ SomeRow

Spec == Init /\ [][Next]_vars

-----------------------------------------------------------------------------
TypeOK ==
    /\ epoch \in Epoch /\ next \in 0..MaxIndex /\ confirmed \in BOOLEAN
    /\ {authority_ack, ack_of_acks, owner_floor, ack} \subseteq -1..(MaxIndex - 1)
    /\ command_epoch \in {None} \cup Epoch /\ cursor \in -1..MaxIndex
    /\ inputs \in [Index -> {None, Missing} \cup Epoch]
    /\ \A k \in 1..Len(journal) :
           journal[k] \in [at : Index, ran : {Missing, Skipped} \cup Epoch, closed : BOOLEAN]
    /\ Len(forth) <= MaxFlight /\ Len(back) <= MaxFlight
    /\ done \in [Epoch -> -1..(MaxIndex - 1)] /\ rewires \in 0..MaxRewires

(* The server runs the commands of an epoch one after the other, each once and none  *)
(* of another epoch, and accounts for those it skips (predict/engine.cpp,            *)
(* replay_tape_entry).                                                                *)
RunsInTurn ==
    /\ \A k \in 1..(Len(journal) - 1) : journal[k + 1].at = journal[k].at + 1
    /\ \A k \in 1..Len(journal) : journal[k].ran \in {command_epoch, Missing, Skipped}
    /\ journal # <<>> => Last(journal).at = ack /\ cursor = ack + 1

(* The records of an ack have no numbers: each is of the command its place names, and *)
(* it is closed (predict/engine.cpp, build_ack_frame).                                *)
AcksNameTheirOwn ==
    \A n \in 1..Len(back) : back[n].kind = "ack" =>
        LET rows == back[n].rows
        IN  \A k \in 1..Len(rows) :
                /\ rows[k].at = back[n].base + k - 1 /\ rows[k].closed
                /\ rows[k].ran \in {back[n].epoch, Missing, Skipped}

(* What the owner takes for acked the server ran or skipped in this very epoch, so    *)
(* the owner is never more than the horizon ahead of the server, and sends again what *)
(* did not come (predict/engine.cpp, admit_ack_run and open_state_comparison).         *)
OwnerKnowsTheTruth ==
    /\ authority_ack <= done[epoch] /\ ack_of_acks <= done[epoch]
    /\ next - 1 - done[epoch] <= HORIZON

CommandsAreTrue == TypeOK /\ RunsInTurn /\ AcksNameTheirOwn /\ OwnerKnowsTheTruth

(* Of what the owner wrote no more than the buffer waits: it is run or skipped, and   *)
(* the owner hears of it, so the owner is not held for good (predict_frame_step).      *)
AllServed == next = MaxIndex /\ next - 1 - ack_of_acks <= BUFFER
=============================================================================

---------------------------- MODULE SavedEntity ----------------------------
(* The saving of one record by the entities that carry it, one after the     *)
(* other (api/session/persistence.cpp over persist/binding.cpp): a node is    *)
(* spawned or mounted, its record is read and only then published, its        *)
(* changes are written at intervals, on request and in a flush, and when it   *)
(* leaves for good what it held then is written once more.  A "life" is one    *)
(* such node: a player that comes back is another life of the same record.    *)
(* The database answers the operations on a record in their order             *)
(* (Database.tla); an answer and the handler it runs are one step.            *)
EXTENDS Naturals, Sequences, FiniteSets, SequencesExt

CONSTANTS
    Lives,          \* 1..n, in the order the game makes them
    Absent,         \* no row
    Gated,          \* NetwPersistenceConfig.load_on_spawn
    Reverts,        \* a property may return to an earlier value
    Faults,         \* what the database may do: a subset of {"refused", "doubted"}
    Handover,       \* when the record gets its next life: "released", "sent" or "freed"
    Reloads,        \* the game loads what is loaded, and despawns what is not
    Readmits,       \* a node comes back while its last write is out
    MaxChanges, MaxMoves, MaxFlushes, MaxTenures    \* bounds

SavedAssumption ==
    /\ Lives = 1..Cardinality(Lives)
    /\ {Gated, Reverts, Reloads, Readmits} \subseteq BOOLEAN
    /\ Faults \subseteq {"refused", "doubted"}
    /\ Handover \in {"released", "sent", "freed"}
    /\ {MaxChanges, MaxMoves, MaxFlushes, MaxTenures} \subseteq Nat
    /\ Absent \notin Nat

VARIABLES
    body,           \* where the node of a life is
    leaving,        \* entity_departures: an exit that is not settled
    value,          \* what the bound properties of the node hold
    binding,        \* persist::Binding of each life, or Unbound
    withheld,       \* Bindings::withheld
    queue,          \* the operations of the database on this record
    stored,         \* external: the row in the database
    host, tenure,   \* is_host(), SessionCore::tenure
    flushing,       \* a persist_flush_all that waits for the database
    asked,          \* history: the lives whose rows that flush owes
    last,           \* history: what a life last stored or loaded
    behind,         \* history: the lives that have not seen the row another stored
    changes, moves, flushes
vars == <<body, leaving, value, binding, withheld, queue, stored, host, tenure, flushing,
          asked, last, behind, changes, moves, flushes>>
history == <<asked, last, behind>>
bounds == <<changes, moves, flushes>>

Values == 0..MaxChanges
Row == Values \cup {Absent}
Unbound == [bound |-> FALSE]
Bound == [bound : {TRUE}, unmounted : BOOLEAN, loading : BOOLEAN, loaded : BOOLEAN,
          in_flight : BOOLEAN, departed : BOOLEAN, final_save : BOOLEAN, retiring : BOOLEAN,
          final_sent : BOOLEAN, failed : BOOLEAN, baseline : Row, reference : Row,
          departure : Row]
Op == [op : {"read"}, life : Lives, tenure : Nat]
      \cup [op : {"write"}, rows : UNION {[S -> Values] : S \in SUBSET Lives}, tenure : Nat]

TypeOK ==
    /\ body \in [Lives -> {"unborn", "held", "in", "despawning", "out", "freed"}]
    /\ leaving \subseteq Lives /\ withheld \subseteq Lives
    /\ value \in [Lives -> Values]
    /\ \A l \in Lives : binding[l] \in Bound \cup {Unbound}
    /\ \A i \in DOMAIN queue : queue[i] \in Op
    /\ stored \in Row /\ last \in [Lives -> Row]
    /\ {host, flushing} \subseteq BOOLEAN /\ tenure \in 1..(MaxTenures + 1)
    /\ asked \subseteq Lives /\ behind \subseteq Lives

Init ==
    /\ body = [l \in Lives |-> "unborn"] /\ leaving = {} /\ withheld = {}
    /\ value = [l \in Lives |-> 0]
    /\ binding = [l \in Lives |-> Unbound]
    /\ queue = <<>> /\ stored = Absent
    /\ host = TRUE /\ tenure = 1 /\ flushing = FALSE
    /\ asked = {} /\ last = [l \in Lives |-> Absent] /\ behind = {}
    /\ changes = 0 /\ moves = 0 /\ flushes = 0

-----------------------------------------------------------------------------
(* The record of a binding, over the bindings B and the withheld roots W *)

Alive(l) == body[l] \in {"held", "in", "despawning", "out"}

\* A departed binding answers what it captured, a freed root nothing.
live_values(B, l) ==
    IF B[l].departed THEN B[l].departure ELSE IF Alive(l) THEN value[l] ELSE Absent
is_dirty(B, l) ==
    /\ B[l].bound
    /\ live_values(B, l) # Absent
    /\ live_values(B, l) # B[l].baseline
has_unsaved_changes(B, l) ==
    /\ live_values(B, l) # Absent
    /\ live_values(B, l) # B[l].reference
awaits_load(B, W, l) ==
    /\ B[l].bound
    /\ \/ B[l].loading \/ l \in W
       \/ B[l].unmounted /\ Gated /\ ~B[l].loaded

captured(b, l) ==
    IF b.departed \/ ~Alive(l) THEN b ELSE [b EXCEPT !.departure = value[l]]
depart(b, l, save) ==
    IF b.departed THEN b ELSE [captured(b, l) EXCEPT !.departed = TRUE, !.final_save = save]

compile(l, unmounted) ==
    [bound |-> TRUE, unmounted |-> unmounted, loading |-> FALSE, loaded |-> FALSE,
     in_flight |-> FALSE, departed |-> FALSE, final_save |-> TRUE, retiring |-> FALSE,
     final_sent |-> FALSE, failed |-> FALSE, baseline |-> Absent, reference |-> value[l],
     departure |-> Absent]

Released(B, l) == [B EXCEPT ![l] = Unbound]
\* sweep_unmounted: what was bound for a root that was freed before it was mounted.
Swept(B) == [l \in Lives |->
    IF B[l].bound /\ B[l].unmounted /\ ~Alive(l) THEN Unbound ELSE B[l]]
SweptRoots(B, W) == {l \in W : ~(B[l].bound /\ B[l].unmounted /\ ~Alive(l))}

(* What stage_row takes of the lives S, and the one batch it makes of them. *)
\* Mutant of Staged: a row that still waits for its load is written.
StagedUnloaded(B, W, S) == {l \in S :
    /\ B[l].bound /\ ~B[l].in_flight
    /\ B[l].departed => B[l].final_save
    /\ is_dirty(B, l)}
Staged(B, W, S) == {l \in S :
    /\ B[l].bound /\ ~B[l].in_flight
    /\ B[l].departed => B[l].final_save
    /\ ~awaits_load(B, W, l) /\ is_dirty(B, l)}

Written(B, S) == [l \in Lives |-> IF l \in S THEN [B[l] EXCEPT !.in_flight = TRUE] ELSE B[l]]
Batch(B, S) ==
    IF S = {} THEN <<>>
    ELSE <<[op |-> "write", rows |-> [l \in S |-> live_values(B, l)], tenure |-> tenure]>>

(* persist_finish of a retiring life. *)
Owed(B, W, l, h) == B[l].final_save /\ h /\ ~awaits_load(B, W, l) /\ is_dirty(B, l)
Finishes(B, l) == B[l].bound /\ B[l].retiring /\ ~B[l].in_flight
Finished(B, W, l) ==
    IF ~Finishes(B, l) THEN B
    ELSE IF ~Owed(B, W, l, host) THEN Released(B, l)
    ELSE IF B[l].final_sent THEN B
    ELSE LET sent == [B EXCEPT ![l].final_sent = TRUE] IN Written(sent, Staged(sent, W, {l}))
FinalBatch(B, W, l) ==
    IF Finishes(B, l) /\ Owed(B, W, l, host) /\ ~B[l].final_sent
    THEN Batch(B, Staged(B, W, {l})) ELSE <<>>

-----------------------------------------------------------------------------
(* The game and the tree *)

\* The record gets its next life once the one before is far enough gone.
Ready(l) ==
    /\ body[l] = "unborn"
    /\ \A m \in Lives : m < l =>
        /\ body[m] = "freed" /\ m \notin leaving
        /\ Handover = "released" => ~binding[m].bound
        /\ Handover = "sent" => (binding[m].bound => binding[m].final_sent)

Read(l) == [op |-> "read", life |-> l, tenure |-> tenure]

(* spawn returns a root that is not in the tree yet: persist_bind_spawned. *)
spawn(l) ==
    /\ Ready(l)
    /\ body' = [body EXCEPT ![l] = "held"]
    /\ binding' = IF host THEN [binding EXCEPT ![l] = compile(l, TRUE)] ELSE binding
    /\ UNCHANGED <<leaving, value, withheld, queue, stored, host, tenure, flushing, history,
                   bounds>>

(* The root is ready in the tree: persist_enroll. *)
enroll(l) ==
    LET b == binding[l]
        mounted == IF b.bound THEN [b EXCEPT !.unmounted = FALSE] ELSE compile(l, FALSE)
        begins == /\ ~(b.bound /\ (~b.unmounted \/ b.loading \/ b.loaded))
                  /\ Gated
        known == IF b.bound /\ b.unmounted /\ ~b.loading /\ ~b.loaded
                 THEN [mounted EXCEPT !.reference = value[l]] ELSE mounted
    IN IF ~host THEN UNCHANGED <<binding, withheld, queue>>
       ELSE /\ withheld' = IF begins \/ (b.bound /\ b.unmounted /\ b.loading)
                           THEN withheld \cup {l} ELSE withheld
            /\ binding' = [binding EXCEPT ![l] =
                              IF begins THEN [known EXCEPT !.loading = TRUE] ELSE known]
            /\ queue' = IF begins THEN Append(queue, Read(l)) ELSE queue
mount(l) ==
    /\ Ready(l) \/ body[l] = "held"
    /\ body' = [body EXCEPT ![l] = "in"]
    /\ enroll(l)
    /\ UNCHANGED <<leaving, value, stored, host, tenure, flushing, history, bounds>>

(* A node that left comes back, before its departure is settled or after. *)
enter(l) ==
    /\ body[l] = "out"
    /\ l \in leaving \/ ~binding[l].bound \/ Readmits
    /\ body' = [body EXCEPT ![l] = "in"]
    /\ IF l \in leaving THEN UNCHANGED <<binding, withheld, queue>> ELSE enroll(l)
    /\ UNCHANGED <<leaving, value, stored, host, tenure, flushing, history, bounds>>

(* The root leaves the tree, kept by the game or freed: entity_capture_exit. *)
exit(l, freed) ==
    /\ \/ body[l] = "in" /\ moves < MaxMoves
       \/ body[l] = "despawning" /\ freed
    /\ body' = [body EXCEPT ![l] = IF freed THEN "freed" ELSE "out"]
    /\ leaving' = leaving \cup {l}
    /\ binding' = IF binding[l].bound
                  THEN [binding EXCEPT ![l] = captured(binding[l], l)] ELSE binding
    /\ moves' = IF body[l] = "in" THEN moves + 1 ELSE moves
    /\ UNCHANGED <<value, withheld, queue, stored, host, tenure, flushing, history,
                   changes, flushes>>

(* A root outside the tree is freed; so is one that never entered it. *)
free(l) ==
    /\ body[l] \in {"held", "out"}
    /\ body' = [body EXCEPT ![l] = "freed"]
    /\ UNCHANGED <<leaving, value, binding, withheld, queue, stored, host, tenure, flushing,
                   history, bounds>>

(* despawn: the departure is declared, saved or not, before the root is freed. *)
despawn(l, save) ==
    /\ body[l] = "in" /\ binding[l].bound
    /\ awaits_load(binding, withheld, l) => Reloads
    /\ binding' = [binding EXCEPT ![l] = depart(binding[l], l, save)]
    /\ body' = [body EXCEPT ![l] = "despawning"]
    /\ UNCHANGED <<leaving, value, withheld, queue, stored, host, tenure, flushing,
                   history, bounds>>

(* The departure is settled: a move when the root is in the tree again and was not *)
(* despawned, a death otherwise (entity::classify, persist_settle_departure).      *)
settle_departure(l) ==
    /\ l \in leaving
    /\ leaving' = leaving \ {l}
    /\ LET b == binding[l]
           moved == body[l] = "in"
           gone == [binding EXCEPT ![l] = [depart(b, l, TRUE) EXCEPT !.retiring = TRUE]]
       IN IF moved
          THEN /\ binding' = IF b.bound THEN [binding EXCEPT ![l].departure = Absent]
                             ELSE binding
               /\ UNCHANGED <<withheld, queue>>
          ELSE IF ~b.bound
          THEN withheld' = withheld \ {l} /\ UNCHANGED <<binding, queue>>
          ELSE IF awaits_load(binding, withheld, l)
          THEN /\ binding' = Released(binding, l)
               /\ withheld' = withheld \ {l}
               /\ UNCHANGED queue
          ELSE /\ binding' = Finished(gone, withheld, l)
               /\ queue' = queue \o FinalBatch(gone, withheld, l)
               /\ withheld' = IF binding'[l].bound THEN withheld ELSE withheld \ {l}
    /\ UNCHANGED <<body, value, stored, host, tenure, flushing, history, bounds>>

(* The game sets a bound property; one of a node that left the tree is worth what *)
(* was captured at its exit, so it counts as a value that returns.                 *)
change(l, v) ==
    /\ Alive(l) /\ changes < MaxChanges
    /\ v # value[l]
    /\ Reverts \/ (v = changes + 1 /\ body[l] # "out")
    /\ value' = [value EXCEPT ![l] = v]
    /\ changes' = changes + 1
    /\ UNCHANGED <<body, leaving, binding, withheld, queue, stored, host, tenure, flushing,
                   history, moves, flushes>>

(* The authority leaves this peer, and comes back. *)
authority ==
    /\ tenure <= MaxTenures
    /\ tenure' = tenure + 1
    /\ host' = ~host
    /\ asked' = {}
    /\ UNCHANGED <<body, leaving, value, binding, withheld, queue, stored, flushing, last,
                   behind, bounds>>

-----------------------------------------------------------------------------
(* Loading and saving *)

(* load: refused where it would overwrite what is not saved. *)
load(l) ==
    LET b == binding[l]
        first == b.unmounted /\ ~b.loaded
    IN /\ b.bound /\ ~b.loading /\ host /\ ~b.in_flight
       /\ (Gated /\ ~b.loaded) \/ Reloads
       /\ first \/ ~has_unsaved_changes(binding, l)
       /\ binding' = [binding EXCEPT ![l].loading = TRUE,
                                     ![l].reference = IF first THEN live_values(binding, l) ELSE @]
       /\ queue' = Append(queue, Read(l))
       /\ UNCHANGED <<body, leaving, value, withheld, stored, host, tenure, flushing, history,
                      bounds>>

(* save, which asks no departure whether it wants one, and the tick that writes what *)
(* is due: any lives whose intervals passed.                                         *)
Due(l) ==
    /\ binding[l].bound /\ ~binding[l].in_flight /\ ~binding[l].unmounted
    /\ binding[l].departed => binding[l].final_save
    /\ ~awaits_load(binding, withheld, l)
writes(S) ==
    /\ binding' = Written(binding, S)
    /\ queue' = queue \o Batch(binding, S)
save(l) ==
    /\ host /\ binding[l].bound /\ ~binding[l].in_flight
    /\ ~awaits_load(binding, withheld, l) /\ is_dirty(binding, l)
    /\ writes({l})
    /\ UNCHANGED <<body, leaving, value, withheld, stored, host, tenure, flushing, history,
                   bounds>>
tick(S) ==
    /\ host /\ \A l \in S : Due(l)
    /\ LET swept == Swept(binding)
           out == Staged(swept, SweptRoots(binding, withheld), S)
       IN /\ binding' = Written(swept, out)
          /\ queue' = queue \o Batch(swept, out)
    /\ withheld' = SweptRoots(binding, withheld)
    /\ binding' # binding
    /\ UNCHANGED <<body, leaving, value, stored, host, tenure, flushing, history, bounds>>

(* persist_flush_judge, over the bindings an answer left. *)
Judged(B) == \A l \in Lives : ~(B[l].bound /\ B[l].failed /\ is_dirty(B, l))

(* save_entities and leave: everything is written, and the answer waits until the   *)
(* database has nothing left to do.  "asked" is who had something to write then.     *)
flush_all ==
    /\ host /\ ~flushing /\ flushes < MaxFlushes
    /\ flushes' = flushes + 1
    /\ LET swept == Swept(binding)
           roots == SweptRoots(binding, withheld)
           out == Staged(swept, roots, Lives)
       IN /\ binding' = Written(swept, out)
          /\ queue' = queue \o Batch(swept, out)
          /\ withheld' = roots
          /\ asked' = out
    /\ flushing' = (queue' # <<>> /\ \E l \in Lives : binding'[l].bound)
    /\ UNCHANGED <<body, leaving, value, stored, host, tenure, last, behind, changes, moves>>

-----------------------------------------------------------------------------
(* The database answers its oldest operation *)

Current(o) == o.tenure = tenure

(* Once nothing is left in the queue, the flush that waits is judged. *)
Drains == flushing' = (flushing /\ queue' # <<>>)

read_settled(ok) ==
    /\ queue # <<>> /\ Head(queue).op = "read"
    /\ LET o == Head(queue)
           l == o.life
           b == binding[l]
           known == [binding EXCEPT ![l].loading = FALSE]
           took == ok /\ b.bound /\ Current(o) /\ (b.unmounted => Alive(l))
                   /\ ~has_unsaved_changes(known, l)
           found == stored # Absent
           adopted == IF b.departed THEN b.departure ELSE stored
       IN /\ queue' = Tail(queue)
          /\ binding' =
                IF ~b.bound THEN binding
                ELSE IF b.unmounted /\ ~Alive(l) THEN Released(binding, l)
                ELSE IF ~took \/ (found /\ ~Alive(l)) THEN known
                ELSE IF found
                     THEN [known EXCEPT ![l].baseline = adopted, ![l].reference = adopted,
                                        ![l].loaded = TRUE]
                     ELSE [known EXCEPT ![l].reference = live_values(known, l),
                                        ![l].loaded = TRUE]
          /\ LET landed == took /\ (found => Alive(l)) IN
              /\ value' = IF landed /\ found THEN [value EXCEPT ![l] = stored] ELSE value
              \* persist_publish lets go only of a root that is still there.
              /\ withheld' = IF (landed /\ Alive(l)) \/ (b.bound /\ ~binding'[l].bound)
                             THEN withheld \ {l} ELSE withheld
              /\ last' = IF landed THEN [last EXCEPT ![l] = stored] ELSE last
              /\ behind' = IF landed THEN behind \ {l} ELSE behind
    /\ Drains
    /\ UNCHANGED <<body, leaving, stored, host, tenure, asked, bounds>>

(* The rows of a batch are answered together, each with its own outcome: stored,    *)
(* refused, or doubted, where the database cannot say and may have stored it.        *)
Outcomes == {[is |-> "stored", kept |-> TRUE]}
    \cup (IF "refused" \in Faults THEN {[is |-> "refused", kept |-> FALSE]} ELSE {})
    \cup (IF "doubted" \in Faults THEN [is : {"doubted"}, kept : BOOLEAN] ELSE {})

\* Mutant of Answered: a row that was refused becomes the baseline.
AnsweredAlways(B, rows, out, current) == [l \in Lives |->
    IF l \notin DOMAIN rows \/ ~B[l].bound THEN B[l]
    ELSE [B[l] EXCEPT !.in_flight = FALSE, !.failed = FALSE, !.baseline = rows[l],
                      !.reference = rows[l]]]
Answered(B, rows, out, current) == [l \in Lives |->
    IF l \notin DOMAIN rows \/ ~B[l].bound THEN B[l]
    ELSE IF current /\ out[l].is = "stored"
    THEN [B[l] EXCEPT !.in_flight = FALSE, !.failed = FALSE, !.baseline = rows[l],
                      !.reference = rows[l]]
    ELSE [B[l] EXCEPT !.in_flight = FALSE, !.failed = TRUE]]

Newest(S) == CHOOSE l \in S : \A m \in S : m <= l

settle_batch(out) ==
    /\ LET o == Head(queue)
           rows == o.rows
           kept == {l \in DOMAIN rows : out[l].kept}
           answered == Answered(binding, rows, out, Current(o))
           ends == SelectSeq(SetToSortSeq(DOMAIN rows, <), LAMBDA l : Finishes(answered, l))
           final == FoldLeft(LAMBDA B, l : Finished(B, withheld, l), answered, ends)
       IN /\ binding' = final
          /\ queue' = FoldLeft(LAMBDA q, l : q \o FinalBatch(answered, withheld, l),
                               Tail(queue), ends)
          /\ stored' = IF kept = {} THEN stored ELSE rows[Newest(kept)]
          /\ last' = [l \in Lives |-> IF l \in kept THEN rows[l] ELSE last[l]]
          /\ behind' = IF kept = {} THEN behind
                       ELSE Lives \ {Newest(kept)}
          /\ asked' = asked \ kept
          /\ withheld' = {l \in withheld : binding[l].bound => final[l].bound}
    /\ Drains
    /\ UNCHANGED <<body, leaving, value, host, tenure, bounds>>

Writing == queue # <<>> /\ Head(queue).op = "write"
Replies == [DOMAIN Head(queue).rows -> Outcomes]
batch_settled == Writing /\ \E out \in Replies : settle_batch(out)

(* The database answers the oldest operation; it stores the row of a life. *)
Answers == batch_settled \/ \E ok \in {"refused" \notin Faults, TRUE} : read_settled(ok)
Stores(l) ==
    /\ Writing /\ l \in DOMAIN Head(queue).rows
    /\ settle_batch([m \in DOMAIN Head(queue).rows |-> [is |-> "stored", kept |-> TRUE]])

Next ==
    \/ \E l \in Lives :
        \/ spawn(l) \/ mount(l) \/ enter(l) \/ free(l) \/ settle_departure(l)
        \/ load(l) \/ save(l)
        \/ \E flag \in BOOLEAN : exit(l, flag) \/ despawn(l, flag)
        \/ \E v \in Values : change(l, v)
    \/ authority
    \/ \E S \in SUBSET Lives : tick(S)
    \/ flush_all
    \/ Answers

Spec == Init /\ [][Next]_vars

-----------------------------------------------------------------------------
(* Properties *)

(* A life that loads its record writes only over what it loaded or wrote itself: no   *)
(* write of an earlier or a later life is lost under it (persist_enroll, stage_row,   *)
(* persist_finish: the read of a new life stands behind the last write of the old).   *)
NoLostUpdate ==
    Gated /\ Writing =>
        \A out \in Replies : settle_batch(out) =>
            LET kept == {l \in DOMAIN out : out[l].kept}
            IN kept # {} => Cardinality(kept) = 1 /\ kept \cap behind = {}

(* A node that leaves the session for good leaves in the database what it held when   *)
(* it left, unless its despawn asked for no save or its load was not published while  *)
(* it lived: persist_publish finds no root then, and the binding waits for that load  *)
(* for ever (persist_capture_exit, persist_settle_departure, persist_finish).         *)
LeavesForGood(l) ==
    /\ binding[l].bound /\ ~binding'[l].bound
    /\ ~binding[l].unmounted /\ host /\ binding[l].final_save
LeftItsLast(l) == last'[l] = captured(binding[l], l).departure
LeavesItsLast ==
    \A l \in Lives :
        LeavesForGood(l) /\ (Gated => binding[l].loaded /\ l \notin withheld) => LeftItsLast(l)

(* NetwPersistence.xml says it of every root that was in the tree and is loaded; the   *)
(* code does not keep it for one that is freed before its first read finds no row.     *)
FreeingSaves == \A l \in Lives : LeavesForGood(l) /\ (Gated => binding[l].loaded) => LeftItsLast(l)

(* A flush that answers OK has stored every row it found changed and free, whatever   *)
(* was refused and tried again in between (persist_flush_judge).  A root that is      *)
(* freed and whose departure is not settled holds nothing a row could be read from.   *)
Vanished(l) == body[l] = "freed" /\ binding[l].bound /\ ~binding[l].departed
Holds(l) == IF binding[l].bound THEN live_values(binding, l) ELSE last[l]
FlushMeansStored ==
    (flushing \/ flushes' # flushes) /\ ~flushing' /\ Judged(binding')
        => \A l \in asked' : Vanished(l)' \/ last'[l] = Holds(l)'

(* No step loses what the game was promised to find in the database. *)
RowsAreKept == NoLostUpdate /\ LeavesItsLast /\ FlushMeansStored

(* What a handle says is clean is what the database holds for it (is_dirty).          *)
CleanMeansStored ==
    \A l \in Lives :
        /\ binding[l].bound /\ ~binding[l].departed /\ Alive(l)
        /\ ~awaits_load(binding, withheld, l) /\ ~is_dirty(binding, l)
        => last[l] = value[l]

(* A node in the tree of the server keeps a binding that saves it (persist_enroll);   *)
(* one that is mounted while the authority is away does not.                           *)
LivingIsBound ==
    MaxTenures = 0 =>
        \A l \in Lives : body[l] = "in" /\ l \notin leaving =>
            binding[l].bound /\ ~binding[l].retiring /\ ~binding[l].unmounted

CleanIsTrue == CleanMeansStored /\ LivingIsBound

(* In the end every node that left is released, and what the living ones hold is      *)
(* stored (the interval of Bindings::due; a refused last write is tried again).       *)
Rests == \A l \in Lives : binding[l].bound =>
    /\ ~binding[l].retiring
    /\ body[l] = "in" /\ ~awaits_load(binding, withheld, l) => last[l] = value[l]
=============================================================================

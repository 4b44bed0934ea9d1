----------------------------- MODULE MCStorage -----------------------------
(***************************************************************************)
(* What the game stores, on small instances: the databases of a session and  *)
(* the files that the records of one lie in.  A behaviour moves the part that *)
(* "moving" names and leaves the other where it starts, so their states add  *)
(* up instead of multiplying.                                                *)
(***************************************************************************)
EXTENDS Database, TLC

CONSTANTS
    Parts,              \* what a run moves
    QuickOps,           \* bound: operations on a database that answers inside the call
    r1, r2, slotA, slotB, v1, v2, v3, binary, text, Absent, Torn

VARIABLES moving, files, staging, format, doing, may, crashes, count
VARIABLES body, leaving, value, binding, withheld, pending, stored, host, tenure, flushing,
          asked, last, behind, changes, moves, flushed

Single(op, r) == [op |-> op, locks |-> {r}]
Both == [op |-> "batch", locks |-> {r1, r2}]

\* The operations on one record each, and some of them beside a batch.
Singles == {Single("write", r1), Single("write", r2), Single("patch", r1),
            Single("read", r2), Single("erase", r1)}
Mixed == {Single("write", r1), Single("patch", r1), Both}

\* The slots of a database are alike.
Alike == Permutations({slotA, slotB})

\* A database whose backend may answer inside the call, as the file backend does.
Quick == INSTANCE Database WITH
    Works <- {Single("write", r1), Single("patch", r1)}, QueueLimit <- 2,
    Prompt <- TRUE, FlushCalls <- {}, Ends <- FALSE, MaxOps <- QuickOps

\* Files while processes die, while the format changes, and while the disk fails.
Crashing == INSTANCE FileStore WITH
    Values <- {v1, v2, v3}, Formats <- {binary, text}, ShortWrites <- FALSE, StuckFiles <- TRUE,
    Switches <- FALSE, MaxCrashes <- 4, MaxOps <- 5
Switching == INSTANCE FileStore WITH
    Values <- {v1, v2, v3}, Formats <- {binary, text}, ShortWrites <- FALSE, StuckFiles <- FALSE,
    Switches <- TRUE, MaxCrashes <- 0, MaxOps <- 5
Failing == INSTANCE FileStore WITH
    Values <- {v1, v2, v3}, Formats <- {binary, text}, ShortWrites <- TRUE, StuckFiles <- TRUE,
    Switches <- TRUE, MaxCrashes <- 2, MaxOps <- 4

\* A record that goes from one node to the next: while the last write of the first is
\* out, while the database refuses rows, while it doubts them and the authority leaves
\* and comes back, and for nodes that do not load what they save.
Handed == INSTANCE SavedEntity WITH
    queue <- pending, flushes <- flushed, Lives <- {1, 2},
    Gated <- TRUE, Reverts <- FALSE, Faults <- {}, Handover <- "sent", Reloads <- FALSE,
    Readmits <- FALSE, MaxChanges <- 3, MaxMoves <- 2, MaxFlushes <- 1, MaxTenures <- 0
Refused == INSTANCE SavedEntity WITH
    queue <- pending, flushes <- flushed, Lives <- {1, 2},
    Gated <- TRUE, Reverts <- TRUE, Faults <- {"refused"}, Handover <- "released",
    Reloads <- FALSE, Readmits <- FALSE, MaxChanges <- 2, MaxMoves <- 2, MaxFlushes <- 1,
    MaxTenures <- 0
Doubted == INSTANCE SavedEntity WITH
    queue <- pending, flushes <- flushed, Lives <- {1, 2},
    Gated <- TRUE, Reverts <- FALSE, Faults <- {"doubted"}, Handover <- "released",
    Reloads <- FALSE, Readmits <- FALSE, MaxChanges <- 2, MaxMoves <- 1, MaxFlushes <- 1,
    MaxTenures <- 2
Blind == INSTANCE SavedEntity WITH
    queue <- pending, flushes <- flushed, Lives <- {1, 2},
    Gated <- FALSE, Reverts <- FALSE, Faults <- {}, Handover <- "sent",
    Reloads <- FALSE, Readmits <- FALSE, MaxChanges <- 2, MaxMoves <- 1, MaxFlushes <- 1,
    MaxTenures <- 0
Settling == INSTANCE SavedEntity WITH
    queue <- pending, flushes <- flushed, Lives <- {1, 2},
    Gated <- TRUE, Reverts <- FALSE, Faults <- {"refused"}, Handover <- "released",
    Reloads <- FALSE, Readmits <- FALSE, MaxChanges <- 2, MaxMoves <- 1, MaxFlushes <- 0,
    MaxTenures <- 0

ASSUME StorageAssumption ==
    /\ Assumptions /\ Quick!Assumptions
    /\ Crashing!Assumptions /\ Switching!Assumptions /\ Failing!Assumptions
    /\ Handed!SavedAssumption /\ Refused!SavedAssumption
    /\ Doubted!SavedAssumption /\ Blind!SavedAssumption /\ Settling!SavedAssumption

databaseVars == vars
fileVars == <<files, staging, format, doing, may, crashes, count>>
savedVars == <<body, leaving, value, binding, withheld, pending, stored, host, tenure,
               flushing, asked, last, behind, changes, moves, flushed>>
storageVars == <<moving, databaseVars, fileVars, savedVars>>

Asking(which, A) == moving = which /\ A /\ UNCHANGED <<moving, fileVars, savedVars>>
Filing(which, A) == moving = which /\ A /\ UNCHANGED <<moving, databaseVars, savedVars>>
Saving(which, A) == moving = which /\ A /\ UNCHANGED <<moving, databaseVars, fileVars>>

StorageInit ==
    /\ moving \in Parts
    /\ IF moving = "quick" THEN Quick!Init ELSE Init
    /\ Crashing!Init
    /\ moving \notin {"crashing", "switching", "failing"} => format = binary
    /\ Handed!Init

StorageNext ==
    \/ Asking("database", Next) \/ Asking("quick", Quick!Next)
    \/ Filing("crashing", Crashing!Next) \/ Filing("switching", Switching!Next)
    \/ Filing("failing", Failing!Next)
    \/ Saving("handed", Handed!Next) \/ Saving("refused", Refused!Next)
    \/ Saving("doubted", Doubted!Next) \/ Saving("blind", Blind!Next)
    \/ Saving("settling", Settling!Next)

StorageSpec == StorageInit /\ [][StorageNext]_storageVars

(* The calls in progress go on, and the backend answers what it was given, in an     *)
(* order of its own; no file has to be written.  The departure of a node is settled   *)
(* at the end of the frame, intervals pass, and a row that is written again and       *)
(* again is not refused every time.                                                   *)
FairStorageSpec ==
    /\ StorageSpec
    /\ WF_storageVars(Asking("database", Inside))
    /\ \A q \in Sequences : SF_storageVars(Asking("database",
           \E f \in flight, ok \in BOOLEAN :
               f.sequence = q /\ (stage_patch(f, ok) \/ settled(f, ok))))
    /\ \A n \in 1..MaxOpens : SF_storageVars(Asking("database",
           n \in DOMAIN conns /\ \E ok \in BOOLEAN : connected(n, ok) \/ discard(n, ok)))
    /\ \A l \in {1, 2} :
        /\ WF_storageVars(Saving("settling", \/ Settling!settle_departure(l)
                                             \/ \E S \in SUBSET {1, 2} : l \in S /\ Settling!tick(S)))
        /\ SF_storageVars(Saving("settling", Settling!Stores(l)))
    /\ WF_storageVars(Saving("settling", Settling!Answers))

-----------------------------------------------------------------------------
(* Whatever is interrupted, a read finds what was last written or erased, or what the  *)
(* last interrupted operation was to leave (persist/file_store.cpp, record_file.cpp);  *)
(* and while no process dies the record lies in one file.                              *)
ReadsLastWritten ==
    /\ moving = "crashing" => Crashing!TypeOK /\ Crashing!ReadsLastWritten
    /\ moving = "switching" => Switching!TypeOK /\ Switching!ReadsLastWritten /\ Switching!OneFile

(* A replacement that ends before its rename leaves the record it was to overwrite     *)
(* (write_record_file).                                                                *)
KeepsUntilRename ==
    [][/\ moving = "crashing" => Crashing!NothingIsTorn
       /\ moving = "failing" => Failing!NothingIsTorn]_fileVars

(* A row that was saved is lost neither under the next node of its record nor with the *)
(* node that held it, and a flush that answers OK has stored what it found changed     *)
(* (api/session/persistence.cpp, persist_batch_settled, persist_finish).               *)
RowsAreKept ==
    [][/\ moving = "handed" => Handed!RowsAreKept
       /\ moving = "refused" => Refused!RowsAreKept
       /\ moving = "doubted" => Doubted!RowsAreKept
       /\ moving = "blind" => Blind!RowsAreKept]_savedVars

(* What a node calls clean is what the database holds for it, and a node in the tree   *)
(* of the server is bound (persist/binding.cpp, is_dirty; persist_enroll).             *)
CleanIsTrue ==
    /\ moving = "handed" => Handed!TypeOK /\ Handed!CleanIsTrue
    /\ moving = "refused" => Refused!CleanIsTrue
    /\ moving = "doubted" => Doubted!TypeOK /\ Doubted!CleanIsTrue
    /\ moving = "blind" => Blind!CleanIsTrue

(* Every open, operation, flush and close is answered (Databases::settled,             *)
(* release_waiters), every node that left is let go once its last row is stored, and   *)
(* what the living ones hold is stored (Bindings::due, persist_finish).                *)
EverythingSettles == []<>(NothingOwed /\ (moving = "settling" => Settling!Rests))
=============================================================================

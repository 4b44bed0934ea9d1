----------------------------- MODULE FileStore -----------------------------
(* One record of the file backend (persist/file_store.cpp, record_file.cpp):  *)
(* the two files it may lie in, one per format, and the staging file a        *)
(* replacement is written to.  Each step is one call of the file system;      *)
(* between two of them the process may die, and a later process may be        *)
(* configured with the other format.                                          *)
EXTENDS Naturals

CONSTANTS
    Values,         \* the envelopes the game writes
    Formats,        \* RecordFormat
    Absent,         \* no file
    Torn,           \* a file that does not hold a whole record
    ShortWrites,    \* a write may store less than it was given (a full disk)
    StuckFiles,     \* a file may refuse to be removed
    Switches,       \* a later process may use the other format
    MaxCrashes, MaxOps      \* bounds of a run

FormatsAssumption == \E f, g \in Formats : f # g /\ Formats = {f, g}
ContentAssumption == Absent # Torn /\ {Absent, Torn} \cap Values = {}
FlagsAssumption == {ShortWrites, StuckFiles, Switches} \subseteq BOOLEAN
BoundsAssumption == {MaxCrashes, MaxOps} \subseteq Nat
Assumptions == FormatsAssumption /\ ContentAssumption /\ FlagsAssumption /\ BoundsAssumption

VARIABLES
    files,      \* what lies at path_in, for each format
    staging,    \* what lies at staging_path_for, for each format
    format,     \* FileStore::format
    doing,      \* the operation in progress, its next step and what was there before it
    may,        \* history: what a read may find
    crashes,    \* how often the process died
    count       \* how many operations were begun
vars == <<files, staging, format, doing, may, crashes, count>>

Content == Values \cup {Absent, Torn}
Steps == {"stage", "store", "rename", "stale", "erase", "erase_other"}
Idle == [at |-> "idle", value |-> Absent, before |-> Absent]

other_format(f) == CHOOSE g \in Formats : g # f

(* read: the file of the store's own format hides the other one.              *)
read == IF files[format] # Absent THEN files[format] ELSE files[other_format(format)]

Init ==
    /\ files = [f \in Formats |-> Absent]
    /\ staging = [f \in Formats |-> Absent]
    /\ format \in Formats
    /\ doing = Idle /\ may = {Absent} /\ crashes = 0 /\ count = 0

Begin(at, value) ==
    /\ doing = Idle
    /\ count < MaxOps
    /\ count' = count + 1
    /\ doing' = [at |-> at, value |-> value, before |-> read]
    /\ UNCHANGED <<files, staging, format, may, crashes>>

replace(v) == Begin("stage", v)
erase == Begin("erase", Absent)

At(step) == doing.at = step
Then(step) == doing' = [doing EXCEPT !.at = step]
Succeeds == doing' = Idle /\ may' = {doing.value}

(* An operation that answers an error: a replacement changed nothing, an      *)
(* erase may have.                                                            *)
Fails ==
    /\ doing' = Idle
    /\ may' = IF doing.value = Absent THEN may \cup {Absent} ELSE may

\* Mutant of Stage: the record itself is opened for writing.
StageInPlace ==
    /\ At("stage")
    /\ files' = [files EXCEPT ![format] = Torn]
    /\ staging' = [staging EXCEPT ![format] = Torn]
    /\ Then("store")
    /\ UNCHANGED <<format, may, crashes, count>>

(* write_record_file: opening the staging file truncates it, unless its       *)
(* folder cannot be made or the file not opened ...                           *)
Stage ==
    /\ At("stage")
    /\ \/ /\ staging' = [staging EXCEPT ![format] = Torn]
          /\ Then("store")
          /\ UNCHANGED may
       \/ Fails /\ UNCHANGED staging
    /\ UNCHANGED <<files, format, crashes, count>>

(* ... the record is stored, and what store_buffer answers is not looked at   *)
Store ==
    /\ At("store")
    /\ \/ staging' = [staging EXCEPT ![format] = doing.value]
       \/ ShortWrites /\ UNCHANGED staging
    /\ Then("rename")
    /\ UNCHANGED <<files, format, may, crashes, count>>

(* ... and renamed over the record, or the staging file is removed again;     *)
(* whether it went is not looked at.                                          *)
Rename ==
    /\ At("rename")
    /\ \/ /\ staging' = [staging EXCEPT ![format] = Absent]
          /\ \/ /\ files' = [files EXCEPT ![format] = staging[format]]
                /\ Then("stale")
                /\ UNCHANGED may
             \/ Fails /\ UNCHANGED files
       \/ StuckFiles /\ Fails /\ UNCHANGED <<files, staging>>
    /\ UNCHANGED <<format, crashes, count>>

(* FileStore::replace: the file of the other format goes; whether it went is  *)
(* not looked at.                                                             *)
Stale ==
    /\ At("stale")
    /\ \/ files' = [files EXCEPT ![other_format(format)] = Absent]
       \/ StuckFiles /\ UNCHANGED files
    /\ Succeeds
    /\ UNCHANGED <<staging, format, crashes, count>>

(* FileStore::erase: the store's own format first, then the other.            *)
Erase ==
    /\ At("erase")
    /\ \/ /\ files' = [files EXCEPT ![format] = Absent]
          /\ Then("erase_other")
          /\ UNCHANGED may
       \/ StuckFiles /\ files[format] # Absent /\ Fails /\ UNCHANGED files
    /\ UNCHANGED <<staging, format, crashes, count>>

EraseOther ==
    /\ At("erase_other")
    /\ \/ /\ files' = [files EXCEPT ![other_format(format)] = Absent]
          /\ Succeeds
       \/ StuckFiles /\ files[other_format(format)] # Absent /\ Fails /\ UNCHANGED files
    /\ UNCHANGED <<staging, format, crashes, count>>

(* A value once read is what the record holds.                                *)
Read ==
    /\ doing = Idle
    /\ may' = may \cap {read}
    /\ may' # {}
    /\ UNCHANGED <<files, staging, format, doing, crashes, count>>

Formatted == format' \in (IF Switches THEN Formats ELSE {format})

(* The process ends, in order or in the middle of an operation, and another   *)
(* one opens the slot.                                                        *)
Restart ==
    /\ doing = Idle
    /\ Formatted
    /\ UNCHANGED <<files, staging, doing, may, crashes, count>>

Crash ==
    /\ doing # Idle
    /\ crashes < MaxCrashes
    /\ crashes' = crashes + 1
    /\ doing' = Idle
    /\ may' = may \cup {doing.value}
    /\ Formatted
    /\ UNCHANGED <<files, staging, count>>

Next ==
    \/ \E v \in Values : replace(v)
    \/ erase \/ Stage \/ Store \/ Rename \/ Stale \/ Erase \/ EraseOther
    \/ Read \/ Restart \/ Crash
Spec == Init /\ [][Next]_vars

-----------------------------------------------------------------------------
(* Properties *)

(* Every variable keeps its type, and only a crash or a stuck file leaves a   *)
(* staging file behind (write_record_file).                                   *)
TypeOK ==
    /\ files \in [Formats -> Content] /\ staging \in [Formats -> Content]
    /\ format \in Formats
    /\ doing \in [at : Steps, value : Values \cup {Absent}, before : Content] \cup {Idle}
    /\ may \subseteq Values \cup {Absent} /\ may # {}
    /\ crashes \in 0..MaxCrashes /\ count \in 0..MaxOps
    /\ ~StuckFiles /\ crashes = 0 /\ ~At("store") /\ ~At("rename")
          => \A f \in Formats : staging[f] = Absent

(* Outside an operation a read finds what was last written or erased, or,     *)
(* when the last operation was interrupted, what that one was to leave; and   *)
(* never again something else than was read before (FileStore::read, replace, *)
(* erase; write_record_file).                                                 *)
ReadsLastWritten == doing = Idle => read \in may

(* A replacement that ends before its rename, by an error or by a crash,      *)
(* leaves the record it was to overwrite (write_record_file).                 *)
NothingIsTorn ==
    doing.at \in {"stage", "store", "rename"} /\ doing' = Idle /\ format' = format
        => read' = doing.before
KeepsUntilRename == [][NothingIsTorn]_vars

(* After operations that were not interrupted the record lies in one file.    *)
OneFile == (doing = Idle /\ crashes = 0) => \E f \in Formats : files[f] = Absent
=============================================================================

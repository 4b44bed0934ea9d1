--------------------------- MODULE FileStoreProofs ---------------------------
(***************************************************************************)
(* Proofs about FileStore for all values, formats, faults and numbers of     *)
(* operations and crashes: what is read is what was last written, and a      *)
(* replacement that ends before its rename leaves what it was to overwrite.  *)
(***************************************************************************)
EXTENDS FileStore, TLAPS

-----------------------------------------------------------------------------
(* The two formats. *)

\* There is one other format, and its other is the first.
LEMMA OtherFormat ==
    ASSUME FormatsAssumption, NEW f \in Formats
    PROVE  /\ other_format(f) \in Formats
           /\ other_format(f) # f
           /\ Formats = {f, other_format(f)}
<1>1. PICK a, b \in Formats : a # b /\ Formats = {a, b}
  BY DEF FormatsAssumption
<1>2. \E g \in Formats : g # f
  BY <1>1
<1>3. other_format(f) \in Formats /\ other_format(f) # f
  BY <1>2 DEF other_format
<1> QED
  BY <1>1, <1>3

-----------------------------------------------------------------------------
(* The inductive invariant. *)

Replacing == doing.at \in {"stage", "store", "rename", "stale"}
Erasing == doing.at \in {"erase", "erase_other"}

\* Every variable keeps its type, and a replacement knows what it replaces.
Shaped ==
    /\ files \in [Formats -> Content]
    /\ staging \in [Formats -> Content]
    /\ format \in Formats
    /\ doing \in [at : Steps, value : Values \cup {Absent}, before : Content] \cup {Idle}
    /\ may \subseteq Values \cup {Absent}
    /\ may # {}
    /\ crashes \in 0 .. MaxCrashes
    /\ count \in 0 .. MaxOps
    /\ Replacing => doing.value \in Values
    /\ ~Replacing => doing.value = Absent
    /\ doing.at \in {"stage", "store", "rename"} => read = doing.before

\* Without a crash or a stuck file only the replacement in progress has a staging file.
Staged ==
    ~StuckFiles /\ crashes = 0 => \A f \in Formats :
        f # format \/ doing.at \notin {"store", "rename"} => staging[f] = Absent

\* The disk stores what it is given; and the format of the store stays the same, or
\* every operation ends and removes what it is to remove.
Reliable == ~ShortWrites /\ (~Switches \/ (~StuckFiles /\ MaxCrashes = 0))

\* What the operation in progress has done, and what it has still to hide.
Stored ==
    /\ doing.at \notin {"stale", "erase_other"} => read \in may
    /\ doing.at = "rename" => staging[format] = doing.value
    /\ doing.at = "stale" => files[format] = doing.value
    /\ doing.at = "erase_other" => files[format] = Absent
    /\ ~Switches => files[other_format(format)] = Absent
    /\ doing.at \notin {"stale", "erase_other"} => \E f \in Formats : files[f] = Absent

-----------------------------------------------------------------------------
LEMMA InitShaped == ASSUME Assumptions, Init PROVE Shaped /\ Staged /\ Stored
<1>1. format \in Formats
  BY DEF Init
<1>2. other_format(format) \in Formats
  BY <1>1, OtherFormat DEF Assumptions
<1>3. read = Absent
  BY <1>1, <1>2 DEF Init, read
<1>4. MaxCrashes \in Nat /\ MaxOps \in Nat
  BY DEF Assumptions, BoundsAssumption
<1> QED
  BY <1>1, <1>2, <1>3, <1>4 DEF Init, Shaped, Staged, Stored, Idle, Replacing, Content

\* What a read finds depends on the files and the format alone.
LEMMA SameRead ==
    ASSUME UNCHANGED <<files, format>>
    PROVE  read' = read
BY DEF read

\* Every step keeps the types, and leaves what was there until the rename.
LEMMA NextShaped ==
    ASSUME Assumptions, Shaped, Staged, [Next]_vars
    PROVE  Shaped' /\ Staged' /\ [NothingIsTorn]_vars
<1>1. MaxCrashes \in Nat /\ MaxOps \in Nat
  BY DEF Assumptions, BoundsAssumption
<1>2. /\ other_format(format) \in Formats /\ other_format(format) # format
      /\ format \in Formats
      /\ read \in Content
  BY OtherFormat DEF Assumptions, Shaped, read
<1>3. Idle.at = "idle" /\ Idle.value = Absent
  BY DEF Idle
<1> USE DEF Shaped, Replacing
<1>4. ASSUME NEW at \in {"stage", "erase"}, NEW value \in Values \cup {Absent},
             value \in Values <=> at = "stage", Begin(at, value)
      PROVE  Shaped' /\ Staged' /\ NothingIsTorn
  <2>1. read' = read
    BY <1>4, SameRead DEF Begin
  <2>2. doing' = [at |-> at, value |-> value, before |-> read]
    BY <1>4 DEF Begin
  <2>3. count' \in 0 .. MaxOps
    BY <1>1, <1>4 DEF Begin
  <2>4. Shaped'
    BY <1>2, <1>4, <2>1, <2>2, <2>3 DEF Begin, Steps
  <2>5. Staged'
    BY <1>3, <1>4, <2>2 DEF Begin, Staged
  <2>6. NothingIsTorn
    BY <1>3, <1>4, <2>2 DEF Begin, NothingIsTorn
  <2> QED
    BY <2>4, <2>5, <2>6
<1>5. CASE Stage
  <2>1. doing.at = "stage" /\ doing.value \in Values /\ doing.value # Absent
    BY <1>5 DEF Stage, At, Assumptions, ContentAssumption
  <2>2. read' = read
    BY <1>5, SameRead DEF Stage
  <2>3. CASE staging' = [staging EXCEPT ![format] = Torn] /\ Then("store") /\ UNCHANGED may
    <3>1. /\ doing' \in [at : Steps, value : Values \cup {Absent}, before : Content]
          /\ doing'.at = "store" /\ doing'.value = doing.value /\ doing'.before = doing.before
      BY <1>3, <2>1, <2>3 DEF Then, Steps
    <3>2. Shaped'
      BY <1>5, <2>1, <2>2, <2>3, <3>1 DEF Stage, Content
    <3>3. Staged'
      BY <1>5, <2>1, <2>3, <3>1 DEF Stage, Staged
    <3>4. NothingIsTorn
      BY <1>3, <3>1 DEF NothingIsTorn
    <3> QED
      BY <3>2, <3>3, <3>4
  <2>4. CASE Fails /\ UNCHANGED staging
    <3>1. doing' = Idle /\ may' = may
      BY <2>1, <2>4 DEF Fails
    <3>2. Shaped'
      BY <1>3, <1>5, <2>1, <2>4, <3>1 DEF Stage
    <3>3. Staged'
      BY <1>3, <1>5, <2>1, <2>4, <3>1 DEF Stage, Staged
    <3>4. NothingIsTorn
      BY <2>1, <2>2 DEF NothingIsTorn
    <3> QED
      BY <3>2, <3>3, <3>4
  <2> QED
    BY <1>5, <2>3, <2>4 DEF Stage
<1>6. CASE Store
  <2>1. read' = read
    BY <1>6, SameRead DEF Store
  <2>2. doing.at = "store" /\ doing' = [doing EXCEPT !.at = "rename"]
    BY <1>6 DEF Store, At, Then
  <2>3. /\ doing' \in [at : Steps, value : Values \cup {Absent}, before : Content]
        /\ doing'.at = "rename" /\ doing'.value = doing.value /\ doing'.before = doing.before
    BY <1>3, <2>2 DEF Steps
  <2>4. doing.value \in Values
    BY <2>2
  <2>5. \/ staging' = [staging EXCEPT ![format] = doing.value]
        \/ UNCHANGED staging
    BY <1>6 DEF Store
  <2>6. Shaped'
    BY <1>6, <2>1, <2>2, <2>3, <2>4, <2>5 DEF Store, Content
  <2>7. Staged'
    BY <1>6, <2>2, <2>3, <2>5 DEF Store, Staged
  <2>8. NothingIsTorn
    BY <1>3, <2>3 DEF NothingIsTorn
  <2> QED
    BY <2>6, <2>7, <2>8
<1>7. CASE Rename
  <2>1. doing.at = "rename" /\ doing.value \in Values /\ doing.value # Absent
    BY <1>7 DEF Rename, At, Assumptions, ContentAssumption
  <2>2. CASE /\ staging' = [staging EXCEPT ![format] = Absent]
             /\ files' = [files EXCEPT ![format] = staging[format]]
             /\ Then("stale") /\ UNCHANGED may
    <3>1. /\ doing' \in [at : Steps, value : Values \cup {Absent}, before : Content]
          /\ doing'.at = "stale" /\ doing'.value = doing.value
      BY <1>3, <2>1, <2>2 DEF Then, Steps
    <3>2. Shaped'
      BY <1>7, <2>1, <2>2, <3>1 DEF Rename, Content
    <3>3. Staged'
      BY <1>7, <2>1, <2>2, <3>1 DEF Rename, Staged
    <3>4. NothingIsTorn
      BY <1>3, <3>1 DEF NothingIsTorn
    <3> QED
      BY <3>2, <3>3, <3>4
  <2>3. CASE /\ Fails /\ UNCHANGED files
             /\ \/ staging' = [staging EXCEPT ![format] = Absent]
                \/ StuckFiles /\ UNCHANGED staging
    <3>1. doing' = Idle /\ may' = may
      BY <2>1, <2>3 DEF Fails
    <3>2. read' = read
      BY <1>7, <2>3, SameRead DEF Rename
    <3>3. staging' \in [Formats -> Content]
      BY <2>3 DEF Content
    <3>4. Shaped'
      BY <1>3, <1>7, <2>1, <2>3, <3>1, <3>3 DEF Rename
    <3>5. Staged'
      BY <1>3, <1>7, <2>1, <2>3, <3>1 DEF Rename, Staged
    <3>6. NothingIsTorn
      BY <2>1, <3>2 DEF NothingIsTorn
    <3> QED
      BY <3>4, <3>5, <3>6
  <2> QED
    BY <1>7, <2>2, <2>3 DEF Rename
<1>8. CASE Stale \/ EraseOther
  <2>1. /\ doing.at \in {"stale", "erase_other"}
        /\ \/ files' = [files EXCEPT ![other_format(format)] = Absent]
           \/ UNCHANGED files
        /\ doing' = Idle
        /\ may' \in {{doing.value}, may \cup {Absent}, may}
        /\ UNCHANGED <<staging, format, crashes, count>>
    BY <1>8 DEF Stale, EraseOther, At, Succeeds, Fails
  <2>2. doing.value \in Values \cup {Absent}
    BY <1>3
  <2>3. Shaped'
    BY <1>2, <1>3, <2>1, <2>2 DEF Content
  <2>4. Staged'
    BY <1>3, <2>1 DEF Staged
  <2>5. NothingIsTorn
    BY <2>1 DEF NothingIsTorn
  <2> QED
    BY <2>3, <2>4, <2>5
<1>9. CASE Erase
  <2>1. /\ doing.at = "erase" /\ doing.value = Absent
        /\ UNCHANGED <<staging, format, crashes, count>>
    BY <1>9 DEF Erase, At
  <2>2. CASE /\ files' = [files EXCEPT ![format] = Absent]
             /\ Then("erase_other")
             /\ UNCHANGED may
    <3>1. /\ doing' \in [at : Steps, value : Values \cup {Absent}, before : Content]
          /\ doing'.at = "erase_other" /\ doing'.value = doing.value
      BY <1>3, <2>1, <2>2 DEF Then, Steps
    <3>2. Shaped'
      BY <2>1, <2>2, <3>1 DEF Content
    <3>3. Staged'
      BY <2>1, <3>1 DEF Staged
    <3> QED
      BY <2>1, <3>2, <3>3 DEF NothingIsTorn
  <2>3. CASE Fails /\ UNCHANGED files
    <3>1. doing' = Idle /\ may' = may \cup {Absent}
      BY <2>1, <2>3 DEF Fails
    <3>2. Shaped'
      BY <1>3, <2>1, <2>3, <3>1
    <3>3. Staged'
      BY <1>3, <2>1, <3>1 DEF Staged
    <3> QED
      BY <2>1, <3>2, <3>3 DEF NothingIsTorn
  <2> QED
    BY <1>9, <2>2, <2>3 DEF Erase
<1>10. CASE Read
  <2>1. /\ doing = Idle /\ may' = may \cap {read} /\ may' # {}
        /\ UNCHANGED <<files, staging, format, doing, crashes, count>>
    BY <1>10 DEF Read
  <2> QED
    BY <1>3, <2>1 DEF Staged, NothingIsTorn
<1>11. CASE Restart
  <2>1. /\ doing = Idle /\ format' \in Formats
        /\ UNCHANGED <<files, staging, doing, may, crashes, count>>
    BY <1>11 DEF Restart, Formatted
  <2> QED
    BY <1>3, <2>1 DEF Staged, NothingIsTorn
<1>12. CASE Crash
  <2>1. /\ doing # Idle /\ doing' = Idle /\ format' \in Formats
        /\ crashes < MaxCrashes /\ crashes' = crashes + 1
        /\ may' = may \cup {doing.value}
        /\ UNCHANGED <<files, staging, count>>
    BY <1>12 DEF Crash, Formatted
  <2>2. crashes' \in 0 .. MaxCrashes /\ crashes' # 0
    BY <1>1, <2>1
  <2>3. Shaped'
    BY <1>3, <2>1, <2>2
  <2>4. Staged'
    BY <2>2 DEF Staged
  <2>5. NothingIsTorn
    <3>1. format' = format => read' = read
      BY <2>1, SameRead
    <3> QED
      BY <3>1 DEF NothingIsTorn
  <2> QED
    BY <2>3, <2>4, <2>5
<1>13. CASE UNCHANGED vars
  <2>1. read' = read
    BY <1>13, SameRead DEF vars
  <2> QED
    BY <1>13, <2>1 DEF vars, Staged
<1> QED
  <2>1. ASSUME NEW v \in Values, replace(v) PROVE Shaped' /\ Staged' /\ NothingIsTorn
    BY <1>4, <2>1 DEF replace
  <2>2. CASE erase
    <3>1. Absent \notin Values
      BY DEF Assumptions, ContentAssumption
    <3> QED
      BY <1>4, <2>2, <3>1 DEF erase
  <2> QED
    BY <1>5, <1>6, <1>7, <1>8, <1>9, <1>10, <1>11, <1>12, <1>13, <2>1, <2>2 DEF Next

-----------------------------------------------------------------------------
(* While the disk is reliable, what is read is what may be read. *)

\* Where the record lies: in the store's own file, or else in the other.
LEMMA WhereItLies ==
    ASSUME Assumptions, Shaped
    PROVE  /\ other_format(format) \in Formats /\ other_format(format) # format
           /\ Formats = {format, other_format(format)}
           /\ files[format] # Absent => read = files[format]
           /\ files[format] = Absent => read = files[other_format(format)]
BY OtherFormat DEF Assumptions, Shaped, read

LEMMA NextStored ==
    ASSUME Assumptions, Reliable, Shaped, Stored, [Next]_vars, Shaped'
    PROVE  Stored'
<1> DEFINE g == other_format(format)
<1>1. /\ g \in Formats /\ g # format /\ Formats = {format, g}
      /\ files[format] # Absent => read = files[format]
      /\ files[format] = Absent => read = files[g]
  BY WhereItLies
<1>2. /\ files'[format'] # Absent => read' = files'[format']
      /\ files'[format'] = Absent => read' = files'[other_format(format')]
  BY DEF read
<1>3. Idle.at = "idle" /\ Idle.value = Absent
  BY DEF Idle
<1>4. format \in Formats /\ files \in [Formats -> Content] /\ staging \in [Formats -> Content]
  BY DEF Shaped
<1> HIDE DEF g
<1>5. ASSUME NEW at \in {"stage", "erase"}, NEW value, Begin(at, value)
      PROVE  Stored'
  BY <1>3, <1>5, SameRead DEF Begin, Stored
<1>6. CASE Stage
  <2>1. doing.at = "stage" /\ doing.value \in Values /\ UNCHANGED <<files, format>>
    BY <1>6 DEF Stage, At, Shaped, Replacing
  <2>2. CASE Then("store") /\ UNCHANGED may
    <3>1. doing'.at = "store"
      BY <2>1, <2>2 DEF Then, Shaped, Idle
    <3> QED
      BY <2>1, <2>2, <3>1, SameRead DEF Stored
  <2>3. CASE Fails
    <3>1. doing' = Idle /\ may' = may
      BY <2>1, <2>3 DEF Fails, Assumptions, ContentAssumption
    <3> QED
      BY <1>3, <2>1, <3>1, SameRead DEF Stored
  <2> QED
    BY <1>6, <2>2, <2>3 DEF Stage
<1>7. CASE Store
  <2>1. doing.at = "store" /\ doing'.at = "rename" /\ doing'.value = doing.value
    BY <1>7 DEF Store, At, Then, Shaped, Idle
  <2>2. staging'[format] = doing.value
    BY <1>4, <1>7 DEF Store, Reliable
  <2> QED
    BY <1>7, <2>1, <2>2, SameRead DEF Store, Stored
<1>8. CASE Rename
  <2>1. doing.at = "rename" /\ doing.value \in Values /\ UNCHANGED format
    BY <1>8 DEF Rename, At, Shaped, Replacing
  <2>2. CASE files' = [files EXCEPT ![format] = staging[format]] /\ Then("stale")
    <3>1. doing'.at = "stale" /\ doing'.value = doing.value
      BY <2>1, <2>2 DEF Then, Shaped, Idle
    <3>2. files'[format] = doing.value /\ files'[g] = files[g]
      BY <1>1, <1>4, <2>1, <2>2 DEF Stored
    <3> QED
      BY <2>1, <3>1, <3>2 DEF Stored, g
  <2>3. CASE Fails /\ UNCHANGED files
    <3>1. doing' = Idle /\ may' = may
      BY <2>1, <2>3 DEF Fails, Assumptions, ContentAssumption
    <3> QED
      BY <1>3, <2>1, <2>3, <3>1, SameRead DEF Stored
  <2> QED
    BY <1>8, <2>2, <2>3 DEF Rename
<1>9. CASE Stale
  <2>1. /\ doing.at = "stale" /\ doing.value \in Values /\ doing.value # Absent
        /\ doing' = Idle /\ may' = {doing.value} /\ UNCHANGED format
        /\ files[format] = doing.value
    BY <1>9 DEF Stale, At, Succeeds, Shaped, Replacing, Stored, Assumptions, ContentAssumption
  <2>2. files'[format] = files[format] /\ files'[g] = Absent
    BY <1>1, <1>4, <1>9 DEF Stale, Reliable, Stored, g
  <2> QED
    BY <1>1, <1>2, <1>3, <2>1, <2>2 DEF Stored, g
<1>10. CASE Erase
  <2>1. /\ doing.at = "erase" /\ doing.value = Absent /\ UNCHANGED format
    BY <1>10 DEF Erase, At, Shaped, Replacing
  <2>2. CASE files' = [files EXCEPT ![format] = Absent] /\ Then("erase_other")
    <3>1. doing'.at = "erase_other"
      BY <2>1, <2>2 DEF Then, Shaped, Idle
    <3>2. files'[format] = Absent /\ files'[g] = files[g]
      BY <1>1, <1>4, <2>2
    <3> QED
      BY <2>1, <3>1, <3>2 DEF Stored, g
  <2>3. CASE Fails /\ UNCHANGED files
    <3>1. doing' = Idle /\ may' = may \cup {Absent}
      BY <2>1, <2>3 DEF Fails
    <3> QED
      BY <1>3, <2>1, <2>3, <3>1, SameRead DEF Stored
  <2> QED
    BY <1>10, <2>2, <2>3 DEF Erase
<1>11. CASE EraseOther
  <2>1. /\ doing.at = "erase_other" /\ doing.value = Absent /\ UNCHANGED format
        /\ files[format] = Absent
    BY <1>11 DEF EraseOther, At, Shaped, Replacing, Stored
  <2>2. /\ files'[format] = Absent /\ files'[g] = Absent
        /\ doing' = Idle /\ Absent \in may'
    BY <1>1, <1>4, <1>11, <2>1 DEF EraseOther, Succeeds, Fails, Reliable, Stored, g
  <2> QED
    BY <1>1, <1>2, <1>3, <2>1, <2>2 DEF Stored, g
<1>12. CASE Read
  BY <1>12, SameRead DEF Read, Stored
<1>13. CASE Restart
  <2>1. /\ doing = Idle /\ UNCHANGED <<files, staging, doing, may>>
        /\ format' \in Formats
        /\ ~Switches => format' = format
    BY <1>4, <1>13 DEF Restart, Formatted
  <2>2. read \in may /\ \E f \in Formats : files[f] = Absent
    BY <1>3, <2>1 DEF Stored
  <2>3. read' = read
    <3>1. CASE format' = format
      BY <2>1, <3>1, SameRead
    <3>2. CASE format' = g
      <4>1. other_format(g) = format
        BY <1>1, <1>4, OtherFormat DEF Assumptions
      <4> QED
        BY <1>1, <1>2, <2>1, <2>2, <3>2, <4>1
    <3> QED
      BY <1>1, <2>1, <3>1, <3>2
  <2> QED
    BY <1>3, <2>1, <2>2, <2>3 DEF Stored
<1>14. CASE Crash
  <2>1. /\ ~Switches /\ doing # Idle /\ doing' = Idle /\ UNCHANGED <<files, staging, format>>
        /\ may' = may \cup {doing.value}
    <3>1. MaxCrashes # 0
      BY <1>14 DEF Crash, Shaped, Assumptions, BoundsAssumption
    <3> QED
      BY <1>14, <3>1 DEF Crash, Formatted, Reliable
  <2>2. files[g] = Absent
    BY <2>1 DEF Stored, g
  <2>3. read' = read
    BY <2>1, SameRead
  <2>4. read \in may \cup {doing.value}
    <3>1. CASE doing.at = "stale"
      <4>1. files[format] = doing.value /\ doing.value # Absent
        BY <3>1 DEF Stored, Shaped, Replacing, Assumptions, ContentAssumption
      <4> QED
        BY <1>1, <4>1
    <3>2. CASE doing.at = "erase_other"
      <4>1. files[format] = Absent /\ doing.value = Absent
        BY <3>2 DEF Stored, Shaped, Replacing
      <4> QED
        BY <1>1, <2>2, <4>1
    <3> QED
      BY <3>1, <3>2 DEF Stored
  <2> QED
    BY <1>1, <1>3, <2>1, <2>2, <2>3, <2>4 DEF Stored, g
<1>15. CASE UNCHANGED vars
  BY <1>15, SameRead DEF vars, Stored
<1> QED
  BY <1>5, <1>6, <1>7, <1>8, <1>9, <1>10, <1>11, <1>12, <1>13, <1>14, <1>15
  DEF Next, replace, erase

-----------------------------------------------------------------------------
\* Every variable keeps its type, and only a crash or a stuck file leaves a
\* staging file behind (write_record_file).
THEOREM TypeCorrect == ASSUME Assumptions PROVE Spec => []TypeOK
<1>1. Init => Shaped /\ Staged
  BY InitShaped
<1>2. Shaped /\ Staged /\ [Next]_vars => (Shaped /\ Staged)'
  BY NextShaped
<1>3. Shaped /\ Staged => TypeOK
  BY DEF Shaped, Staged, TypeOK, At
<1> QED
  BY <1>1, <1>2, <1>3, PTL DEF Spec

\* A replacement that ends before its rename, by an error of any of its calls or by a
\* crash, leaves the record it was to overwrite: on any disk, whatever a write stores,
\* whatever file is stuck and whatever the format becomes (write_record_file).
THEOREM ReplacesOrKeeps == ASSUME Assumptions PROVE Spec => KeepsUntilRename
<1>1. Init => Shaped /\ Staged
  BY InitShaped
<1>2. Shaped /\ Staged /\ [Next]_vars => (Shaped /\ Staged)' /\ [NothingIsTorn]_vars
  BY NextShaped
<1> QED
  BY <1>1, <1>2, PTL DEF Spec, KeepsUntilRename

\* On a disk that stores what it is given, a read finds what was last written or
\* erased, or what the last interrupted operation was to leave: with any number of
\* crashes and stuck files while the format stays, and under changes of format when
\* no operation is interrupted (FileStore::read, replace, erase).
THEOREM ReadsWhatWasWritten ==
    ASSUME Assumptions, Reliable
    PROVE  Spec => [](ReadsLastWritten /\ OneFile)
<1> DEFINE IInv == Shaped /\ Staged /\ Stored
<1>1. Init => IInv
  BY InitShaped
<1>2. IInv /\ [Next]_vars => IInv'
  BY NextShaped, NextStored
<1>3. IInv => ReadsLastWritten /\ OneFile
  BY DEF Stored, ReadsLastWritten, OneFile, Idle
<1> QED
  BY <1>1, <1>2, <1>3, PTL DEF Spec
=============================================================================

------------------------ MODULE BundleRefreshProofs ------------------------
(***************************************************************************)
(* Proofs about BundleRefresh: for any files, bundles, edits and numbers   *)
(* of backups and runs, as long as the operator does not edit a file while *)
(* a run pulls its images.                                                 *)
(***************************************************************************)
EXTENDS BundleRefresh, SequenceTheorems, TLAPS

-----------------------------------------------------------------------------
(***************************************************************************)
(* Types.                                                                  *)
(***************************************************************************)

\* What is at hand while a run is at a step.
Local ==
    /\ pc # "idle" => served \in [File -> Bytes]
    /\ pc \in {"idle", "pull"} => at = 0
    /\ pc = "rename" => at < Len(Files)
    /\ pc \in {"commit", "manifest"} => at = Len(Files)
    /\ failed => pc = "undo" /\ died

Typed == TypeOK /\ Local

LEMMA FileTypes ==
    /\ Len(Files) \in Nat
    /\ \A i \in 1 .. Len(Files) : Files[i] \in File
BY BundleConstants

LEMMA NextFileTypes == TypeOK /\ at < Len(Files) => NextFile \in File /\ at + 1 \in 1 .. Len(Files)
BY FileTypes DEF TypeOK, NextFile

\* The special values are no content.
LEMMA ValueTypes ==
    /\ Missing \notin Content /\ EmptyDir \notin Content /\ Link \notin Content
    /\ Missing # EmptyDir /\ Missing # Link /\ EmptyDir # Link
    /\ NoEntry \notin Content
    /\ Bytes \subseteq Content /\ Edit \subseteq Content /\ Edit \cap Bytes = {}
    /\ Content \subseteq OnDisk /\ Missing \in OnDisk /\ EmptyDir \in OnDisk
BY BundleConstants DEF Content, OnDisk

LEMMA StateTypes ==
    ASSUME TypeOK, NEW f \in File
    PROVE  /\ State(f) = "missing" <=> cur[f] \in {Missing, EmptyDir}
           /\ State(f) = "unchanged" => cur[f] = served[f]
           /\ State(f) = "pristine" => /\ cur[f] \in Content
                                       /\ f \in force \/ Pristine(f, cur[f])
           /\ State(f) \in {"missing", "unchanged", "pristine", "modified"}
<1>1. cur[f] \in OnDisk
  BY DEF TypeOK
<1>2. CASE cur[f] \in {Missing, EmptyDir}
  BY <1>2 DEF State
<1>3. CASE cur[f] \notin {Missing, EmptyDir} /\ cur[f] = served[f]
  BY <1>3 DEF State
<1>4. CASE /\ cur[f] \notin {Missing, EmptyDir} /\ cur[f] # served[f]
           /\ cur[f] # Link /\ (f \in force \/ Pristine(f, cur[f]))
  <2>1. State(f) = "pristine"
    BY <1>4 DEF State
  <2> QED
    BY <1>1, <1>4, <2>1 DEF OnDisk
<1>5. CASE /\ cur[f] \notin {Missing, EmptyDir} /\ cur[f] # served[f]
           /\ ~(cur[f] # Link /\ (f \in force \/ Pristine(f, cur[f])))
  BY <1>5 DEF State
<1> QED
  BY <1>2, <1>3, <1>4, <1>5

\* A step of apply is remembered.
LEMMA Pushed ==
    ASSUME NEW s \in Seq(Undo), NEW u \in Undo
    PROVE  /\ Append(s, u) \in Seq(Undo)
           /\ Len(s) \in Nat
           /\ Len(Append(s, u)) = Len(s) + 1
           /\ Append(s, u)[Len(s) + 1] = u
           /\ \A i \in 1 .. Len(s) : Append(s, u)[i] = s[i]
OBVIOUS

\* The newest step of rollback is taken away.
LEMMA Popped ==
    ASSUME NEW s \in Seq(Undo), s # <<>>
    PROVE  /\ SubSeq(s, 1, Len(s) - 1) \in Seq(Undo)
           /\ Len(s) \in Nat \ {0}
           /\ Len(SubSeq(s, 1, Len(s) - 1)) = Len(s) - 1
           /\ \A i \in 1 .. Len(s) - 1 : SubSeq(s, 1, Len(s) - 1)[i] = s[i]
           /\ s[Len(s)] \in Undo
<1>1. SubSeq(s, 1, Len(s) - 1) \in Seq(Undo)
  OBVIOUS
<1>2. Len(SubSeq(s, 1, Len(s) - 1)) = Len(s) - 1
  OBVIOUS
<1>3. Len(s) \in Nat \ {0} /\ s[Len(s)] \in Undo
  OBVIOUS
<1>4. \A i \in 1 .. Len(s) - 1 : SubSeq(s, 1, Len(s) - 1)[i] = s[i]
  <2>1. \A i \in 1 .. Len(s) - 1 : s[i] \in Undo
    OBVIOUS
  <2>2. \A i \in 1 .. (Len(s) - 1) - 1 + 1 : SubSeq(s, 1, Len(s) - 1)[i] = s[1 + i - 1]
    BY <1>3, <2>1, SubSeqProperties
  <2> QED BY <1>3, <2>2
<1> QED
  BY <1>1, <1>2, <1>3, <1>4, Zenon

LEMMA UndoTypes ==
    /\ \A f \in File, n \in 1 .. MaxBackups : [file |-> f, do |-> "restore", from |-> n] \in Undo
    /\ \A f \in File : [file |-> f, do |-> "mkdir"] \in Undo /\ [file |-> f, do |-> "remove"] \in Undo
    /\ \A u \in Undo : /\ u.file \in File /\ u.do \in {"restore", "mkdir", "remove"}
                       /\ u.do = "restore" => u.from \in 1 .. MaxBackups
BY DEF Undo

LEMMA EndTypes ==
    ASSUME TypeOK, End
    PROVE  /\ pc' = "idle" /\ served' \in [File -> Bytes \cup {NoEntry}]
           /\ cur' \in [File -> OnDisk] /\ force' \subseteq File
           /\ at' = 0 /\ at' \in 0 .. Len(Files)
           /\ undo' = <<>> /\ undo' \in Seq(Undo) /\ failed' = FALSE /\ runs' \in 0 .. MaxRuns
BY ValueTypes, FileTypes DEF End, Goto, TypeOK

LEMMA InitTypes == Init => Typed
<1> SUFFICES ASSUME Init PROVE Typed
  OBVIOUS
<1>1. disk \in [File -> Bytes]
  BY BundleConstants DEF Init
<1>2. manifest \in [File -> Bytes \cup {NoEntry}]
  BY <1>1 DEF Init
<1>3. undo \in Seq(Undo)
  BY DEF Init
<1>4. disk \in [File -> OnDisk] /\ cur \in [File -> OnDisk]
  BY <1>1, ValueTypes DEF Init
<1>5. at \in 0 .. Len(Files) /\ runs \in 0 .. MaxRuns
  BY FileTypes, BundleConstants DEF Init
<1> QED
  BY <1>2, <1>3, <1>4, <1>5 DEF Init, Typed, TypeOK, Local

\* The three ways a step is undone.
LEMMA RollBackSteps ==
    ASSUME TypeOK, RollBack
    PROVE  \E f \in File :
              /\ undo[Len(undo)].file = f
              /\ \/ \E n \in 1 .. MaxBackups :
                        /\ undo[Len(undo)].do = "restore" /\ undo[Len(undo)].from = n
                        /\ disk' = [disk EXCEPT ![f] = backup[f][n]]
                        /\ backup' = [backup EXCEPT ![f][n] = Missing]
                 \/ /\ undo[Len(undo)].do = "mkdir"
                    /\ disk' = [disk EXCEPT ![f] = EmptyDir] /\ backup' = backup
                 \/ /\ undo[Len(undo)].do = "remove"
                    /\ disk' = [disk EXCEPT ![f] = Missing] /\ backup' = backup
<1>1. undo[Len(undo)] \in Undo
  BY Popped DEF RollBack, TypeOK
<1>2. /\ undo[Len(undo)].file \in File
      /\ undo[Len(undo)].do = "restore" => undo[Len(undo)].from \in 1 .. MaxBackups
  BY <1>1, UndoTypes
<1> QED
  BY <1>2, Zenon DEF RollBack

LEMMA RefreshTypes ==
    ASSUME Typed, Refresh, UNCHANGED died
    PROVE  Typed'
<1> USE DEF Goto, project, plan, Typed
<1>0. Missing \in OnDisk /\ EmptyDir \in OnDisk /\ Content \subseteq OnDisk /\ Bytes \subseteq Content
  BY ValueTypes
<1>1. CASE \E b \in Bundles, forced \in {{}, {Schema}, File} : Prepare(b, forced)
  <2>1. served' \in [File -> Bytes] /\ force' \subseteq File
    BY <1>1, BundleConstants DEF Prepare
  <2>2. runs' \in 0 .. MaxRuns
    BY <1>1, BundleConstants DEF Prepare, TypeOK
  <2> QED
    BY <1>1, <2>1, <2>2 DEF Prepare, TypeOK, Local
<1>2. CASE Pull
  <2>1. CASE pc' = "apply" /\ UNCHANGED <<plan, at, undo, failed>>
    BY <1>2, <2>1 DEF Pull, TypeOK, Local
  <2>2. CASE End
    BY <1>2, <2>2, EndTypes DEF Pull, TypeOK, Local
  <2> QED
    BY <1>2, <2>1, <2>2 DEF Pull
<1>3. CASE Skip
  <2>1. at' \in 0 .. Len(Files)
    BY <1>3, FileTypes DEF Skip, TypeOK
  <2> QED
    BY <1>3, <2>1 DEF Skip, TypeOK, Local
<1>4. CASE Backup
  <2>1. NextFile \in File /\ State(NextFile) = "pristine" /\ at < Len(Files)
    BY <1>4, NextFileTypes DEF Backup
  <2>2. cur[NextFile] \in Content
    BY <2>1, StateTypes
  <2>3. PICK n \in 1 .. MaxBackups :
           /\ backup' = [backup EXCEPT ![NextFile][n] = cur[NextFile]]
           /\ undo' = Append(undo, [file |-> NextFile, do |-> "restore", from |-> n])
    BY <1>4 DEF Backup, FirstFree, Free
  <2>4. backup' \in [File -> [1 .. MaxBackups -> Content \cup {Missing}]]
    BY <2>1, <2>2, <2>3 DEF TypeOK
  <2>5. undo' \in Seq(Undo)
    BY <2>1, <2>3, Pushed, UndoTypes DEF TypeOK
  <2> QED
    BY <1>4, <2>1, <2>4, <2>5 DEF Backup, TypeOK, Local
<1>5. CASE MakeRoom
  <2>1. NextFile \in File /\ at < Len(Files)
    BY <1>5, NextFileTypes DEF MakeRoom
  <2>2. disk' \in [File -> OnDisk]
    BY <1>0, <1>5 DEF MakeRoom, TypeOK
  <2>3. undo' \in Seq(Undo)
    <3>1. [file |-> NextFile, do |-> "mkdir"] \in Undo
      BY <2>1, UndoTypes
    <3>2. Append(undo, [file |-> NextFile, do |-> "mkdir"]) \in Seq(Undo)
      BY <3>1, Pushed DEF TypeOK
    <3>3. \/ undo' = undo
          \/ undo' = Append(undo, [file |-> NextFile, do |-> "mkdir"])
      BY <1>5 DEF MakeRoom
    <3> QED
      BY <3>2, <3>3 DEF TypeOK
  <2> QED
    BY <1>5, <2>1, <2>2, <2>3 DEF MakeRoom, TypeOK, Local
<1>6. CASE Rename
  <2>1. NextFile \in File /\ at' \in 0 .. Len(Files)
    BY <1>6, NextFileTypes, FileTypes DEF Rename, TypeOK, Local
  <2>2. disk' \in [File -> OnDisk]
    BY <1>0, <1>6, <2>1 DEF Rename, TypeOK, Local
  <2>3. undo' \in Seq(Undo)
    BY <1>6, <2>1, Pushed, UndoTypes DEF Rename, TypeOK
  <2> QED
    BY <1>6, <2>1, <2>2, <2>3 DEF Rename, TypeOK, Local
<1>7. CASE Applied
  BY <1>7 DEF Applied, TypeOK, Local
<1>8. CASE ApplyFails
  BY <1>8 DEF ApplyFails, TypeOK, Local
<1>9. CASE RollBack
  <2>1. undo' \in Seq(Undo)
    BY <1>9, Popped DEF RollBack, TypeOK
  <2>2. PICK f \in File :
           /\ disk' = [disk EXCEPT ![f] = disk'[f]]
           /\ \/ disk'[f] \in {EmptyDir, Missing}
              \/ \E n \in 1 .. MaxBackups : disk'[f] = backup[f][n]
           /\ \/ backup' = backup
              \/ \E n \in 1 .. MaxBackups : backup' = [backup EXCEPT ![f][n] = Missing]
    BY <1>9, RollBackSteps DEF TypeOK
  <2>3. backup[f] \in [1 .. MaxBackups -> Content \cup {Missing}]
    BY DEF TypeOK
  <2>4. disk'[f] \in OnDisk
    BY <1>0, <2>2, <2>3
  <2>5. disk' \in [File -> OnDisk]
    BY <2>2, <2>4 DEF TypeOK
  <2>6. backup' \in [File -> [1 .. MaxBackups -> Content \cup {Missing}]]
    <3>1. backup \in [File -> [1 .. MaxBackups -> Content \cup {Missing}]]
      BY DEF TypeOK
    <3>2. CASE backup' = backup
      BY <3>1, <3>2
    <3>3. CASE \E n \in 1 .. MaxBackups : backup' = [backup EXCEPT ![f][n] = Missing]
      BY <3>1, <3>3
    <3> QED
      BY <2>2, <3>2, <3>3
  <2> QED
    BY <1>9, <2>1, <2>5, <2>6 DEF RollBack, TypeOK, Local
<1>10. CASE RolledBack
  BY <1>10, EndTypes DEF RolledBack, TypeOK, Local
<1>11. CASE CommitNew
  <2>1. newer' \in [File -> Bytes \cup {Missing}]
    BY <1>11 DEF CommitNew, TypeOK, Local
  <2> QED
    BY <1>11, <2>1 DEF CommitNew, TypeOK, Local
<1>12. CASE CommitManifest
  <2>1. manifest' \in [File -> Bytes \cup {NoEntry}]
    BY <1>12 DEF CommitManifest, TypeOK
  <2> QED
    BY <1>12, <2>1, EndTypes DEF CommitManifest, TypeOK, Local
<1> QED
  BY <1>1, <1>2, <1>3, <1>4, <1>5, <1>6, <1>7, <1>8, <1>9, <1>10, <1>11, <1>12 DEF Refresh

LEMMA ResetTypes ==
    ASSUME Typed, Reset, UNCHANGED died
    PROVE  Typed'
<1> USE DEF Goto, project, plan, Typed
<1>0. Schema \in File
  BY BundleConstants
<1>1. CASE \E b \in Bundles : SchemaBackup(b)
  <2>1. PICK b \in Bundles : SchemaBackup(b)
    BY <1>1
  <2>2. served' \in [File -> Bytes] /\ force' \subseteq File
    BY <1>0, <2>1, BundleConstants DEF SchemaBackup
  <2>3. runs' \in 0 .. MaxRuns
    BY <2>1, BundleConstants DEF SchemaBackup, TypeOK
  <2>4. disk' \in [File -> OnDisk]
    BY <2>1, ValueTypes DEF SchemaBackup, TypeOK
  <2>5. backup' \in [File -> [1 .. MaxBackups -> Content \cup {Missing}]]
    <3>1. CASE disk[Schema] \in {Missing, EmptyDir, b[Schema]}
      BY <2>1, <3>1 DEF SchemaBackup, TypeOK
    <3>2. CASE disk[Schema] \notin {Missing, EmptyDir, b[Schema]}
      <4>1. disk[Schema] \in Content
        BY <1>0, <2>1, <3>2 DEF SchemaBackup, TypeOK, OnDisk
      <4>2. PICK n \in 1 .. MaxBackups : backup' = [backup EXCEPT ![Schema][n] = disk[Schema]]
        BY <2>1, <3>2 DEF SchemaBackup, FirstFree, Free
      <4> QED
        BY <1>0, <4>1, <4>2 DEF TypeOK
    <3> QED
      BY <3>1, <3>2
  <2> QED
    BY <2>1, <2>2, <2>3, <2>4, <2>5 DEF SchemaBackup, TypeOK, Local
<1>2. CASE SchemaWrite
  <2>1. disk' \in [File -> OnDisk]
    BY <1>0, <1>2, ValueTypes DEF SchemaWrite, TypeOK, Local
  <2> QED
    BY <1>2, <2>1 DEF SchemaWrite, TypeOK, Local
<1>3. CASE SchemaRecord
  <2>1. manifest' \in [File -> Bytes \cup {NoEntry}]
    BY <1>0, <1>3 DEF SchemaRecord, TypeOK
  <2> QED
    BY <1>3, <2>1, EndTypes DEF SchemaRecord, TypeOK, Local
<1> QED
  BY <1>1, <1>2, <1>3 DEF Reset

LEMMA OperatorTypes ==
    ASSUME Typed, UNCHANGED died, NEW f \in File, Operator(f) \/ Deleted(f)
    PROVE  Typed'
<1> USE DEF plan, Typed
<1>1. CASE Operator(f)
  <2>1. PICK c \in Edit \cup {Link} \cup {backup[f][n] : n \in (1 .. MaxBackups) \ Free(f)} :
           disk' = [disk EXCEPT ![f] = c] /\ mine' = [mine EXCEPT ![f] = c]
    BY <1>1 DEF Operator
  <2>2. \A n \in (1 .. MaxBackups) \ Free(f) : backup[f][n] \in Content
    <3>1. backup[f] \in [1 .. MaxBackups -> Content \cup {Missing}]
      BY DEF TypeOK
    <3>2. \A n \in (1 .. MaxBackups) \ Free(f) : backup[f][n] # Missing
      BY DEF Free
    <3> QED
      BY <3>1, <3>2
  <2>3. c \in Content \cup {Link}
    BY <2>1, <2>2 DEF Content
  <2>4. disk' \in [File -> OnDisk] /\ mine' \in [File -> Content \cup {Link, Missing}]
    BY <2>1, <2>3 DEF TypeOK, OnDisk
  <2> QED
    BY <1>1, <2>4 DEF Operator, TypeOK, Local
<1>2. CASE Deleted(f)
  <2>1. disk' \in [File -> OnDisk] /\ mine' \in [File -> Content \cup {Link, Missing}]
    BY <1>2, ValueTypes DEF Deleted, TypeOK
  <2> QED
    BY <1>2, <2>1 DEF Deleted, TypeOK, Local
<1> QED
  BY <1>1, <1>2

LEMMA NextTypes ==
    ASSUME Typed, [Next]_vars
    PROVE  Typed'
<1> USE DEF project, plan
<1>1. CASE Refresh /\ UNCHANGED died
  BY <1>1, RefreshTypes
<1>2. CASE Reset /\ UNCHANGED died
  BY <1>2, ResetTypes
<1>3. CASE (\E f \in File : Operator(f) \/ Deleted(f)) /\ UNCHANGED died
  BY <1>3, OperatorTypes
<1>4. CASE RollBackFails
  <2>1. undo' \in Seq(Undo)
    BY <1>4, Popped DEF RollBackFails, Typed, TypeOK
  <2> QED
    BY <1>4, <2>1 DEF RollBackFails, Typed, TypeOK, Local
<1>5. CASE Die
  BY <1>5, EndTypes DEF Die, Typed, TypeOK, Local
<1>6. CASE UNCHANGED vars
  BY <1>6 DEF vars, Typed, TypeOK, Local
<1> QED
  BY <1>1, <1>2, <1>3, <1>4, <1>5, <1>6 DEF Next

\* Every variable keeps to its type.
THEOREM TypeCorrect == Spec => []TypeOK
<1>1. Typed => TypeOK
  BY DEF Typed
<1> QED
  BY <1>1, InitTypes, NextTypes, PTL DEF Spec

-----------------------------------------------------------------------------
(***************************************************************************)
(* The steps rollback would undo.                                          *)
(***************************************************************************)

Steps == 1 .. Len(undo)

\* Backup k of f would be put back.
Taken(f, k) == \E i \in Steps : undo[i].do = "restore" /\ undo[i].file = f /\ undo[i].from = k

Held(f) == \E k \in 1 .. MaxBackups : Taken(f, k)

Touched(f) == \E i \in Steps : undo[i].file = f

\* A directory or nothing would be put back.
Vacated(f) == \E i \in Steps : undo[i].file = f /\ undo[i].do # "restore"

\* The oldest step that touched f, the last to be undone, is a d.
Oldest(f, d) == \E i \in Steps : /\ undo[i].file = f /\ undo[i].do = d
                                 /\ \A j \in 1 .. i - 1 : undo[j].file # f

\* No backup would be put back twice.
Once ==
    \A i, j \in Steps :
        /\ undo[i].do = "restore" /\ undo[j].do = "restore"
        /\ undo[i].file = undo[j].file /\ undo[i].from = undo[j].from
        => i = j

LEMMA NoSteps ==
    ASSUME undo = <<>>
    PROVE  /\ \A f, k : ~Taken(f, k)
           /\ \A f : ~Held(f) /\ ~Touched(f) /\ ~Vacated(f)
           /\ \A f, d : ~Oldest(f, d)
           /\ Once
<1>1. Steps = {}
  BY DEF Steps
<1> QED
  BY <1>1, Zenon DEF Taken, Held, Touched, Vacated, Oldest, Once

LEMMA SameSteps ==
    ASSUME undo' = undo
    PROVE  /\ \A f, k : Taken(f, k)' <=> Taken(f, k)
           /\ \A f : Held(f)' <=> Held(f)
           /\ \A f : Touched(f)' <=> Touched(f)
           /\ \A f : Vacated(f)' <=> Vacated(f)
           /\ \A f, d : Oldest(f, d)' <=> Oldest(f, d)
           /\ Once' <=> Once
BY DEF Steps, Taken, Held, Touched, Vacated, Oldest, Once

\* One step more.
LEMMA StepMore ==
    ASSUME undo \in Seq(Undo), NEW u \in Undo, undo' = Append(undo, u)
    PROVE  /\ \A f, k : Taken(f, k)' <=>
                  Taken(f, k) \/ (u.do = "restore" /\ u.file = f /\ u.from = k)
           /\ \A f : Touched(f)' <=> Touched(f) \/ u.file = f
           /\ \A f : Vacated(f)' <=> Vacated(f) \/ (u.file = f /\ u.do # "restore")
           /\ \A f, d : Oldest(f, d)' <=>
                  Oldest(f, d) \/ (u.file = f /\ u.do = d /\ ~Touched(f))
           /\ Once /\ (u.do = "restore" => ~Taken(u.file, u.from)) => Once'
<1> DEFINE n == Len(undo)
<1>1. /\ n \in Nat /\ Len(undo') = n + 1 /\ undo'[n + 1] = u
      /\ \A i \in 1 .. n : undo'[i] = undo[i]
  BY Pushed
<1>2. /\ Steps = 1 .. n /\ Steps' = 1 .. n + 1 /\ n + 1 \in 1 .. n + 1
      /\ \A i \in 1 .. n + 1 : i \in 1 .. n \/ i = n + 1
      /\ \A i \in 1 .. n : i \in 1 .. n + 1 /\ i # n + 1
  BY <1>1 DEF Steps
<1>3. \A i \in 1 .. n : \A j \in 1 .. i - 1 : j \in 1 .. n
  BY <1>1
<1>4. 1 .. n + 1 - 1 = 1 .. n
  BY <1>1
<1> HIDE DEF n
<1>5. ASSUME NEW f, NEW k
      PROVE  Taken(f, k)' <=> Taken(f, k) \/ (u.do = "restore" /\ u.file = f /\ u.from = k)
  BY <1>1, <1>2, Zenon DEF Taken
<1>6. ASSUME NEW f
      PROVE  /\ Touched(f)' <=> Touched(f) \/ u.file = f
             /\ Vacated(f)' <=> Vacated(f) \/ (u.file = f /\ u.do # "restore")
  BY <1>1, <1>2, Zenon DEF Touched, Vacated
<1>7. ASSUME NEW f, NEW d
      PROVE  Oldest(f, d)' <=> Oldest(f, d) \/ (u.file = f /\ u.do = d /\ ~Touched(f))
  BY <1>1, <1>2, <1>3, <1>4 DEF Oldest, Touched
<1>8. ASSUME Once, u.do = "restore" => ~Taken(u.file, u.from)
      PROVE  Once'
  BY <1>1, <1>2, <1>8 DEF Once, Taken
<1> QED
  BY <1>5, <1>6, <1>7, <1>8, Zenon

\* One step less.
LEMMA StepLess ==
    ASSUME undo \in Seq(Undo), undo # <<>>, undo' = SubSeq(undo, 1, Len(undo) - 1),
           NEW u, u = undo[Len(undo)]
    PROVE  /\ \A f, k : Taken(f, k) <=>
                  Taken(f, k)' \/ (u.do = "restore" /\ u.file = f /\ u.from = k)
           /\ \A f : Touched(f) <=> Touched(f)' \/ u.file = f
           /\ \A f : Vacated(f) <=> Vacated(f)' \/ (u.file = f /\ u.do # "restore")
           /\ \A f, d : Oldest(f, d) <=>
                  Oldest(f, d)' \/ (u.file = f /\ u.do = d /\ ~Touched(f)')
           /\ Once => Once' /\ (u.do = "restore" => ~Taken(u.file, u.from)')
<1> DEFINE n == Len(undo')
<1>1. /\ n \in Nat /\ Len(undo) = n + 1 /\ undo[n + 1] = u
      /\ \A i \in 1 .. n : undo'[i] = undo[i]
  BY Popped
<1>2. /\ Steps' = 1 .. n /\ Steps = 1 .. n + 1 /\ n + 1 \in 1 .. n + 1
      /\ \A i \in 1 .. n + 1 : i \in 1 .. n \/ i = n + 1
      /\ \A i \in 1 .. n : i \in 1 .. n + 1 /\ i # n + 1
  BY <1>1 DEF Steps
<1>3. \A i \in 1 .. n : \A j \in 1 .. i - 1 : j \in 1 .. n
  BY <1>1
<1>4. 1 .. n + 1 - 1 = 1 .. n
  BY <1>1
<1> HIDE DEF n
<1>5. ASSUME NEW f, NEW k
      PROVE  Taken(f, k) <=> Taken(f, k)' \/ (u.do = "restore" /\ u.file = f /\ u.from = k)
  BY <1>1, <1>2, Zenon DEF Taken
<1>6. ASSUME NEW f
      PROVE  /\ Touched(f) <=> Touched(f)' \/ u.file = f
             /\ Vacated(f) <=> Vacated(f)' \/ (u.file = f /\ u.do # "restore")
  BY <1>1, <1>2, Zenon DEF Touched, Vacated
<1>7. ASSUME NEW f, NEW d
      PROVE  Oldest(f, d) <=> Oldest(f, d)' \/ (u.file = f /\ u.do = d /\ ~Touched(f)')
  BY <1>1, <1>2, <1>3, <1>4 DEF Oldest, Touched
<1>8. ASSUME Once
      PROVE  Once' /\ (u.do = "restore" => ~Taken(u.file, u.from)')
  BY <1>1, <1>2, <1>8 DEF Once, Taken
<1> QED
  BY <1>5, <1>6, <1>7, <1>8, Zenon

-----------------------------------------------------------------------------
(***************************************************************************)
(* The inductive invariant.                                                *)
(***************************************************************************)

Working == pc \in {"apply", "rename", "undo"}

\* What would be put back is what prepareBundleRefresh read.
StepsInv ==
    /\ \A f \in File, k \in 1 .. MaxBackups :
          Taken(f, k) => backup[f][k] = cur[f] /\ cur[f] \in Content
    /\ \A f \in File : Vacated(f) => cur[f] \in {Missing, EmptyDir}
    /\ Once

Kept(f) == mine[f] # Missing =>
    disk[f] = mine[f] \/ \E k \in 1 .. MaxBackups : backup[f][k] = mine[f]

\* It also stays so when the steps are undone, or when that fails.
Safe(f) == mine[f] # Missing =>
    \/ cur[f] = mine[f] /\ (disk[f] = cur[f] \/ Held(f))
    \/ \E k \in 1 .. MaxBackups : backup[f][k] = mine[f] /\ ~Taken(f, k)

KeptInv ==
    /\ pc = "pull" => disk = cur
    /\ \A f \in File : IF Working THEN Safe(f) ELSE Kept(f)
    /\ pc = "write" /\ mine[Schema] # Missing =>
          mine[Schema] = served[Schema] \/ \E k \in 1 .. MaxBackups : backup[Schema][k] = mine[Schema]

\* A file apply has dealt with.
Settled(f) == disk[f] = IF Changes(f) THEN served[f] ELSE cur[f]

\* A file apply is about to replace.
Ready(f) ==
    \/ State(f) = "pristine" /\ Held(f) /\ disk[f] = cur[f]
    \/ State(f) = "missing" /\ disk[f] = Missing /\ (cur[f] = Missing \/ Touched(f))

PlaceInv ==
    /\ pc \in {"apply", "rename"} => \A j \in 1 .. Len(Files) :
          /\ j <= at => Settled(Files[j])
          /\ j > at => disk[Files[j]] = cur[Files[j]] \/ (pc = "rename" /\ j = at + 1)
    /\ pc = "rename" => Ready(NextFile)
    /\ pc \in {"commit", "manifest"} => \A f \in File : Settled(f)

\* The oldest step undone last leaves a file as it was.
BackInv ==
    Working /\ ~failed => \A f \in File :
        /\ Touched(f) \/ disk[f] = cur[f]
        /\ Oldest(f, "mkdir") => cur[f] = EmptyDir
        /\ Oldest(f, "remove") => cur[f] = Missing

Own(f, content) == content \in Bytes /\ content # mine[f] => Pristine(f, content)

\* A file of the CLI's own is one it knows as such.
OwnInv ==
    ~died => \A f \in File :
        /\ pc = "idle" \/ (pc \in {"write", "record"} /\ f # Schema) => Own(f, disk[f])
        /\ pc \in {"pull", "apply", "rename", "undo", "commit", "manifest"} => Own(f, cur[f])
        /\ pc = "record" => disk[Schema] = served[Schema]

Inv == Typed /\ StepsInv /\ KeptInv /\ PlaceInv /\ BackInv /\ OwnInv

LEMMA InitInv == Init => Inv
<1> SUFFICES ASSUME Init PROVE Inv
  OBVIOUS
<1>1. Typed
  BY InitTypes
<1>2. StepsInv
  BY NoSteps, Zenon DEF Init, StepsInv
<1>3. KeptInv
  BY DEF Init, KeptInv, Kept, Working
<1>4. \A f \in File : Own(f, disk[f])
  BY DEF Init, Own, Pristine
<1> QED
  BY <1>1, <1>2, <1>3, <1>4 DEF Init, Inv, PlaceInv, BackInv, OwnInv, Working

\* While a run is at work, what the operator put in a file is not lost either.
LEMMA SafeIsKept ==
    ASSUME TypeOK, StepsInv, NEW f \in File, Safe(f)
    PROVE  Kept(f)
BY DEF Safe, Kept, Held, StepsInv

\* The end of a run.
LEMMA EndInv ==
    ASSUME Typed', End, \A f \in File : Kept(f)',
           ~died' => \A f \in File : Own(f, disk[f])'
    PROVE  Inv'
<1>1. pc' = "idle" /\ undo' = <<>>
  BY DEF End, Goto
<1>2. StepsInv'
  <2>1. /\ \A f, k : ~Taken(f, k)'
        /\ \A f : ~Vacated(f)'
        /\ Once'
    BY <1>1 DEF Steps, Taken, Vacated, Once
  <2> QED
    BY <2>1, Zenon DEF StepsInv
<1> QED
  BY <1>1, <1>2 DEF Inv, KeptInv, PlaceInv, BackInv, OwnInv, Working

\* The files and what is known of them are as they were.
LEMMA SameProject ==
    ASSUME UNCHANGED project, NEW f \in File
    PROVE  /\ Kept(f)' <=> Kept(f)
           /\ Own(f, disk[f])' <=> Own(f, disk[f])
BY DEF project, Kept, Own, Pristine

\* So are the files' states, as long as the run goes on.
LEMMA SamePlan ==
    ASSUME UNCHANGED <<plan, manifest, mine>>, NEW f \in File
    PROVE  /\ State(f)' = State(f)
           /\ Changes(f)' <=> Changes(f)
           /\ Own(f, cur[f])' <=> Own(f, cur[f])
BY DEF plan, State, Changes, Pristine, Own

-----------------------------------------------------------------------------
(***************************************************************************)
(* The steps of a refresh.                                                 *)
(***************************************************************************)

LEMMA PrepareInv ==
    ASSUME Inv, Typed', UNCHANGED died, NEW b \in Bundles, NEW forced, Prepare(b, forced)
    PROVE  Inv'
<1>1. /\ pc = "idle" /\ pc' = "pull" /\ undo = <<>> /\ undo' = undo
      /\ cur' = disk /\ disk' = disk /\ failed' = failed
  BY DEF Prepare, Goto, project, Inv, Typed, TypeOK
<1>2. StepsInv'
  BY <1>1, NoSteps, SameSteps, Zenon DEF StepsInv
<1>3. \A f \in File : Kept(f)'
  BY <1>1, SameProject DEF Prepare, Inv, KeptInv, Working
<1>4. ~died => \A f \in File : Own(f, disk[f])'
  BY <1>1, SameProject DEF Prepare, Inv, OwnInv
<1>5. \A f \in File : Own(f, cur[f])' <=> Own(f, disk[f])'
  BY <1>1 DEF Own, Pristine
<1>6. KeptInv' /\ OwnInv'
  BY <1>1, <1>3, <1>4, <1>5 DEF KeptInv, OwnInv, Working
<1> QED
  BY <1>1, <1>2, <1>6 DEF Inv, PlaceInv, BackInv, Working

LEMMA PullInv ==
    ASSUME Inv, Typed', UNCHANGED died, Pull
    PROVE  Inv'
<1>1. \A f \in File : Kept(f) /\ Kept(f)'
  BY SameProject DEF Pull, Inv, KeptInv, Working
<1>2. pc = "pull" /\ disk = cur /\ undo = <<>> /\ at = 0
  BY DEF Pull, Inv, KeptInv, Typed, TypeOK, Local
<1>3. ~died => \A f \in File : Own(f, cur[f]) /\ Own(f, disk[f])'
  BY <1>2, SameProject DEF Pull, Inv, OwnInv
<1>4. CASE pc' = "apply" /\ UNCHANGED <<plan, at, undo, failed>>
  <2>1. disk' = cur' /\ undo' = undo /\ at' = 0 /\ ~failed'
    BY <1>2, <1>4 DEF Pull, project, plan, Inv, Typed, Local
  <2>2. StepsInv'
    BY <1>2, <1>4, NoSteps, SameSteps, Zenon DEF StepsInv
  <2>3. \A f \in File : Safe(f)'
    <3> SUFFICES ASSUME NEW f \in File, Kept(f)' PROVE Safe(f)'
      BY <1>1
    <3>1. \A k : ~Taken(f, k)'
      BY <1>2, <2>1, NoSteps, SameSteps, Zenon
    <3> QED
      BY <2>1, <3>1 DEF Safe, Kept
  <2>4. KeptInv'
    BY <1>4, <2>3 DEF KeptInv, Working
  <2>5. PlaceInv'
    BY <1>4, <2>1, FileTypes DEF PlaceInv
  <2>6. BackInv'
    <3>1. \A f, d : ~Oldest(f, d)'
      BY <1>2, <2>1, NoSteps, SameSteps, Zenon
    <3> QED
      BY <2>1, <3>1 DEF BackInv
  <2>7. OwnInv'
    BY <1>3, <1>4, SamePlan DEF OwnInv, Pull, project
  <2> QED
    BY <2>2, <2>4, <2>5, <2>6, <2>7 DEF Inv
<1>5. CASE End
  BY <1>1, <1>3, <1>5, EndInv
<1> QED
  BY <1>4, <1>5 DEF Pull, Goto

\* A step of apply that leaves the files and the steps of rollback alone.
LEMMA SameFiles ==
    ASSUME Inv, UNCHANGED <<project, plan, undo, failed, died>>, Working, Working'
    PROVE  StepsInv' /\ KeptInv' /\ BackInv' /\ OwnInv'
<1>1. StepsInv'
  BY SameSteps, Zenon DEF Inv, StepsInv, project, plan
<1>2. \A f \in File : Safe(f)'
  BY SameSteps DEF Inv, KeptInv, Safe, project, plan
<1>3. KeptInv'
  BY <1>2 DEF KeptInv, Working
<1>4. BackInv'
  BY SameSteps DEF Inv, BackInv, project, plan
<1>5. OwnInv'
  BY SamePlan DEF Inv, OwnInv, project, Working
<1> QED
  BY <1>1, <1>3, <1>4, <1>5

LEMMA SkipInv ==
    ASSUME Inv, Typed', UNCHANGED died, Skip
    PROVE  Inv'
<1>1. /\ pc = "apply" /\ pc' = "apply" /\ at' = at + 1 /\ at < Len(Files)
      /\ ~Changes(Files[at + 1]) /\ UNCHANGED <<disk, served, cur>> /\ at \in Nat
  BY DEF Skip, project, plan, NextFile, Inv, Typed, TypeOK
<1>2. StepsInv' /\ KeptInv' /\ BackInv' /\ OwnInv'
  BY <1>1, SameFiles DEF Skip, Working
<1>3. \A f \in File : Settled(f)' <=> Settled(f)
  BY <1>1, SamePlan DEF Skip, project, Settled
<1>4. PlaceInv'
  <2>1. at + 1 \in 1 .. Len(Files) /\ disk[Files[at + 1]] = cur[Files[at + 1]]
    BY <1>1, FileTypes DEF Inv, PlaceInv
  <2>2. Settled(Files[at + 1])
    BY <1>1, <2>1 DEF Settled
  <2> QED
    BY <1>1, <1>3, <2>1, <2>2, FileTypes DEF Inv, PlaceInv
<1> QED
  BY <1>2, <1>4 DEF Inv

LEMMA ApplyFailsInv ==
    ASSUME Inv, Typed', UNCHANGED died, ApplyFails
    PROVE  Inv'
<1>1. pc' = "undo" /\ Working /\ Working'
  BY DEF ApplyFails, Goto, Working
<1>2. StepsInv' /\ KeptInv' /\ BackInv' /\ OwnInv'
  BY <1>1, SameFiles DEF ApplyFails
<1> QED
  BY <1>1, <1>2 DEF Inv, PlaceInv

LEMMA AppliedInv ==
    ASSUME Inv, Typed', UNCHANGED died, Applied
    PROVE  Inv'
<1>1. /\ pc = "apply" /\ pc' = "commit" /\ at = Len(Files) /\ undo' = <<>>
      /\ UNCHANGED <<project, plan>> /\ disk' = disk /\ served' = served /\ cur' = cur
  BY DEF Applied, Goto, project, plan
<1>2. StepsInv'
  BY <1>1 DEF StepsInv, Taken, Vacated, Once, Steps
<1>3. \A f \in File : Kept(f)'
  BY <1>1, SafeIsKept, SameProject DEF Inv, Typed, KeptInv, Working
<1>4. \A f \in File : Settled(f)
  <2>1. \A j \in 1 .. Len(Files) : Settled(Files[j])
    BY <1>1, FileTypes DEF Inv, PlaceInv
  <2> QED
    BY <2>1 DEF File
<1>5. \A f \in File : Settled(f)'
  BY <1>1, <1>4, SamePlan DEF project, Settled
<1>6. OwnInv'
  BY <1>1, SamePlan DEF Inv, OwnInv, project
<1> QED
  BY <1>1, <1>2, <1>3, <1>5, <1>6 DEF Inv, KeptInv, PlaceInv, BackInv, Working

\* One backup of one file is another.
LEMMA BackupAt ==
    ASSUME TypeOK, NEW g \in File, NEW n \in 1 .. MaxBackups, NEW c,
           backup' = [backup EXCEPT ![g] = [backup[g] EXCEPT ![n] = c]]
    PROVE  backup'[g][n] = c
BY DEF TypeOK

LEMMA BackupsElsewhere ==
    ASSUME TypeOK, NEW g \in File, NEW n \in 1 .. MaxBackups, NEW c,
           backup' = [backup EXCEPT ![g] = [backup[g] EXCEPT ![n] = c]]
    PROVE  \A f \in File, k \in 1 .. MaxBackups :
               f # g \/ k # n => backup'[f][k] = backup[f][k]
<1>1. backup \in [File -> [1 .. MaxBackups -> Content \cup {Missing}]]
  BY DEF TypeOK
<1>2. \A f \in File : f # g => backup'[f] = backup[f]
  BY <1>1
<1>3. backup'[g] = [backup[g] EXCEPT ![n] = c] /\ DOMAIN backup[g] = 1 .. MaxBackups
  BY <1>1
<1>4. \A k \in 1 .. MaxBackups : k # n => backup'[g][k] = backup[g][k]
  BY <1>3
<1> QED
  BY <1>2, <1>4

\* A backup is added in a place of its own.
LEMMA BackupInv ==
    ASSUME Inv, Typed', UNCHANGED died, Backup
    PROVE  Inv'
<1>0. at < Len(Files)
  BY DEF Backup, Inv, Typed, Local
<1>g. PICK g \in File : g = NextFile /\ g = Files[at + 1]
  BY <1>0, NextFileTypes DEF NextFile, Inv, Typed
<1>1. /\ pc = "apply" /\ pc' = "rename" /\ at < Len(Files) /\ at' = at
      /\ State(g) = "pristine" /\ UNCHANGED <<disk, newer, manifest, mine, plan, failed, died>>
      /\ disk' = disk /\ cur' = cur /\ mine' = mine /\ failed' = failed
  BY <1>g DEF Backup, Goto, plan
<1>2. g \in File /\ at + 1 \in 1 .. Len(Files) /\ at \in Nat /\ g = Files[at + 1]
  BY <1>0, <1>g, NextFileTypes DEF Inv, Typed, TypeOK
<1>3. cur[g] \in Content /\ disk[g] = cur[g] /\ cur[g] # Missing
  BY <1>1, <1>2, StateTypes, ValueTypes DEF Inv, Typed, PlaceInv
<1>4. PICK n \in 1 .. MaxBackups :
         /\ backup[g][n] = Missing
         /\ backup' = [backup EXCEPT ![g][n] = cur[g]]
         /\ undo' = Append(undo, [file |-> g, do |-> "restore", from |-> n])
  BY <1>g DEF Backup, FirstFree, Free
<1> DEFINE u == [file |-> g, do |-> "restore", from |-> n]
<1>5. u \in Undo /\ u.file = g /\ u.do = "restore" /\ u.from = n /\ undo' = Append(undo, u)
  BY <1>2, <1>4, UndoTypes
<1> HIDE DEF u
<1>6. ~Taken(g, n)
  BY <1>2, <1>3, <1>4 DEF Inv, StepsInv
<1>7. /\ \A f, k : Taken(f, k)' <=> Taken(f, k) \/ (g = f /\ n = k)
      /\ \A f : Touched(f)' <=> Touched(f) \/ g = f
      /\ \A f : Vacated(f)' <=> Vacated(f)
      /\ \A f : (Oldest(f, "mkdir")' <=> Oldest(f, "mkdir"))
                 /\ (Oldest(f, "remove")' <=> Oldest(f, "remove"))
      /\ Once'
  <2>1. undo \in Seq(Undo) /\ Once
    BY DEF Inv, Typed, TypeOK, StepsInv
  <2> QED
    BY <1>5, <1>6, <2>1, StepMore
<1>8. /\ backup'[g][n] = cur[g]
      /\ \A f \in File, k \in 1 .. MaxBackups :
            f # g \/ k # n => backup'[f][k] = backup[f][k]
  <2>1. TypeOK /\ n \in 1 .. MaxBackups
    BY <1>4 DEF Inv, Typed
  <2>2. PICK c : c = cur[g]
    OBVIOUS
  <2>3. backup' = [backup EXCEPT ![g] = [backup[g] EXCEPT ![n] = c]]
    BY <1>4, <2>2
  <2>4. backup'[g][n] = c
    BY <2>1, <2>3, BackupAt, Zenon
  <2>5. \A f \in File, k \in 1 .. MaxBackups :
            f # g \/ k # n => backup'[f][k] = backup[f][k]
    BY <2>1, <2>3, BackupsElsewhere, Zenon
  <2> QED
    BY <2>2, <2>4, <2>5
<1>9. StepsInv'
  BY <1>1, <1>3, <1>7, <1>8 DEF Inv, StepsInv
<1>10. \A f \in File : Safe(f)'
  <2> SUFFICES ASSUME NEW f \in File, mine[f] # Missing PROVE Safe(f)'
    BY <1>1 DEF Safe
  <2>1. Safe(f)
    BY <1>1 DEF Inv, KeptInv, Working
  <2>2. CASE cur[f] = mine[f] /\ (disk[f] = cur[f] \/ Held(f))
    BY <1>1, <1>7, <2>2 DEF Safe, Held
  <2>3. CASE \E k \in 1 .. MaxBackups : backup[f][k] = mine[f] /\ ~Taken(f, k)
    BY <1>1, <1>4, <1>7, <1>8, <2>3 DEF Safe
  <2> QED
    BY <2>1, <2>2, <2>3 DEF Safe
<1>11. KeptInv'
  BY <1>1, <1>10 DEF KeptInv, Working
<1>12. PlaceInv'
  <2>1. \A f \in File : Settled(f)' <=> Settled(f)
    BY <1>1, SamePlan DEF Settled, plan
  <2>2. Ready(g)'
    BY <1>1, <1>2, <1>3, <1>7, SamePlan DEF Ready, Held, plan
  <2>3. NextFile' = g
    BY <1>1, <1>g DEF NextFile
  <2>4. Ready(NextFile)'
    BY <2>2, <2>3
  <2> QED
    BY <1>1, <1>2, <2>1, <2>4, FileTypes DEF Inv, PlaceInv
<1>13. BackInv'
  BY <1>1, <1>7 DEF Inv, BackInv, Working
<1>14. OwnInv'
  BY <1>1, SamePlan DEF Inv, OwnInv
<1> QED
  BY <1>9, <1>11, <1>12, <1>13, <1>14 DEF Inv

LEMMA MakeRoomInv ==
    ASSUME Inv, Typed', UNCHANGED died, MakeRoom
    PROVE  Inv'
<1>0. at < Len(Files)
  BY DEF MakeRoom, Inv, Typed, Local
<1>g. PICK g \in File : g = NextFile /\ g = Files[at + 1]
  BY <1>0, NextFileTypes DEF NextFile, Inv, Typed
<1>1. /\ pc = "apply" /\ pc' = "rename" /\ at < Len(Files) /\ at' = at
      /\ State(g) = "missing" /\ UNCHANGED <<backup, newer, manifest, mine, plan, failed, died>>
      /\ backup' = backup /\ cur' = cur /\ mine' = mine /\ failed' = failed
  BY <1>g DEF MakeRoom, Goto, plan
<1>2. g \in File /\ at + 1 \in 1 .. Len(Files) /\ at \in Nat /\ g = Files[at + 1]
  BY <1>0, <1>g, NextFileTypes DEF Inv, Typed, TypeOK
<1>3. cur[g] \in {Missing, EmptyDir} /\ disk[g] = cur[g]
  BY <1>1, <1>2, StateTypes DEF Inv, Typed, PlaceInv
<1>4. /\ disk' = [disk EXCEPT ![g] = Missing]
      /\ \/ cur[g] = Missing /\ undo' = undo
         \/ cur[g] = EmptyDir /\ undo' = Append(undo, [file |-> g, do |-> "mkdir"])
  BY <1>g, <1>2, <1>3, ValueTypes DEF MakeRoom, Inv, Typed, TypeOK
<1> DEFINE u == [file |-> g, do |-> "mkdir"]
<1>5. u \in Undo /\ u.file = g /\ u.do = "mkdir"
  BY <1>2, UndoTypes
<1>6. undo \in Seq(Undo) /\ Once /\ (undo' = undo \/ undo' = Append(undo, u))
  BY <1>4 DEF Inv, Typed, TypeOK, StepsInv
<1>7. cur[g] = EmptyDir => undo' = Append(undo, u)
  BY <1>4, ValueTypes
<1> HIDE DEF u
<1>8. /\ \A f, k : Taken(f, k)' <=> Taken(f, k)
      /\ \A f : Touched(f) => Touched(f)'
      /\ \A f : Touched(f)' => Touched(f) \/ f = g
      /\ \A f : Vacated(f)' => Vacated(f) \/ f = g
      /\ \A f : Oldest(f, "mkdir")' => Oldest(f, "mkdir") \/ (f = g /\ cur[g] = EmptyDir)
      /\ \A f : Oldest(f, "remove")' => Oldest(f, "remove")
      /\ Once'
      /\ cur[g] = EmptyDir => Touched(g)'
  <2>1. CASE undo' = undo
    <3>1. cur[g] = EmptyDir => Touched(g)'
      BY <1>5, <1>6, <1>7, StepMore
    <3> QED
      BY <1>6, <2>1, <3>1, SameSteps
  <2>2. CASE cur[g] = EmptyDir /\ undo' = Append(undo, u)
    BY <1>5, <1>6, <2>2, StepMore
  <2> QED
    BY <1>4, <2>1, <2>2 DEF u
<1>9. \A f \in File : f # g => disk'[f] = disk[f]
  BY <1>2, <1>4 DEF Inv, Typed, TypeOK
<1>10. disk'[g] = Missing
  BY <1>2, <1>4 DEF Inv, Typed, TypeOK
<1>11. StepsInv'
  BY <1>1, <1>3, <1>8 DEF Inv, StepsInv
<1>12. \A f \in File : Safe(f)'
  <2> SUFFICES ASSUME NEW f \in File, mine[f] # Missing PROVE Safe(f)'
    BY <1>1 DEF Safe
  <2>1. Safe(f)
    BY <1>1 DEF Inv, KeptInv, Working
  <2>2. CASE cur[f] = mine[f] /\ (disk[f] = cur[f] \/ Held(f))
    <3>1. f # g
      BY <1>3, <2>2, ValueTypes DEF Inv, Typed, TypeOK
    <3> QED
      BY <1>1, <1>8, <1>9, <2>2, <3>1 DEF Safe, Held
  <2>3. CASE \E k \in 1 .. MaxBackups : backup[f][k] = mine[f] /\ ~Taken(f, k)
    BY <1>1, <1>8, <2>3 DEF Safe
  <2> QED
    BY <2>1, <2>2, <2>3 DEF Safe
<1>13. KeptInv'
  BY <1>1, <1>12 DEF KeptInv, Working
<1>14. PlaceInv'
  <2>1. \A j \in 1 .. Len(Files) : j # at + 1 => Files[j] # g /\ Files[j] \in File
    BY <1>2, BundleConstants, FileTypes
  <2>2. \A f \in File : f # g => (Settled(f)' <=> Settled(f))
    BY <1>1, <1>9, SamePlan DEF Settled, plan
  <2>3. NextFile' = g
    BY <1>1, <1>g DEF NextFile
  <2>4. Ready(g)'
    BY <1>1, <1>2, <1>3, <1>8, <1>10, SamePlan DEF Ready
  <2>5. Ready(NextFile)'
    BY <2>3, <2>4
  <2> QED
    BY <1>1, <1>2, <1>9, <2>1, <2>2, <2>5, FileTypes DEF Inv, PlaceInv
<1>15. BackInv'
  BY <1>1, <1>3, <1>8, <1>9, <1>10 DEF Inv, BackInv, Working
<1>16. OwnInv'
  BY <1>1, SamePlan DEF Inv, OwnInv
<1> QED
  BY <1>11, <1>13, <1>14, <1>15, <1>16 DEF Inv

LEMMA RenameInv ==
    ASSUME Inv, Typed', UNCHANGED died, Rename
    PROVE  Inv'
<1>0. at < Len(Files)
  BY DEF Rename, Inv, Typed, Local
<1>g. PICK g \in File : g = NextFile /\ g = Files[at + 1]
  BY <1>0, NextFileTypes DEF NextFile, Inv, Typed
<1>1. /\ pc = "rename" /\ pc' = "apply" /\ at < Len(Files) /\ at' = at + 1
      /\ disk' = [disk EXCEPT ![g] = served[g]]
      /\ UNCHANGED <<backup, newer, manifest, mine, plan, failed, died>>
      /\ backup' = backup /\ cur' = cur /\ mine' = mine /\ failed' = failed /\ served' = served
  BY <1>g DEF Rename, Goto, plan, Inv, Typed, Local
<1>2. g \in File /\ at + 1 \in 1 .. Len(Files) /\ at \in Nat /\ g = Files[at + 1]
  BY <1>0, <1>g, NextFileTypes DEF Inv, Typed, TypeOK
<1> DEFINE u == [file |-> g, do |-> "remove"]
<1>3. u \in Undo /\ u.file = g /\ u.do = "remove"
  BY <1>2, UndoTypes
<1>4. undo \in Seq(Undo) /\ Once
  BY DEF Inv, Typed, TypeOK, StepsInv
<1>5. Ready(g)
  BY <1>1, <1>g DEF Inv, PlaceInv
<1>6. \/ State(g) = "missing" /\ undo' = Append(undo, u)
      \/ State(g) = "pristine" /\ undo' = undo
  BY <1>5, <1>g DEF Rename, Ready
<1> HIDE DEF u
<1>7. /\ \A f, k : Taken(f, k)' <=> Taken(f, k)
      /\ \A f : Touched(f) => Touched(f)'
      /\ Touched(g)'
      /\ \A f : Vacated(f)' => Vacated(f) \/ (f = g /\ State(g) = "missing")
      /\ \A f : Oldest(f, "mkdir")' => Oldest(f, "mkdir")
      /\ \A f : Oldest(f, "remove")' =>
             Oldest(f, "remove") \/ (f = g /\ State(g) = "missing" /\ ~Touched(g))
      /\ Once'
  <2>1. CASE State(g) = "missing" /\ undo' = Append(undo, u)
    BY <1>3, <1>4, <2>1, StepMore
  <2>2. CASE State(g) = "pristine" /\ undo' = undo
    <3>1. Held(g)
      BY <1>5, <2>2 DEF Ready
    <3>2. Touched(g)
      BY <3>1, Zenon DEF Held, Taken, Touched
    <3> QED
      BY <1>4, <2>2, <3>2, SameSteps
  <2> QED
    BY <1>6, <2>1, <2>2
<1>8. /\ \A f \in File : f # g => disk'[f] = disk[f]
      /\ disk'[g] = served[g]
  BY <1>1, <1>2 DEF Inv, Typed, TypeOK
<1>9. State(g) = "missing" => cur[g] \in {Missing, EmptyDir}
  BY <1>2, StateTypes DEF Inv, Typed
<1>10. StepsInv'
  BY <1>1, <1>7, <1>9 DEF Inv, StepsInv
<1>11. \A f \in File : Safe(f)'
  <2> SUFFICES ASSUME NEW f \in File, mine[f] # Missing PROVE Safe(f)'
    BY <1>1 DEF Safe
  <2>1. Safe(f)
    BY <1>1 DEF Inv, KeptInv, Working
  <2>2. CASE cur[f] = mine[f] /\ (disk[f] = cur[f] \/ Held(f))
    <3>1. f = g => Held(g)
      BY <1>5, <1>9, <2>2, ValueTypes DEF Ready, Inv, Typed, TypeOK
    <3> QED
      BY <1>1, <1>7, <1>8, <2>2, <3>1 DEF Safe, Held
  <2>3. CASE \E k \in 1 .. MaxBackups : backup[f][k] = mine[f] /\ ~Taken(f, k)
    BY <1>1, <1>7, <2>3 DEF Safe
  <2> QED
    BY <2>1, <2>2, <2>3 DEF Safe
<1>12. KeptInv'
  BY <1>1, <1>11 DEF KeptInv, Working
<1>13. PlaceInv'
  <2>1. \A j \in 1 .. Len(Files) : Files[j] \in File /\ (j # at + 1 => Files[j] # g)
    BY <1>2, BundleConstants, FileTypes
  <2>2. \A f \in File : f # g => (Settled(f)' <=> Settled(f))
    BY <1>1, <1>8, SamePlan DEF Settled, plan
  <2>3. Settled(g)'
    BY <1>1, <1>2, <1>5, <1>8, SamePlan DEF Settled, Ready, Changes
  <2>4. ASSUME NEW j \in 1 .. Len(Files)
        PROVE  /\ j <= at' => Settled(Files[j])'
               /\ j > at' => disk'[Files[j]] = cur'[Files[j]]
    <3>1. CASE j = at + 1
      BY <1>1, <1>2, <2>3, <3>1 DEF Settled, Changes
    <3>2. CASE j < at + 1
      BY <1>1, <1>2, <2>1, <2>2, <3>2, FileTypes DEF Inv, PlaceInv
    <3>3. CASE j > at + 1
      BY <1>1, <1>2, <1>8, <2>1, <3>3, FileTypes DEF Inv, PlaceInv
    <3> QED
      BY <1>2, <3>1, <3>2, <3>3
  <2> QED
    BY <1>1, <2>4 DEF PlaceInv
<1>14. BackInv'
  <2>1. State(g) = "missing" => disk[g] = Missing /\ (cur[g] = Missing \/ Touched(g))
    BY <1>5 DEF Ready
  <2> QED
    BY <1>1, <1>7, <1>8, <2>1 DEF Inv, BackInv, Working
<1>15. OwnInv'
  BY <1>1, SamePlan DEF Inv, OwnInv
<1> QED
  BY <1>10, <1>12, <1>13, <1>14, <1>15 DEF Inv

-----------------------------------------------------------------------------
(***************************************************************************)
(* The steps of rollback.                                                  *)
(***************************************************************************)

LEMMA RollBackInv ==
    ASSUME Inv, Typed', UNCHANGED died, RollBack
    PROVE  Inv'
<1>1. /\ pc = "undo" /\ pc' = "undo" /\ undo # <<>> /\ undo \in Seq(Undo)
      /\ undo' = SubSeq(undo, 1, Len(undo) - 1) /\ Once
      /\ UNCHANGED <<newer, manifest, mine, plan, failed, died>>
      /\ cur' = cur /\ mine' = mine /\ failed' = failed
  BY DEF RollBack, plan, Inv, Typed, TypeOK, StepsInv
<1>2. PICK u : u = undo[Len(undo)]
  OBVIOUS
<1>3. /\ \A f, k : Taken(f, k) <=>
               Taken(f, k)' \/ (u.do = "restore" /\ u.file = f /\ u.from = k)
      /\ \A f : Touched(f) <=> Touched(f)' \/ u.file = f
      /\ \A f : Vacated(f) <=> Vacated(f)' \/ (u.file = f /\ u.do # "restore")
      /\ \A f, d : Oldest(f, d) <=>
               Oldest(f, d)' \/ (u.file = f /\ u.do = d /\ ~Touched(f)')
      /\ Once' /\ (u.do = "restore" => ~Taken(u.file, u.from)')
  BY <1>1, <1>2, StepLess
<1>4. PICK g \in File :
         /\ u.file = g
         /\ \/ \E n \in 1 .. MaxBackups :
                   /\ u.do = "restore" /\ u.from = n
                   /\ disk' = [disk EXCEPT ![g] = backup[g][n]]
                   /\ backup' = [backup EXCEPT ![g][n] = Missing]
            \/ /\ u.do = "mkdir"
               /\ disk' = [disk EXCEPT ![g] = EmptyDir] /\ backup' = backup
            \/ /\ u.do = "remove"
               /\ disk' = [disk EXCEPT ![g] = Missing] /\ backup' = backup
  BY <1>2, RollBackSteps DEF Inv, Typed
<1>5. \A f \in File : f # g => disk'[f] = disk[f]
  BY <1>4 DEF Inv, Typed, TypeOK
\* Only the backup that is put back goes.
<1>6. \A f \in File, k \in 1 .. MaxBackups :
         backup'[f][k] = backup[f][k] \/ (u.do = "restore" /\ u.file = f /\ u.from = k)
  <2>1. CASE backup' = backup
    BY <2>1
  <2>2. CASE \E n \in 1 .. MaxBackups : /\ u.do = "restore" /\ u.from = n
                                        /\ backup' = [backup EXCEPT ![g][n] = Missing]
    <3>1. PICK n \in 1 .. MaxBackups :
             /\ u.do = "restore" /\ u.from = n
             /\ backup' = [backup EXCEPT ![g] = [backup[g] EXCEPT ![n] = Missing]]
      BY <2>2
    <3>2. \A f \in File, k \in 1 .. MaxBackups :
             f # g \/ k # n => backup'[f][k] = backup[f][k]
      BY <3>1, BackupsElsewhere DEF Inv, Typed
    <3> QED
      BY <1>4, <3>1, <3>2
  <2> QED
    BY <1>4, <2>1, <2>2
\* The file is as it was, or nobody's.
<1>7. /\ u.do = "restore" => disk'[g] = cur[g]
      /\ u.do # "restore" => cur[g] \in {Missing, EmptyDir}
      /\ u.do = "mkdir" => disk'[g] = EmptyDir
      /\ u.do = "remove" => disk'[g] = Missing
      /\ u.do \in {"restore", "mkdir", "remove"}
  <2>1. u.do # "restore" => cur[g] \in {Missing, EmptyDir}
    BY <1>3, <1>4 DEF Inv, StepsInv
  <2>2. u.do = "restore" => disk'[g] = cur[g]
    BY <1>3, <1>4 DEF Inv, Typed, TypeOK, StepsInv
  <2>3. /\ u.do = "mkdir" => disk'[g] = EmptyDir
        /\ u.do = "remove" => disk'[g] = Missing
    BY <1>4 DEF Inv, Typed, TypeOK
  <2> QED
    BY <1>4, <2>1, <2>2, <2>3
<1>8. StepsInv'
  BY <1>1, <1>3, <1>4, <1>6 DEF Inv, StepsInv
<1>9. \A f \in File : Safe(f)'
  <2> SUFFICES ASSUME NEW f \in File, mine[f] # Missing PROVE Safe(f)'
    BY <1>1 DEF Safe
  <2>1. Safe(f)
    BY <1>1 DEF Inv, KeptInv, Working
  <2>2. CASE cur[f] = mine[f] /\ (disk[f] = cur[f] \/ Held(f))
    <3>1. f = g => disk'[g] = cur[g]
      BY <1>7, <2>2, ValueTypes DEF Inv, Typed, TypeOK
    <3>2. f # g => Held(f)' \/ disk'[f] = cur[f]
      BY <1>3, <1>4, <1>5, <2>2 DEF Held
    <3> QED
      BY <1>1, <2>2, <3>1, <3>2 DEF Safe
  <2>3. CASE \E k \in 1 .. MaxBackups : backup[f][k] = mine[f] /\ ~Taken(f, k)
    BY <1>1, <1>3, <1>6, <2>3 DEF Safe
  <2> QED
    BY <2>1, <2>2, <2>3 DEF Safe
<1>10. KeptInv'
  BY <1>1, <1>9 DEF KeptInv, Working
<1>11. BackInv'
  <2> SUFFICES ASSUME ~failed, NEW f \in File
               PROVE  /\ Touched(f)' \/ disk'[f] = cur[f]
                      /\ Oldest(f, "mkdir")' => cur[f] = EmptyDir
                      /\ Oldest(f, "remove")' => cur[f] = Missing
    BY <1>1 DEF BackInv
  <2>1. /\ Touched(f) \/ disk[f] = cur[f]
        /\ Oldest(f, "mkdir") => cur[f] = EmptyDir
        /\ Oldest(f, "remove") => cur[f] = Missing
    BY <1>1 DEF Inv, BackInv, Working
  <2>2. f # g => Touched(f)' \/ disk'[f] = cur[f]
    BY <1>3, <1>4, <1>5, <2>1
  <2>3. f = g => Touched(f)' \/ disk'[f] = cur[f]
    BY <1>3, <1>4, <1>7, <2>1
  <2> QED
    BY <1>3, <2>1, <2>2, <2>3
<1>12. OwnInv'
  BY <1>1, SamePlan DEF Inv, OwnInv
<1> QED
  BY <1>1, <1>8, <1>10, <1>11, <1>12 DEF Inv, PlaceInv

LEMMA RollBackFailsInv ==
    ASSUME Inv, Typed', RollBackFails
    PROVE  Inv'
<1>1. /\ pc = "undo" /\ pc' = "undo" /\ undo # <<>> /\ undo \in Seq(Undo)
      /\ undo' = SubSeq(undo, 1, Len(undo) - 1) /\ Once /\ failed' /\ died'
      /\ UNCHANGED <<disk, backup, cur, mine>>
  BY DEF RollBackFails, project, plan, Inv, Typed, TypeOK, StepsInv
<1>2. PICK u : u = undo[Len(undo)]
  OBVIOUS
<1>3. u \in Undo
  BY <1>1, <1>2, Popped
<1>4. /\ \A f, k : Taken(f, k) <=>
               Taken(f, k)' \/ (u.do = "restore" /\ u.file = f /\ u.from = k)
      /\ \A f : Vacated(f)' => Vacated(f)
      /\ Once' /\ (u.do = "restore" => ~Taken(u.file, u.from)')
  BY <1>1, <1>2, StepLess
<1>5. StepsInv'
  BY <1>1, <1>4 DEF Inv, StepsInv
<1>6. \A f \in File : Safe(f)'
  <2> SUFFICES ASSUME NEW f \in File, mine[f] # Missing PROVE Safe(f)'
    BY <1>1 DEF Safe
  <2>1. Safe(f)
    BY <1>1 DEF Inv, KeptInv, Working
  <2>2. CASE cur[f] = mine[f] /\ disk[f] = cur[f]
    BY <1>1, <2>2 DEF Safe
  <2>3. CASE cur[f] = mine[f] /\ Held(f)
    <3>1. PICK k \in 1 .. MaxBackups : Taken(f, k)
      BY <2>3 DEF Held
    <3>2. backup[f][k] = mine[f]
      BY <2>3, <3>1 DEF Inv, StepsInv
    <3> QED
      BY <1>1, <1>4, <2>3, <3>1, <3>2 DEF Safe, Held
  <2>4. CASE \E k \in 1 .. MaxBackups : backup[f][k] = mine[f] /\ ~Taken(f, k)
    BY <1>1, <1>4, <2>4 DEF Safe
  <2> QED
    BY <2>1, <2>2, <2>3, <2>4 DEF Safe
<1>7. KeptInv'
  BY <1>1, <1>6 DEF KeptInv, Working
<1> QED
  BY <1>1, <1>5, <1>7 DEF Inv, PlaceInv, BackInv, OwnInv

\* Undone without an error, every file is as prepareBundleRefresh read it.
LEMMA AsItWas ==
    ASSUME Inv, RolledBack, ~failed
    PROVE  disk = cur
<1>1. pc = "undo" /\ undo = <<>>
  BY DEF RolledBack
<1>2. \A f \in File : disk[f] = cur[f]
  BY <1>1, NoSteps DEF Inv, BackInv, Working
<1>3. disk \in [File -> OnDisk] /\ cur \in [File -> OnDisk]
  BY DEF Inv, Typed, TypeOK
<1> QED
  BY <1>2, <1>3

LEMMA RolledBackInv ==
    ASSUME Inv, Typed', UNCHANGED died, RolledBack
    PROVE  Inv'
<1>1. pc = "undo" /\ End /\ UNCHANGED project
  BY DEF RolledBack
<1>2. \A f \in File : Kept(f)'
  BY <1>1, SafeIsKept, SameProject DEF Inv, Typed, KeptInv, Working
<1>3. ~died => \A f \in File : Own(f, disk[f])'
  <2> SUFFICES ASSUME ~died, NEW f \in File PROVE Own(f, disk[f])'
    OBVIOUS
  <2>1. disk[f] = cur[f]
    BY AsItWas DEF Inv, Typed, Local
  <2>2. Own(f, cur[f])
    BY <1>1 DEF Inv, OwnInv
  <2> QED
    BY <1>1, <2>1, <2>2, SameProject
<1> QED
  BY <1>1, <1>2, <1>3, EndInv

-----------------------------------------------------------------------------
(***************************************************************************)
(* commit, writeResetSchema, the operator.                                 *)
(***************************************************************************)

LEMMA CommitNewInv ==
    ASSUME Inv, Typed', UNCHANGED died, CommitNew
    PROVE  Inv'
<1>1. /\ pc = "commit" /\ pc' = "manifest" /\ undo = <<>> /\ undo' = undo
      /\ UNCHANGED <<disk, backup, manifest, mine, plan>>
      /\ disk' = disk /\ cur' = cur /\ served' = served
  BY DEF CommitNew, Goto, plan, Inv, Typed, TypeOK
<1>2. StepsInv'
  BY <1>1, NoSteps, SameSteps, Zenon DEF StepsInv
<1>3. KeptInv'
  BY <1>1 DEF Inv, KeptInv, Kept, Working
<1>4. PlaceInv'
  BY <1>1, SamePlan DEF Inv, PlaceInv, Settled
<1>5. OwnInv'
  BY <1>1, SamePlan DEF Inv, OwnInv
<1> QED
  BY <1>1, <1>2, <1>3, <1>4, <1>5 DEF Inv, BackInv, Working

LEMMA CommitManifestInv ==
    ASSUME Inv, Typed', UNCHANGED died, CommitManifest
    PROVE  Inv'
<1>1. /\ pc = "manifest" /\ End /\ UNCHANGED <<disk, backup, mine>>
      /\ manifest' = [f \in File |-> IF State(f) = "modified" THEN manifest[f] ELSE served[f]]
  BY DEF CommitManifest
<1>2. \A f \in File : Kept(f)'
  BY <1>1 DEF Inv, KeptInv, Kept, Working
<1>3. ~died => \A f \in File : Own(f, disk[f])'
  <2> SUFFICES ASSUME ~died, NEW f \in File PROVE Own(f, disk[f])'
    OBVIOUS
  <2>1. Settled(f)
    BY <1>1 DEF Inv, PlaceInv
  <2>2. CASE State(f) = "modified"
    <3>1. disk[f] = cur[f] /\ manifest'[f] = manifest[f]
      BY <1>1, <2>1, <2>2 DEF Settled, Changes
    <3>2. Own(f, cur[f])
      BY <1>1 DEF Inv, OwnInv
    <3> QED
      BY <1>1, <3>1, <3>2 DEF Own, Pristine
  <2>3. CASE State(f) # "modified"
    <3>1. manifest'[f] = served[f]
      BY <1>1, <2>3
    <3>2. disk[f] = served[f]
      BY <2>1, <2>3, StateTypes DEF Settled, Changes, Inv, Typed
    <3> QED
      BY <1>1, <3>1, <3>2 DEF Own, Pristine
  <2> QED
    BY <2>2, <2>3
<1> QED
  BY <1>1, <1>2, <1>3, EndInv

LEMMA SchemaBackupInv ==
    ASSUME Inv, Typed', UNCHANGED died, NEW b \in Bundles, SchemaBackup(b)
    PROVE  Inv'
<1>1. /\ pc = "idle" /\ pc' = "write" /\ undo = <<>> /\ undo' = undo
      /\ UNCHANGED <<newer, manifest, mine>> /\ mine' = mine /\ served' = b
  BY DEF SchemaBackup, Goto, Inv, Typed, TypeOK
<1>2. Schema \in File /\ disk \in [File -> OnDisk] /\ mine \in [File -> Content \cup {Link, Missing}]
  BY BundleConstants DEF Inv, Typed, TypeOK
<1>3. StepsInv'
  BY <1>1, NoSteps, SameSteps, Zenon DEF StepsInv
<1>4. \A f \in File : Kept(f)
  BY <1>1 DEF Inv, KeptInv, Working
<1>5. \A f \in File : disk'[f] = disk[f] \/ (disk[f] = EmptyDir /\ disk'[f] = Missing)
  BY <1>2 DEF SchemaBackup
\* A backup goes where there is none.
<1>6. /\ \A f \in File, k \in 1 .. MaxBackups :
            backup[f][k] # Missing => backup'[f][k] = backup[f][k]
      /\ disk[Schema] \in {Missing, EmptyDir, b[Schema]}
            \/ \E k \in 1 .. MaxBackups : backup'[Schema][k] = disk[Schema]
  <2>1. CASE disk[Schema] \in {Missing, EmptyDir, b[Schema]}
    BY <2>1 DEF SchemaBackup
  <2>2. CASE disk[Schema] \notin {Missing, EmptyDir, b[Schema]}
    <3>1. PICK n \in 1 .. MaxBackups : /\ backup[Schema][n] = Missing
                                      /\ backup' = [backup EXCEPT ![Schema][n] = disk[Schema]]
      BY <2>2 DEF SchemaBackup, FirstFree, Free
    <3>2. /\ backup'[Schema][n] = disk[Schema]
          /\ \A f \in File, k \in 1 .. MaxBackups :
                f # Schema \/ k # n => backup'[f][k] = backup[f][k]
      <4>1. PICK c : c = disk[Schema]
        OBVIOUS
      <4>2. backup' = [backup EXCEPT ![Schema] = [backup[Schema] EXCEPT ![n] = c]]
        BY <3>1, <4>1
      <4>3. TypeOK /\ n \in 1 .. MaxBackups
        BY <3>1 DEF Inv, Typed
      <4>4. /\ backup'[Schema][n] = c
            /\ \A f \in File, k \in 1 .. MaxBackups :
                  f # Schema \/ k # n => backup'[f][k] = backup[f][k]
        BY <1>2, <4>2, <4>3, BackupAt, BackupsElsewhere, Zenon
      <4> QED
        BY <4>1, <4>4
    <3> QED
      BY <1>2, <3>1, <3>2
  <2> QED
    BY <2>1, <2>2
<1>7. \A f \in File : Kept(f)'
  <2> SUFFICES ASSUME NEW f \in File, mine[f] # Missing PROVE Kept(f)'
    BY <1>1 DEF Kept
  <2>1. CASE disk[f] = mine[f]
    BY <1>1, <1>2, <1>5, <2>1, ValueTypes DEF Kept
  <2>2. CASE \E k \in 1 .. MaxBackups : backup[f][k] = mine[f]
    BY <1>1, <1>6, <2>2 DEF Kept
  <2> QED
    BY <1>4, <2>1, <2>2 DEF Kept
<1>8. mine[Schema] # Missing =>
         mine[Schema] = b[Schema] \/ \E k \in 1 .. MaxBackups : backup'[Schema][k] = mine[Schema]
  <2> SUFFICES ASSUME mine[Schema] # Missing, mine[Schema] # b[Schema]
               PROVE  \E k \in 1 .. MaxBackups : backup'[Schema][k] = mine[Schema]
    OBVIOUS
  <2>1. CASE disk[Schema] = mine[Schema]
    BY <1>2, <1>6, <2>1, ValueTypes
  <2>2. CASE \E k \in 1 .. MaxBackups : backup[Schema][k] = mine[Schema]
    BY <1>2, <1>6, <2>2
  <2> QED
    BY <1>2, <1>4, <2>1, <2>2 DEF Kept
<1>9. KeptInv'
  BY <1>1, <1>7, <1>8 DEF KeptInv, Working
<1>10. OwnInv'
  <2> SUFFICES ASSUME ~died, NEW f \in File PROVE Own(f, disk[f])'
    BY <1>1 DEF OwnInv
  <2>1. Own(f, disk[f])
    BY <1>1 DEF Inv, OwnInv
  <2>2. disk'[f] \in Bytes => disk'[f] = disk[f]
    BY <1>5, ValueTypes
  <2> QED
    BY <1>1, <2>1, <2>2 DEF Own, Pristine
<1> QED
  BY <1>1, <1>3, <1>9, <1>10 DEF Inv, PlaceInv, BackInv, Working

LEMMA SchemaWriteInv ==
    ASSUME Inv, Typed', UNCHANGED died, SchemaWrite
    PROVE  Inv'
<1>1. /\ pc = "write" /\ pc' = "record" /\ undo = <<>> /\ undo' = undo
      /\ UNCHANGED <<backup, manifest, mine>> /\ served' = served
      /\ disk' = [disk EXCEPT ![Schema] = served[Schema]]
  BY DEF SchemaWrite, Goto, plan, Inv, Typed, TypeOK
<1>2. /\ Schema \in File /\ disk'[Schema] = served[Schema]
      /\ \A f \in File : f # Schema => disk'[f] = disk[f]
  BY <1>1, BundleConstants DEF Inv, Typed, TypeOK
<1>3. StepsInv'
  BY <1>1, NoSteps, SameSteps, Zenon DEF StepsInv
<1>4. \A f \in File : Kept(f)'
  BY <1>1, <1>2 DEF Inv, KeptInv, Kept, Working
<1>5. OwnInv'
  BY <1>1, <1>2 DEF Inv, OwnInv, Own, Pristine
<1> QED
  BY <1>1, <1>3, <1>4, <1>5 DEF Inv, KeptInv, PlaceInv, BackInv, Working

LEMMA SchemaRecordInv ==
    ASSUME Inv, Typed', UNCHANGED died, SchemaRecord
    PROVE  Inv'
<1>1. /\ pc = "record" /\ End /\ UNCHANGED <<disk, backup, mine>>
      /\ manifest' = [manifest EXCEPT ![Schema] = served[Schema]]
  BY DEF SchemaRecord
<1>2. /\ Schema \in File /\ manifest'[Schema] = served[Schema]
      /\ \A f \in File : f # Schema => manifest'[f] = manifest[f]
  BY <1>1, BundleConstants DEF Inv, Typed, TypeOK
<1>3. \A f \in File : Kept(f)'
  BY <1>1 DEF Inv, KeptInv, Kept, Working
<1>4. ~died => \A f \in File : Own(f, disk[f])'
  BY <1>1, <1>2 DEF Inv, OwnInv, Own, Pristine
<1> QED
  BY <1>1, <1>3, <1>4, EndInv

LEMMA OperatorInv ==
    ASSUME Inv, Typed', UNCHANGED died, ~Concurrent, NEW g \in File, Operator(g) \/ Deleted(g)
    PROVE  Inv'
<1>1. /\ pc = "idle" /\ pc' = "idle" /\ undo = <<>> /\ undo' = undo
      /\ UNCHANGED <<backup, manifest>>
      /\ \A f \in File : f # g => disk'[f] = disk[f] /\ mine'[f] = mine[f]
  BY DEF Operator, Deleted, Inv, Typed, TypeOK
<1>2. \/ disk'[g] = mine'[g]
      \/ mine'[g] = Missing /\ disk'[g] \in {Missing, EmptyDir}
  BY DEF Operator, Deleted, Inv, Typed, TypeOK
<1>3. StepsInv'
  BY <1>1, NoSteps, SameSteps, Zenon DEF StepsInv
<1>4. \A f \in File : Kept(f)'
  BY <1>1, <1>2 DEF Inv, KeptInv, Kept, Working
<1>5. OwnInv'
  BY <1>1, <1>2, ValueTypes DEF Inv, OwnInv, Own, Pristine
<1> QED
  BY <1>1, <1>3, <1>4, <1>5 DEF Inv, KeptInv, PlaceInv, BackInv, Working

LEMMA DieInv ==
    ASSUME Inv, Typed', Die
    PROVE  Inv'
<1>1. End /\ UNCHANGED project /\ died'
  BY DEF Die
<1>2. \A f \in File : Kept(f)
  BY SafeIsKept DEF Inv, Typed, KeptInv
<1> QED
  BY <1>1, <1>2, EndInv, SameProject

LEMMA NextInv ==
    ASSUME ~Concurrent, Inv, [Next]_vars
    PROVE  Inv'
<1>1. Typed'
  BY NextTypes DEF Inv
<1>2. CASE Refresh /\ UNCHANGED died
  BY <1>1, <1>2, PrepareInv, PullInv, SkipInv, BackupInv, MakeRoomInv, RenameInv, AppliedInv,
     ApplyFailsInv, RollBackInv, RolledBackInv, CommitNewInv, CommitManifestInv DEF Refresh
<1>3. CASE Reset /\ UNCHANGED died
  BY <1>1, <1>3, SchemaBackupInv, SchemaWriteInv, SchemaRecordInv DEF Reset
<1>4. CASE (\E f \in File : Operator(f) \/ Deleted(f)) /\ UNCHANGED died
  BY <1>1, <1>4, OperatorInv
<1>5. CASE RollBackFails
  BY <1>1, <1>5, RollBackFailsInv
<1>6. CASE Die
  BY <1>1, <1>6, DieInv
<1>7. CASE UNCHANGED vars
  <2>1. UNCHANGED <<project, plan, pc, at, undo, failed, died>> /\ disk' = disk /\ cur' = cur
    BY <1>7 DEF vars, project, plan
  <2>2. /\ \A f \in File : Kept(f)' <=> Kept(f)
        /\ \A f \in File : Safe(f)' <=> Safe(f)
        /\ \A f \in File : Settled(f)' <=> Settled(f)
        /\ \A f \in File : Ready(f)' <=> Ready(f)
    BY <2>1, SameSteps, SamePlan DEF project, plan, Kept, Safe, Settled, Ready
  <2>3. StepsInv'
    BY <2>1, SameSteps DEF Inv, StepsInv, project, plan
  <2>4. KeptInv'
    BY <2>1, <2>2 DEF Inv, KeptInv, Working, project, plan
  <2>5. PlaceInv'
    <3>1. pc = "rename" => NextFile \in File /\ NextFile' = NextFile
      BY <2>1, NextFileTypes DEF Inv, Typed, Local, NextFile
    <3>2. pc = "rename" => Ready(NextFile)'
      BY <2>1, <2>2, <3>1, SamePlan, SameSteps DEF Inv, PlaceInv, Ready, NextFile, project, plan
    <3> QED
      BY <2>1, <2>2, <3>2, FileTypes DEF Inv, PlaceInv
  <2>6. BackInv'
    BY <2>1, SameSteps DEF Inv, BackInv, Working
  <2>7. OwnInv'
    BY <2>1, SamePlan, SameProject DEF Inv, OwnInv, project, plan
  <2> QED
    BY <1>1, <2>3, <2>4, <2>5, <2>6, <2>7 DEF Inv
<1> QED
  BY <1>2, <1>3, <1>4, <1>5, <1>6, <1>7 DEF Next

LEMMA Invariance == ASSUME ~Concurrent PROVE Spec => []Inv
BY InitInv, NextInv, PTL DEF Spec

-----------------------------------------------------------------------------
(***************************************************************************)
(* The properties.                                                         *)
(***************************************************************************)

\* What the operator put in a file is there, or in a backup, whatever failed,
\* was rolled back or was killed since (apply, writeBackup, rollback).
THEOREM EditIsKept == ASSUME ~Concurrent PROVE Spec => []EditKept
<1>1. Inv => EditKept
  BY SafeIsKept DEF Inv, Typed, KeptInv, EditKept, Kept
<1> QED
  BY Invariance, <1>1, PTL

\* Between runs the CLI knows the files it wrote for its own (commit,
\* recordBundleFile), while none of its runs was cut short.
THEOREM OwnStaysPristine == ASSUME ~Concurrent PROVE Spec => []OwnIsPristine
<1>1. Inv => OwnIsPristine
  BY DEF Inv, OwnInv, Own, OwnIsPristine
<1> QED
  BY Invariance, <1>1, PTL

\* An edit is replaced only when a reset or --replace-bundle says so, an
\* arrangement of the operator's own never (classifyBundleFile).
THEOREM EditStaysPut == ASSUME ~Concurrent PROVE Spec => EditStays
<1> DEFINE Stays == \A f \in File :
              /\ pc # "idle" /\ disk'[f] # disk[f] /\ disk'[f] = served[f] /\ pc = "rename"
              => disk[f] # Link /\ (disk[f] \in Edit => f \in force)
<1>1. Inv /\ [Next]_vars => [Stays]_vars
  <2> SUFFICES ASSUME Inv, [Next]_vars, NEW f \in File, disk'[f] # disk[f], pc = "rename"
               PROVE  disk[f] # Link /\ (disk[f] \in Edit => f \in force)
    OBVIOUS
  <2>1. Rename
    BY DEF Next, Refresh, Reset, Prepare, Pull, Skip, Backup, MakeRoom, Applied, ApplyFails,
           RollBack, RolledBack, CommitNew, CommitManifest, SchemaBackup, SchemaWrite,
           SchemaRecord, Operator, Deleted, RollBackFails, Die, project, vars
  <2>2. f = NextFile
    BY <2>1 DEF Rename, Inv, Typed, TypeOK
  <2>3. Ready(f)
    BY <2>2 DEF Inv, PlaceInv
  <2>4. CASE State(f) = "missing"
    BY <2>3, <2>4, ValueTypes DEF Ready
  <2>5. CASE State(f) = "pristine"
    <3>1. disk[f] \in Content /\ (f \in force \/ Pristine(f, disk[f]))
      BY <2>3, <2>5, StateTypes DEF Ready, Inv, Typed
    <3>2. manifest[f] \in Bytes \cup {NoEntry} /\ Known \subseteq Bytes
      BY BundleConstants DEF Inv, Typed, TypeOK
    <3> QED
      BY <3>1, <3>2, ValueTypes DEF Pristine
  <2> QED
    BY <2>3, <2>4, <2>5 DEF Ready
<1> QED
  BY Invariance, <1>1, PTL DEF Spec, EditStays

\* A refresh undone without an error leaves the files as it found them (swapIn).
THEOREM RollbackIsWhole == ASSUME ~Concurrent PROVE Spec => RollbackRestores
<1>1. Inv => [RolledBack /\ ~failed => disk = cur]_vars
  BY AsItWas
<1> QED
  BY Invariance, <1>1, PTL DEF RollbackRestores

=============================================================================

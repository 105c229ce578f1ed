--------------------------- MODULE BundleRefresh ---------------------------
(***************************************************************************)
(* The deploy bundle in a Docker project: how a run replaces the files the *)
(* control plane serves (prepareBundleRefresh, swapIn, commit of           *)
(* bundle.go) and the schema of the storage reset (writeResetSchema),      *)
(* without losing what the operator changed in them.                       *)
(*                                                                         *)
(* The content of a file is a value; classifyBundleFile tells the CLI's    *)
(* own bytes from an edit by the manifest's record and by the versions     *)
(* the CLI knows to have been served.  Runs exclude each other             *)
(* (ProjectLock), the operator's editor does not.  A rename is atomic, the *)
(* steps between renames may fail, and the run may be killed between any   *)
(* two.                                                                    *)
(***************************************************************************)
EXTENDS Naturals, Sequences

CONSTANTS
    Files,       \* bundleFiles, in their order
    Schema,      \* clickhouse-init.sql, one of them
    Bundles,     \* the bundles the control plane may serve: content per file
    Known,       \* knownBundleHashes: served contents this CLI knows
    Edit,        \* contents an operator may write
    Link,        \* a symbolic link or populated directory of the operator
    EmptyDir, Missing, NoEntry,
    MaxBackups,  \* backups of a file (100 in the code)
    MaxRuns,     \* bound on the runs
    Concurrent   \* whether the operator edits files while images are pulled, the
                 \* minutes between what apply relies on and what it does

File == {Files[i] : i \in 1 .. Len(Files)}

Bytes == UNION {{b[f] : f \in File} : b \in Bundles}

\* bundleFiles lists each file once; an edit is nothing the control plane serves.
ASSUME BundleConstants ==
    /\ Files \in Seq(File)
    /\ \A i, j \in 1 .. Len(Files) : Files[i] = Files[j] => i = j
    /\ Schema \in File
    /\ Bundles \subseteq [File -> Bytes]
    /\ Known \subseteq Bytes
    /\ Edit \cap Bytes = {}
    /\ {Link, EmptyDir, Missing, NoEntry} \cap (Bytes \cup Edit) = {}
    /\ EmptyDir \notin {Link, Missing} /\ Link # Missing
    /\ MaxBackups \in Nat /\ MaxRuns \in Nat
    /\ Concurrent \in BOOLEAN

VARIABLES
    disk,      \* per file: what is at its path
    backup,    \* per file: what its backups hold
    newer,     \* per file: what <name>.new holds
    manifest,  \* per file: .origamy-bundle.json
    mine,      \* per file: what the operator last put there
    pc,        \* the step of the run
    served,    \* the downloaded bundle
    force,     \* the files replaced even when edited
    cur,       \* per file: what prepareBundleRefresh read
    at,        \* how many files are dealt with
    undo,      \* the steps apply took
    failed,    \* whether a step of rollback failed
    runs,      \* how many runs there were
    died       \* whether a run was killed, or could not roll back or record

project == <<disk, backup, newer, manifest, mine>>
plan == <<served, force, cur, runs>>
vars == <<project, pc, plan, at, undo, failed, died>>

Content == Bytes \cup Edit

OnDisk == Content \cup {Link, EmptyDir, Missing}

Undo == [file : File, do : {"restore"}, from : 1 .. MaxBackups]
        \cup [file : File, do : {"mkdir", "remove"}]

TypeOK ==
    /\ disk \in [File -> OnDisk]
    /\ backup \in [File -> [1 .. MaxBackups -> Content \cup {Missing}]]
    /\ newer \in [File -> Bytes \cup {Missing}]
    /\ manifest \in [File -> Bytes \cup {NoEntry}]
    /\ mine \in [File -> Content \cup {Link, Missing}]
    /\ pc \in {"idle", "pull", "apply", "rename", "undo", "commit", "manifest", "write", "record"}
    /\ served \in [File -> Bytes \cup {NoEntry}] /\ cur \in [File -> OnDisk]
    /\ force \subseteq File
    /\ at \in 0 .. Len(Files)
    /\ undo \in Seq(Undo) /\ (pc \notin {"apply", "rename", "undo"} => undo = <<>>)
    /\ failed \in BOOLEAN
    /\ runs \in 0 .. MaxRuns
    /\ died \in BOOLEAN

\* A project as deploy left it, by a CLI from before the manifest perhaps.
Init ==
    /\ disk \in Bundles
    /\ \/ manifest = disk
       \/ manifest = [f \in File |-> NoEntry] /\ \A f \in File : disk[f] \in Known
    /\ backup = [f \in File |-> [n \in 1 .. MaxBackups |-> Missing]]
    /\ newer = [f \in File |-> Missing]
    /\ mine = [f \in File |-> Missing]
    /\ pc = "idle"
    /\ served = [f \in File |-> NoEntry] /\ cur = [f \in File |-> Missing]
    /\ force = {}
    /\ at = 0 /\ undo = <<>> /\ failed = FALSE /\ runs = 0 /\ died = FALSE

-----------------------------------------------------------------------------
(* What a refresh does with a file.                                        *)

\* bundlePristineSum: either record.
Pristine(f, content) == content = manifest[f] \/ content \in Known

\* classifyBundleFile.
State(f) ==
    IF cur[f] \in {Missing, EmptyDir} THEN "missing"
    ELSE IF cur[f] = served[f] THEN "unchanged"
    ELSE IF cur[f] # Link /\ (f \in force \/ Pristine(f, cur[f])) THEN "pristine"
    ELSE "modified"

Changes(f) == State(f) \in {"missing", "pristine"}

Free(f) == {n \in 1 .. MaxBackups : backup[f][n] = Missing}

\* writeBackup: the first name no backup has.
FirstFree(f) == {n \in Free(f) : \A k \in Free(f) : n <= k}

Goto(l) == pc' = l

\* The next run may begin; what this one had in memory is gone.
End ==
    /\ Goto("idle")
    /\ served' = [f \in File |-> NoEntry] /\ cur' = [f \in File |-> Missing]
    /\ force' = {} /\ at' = 0 /\ undo' = <<>> /\ failed' = FALSE
    /\ UNCHANGED runs

NextFile == Files[at + 1]

-----------------------------------------------------------------------------
(* prepareBundleRefresh and swapIn.                                        *)

\* The bundle is downloaded and every file read: an upgrade that forces
\* nothing, the schema (a reset), or every file (--replace-bundle, a deploy).
Prepare(b, forced) ==
    /\ pc = "idle" /\ runs < MaxRuns
    /\ served' = b
    /\ force' = forced
    /\ cur' = disk
    /\ runs' = runs + 1
    /\ Goto("pull")
    /\ UNCHANGED <<project, at, undo, failed>>

\* The images are pulled meanwhile; the run may give the refresh up here.
Pull ==
    /\ pc = "pull"
    /\ \/ Goto("apply") /\ UNCHANGED <<plan, at, undo, failed>>
       \/ End
    /\ UNCHANGED project

Skip ==
    /\ pc = "apply" /\ at < Len(Files)
    /\ ~Changes(NextFile)
    /\ at' = at + 1
    /\ UNCHANGED <<project, plan, pc, undo, failed>>

\* Mutant of Backup: a backup of an earlier run is written over.
BackupOver ==
    /\ pc = "apply" /\ at < Len(Files)
    /\ LET f == NextFile IN
          /\ State(f) = "pristine"
          /\ backup' = [backup EXCEPT ![f][1] = cur[f]]
          /\ undo' = Append(undo, [file |-> f, do |-> "restore", from |-> 1])
    /\ Goto("rename")
    /\ UNCHANGED <<disk, newer, manifest, mine, plan, at, failed>>

\* The backup holds what prepareBundleRefresh read.
Backup ==
    /\ pc = "apply" /\ at < Len(Files)
    /\ LET f == NextFile IN
          /\ State(f) = "pristine"
          /\ \E n \in FirstFree(f) :
                /\ backup' = [backup EXCEPT ![f][n] = cur[f]]
                /\ undo' = Append(undo, [file |-> f, do |-> "restore", from |-> n])
    /\ Goto("rename")
    /\ UNCHANGED <<disk, newer, manifest, mine, plan, at, failed>>

\* Docker's directory in the place of a missing file goes first.
MakeRoom ==
    /\ pc = "apply" /\ at < Len(Files)
    /\ LET f == NextFile IN
          /\ State(f) = "missing"
          /\ IF cur[f] = EmptyDir
             THEN /\ disk[f] # Missing
                  /\ disk' = [disk EXCEPT ![f] = Missing]
                  /\ undo' = Append(undo, [file |-> f, do |-> "mkdir"])
             ELSE UNCHANGED <<disk, undo>>
    /\ Goto("rename")
    /\ UNCHANGED <<backup, newer, manifest, mine, plan, at, failed>>

\* Mutant of Rename: nothing undoes a file that was not there.
RenameForgets ==
    /\ pc = "rename"
    /\ LET f == NextFile IN
          /\ disk[f] # EmptyDir
          /\ disk' = [disk EXCEPT ![f] = served[f]]
          /\ UNCHANGED undo
    /\ at' = at + 1
    /\ Goto("apply")
    /\ UNCHANGED <<backup, newer, manifest, mine, plan, failed>>

Rename ==
    /\ pc = "rename"
    /\ LET f == NextFile IN
          /\ disk[f] # EmptyDir
          /\ disk' = [disk EXCEPT ![f] = served[f]]
          /\ undo' = IF State(f) = "missing"
                     THEN Append(undo, [file |-> f, do |-> "remove"]) ELSE undo
    /\ at' = at + 1
    /\ Goto("apply")
    /\ UNCHANGED <<backup, newer, manifest, mine, plan, failed>>

\* Past this point nothing is undone (commit).
Applied ==
    /\ pc = "apply" /\ at = Len(Files)
    /\ Goto("commit")
    /\ undo' = <<>>
    /\ UNCHANGED <<project, plan, at, failed>>

\* Any step of apply failed.
ApplyFails ==
    /\ pc \in {"apply", "rename"} /\ at < Len(Files)
    /\ Goto("undo")
    /\ UNCHANGED <<project, plan, at, undo, failed>>

\* rollback, newest step first.
RollBack ==
    /\ pc = "undo" /\ undo # <<>>
    /\ LET u == undo[Len(undo)]
           f == u.file
       IN  \/ /\ u.do = "restore"
              /\ disk' = [disk EXCEPT ![f] = backup[f][u.from]]
              /\ backup' = [backup EXCEPT ![f][u.from] = Missing]
           \/ /\ u.do = "mkdir" /\ disk[f] = Missing
              /\ disk' = [disk EXCEPT ![f] = EmptyDir]
              /\ UNCHANGED backup
           \/ /\ u.do = "remove" /\ disk[f] # Missing
              /\ disk' = [disk EXCEPT ![f] = Missing]
              /\ UNCHANGED backup
    /\ undo' = SubSeq(undo, 1, Len(undo) - 1)
    /\ UNCHANGED <<newer, manifest, mine, pc, plan, at, failed>>

RollBackFails ==
    /\ pc = "undo" /\ undo # <<>>
    /\ undo' = SubSeq(undo, 1, Len(undo) - 1)
    /\ failed' = TRUE
    /\ died' = TRUE
    /\ UNCHANGED <<project, pc, plan, at>>

RolledBack ==
    /\ pc = "undo" /\ undo = <<>>
    /\ End
    /\ UNCHANGED project

-----------------------------------------------------------------------------
(* commit.                                                                 *)

\* <name>.new next to a kept edit; a stale one goes.  Each may fail.
CommitNew ==
    /\ pc = "commit"
    /\ \E ok \in SUBSET File :
          newer' = [f \in File |-> IF f \notin ok THEN newer[f]
                                   ELSE IF State(f) = "modified" THEN served[f] ELSE Missing]
    /\ Goto("manifest")
    /\ UNCHANGED <<disk, backup, manifest, mine, plan, at, undo, failed>>

\* Mutant of CommitManifest: the kept edit is recorded like any other file.
CommitManifestAll ==
    /\ pc = "manifest"
    /\ manifest' = [f \in File |-> IF cur[f] \in Content /\ State(f) = "modified" THEN cur[f] ELSE served[f]]
    /\ End
    /\ UNCHANGED <<disk, backup, newer, mine>>

\* Mutant of CommitManifest: the record of the files replaced is not renewed.
CommitManifestNone ==
    /\ pc = "manifest"
    /\ End
    /\ UNCHANGED project

\* An edited file keeps the entry it had.
CommitManifest ==
    /\ pc = "manifest"
    /\ manifest' = [f \in File |-> IF State(f) = "modified" THEN manifest[f] ELSE served[f]]
    /\ End
    /\ UNCHANGED <<disk, backup, newer, mine>>

-----------------------------------------------------------------------------
(* writeResetSchema.                                                       *)

\* Read under exitGate, and backed up unless it says the same.
SchemaBackup(b) ==
    /\ pc = "idle" /\ runs < MaxRuns
    /\ disk[Schema] # Link
    /\ served' = b /\ cur' = disk /\ force' = {Schema} /\ runs' = runs + 1
    /\ disk' = IF disk[Schema] = EmptyDir THEN [disk EXCEPT ![Schema] = Missing] ELSE disk
    /\ IF disk[Schema] \in {Missing, EmptyDir, b[Schema]}
       THEN UNCHANGED backup
       ELSE \E n \in FirstFree(Schema) :
                backup' = [backup EXCEPT ![Schema][n] = disk[Schema]]
    /\ Goto("write")
    /\ UNCHANGED <<newer, manifest, mine, at, undo, failed>>

\* os.WriteFile.
SchemaWrite ==
    /\ pc = "write"
    /\ disk' = [disk EXCEPT ![Schema] = served[Schema]]
    /\ Goto("record")
    /\ UNCHANGED <<backup, newer, manifest, mine, plan, at, undo, failed>>

\* recordBundleFile.
SchemaRecord ==
    /\ pc = "record"
    /\ manifest' = [manifest EXCEPT ![Schema] = served[Schema]]
    /\ End
    /\ UNCHANGED <<disk, backup, newer, mine>>

-----------------------------------------------------------------------------
(* What else happens to the files.                                         *)

\* Killed; or the manifest could not be written, which is only warned about.
Die ==
    /\ pc # "idle"
    /\ died' = TRUE
    /\ End
    /\ UNCHANGED project

\* The operator writes a file, replaces it by a link, or puts a backup back.
Operator(f) ==
    /\ pc = "idle" \/ (Concurrent /\ pc = "pull")
    /\ disk[f] # EmptyDir
    /\ \E c \in Edit \cup {Link} \cup {backup[f][n] : n \in (1 .. MaxBackups) \ Free(f)} :
          /\ disk' = [disk EXCEPT ![f] = c]
          /\ mine' = [mine EXCEPT ![f] = c]
    /\ UNCHANGED <<backup, newer, manifest, pc, plan, at, undo, failed>>

\* The file is deleted, and Docker makes a directory for its bind mount.
Deleted(f) ==
    /\ pc = "idle"
    /\ disk' = [disk EXCEPT ![f] = IF @ = Missing THEN EmptyDir ELSE Missing]
    /\ mine' = [mine EXCEPT ![f] = Missing]
    /\ UNCHANGED <<backup, newer, manifest, pc, plan, at, undo, failed>>

Refresh ==
    \/ \E b \in Bundles, forced \in {{}, {Schema}, File} : Prepare(b, forced)
    \/ Pull \/ Skip \/ Backup \/ MakeRoom \/ Rename \/ Applied
    \/ ApplyFails \/ RollBack \/ RolledBack
    \/ CommitNew \/ CommitManifest

Reset == (\E b \in Bundles : SchemaBackup(b)) \/ SchemaWrite \/ SchemaRecord

Next ==
    \/ /\ Refresh \/ Reset \/ \E f \in File : Operator(f) \/ Deleted(f)
       /\ UNCHANGED died
    \/ RollBackFails \/ Die

Spec == Init /\ [][Next]_vars

-----------------------------------------------------------------------------
(***************************************************************************)
(* What holds of it.                                                       *)
(***************************************************************************)

\* "apply backs up every file it replaces", and no backup is ever written
\* over (writeBackup): what the operator put in a file is still there, or in
\* a backup, whatever failed, was rolled back or was killed since.
EditKept ==
    \A f \in File : mine[f] # Missing =>
        disk[f] = mine[f] \/ \E n \in 1 .. MaxBackups : backup[f][n] = mine[f]

\* Only "the files the operator has not edited" are refreshed: without a
\* reset or --replace-bundle an edit stays in place, refresh after refresh,
\* and an arrangement of the operator's own (Link) always does.
EditStays ==
    [][ \A f \in File :
          /\ pc # "idle" /\ disk'[f] # disk[f] /\ disk'[f] = served[f] /\ pc = "rename"
          => disk[f] # Link /\ (disk[f] \in Edit => f \in force) ]_vars

\* A refresh that fails half-way and is rolled back without an error leaves
\* the files, and the directories in their place, as it found them (swapIn).
RollbackRestores == [][ RolledBack /\ ~failed => disk = cur ]_vars

\* "apply backs up every file it replaces".  The code does not keep it for a
\* file that is saved while the images are pulled: the backup holds what was
\* there before, and the rename replaces what is there now.
BackedUp ==
    [][ Rename /\ disk[NextFile] \in Content =>
          \E n \in 1 .. MaxBackups : backup[NextFile][n] = disk[NextFile] ]_vars

\* "So a later refresh can tell a file the CLI wrote from one the operator
\* edited since" (bundleManifestFile): between runs every file the CLI wrote
\* counts as its own, while none was cut short.
OwnIsPristine ==
    pc = "idle" /\ ~died => \A f \in File :
        disk[f] \in Bytes /\ disk[f] # mine[f] => Pristine(f, disk[f])

=============================================================================

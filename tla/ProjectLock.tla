----------------------------- MODULE ProjectLock -----------------------------
(***************************************************************************)
(* The lock that keeps two runs off one Docker project, where the file     *)
(* system has advisory locks: lockProject of lock.go over flock            *)
(* (lock_unix.go) or LockFileEx (lock_windows.go).                         *)
(*                                                                         *)
(* A file is identified by its inode.  The lock belongs to an inode, the   *)
(* name .origamy.lock to whichever inode was created there last, and the   *)
(* two come apart whenever a run removes the file: that is what the        *)
(* samePath test of the code is for.  An inode nobody has open and no name *)
(* points at is free and may be handed out again.                          *)
(*                                                                         *)
(* Every system call is a step of its own, so that runs interleave between *)
(* any two of them.  A run may be killed at any step; the kernel then      *)
(* closes its file and gives its lock up, and the file stays.              *)
(*                                                                         *)
(* A run may be an uninstall (uninstallDocker).  It ends with the removal  *)
(* of the directory, the lock file included, while it holds the lock, and  *)
(* once more without it when something was left.                           *)
(***************************************************************************)
EXTENDS Naturals, FiniteSets

CONSTANTS
    Run,        \* processes
    Inode,      \* inode numbers of the file system
    NoRun, NoFile,
    MaxTries    \* rounds of lockProject's loop (10 in the code)

ASSUME LockConstants ==
    /\ NoRun \notin Run
    /\ NoFile \notin Inode
    /\ MaxTries \in Nat \ {0}

VARIABLES
    path,    \* the inode named .origamy.lock, or NoFile
    fd,      \* per run: the inode of its open file, or NoFile
    flock,   \* per inode: the run whose open file has the lock, or NoRun
    says,    \* per inode: the run its text names, NoRun while it is empty
    pc,      \* per run: where it is
    tries,   \* per run: rounds of the loop begun
    same,    \* per run: what releaseLock's samePath answered
    rest,    \* per run: its os.RemoveAll left something of the directory
    robbed,  \* history: the runs that have the lock and whose file was taken
             \* from under the name by a run that does not have it
    windows  \* the system: the order of releaseLock, and what os.Remove refuses

vars == <<path, fd, flock, says, pc, tries, same, rest, robbed, windows>>

\* Where a run counts on the name to lead to its file: from the samePath test
\* of lockProject to the end of its work, and from that of releaseLock to the
\* removal.
Owning == {"truncate", "write", "held", "remove"}

Control == Owning \cup
    {"idle", "open", "create", "lock", "check", "rmdir", "release", "unlock", "close",
     "wremove", "rest"}

TypeOK ==
    /\ path \in Inode \cup {NoFile}
    /\ fd \in [Run -> Inode \cup {NoFile}]
    /\ flock \in [Inode -> Run \cup {NoRun}]
    /\ says \in [Inode -> Run \cup {NoRun}]
    /\ pc \in [Run -> Control]
    /\ tries \in [Run -> 0 .. MaxTries]
    /\ same \in [Run -> BOOLEAN]
    /\ rest \in [Run -> BOOLEAN]
    /\ robbed \subseteq Run
    /\ windows \in BOOLEAN

\* The file, if there is one, was left by a run that was killed earlier.
Init ==
    /\ path \in Inode \cup {NoFile}
    /\ fd = [r \in Run |-> NoFile]
    /\ flock = [i \in Inode |-> NoRun]
    /\ says \in [Inode -> {NoRun}]
    /\ pc = [r \in Run |-> "idle"]
    /\ tries = [r \in Run |-> 0]
    /\ same = [r \in Run |-> FALSE]
    /\ rest = [r \in Run |-> FALSE]
    /\ robbed = {}
    /\ windows \in BOOLEAN

-----------------------------------------------------------------------------
Goto(r, l) == pc' = [pc EXCEPT ![r] = l]

InUse(i) == path = i \/ \E r \in Run : fd[r] = i

Close(r) == fd' = [fd EXCEPT ![r] = NoFile]

\* The process is gone, and what it held in memory with it.
Forget(r) ==
    /\ Goto(r, "idle")
    /\ Close(r)
    /\ tries' = [tries EXCEPT ![r] = 0]
    /\ same' = [same EXCEPT ![r] = FALSE]
    /\ rest' = [rest EXCEPT ![r] = FALSE]

Exit(r) == Forget(r) /\ robbed' = robbed \ {r}

\* What releaseLock is followed by: the end of the run, or of an uninstall's
\* second os.RemoveAll, when the first left something.
Leave(r) ==
    IF rest[r]
    THEN Goto(r, "rest") /\ Close(r) /\ UNCHANGED <<tries, same, rest, robbed>>
    ELSE Exit(r)

\* The name once it is removed: Windows refuses while any process has the file
\* open.
Unlinked ==
    IF windows /\ \E s \in Run : path # NoFile /\ fd[s] = path THEN path ELSE NoFile

\* Who is left without its file when run r removes the name.
Losers(r) == {s \in Run \ {r} : path' # path /\ pc[s] \in Owning /\ fd[s] = path}

\* The next round of the loop, or "kept changing while it was being locked".
Again(r) ==
    IF tries[r] < MaxTries
    THEN Goto(r, "open") /\ Close(r) /\ UNCHANGED <<tries, same, rest, robbed>>
    ELSE Exit(r)

Unlocked(r) == [i \in Inode |-> IF flock[i] = r THEN NoRun ELSE flock[i]]

Start(r) ==
    /\ pc[r] = "idle"
    /\ Goto(r, "open")
    /\ UNCHANGED <<path, fd, flock, says, tries, same, rest, robbed>>

Open(r) ==
    /\ pc[r] = "open"
    /\ tries' = [tries EXCEPT ![r] = @ + 1]
    /\ fd' = [fd EXCEPT ![r] = path]
    /\ Goto(r, IF path = NoFile THEN "create" ELSE "lock")
    /\ UNCHANGED <<path, flock, says, same, rest, robbed>>

Create(r) ==
    /\ pc[r] = "create"
    /\ path = NoFile
    /\ \E i \in {j \in Inode : ~InUse(j)} :
          /\ path' = i
          /\ fd' = [fd EXCEPT ![r] = i]
          /\ says' = [says EXCEPT ![i] = NoRun]
    /\ Goto(r, "lock")
    /\ UNCHANGED <<flock, tries, same, rest, robbed>>

\* Another run created the file since this one found none.
CreateLost(r) ==
    /\ pc[r] = "create"
    /\ path # NoFile
    /\ Again(r)
    /\ UNCHANGED <<path, flock, says>>

Lock(r) ==
    /\ pc[r] = "lock"
    /\ flock[fd[r]] = NoRun
    /\ flock' = [flock EXCEPT ![fd[r]] = r]
    /\ Goto(r, "check")
    /\ UNCHANGED <<path, fd, says, tries, same, rest, robbed>>

\* errProjectLocked: another run has the lock.
LockHeld(r) ==
    /\ pc[r] = "lock"
    /\ flock[fd[r]] # NoRun
    /\ Exit(r)
    /\ UNCHANGED <<path, flock, says>>

\* Mutant of CheckSame: no samePath after the lock.
CheckNothing(r) ==
    /\ pc[r] = "check"
    /\ Goto(r, "truncate")
    /\ UNCHANGED <<path, fd, flock, says, tries, same, rest, robbed>>

CheckSame(r) ==
    /\ pc[r] = "check"
    /\ path = fd[r]
    /\ Goto(r, "truncate")
    /\ UNCHANGED <<path, fd, flock, says, tries, same, rest, robbed>>

\* Mutant of CheckGone: the next round begins with the old lock in hand.
CheckGoneLocked(r) ==
    /\ pc[r] = "check"
    /\ path # fd[r]
    /\ Again(r)
    /\ UNCHANGED <<path, flock, says>>

\* The lock is on a file no other run opens any more: give it up, start over.
CheckGone(r) ==
    /\ pc[r] = "check"
    /\ path # fd[r]
    /\ flock' = Unlocked(r)
    /\ Again(r)
    /\ UNCHANGED <<path, says>>

Truncate(r) ==
    /\ pc[r] = "truncate"
    /\ says' = [says EXCEPT ![fd[r]] = NoRun]
    /\ Goto(r, "write")
    /\ UNCHANGED <<path, fd, flock, tries, same, rest, robbed>>

Write(r) ==
    /\ pc[r] = "write"
    /\ says' = [says EXCEPT ![fd[r]] = r]
    /\ Goto(r, "held")
    /\ UNCHANGED <<path, fd, flock, tries, same, rest, robbed>>

\* An error of the file system: the run ends without the lock.
SystemError(r) ==
    /\ pc[r] \in {"open", "create", "lock"}
    /\ Exit(r)
    /\ UNCHANGED <<path, flock, says>>

\* The run's work is over, or its record could not be written.  An uninstall
\* comes here when it is refused, cancelled or interrupted.
Finish(r) ==
    /\ pc[r] \in {"truncate", "write", "held"}
    /\ Goto(r, "release")
    /\ UNCHANGED <<path, fd, flock, says, tries, same, rest, robbed>>

\* An uninstall removes the directory while it holds the lock, and at some
\* point of that the lock file, by its name.
RemoveAll(r) ==
    /\ pc[r] = "held"
    /\ path' = Unlinked
    /\ robbed' = robbed \cup Losers(r)
    /\ Goto(r, "rmdir")
    /\ UNCHANGED <<fd, flock, says, tries, same, rest>>

\* The rest of the directory goes, or something is left of it: a lock file in
\* any case, also one that a deploy created there meanwhile.  An uninstall that
\* is interrupted leaves it at that.
Rmdir(r) ==
    /\ pc[r] = "rmdir"
    /\ \E left \in BOOLEAN : rest' = [rest EXCEPT ![r] = left]
    /\ Goto(r, "release")
    /\ UNCHANGED <<path, fd, flock, says, tries, same, robbed>>

\* Mutant of ReleaseCheck: the file is left where it is.
ReleaseNoRemove(r) ==
    /\ pc[r] = "release"
    /\ same' = [same EXCEPT ![r] = path = fd[r]]
    /\ Goto(r, "unlock")
    /\ UNCHANGED <<path, fd, flock, says, tries, rest, robbed>>

\* releaseLock asks samePath first, on every system.
ReleaseCheck(r) ==
    /\ pc[r] = "release"
    /\ same' = [same EXCEPT ![r] = path = fd[r]]
    /\ Goto(r, IF path = fd[r] /\ ~windows THEN "remove" ELSE "unlock")
    /\ UNCHANGED <<path, fd, flock, says, tries, rest, robbed>>

\* Unix: the file goes while it is still locked, whatever the name points at.
\* The removal itself does not fail.
Remove(r) ==
    /\ pc[r] = "remove"
    /\ ~windows
    /\ path' = NoFile
    /\ robbed' = robbed \cup Losers(r)
    /\ Goto(r, "unlock")
    /\ UNCHANGED <<fd, flock, says, tries, same, rest>>

Unlock(r) ==
    /\ pc[r] = "unlock"
    /\ flock' = Unlocked(r)
    /\ Goto(r, "close")
    /\ UNCHANGED <<path, fd, says, tries, same, rest, robbed>>

CloseFile(r) ==
    /\ pc[r] = "close"
    /\ IF windows /\ same[r]
       THEN Close(r) /\ Goto(r, "wremove") /\ UNCHANGED <<tries, same, rest, robbed>>
       ELSE Leave(r)
    /\ UNCHANGED <<path, flock, says>>

\* Mutant of WindowsRemove: Unix semantics, an open file can be removed.
WindowsRemoveOpen(r) ==
    /\ pc[r] = "wremove"
    /\ path' = NoFile
    /\ Leave(r)
    /\ UNCHANGED <<flock, says>>

\* Windows: removed last, and not while any process has it open.
WindowsRemove(r) ==
    /\ pc[r] = "wremove"
    /\ path' = Unlinked
    /\ Leave(r)
    /\ UNCHANGED <<flock, says>>

\* An uninstall removes what was left of the directory, now without the lock.
RemoveRest(r) ==
    /\ pc[r] = "rest"
    /\ path' = Unlinked
    /\ robbed' = (robbed \cup Losers(r)) \ {r}
    /\ Forget(r)
    /\ UNCHANGED <<flock, says>>

Killed(r) ==
    /\ pc[r] # "idle"
    /\ Exit(r)
    /\ flock' = Unlocked(r)
    /\ UNCHANGED <<path, says>>

Step(r) ==
    \/ Open(r) \/ Create(r) \/ CreateLost(r) \/ Lock(r) \/ LockHeld(r)
    \/ CheckSame(r) \/ CheckGone(r) \/ Truncate(r) \/ Write(r) \/ Finish(r)
    \/ RemoveAll(r) \/ Rmdir(r)
    \/ ReleaseCheck(r) \/ Remove(r) \/ Unlock(r) \/ CloseFile(r)
    \/ WindowsRemove(r) \/ RemoveRest(r)

Next ==
    /\ \E r \in Run : Start(r) \/ Step(r) \/ SystemError(r) \/ Killed(r)
    /\ UNCHANGED windows

Spec == Init /\ [][Next]_vars

-----------------------------------------------------------------------------
(***************************************************************************)
(* What holds of it.                                                       *)
(***************************************************************************)

\* A run works under the lock.  An uninstall that removes the directory still
\* does on Windows, where its open lock file cannot go; on Unix it has removed
\* the lock file, and the rest of its work is open to any other run.
UnderLock(r) == pc[r] = "held" \/ (windows /\ pc[r] = "rmdir")

\* Two runs never work on the project at once (lockProject, releaseLock),
\* whatever the steps of the other runs between the open, the lock and the
\* samePath of one, or between the samePath and the removal of another; save
\* a run that an uninstall robbed of its file.
MutualExclusion ==
    \A r, s \in Run \ robbed : UnderLock(r) /\ UnderLock(s) => r = s

\* While a run works, the name .origamy.lock leads every run that starts to
\* its file, which names the run (the message of a refused run is read from
\* it): releaseLock and lockProject of other runs never take it away, only an
\* uninstall that no longer has the lock, or a run it robbed, can.
HolderIsFound ==
    \A r \in Run \ robbed : UnderLock(r) => path = fd[r] /\ says[path] = r

\* On Unix a run that ends its work (releaseLock) leaves no file of its own
\* under the name: when it closes its file the name points elsewhere, whatever
\* was opened, created and removed meanwhile.  Nor does it take another run's
\* file away between its samePath and its removal, unless it was robbed there.
GoneWhenDone ==
    [][ \A r \in Run : ~windows =>
          /\ pc[r] = "close" /\ pc'[r] # "close" => path # fd[r]
          /\ pc[r] = "remove" /\ pc'[r] = "unlock" /\ r \notin robbed => path = fd[r] ]_vars

\* "There is no stale lock to take over" (lockProject): a run that was killed,
\* refused or is over has no lock on any file, so a file it left stops nobody.
NoStaleLock ==
    \A i \in Inode : flock[i] # NoRun => pc[flock[i]] # "idle"

\* The project lock keeps the promise of OneRun to the runs that work under it
\* and were not robbed: one begins only when none is at work.
Promise == INSTANCE OneRun WITH working <- {r \in Run \ robbed : UnderLock(r)}

KeepsThePromise == Promise!Spec

=============================================================================

---------------------------- MODULE ExclusiveLock ----------------------------
(***************************************************************************)
(* The project lock where the file system has no advisory locks:           *)
(* lockExclusive, holdExclusive, lockStale and takeOver of lock.go, and    *)
(* releaseLock of lock_unix.go.  The file .origamy.lock is then itself the *)
(* lock.  A run that dies leaves it behind, and the next run on the same   *)
(* host takes it over under a second file, .origamy.lock.takeover.         *)
(*                                                                         *)
(* A run stands for a process id: one that is over may be started again,   *)
(* and a file naming it then names a live process.  A file is created      *)
(* fresh, never one that a run still remembers: a reused inode has another *)
(* modification time, which takeOver compares.                             *)
(*                                                                         *)
(* An uninstall (uninstallDocker) removes the directory with both files in *)
(* it while it holds the lock, and once more without it when something was *)
(* left.  Its os.RemoveAll comes to each name once, in an order of the     *)
(* file system's.                                                          *)
(*                                                                         *)
(* Each system call is a step.  lockProject's own O_EXCL create, before it *)
(* knows that there are no locks, is the create of the first round.        *)
(***************************************************************************)
EXTENDS Naturals, FiniteSets

CONSTANTS
    Run,         \* process ids
    Remote,      \* those of them on another host than the rest
    Uninstall,   \* those that are `origamy uninstall`
    File,        \* identities of files
    NoRun, NoFile,
    MaxTries,    \* rounds of lockExclusive's loop (10 in the code)
    MaxWaits,    \* rounds of takeOver's loop (50 in the code)
    DiesInTakeOver   \* whether a run may be killed inside takeOver

ASSUME ExclusiveConstants ==
    /\ Remote \subseteq Run
    /\ Uninstall \subseteq Run
    /\ NoRun \notin Run
    /\ File # {} /\ NoFile \notin File
    /\ MaxTries \in Nat \ {0}
    /\ MaxWaits \in Nat \ {0}
    /\ DiesInTakeOver \in BOOLEAN

VARIABLES
    lock,    \* the file named .origamy.lock, or NoFile
    over,    \* the file named .origamy.lock.takeover, or NoFile
    text,    \* per file: the run it names, or NoRun while it says nothing
    aged,    \* per file: its grace is over (lockWriteGrace, lockTakeoverStale)
    pc,      \* per run: where it is
    fd,      \* per run: the file it created and still owns, or NoFile
    seen,    \* per run: the lock file of its Stat, whether its grace was
             \* over then, and what the lock file said when it was read
    dead,    \* per run: the takeover file it read named a run that is gone
    tries,   \* per run: rounds begun of lockExclusive's loop
    waits,   \* per run: rounds begun of takeOver's loop
    todo,    \* per run: the names its os.RemoveAll has yet to come to
    robbed   \* history: the runs whose file, or whose stale lock file in
             \* takeOver, an uninstall or a run robbed before it removed

files == <<lock, over, text, aged>>
round == <<tries, waits, todo>>
vars == <<files, pc, fd, seen, dead, round, robbed>>

Nothing == [file |-> NoFile, aged |-> FALSE, text |-> NoRun]

Seen == [file : File \cup {NoFile}, aged : BOOLEAN, text : Run \cup {NoRun}]

\* Inside takeOver with the takeover file this run created.
TakingOver == {"twrite", "tstat", "tread", "tremove", "tend"}

Names == {"lock", "over"}

\* Where a run counts on its lock file to have the name: from the creation to
\* the end of its work, and from the samePath of releaseLock on.
Counting == {"write", "held", "unlink"}

InTakeOver == TakingOver \cup {"tcreate", "tpeek", "tage", "tsteal"}

Control == InTakeOver \cup
    {"idle", "create", "write", "held", "rmdir", "release", "unlink", "rest", "stat", "read"}

TypeOK ==
    /\ lock \in File \cup {NoFile}
    /\ over \in File \cup {NoFile}
    /\ text \in [File -> Run \cup {NoRun}]
    /\ aged \in [File -> BOOLEAN]
    /\ pc \in [Run -> Control]
    /\ fd \in [Run -> File \cup {NoFile}]
    /\ seen \in [Run -> Seen]
    /\ dead \in [Run -> BOOLEAN]
    /\ tries \in [Run -> 0 .. MaxTries]
    /\ waits \in [Run -> 0 .. MaxWaits]
    /\ todo \in [Run -> SUBSET Names]
    /\ robbed \subseteq Run

\* There is no lock file, or one that a run now gone left, written or empty.
Init ==
    /\ lock \in {NoFile, CHOOSE i \in File : TRUE}
    /\ over = NoFile
    /\ \E r \in Run \cup {NoRun} :
          text = [i \in File |-> IF i = lock THEN r ELSE NoRun]
    /\ aged = [i \in File |-> FALSE]
    /\ pc = [r \in Run |-> "idle"]
    /\ fd = [r \in Run |-> NoFile]
    /\ seen = [r \in Run |-> Nothing]
    /\ dead = [r \in Run |-> FALSE]
    /\ tries = [r \in Run |-> 0]
    /\ waits = [r \in Run |-> 0]
    /\ todo = [r \in Run |-> {}]
    /\ robbed = {}

-----------------------------------------------------------------------------
Goto(r, l) == pc' = [pc EXCEPT ![r] = l]

Remembered(i) ==
    i \in {lock, over} \/ \E r \in Run : fd[r] = i \/ seen[r].file = i

\* Identities have no structure, so it does not matter which one is next.
\* File bounds them: a run creates a file while one is free.
Fresh == CHOOSE i \in File : ~Remembered(i)

FileLeft == \E i \in File : ~Remembered(i)

\* Mutant of Gone: pidAlive is not asked.
GoneUnasked(r, s) == s # NoRun /\ (r \in Remote <=> s \in Remote)

\* Mutant of Gone: a process id of another host is looked up on this one.
GoneAnyHost(r, s) == s # NoRun /\ ((r \in Remote <=> s \in Remote) => pc[s] = "idle")

\* On this run's host, and no process any more.
Gone(r, s) == s # NoRun /\ (r \in Remote <=> s \in Remote) /\ pc[s] = "idle"

\* The process is over, and what it had in memory with it.
Exit(r) ==
    /\ Goto(r, "idle")
    /\ fd' = [fd EXCEPT ![r] = NoFile]
    /\ seen' = [seen EXCEPT ![r] = Nothing]
    /\ dead' = [dead EXCEPT ![r] = FALSE]
    /\ tries' = [tries EXCEPT ![r] = 0]
    /\ waits' = [waits EXCEPT ![r] = 0]
    /\ todo' = [todo EXCEPT ![r] = {}]

\* What releaseLock is followed by: the end of the run, or of an uninstall's
\* second os.RemoveAll, when the first left something.
Leave(r) ==
    IF todo[r] = {}
    THEN Exit(r)
    ELSE /\ Goto(r, "rest")
         /\ fd' = [fd EXCEPT ![r] = NoFile]
         /\ UNCHANGED <<seen, dead, round>>

\* The next round of lockExclusive, or "kept changing while being locked".
NextRound(r) ==
    IF tries[r] < MaxTries
    THEN /\ Goto(r, "create")
         /\ tries' = [tries EXCEPT ![r] = @ + 1]
         /\ waits' = [waits EXCEPT ![r] = 0]
         /\ seen' = [seen EXCEPT ![r] = Nothing]
         /\ fd' = [fd EXCEPT ![r] = NoFile]
         /\ dead' = [dead EXCEPT ![r] = FALSE]
         /\ UNCHANGED todo
    ELSE Exit(r)

\* Mutant of NextWait: the rounds are not counted.
NextWaitUncounted(r) ==
    /\ Goto(r, "tcreate")
    /\ dead' = [dead EXCEPT ![r] = FALSE]
    /\ UNCHANGED <<fd, seen, round>>

\* The next round of takeOver, or "stayed in place".
NextWait(r) ==
    IF waits[r] < MaxWaits
    THEN /\ Goto(r, "tcreate")
         /\ waits' = [waits EXCEPT ![r] = @ + 1]
         /\ dead' = [dead EXCEPT ![r] = FALSE]
         /\ UNCHANGED <<fd, seen, tries, todo>>
    ELSE Exit(r)

Start(r) ==
    /\ pc[r] = "idle"
    /\ NextRound(r)
    /\ UNCHANGED <<files, robbed>>

\* Nobody can read a file that has lost its name; a new one is empty.
Blank(i) ==
    /\ text' = [j \in File |-> IF j = i THEN NoRun ELSE text[j]]
    /\ aged' = [j \in File |-> IF j = i THEN FALSE ELSE aged[j]]

\* What it is, written to the file it created, which is then new again.
WriteMe(r) ==
    /\ text' = [text EXCEPT ![fd[r]] = IF fd[r] \in {lock, over} THEN r ELSE NoRun]
    /\ aged' = [aged EXCEPT ![fd[r]] = FALSE]

\* Who counts on the name when run r removes it: the run that owns the file,
\* and one that, under the takeover file, found the stale one still there.
LosesLock(r) ==
    {s \in Run \ {r} : \/ pc[s] \in Counting /\ fd[s] = lock
                       \/ pc[s] \in {"tread", "tremove"} /\ seen[s].file = lock}

LosesOver(r) == {s \in Run \ {r} : pc[s] \in TakingOver /\ fd[s] = over}

\* A run that was robbed robs those in turn whose file it takes for its own.
InTurn(r, losers) == IF r \in robbed THEN robbed \cup losers ELSE robbed

Create(r) ==
    /\ pc[r] = "create"
    /\ lock = NoFile /\ FileLeft
    /\ lock' = Fresh
    /\ fd' = [fd EXCEPT ![r] = Fresh]
    /\ Blank(Fresh)
    /\ Goto(r, "write")
    /\ UNCHANGED <<over, seen, dead, round, robbed>>

CreateLost(r) ==
    /\ pc[r] = "create"
    /\ lock # NoFile
    /\ Goto(r, "stat")
    /\ UNCHANGED <<files, fd, seen, dead, round, robbed>>

\* holdExclusive.
Write(r) ==
    /\ pc[r] = "write"
    /\ WriteMe(r)
    /\ Goto(r, "held")
    /\ UNCHANGED <<lock, over, fd, seen, dead, round, robbed>>

\* The run's work is over, or what it is could not be written.  An uninstall
\* comes here when it is refused, cancelled or interrupted.
Finish(r) ==
    /\ pc[r] \in {"write", "held"}
    /\ Goto(r, "release")
    /\ UNCHANGED <<files, fd, seen, dead, round, robbed>>

\* An uninstall begins to remove the directory, while it holds the lock.
RemoveAll(r) ==
    /\ pc[r] = "held" /\ r \in Uninstall
    /\ todo' = [todo EXCEPT ![r] = Names]
    /\ Goto(r, "rmdir")
    /\ UNCHANGED <<files, fd, seen, dead, tries, waits, robbed>>

\* Its os.RemoveAll comes to a name and removes what has it by then.
UnlinkLock(r) ==
    /\ pc[r] \in {"rmdir", "rest"} /\ "lock" \in todo[r]
    /\ lock' = NoFile
    /\ Blank(lock)
    /\ todo' = [todo EXCEPT ![r] = @ \ {"lock"}]
    /\ robbed' = robbed \cup LosesLock(r)
    /\ UNCHANGED <<over, pc, fd, seen, dead, tries, waits>>

UnlinkOver(r) ==
    /\ pc[r] \in {"rmdir", "rest"} /\ "over" \in todo[r]
    /\ over' = NoFile
    /\ Blank(over)
    /\ todo' = [todo EXCEPT ![r] = @ \ {"over"}]
    /\ robbed' = robbed \cup LosesOver(r)
    /\ UNCHANGED <<lock, pc, fd, seen, dead, tries, waits>>

\* The directory is gone, or the uninstall is interrupted, or something is left
\* that it removes when it has released the lock: a file that would not go, or
\* one that another run created meanwhile.
Rmdir(r) ==
    /\ pc[r] = "rmdir" /\ todo[r] = {}
    /\ \E left \in {{}, Names} : todo' = [todo EXCEPT ![r] = left]
    /\ Goto(r, "release")
    /\ UNCHANGED <<files, fd, seen, dead, tries, waits, robbed>>

\* releaseLock: samePath, then the removal.
Release(r) ==
    /\ pc[r] = "release"
    /\ IF lock = fd[r]
       THEN Goto(r, "unlink") /\ UNCHANGED <<fd, seen, dead, round, robbed>>
       ELSE Leave(r) /\ robbed' = robbed \ {r}
    /\ UNCHANGED files

Unlink(r) ==
    /\ pc[r] = "unlink"
    /\ lock' = NoFile
    /\ Blank(lock)
    /\ Leave(r)
    /\ robbed' = InTurn(r, LosesLock(r)) \ {r}
    /\ UNCHANGED over

\* The uninstall is over.
RestGone(r) ==
    /\ pc[r] = "rest" /\ todo[r] = {}
    /\ Exit(r)
    /\ UNCHANGED <<files, robbed>>

Stat(r) ==
    /\ pc[r] = "stat"
    /\ IF lock = NoFile
       THEN NextRound(r)
       ELSE /\ seen' = [seen EXCEPT ![r].file = lock, ![r].aged = aged[lock]]
            /\ Goto(r, "read")
            /\ UNCHANGED <<fd, dead, round>>
    /\ UNCHANGED <<files, robbed>>

\* Mutant of Stale: no lockWriteGrace for a file that says nothing yet.
StaleAtOnce(r, said) == said = NoRun \/ Gone(r, said)

\* lockStale: the text just read, and the age of the file of the Stat.
Stale(r, said) == IF said = NoRun THEN seen[r].aged ELSE Gone(r, said)

Read(r) ==
    /\ pc[r] = "read"
    /\ IF lock = NoFile
       THEN NextRound(r)
       ELSE IF Stale(r, text[lock])
       THEN /\ seen' = [seen EXCEPT ![r].text = text[lock], ![r].aged = FALSE]
            /\ Goto(r, "tcreate")
            /\ waits' = [waits EXCEPT ![r] = 1]
            /\ UNCHANGED <<fd, dead, tries, todo>>
       ELSE Exit(r)        \* errProjectLocked
    /\ UNCHANGED <<files, robbed>>

-----------------------------------------------------------------------------
(***************************************************************************)
(* takeOver.                                                               *)
(***************************************************************************)

TakeOver(r) ==
    /\ pc[r] = "tcreate"
    /\ over = NoFile /\ FileLeft
    /\ over' = Fresh
    /\ fd' = [fd EXCEPT ![r] = Fresh]
    /\ Blank(Fresh)
    /\ Goto(r, "twrite")
    /\ UNCHANGED <<lock, seen, dead, round, robbed>>

TakeOverLost(r) ==
    /\ pc[r] = "tcreate"
    /\ over # NoFile
    /\ Goto(r, "tpeek")
    /\ UNCHANGED <<files, fd, seen, dead, round, robbed>>

\* readProjectLock of the takeover file; it may be gone by now.
Peek(r) ==
    /\ pc[r] = "tpeek"
    /\ dead' = [dead EXCEPT ![r] = over # NoFile /\ Gone(r, text[over])]
    /\ Goto(r, "tage")
    /\ UNCHANGED <<files, fd, seen, round, robbed>>

\* os.Stat of the takeover file, which may be another one by now.
StatTakeOver(r) ==
    /\ pc[r] = "tage"
    /\ IF over # NoFile /\ (dead[r] \/ aged[over])
       THEN /\ Goto(r, "tsteal")
            /\ dead' = [dead EXCEPT ![r] = FALSE]
            /\ UNCHANGED <<fd, seen, round>>
       ELSE NextWait(r)
    /\ UNCHANGED <<files, robbed>>

\* os.Remove of whatever has the name by now.
Steal(r) ==
    /\ pc[r] = "tsteal"
    /\ over' = NoFile
    /\ Blank(over)
    /\ NextWait(r)
    /\ UNCHANGED <<lock, robbed>>

WriteTakeOver(r) ==
    /\ pc[r] = "twrite"
    /\ WriteMe(r)
    /\ Goto(r, "tstat")
    /\ UNCHANGED <<lock, over, fd, seen, dead, round, robbed>>

\* Mutant of StatAgain: takeOver does not look again.
StatNothing(r) ==
    /\ pc[r] = "tstat"
    /\ Goto(r, "tread")
    /\ UNCHANGED <<files, fd, seen, dead, round, robbed>>

\* Mutant of StatAgain: a return before the takeover file is removed.
StatAndReturn(r) ==
    /\ pc[r] = "tstat"
    /\ IF lock = seen[r].file
       THEN Goto(r, "tread") /\ UNCHANGED <<fd, seen, dead, round>>
       ELSE NextRound(r)
    /\ UNCHANGED <<files, robbed>>

StatAgain(r) ==
    /\ pc[r] = "tstat"
    /\ Goto(r, IF lock = seen[r].file THEN "tread" ELSE "tend")
    /\ UNCHANGED <<files, fd, seen, dead, round, robbed>>

ReadAgain(r) ==
    /\ pc[r] = "tread"
    /\ Goto(r, IF lock # NoFile /\ text[lock] = seen[r].text THEN "tremove" ELSE "tend")
    /\ UNCHANGED <<files, fd, seen, dead, round, robbed>>

RemoveStale(r) ==
    /\ pc[r] = "tremove"
    /\ lock' = NoFile
    /\ Blank(lock)
    /\ Goto(r, "tend")
    /\ robbed' = InTurn(r, LosesLock(r))
    /\ UNCHANGED <<over, fd, seen, dead, round>>

\* The removal of the takeover file is lockExclusive's error when it fails.
EndTakeOver(r) ==
    /\ pc[r] = "tend"
    /\ IF over = NoFile THEN Exit(r) ELSE NextRound(r)
    /\ over' = NoFile
    /\ Blank(over)
    /\ robbed' = InTurn(r, LosesOver(r)) \ {r}
    /\ UNCHANGED lock

-----------------------------------------------------------------------------
\* Time passes: the grace of a file ends.  That of a lock file is looked at
\* only while the file says nothing.  A run that lives is never so slow that
\* it is taken for dead: it writes what it is, or removes the file again,
\* within lockWriteGrace (5 s), and takes over within lockTakeoverStale (30 s).
Busy(i) == \E r \in Run : fd[r] = i /\ pc[r] \in {"write", "release", "unlink"} \cup TakingOver

Age(i) ==
    /\ ~aged[i]
    /\ i = over \/ (i = lock /\ text[i] = NoRun)
    /\ ~Busy(i)
    /\ aged' = [aged EXCEPT ![i] = TRUE]
    /\ UNCHANGED <<lock, over, text, pc, fd, seen, dead, round, robbed>>

Killed(r) ==
    /\ pc[r] # "idle"
    /\ pc[r] \in TakingOver => DiesInTakeOver
    /\ Exit(r)
    /\ robbed' = robbed \ {r}
    /\ UNCHANGED files

Step(r) ==
    \/ Create(r) \/ CreateLost(r) \/ Write(r) \/ Finish(r)
    \/ RemoveAll(r) \/ UnlinkLock(r) \/ UnlinkOver(r) \/ Rmdir(r) \/ Release(r)
    \/ Unlink(r) \/ RestGone(r) \/ Stat(r) \/ Read(r)
    \/ TakeOver(r) \/ TakeOverLost(r) \/ Peek(r) \/ StatTakeOver(r) \/ Steal(r)
    \/ WriteTakeOver(r) \/ StatAgain(r) \/ ReadAgain(r) \/ RemoveStale(r)
    \/ EndTakeOver(r)

Next ==
    \/ \E r \in Run : Start(r) \/ Step(r) \/ Killed(r)
    \/ \E i \in File : Age(i)

Spec == Init /\ [][Next]_vars

\* A run that lives takes its next step, and ends its work some time.
FairSpec == Spec /\ \A r \in Run : WF_vars(Step(r))

-----------------------------------------------------------------------------
(***************************************************************************)
(* What holds of it.                                                       *)
(***************************************************************************)

\* lockExclusive and releaseLock take no file away from the run that holds it,
\* or is about to write into it: it stays where it was created until that run
\* releases it or, being an uninstall, removes it with the directory.  Only an
\* uninstall that no longer has the lock, or a run it robbed, can remove it.
HolderKeepsFile ==
    \A r \in Run \ robbed : pc[r] \in {"write", "held"} => lock = fd[r]

\* One run at a time takes a lock over, under a takeover file of its own, and
\* nobody else's is in the way: whichever way takeOver ends, it is removed.  A
\* run whose takeover file an uninstall removed may not be alone.
AloneInTakeOver ==
    /\ \A r, s \in Run \ robbed : pc[r] \in TakingOver /\ pc[s] \in TakingOver => r = s
    /\ over # NoFile => \E r \in Run : pc[r] \in TakingOver /\ fd[r] = over

\* What takeOver removes is the stale file that it read, never the lock that
\* another run created since (the comment on lockExclusive); an uninstall that
\* removes either file meanwhile can make it remove another's.
OnlyStaleRemoved ==
    [][ \A r \in Run \ robbed : RemoveStale(r) => lock \in {seen[r].file, NoFile} ]_vars

\* A lock file that names a run on another host cannot be judged from here:
\* whatever became of that run, no run of this host takes it over (lockStale).
ForeignLockStays ==
    [][ \A r \in Run \ robbed : RemoveStale(r) /\ lock # NoFile =>
            text[lock] = NoRun \/ (text[lock] \in Remote <=> r \in Remote) ]_vars

\* The exclusive lock keeps the promise of OneRun to the runs that were not
\* robbed.  An uninstall that removes the directory is not at work any more: its
\* lock is the file that goes with it.
Promise == INSTANCE OneRun WITH working <- {r \in Run \ robbed : pc[r] = "held"}

KeepsThePromise == Promise!Spec

\* Every run that starts comes to an end: it never waits for ever for another
\* run's takeover file, left behind or under way.
EveryRunEnds == \A r \in Run : pc[r] = "create" ~> pc[r] = "idle"

=============================================================================

------------------------- MODULE ExclusiveLockProofs -------------------------
(***************************************************************************)
(* Proofs about ExclusiveLock, for any runs, hosts, files and rounds, while *)
(* no run is killed inside takeOver.                                       *)
(*                                                                         *)
(* The argument: the takeover file is that of a run that takes over, which *)
(* lives and is not slow, so it is never stale (OneTakesOver).  A lock     *)
(* file that a run has found stale is nobody's, and stays nobody's as long *)
(* as it has the name: a run only ever owns a file it created, and a file  *)
(* is created once (Handles, Found).  So the run that takes over removes a *)
(* lock that nobody holds (Owner).  All of it is said of the runs that no  *)
(* uninstall robbed; what a robbed run does on its own breaks none of it   *)
(* for the others, save for those it robs in turn.                         *)
(***************************************************************************)
EXTENDS ExclusiveLock, TLAPS

\* Where a run has a lock file of its own.
Owning == Counting \cup {"rmdir", "release"}

\* A run has a file of its own in these places and nowhere else, and it is
\* nobody else's.
Handles ==
    /\ \A r \in Run : fd[r] # NoFile <=> pc[r] \in Owning \cup TakingOver
    /\ \A r, s \in Run : fd[r] # NoFile /\ fd[s] = fd[r] => s = r

\* The lock file is nobody's.
Nobodys == \A r \in Run : fd[r] # lock

\* A run that was not robbed has its lock file under the name where it counts on
\* that; the file of a run, where it has the name, is fresh and says what the
\* run wrote.
OwnedBy(r) ==
    pc[r] \in Owning =>
        /\ fd[r] # over
        /\ r \notin robbed /\ pc[r] \in Counting => lock = fd[r]
        /\ lock = fd[r] =>
              /\ text[lock] \in {NoRun, r} /\ ~ aged[lock]
              /\ pc[r] \in {"held", "rmdir"} => text[lock] = r

Owner == \A r \in Run : OwnedBy(r)

\* The takeover file is that of a run that takes over, and a run that does has
\* it unless it was robbed.
OneTakesOver ==
    /\ \A r \in Run : pc[r] \in TakingOver =>
          fd[r] # lock /\ (r \notin robbed => over = fd[r])
    /\ over # NoFile =>
          /\ over # lock /\ ~ aged[over]
          /\ \E r \in Run : pc[r] \in TakingOver /\ fd[r] = over /\ text[over] \in {NoRun, r}
    /\ \A r \in Run : ~ dead[r] /\ pc[r] # "tsteal"

SameHost(r, s) == r \in Remote <=> s \in Remote

\* What a run has seen of the lock file, and what that still says of it.
FoundBy(r) ==
    /\ pc[r] = "read" =>
          seen[r].file \in File /\ (seen[r].aged /\ lock = seen[r].file => Nobodys)
    /\ pc[r] \in InTakeOver =>
          /\ seen[r].file \in File
          /\ lock = seen[r].file => Nobodys
          /\ seen[r].text = NoRun \/ SameHost(r, seen[r].text)
    /\ r \notin robbed =>
          /\ pc[r] \in {"tread", "tremove"} => lock = seen[r].file
          /\ pc[r] = "tremove" => text[lock] = seen[r].text

Found == \A r \in Run : FoundBy(r)

IInv == TypeOK /\ Handles /\ Owner /\ OneTakesOver /\ Found

-----------------------------------------------------------------------------
(***************************************************************************)
(* Types.                                                                  *)
(***************************************************************************)

\* A file that is created is new to every run, and to both names.
LEMMA FreshFile ==
    ASSUME FileLeft
    PROVE  /\ Fresh \in File /\ Fresh # NoFile /\ Fresh # lock /\ Fresh # over
           /\ \A r \in Run : fd[r] # Fresh /\ seen[r].file # Fresh
<1>1. Fresh \in File /\ ~ Remembered(Fresh)
  BY DEF FileLeft, Fresh
<1> QED BY <1>1, ExclusiveConstants DEF Remembered

\* What a run remembers of the lock file, when it looks again.
LEMMA SeenTypes ==
    ASSUME NEW x \in Seen, NEW f \in File \cup {NoFile}, NEW a \in BOOLEAN, NEW t \in Run \cup {NoRun}
    PROVE  /\ [x EXCEPT !.file = f, !.aged = a] \in Seen
           /\ [x EXCEPT !.text = t, !.aged = FALSE] \in Seen
BY DEF Seen

\* The memory of the runs.
MemoryOK ==
    /\ pc \in [Run -> Control]
    /\ fd \in [Run -> File \cup {NoFile}]
    /\ seen \in [Run -> Seen]
    /\ dead \in [Run -> BOOLEAN]
    /\ tries \in [Run -> 0 .. MaxTries]
    /\ waits \in [Run -> 0 .. MaxWaits]
    /\ todo \in [Run -> SUBSET Names]

\* The end of a run, and its next round, keep the types: rounds are bounded.
LEMMA RoundTypes ==
    ASSUME MemoryOK, NEW r \in Run, Exit(r) \/ NextRound(r) \/ NextWait(r) \/ Leave(r)
    PROVE  MemoryOK'
<1>1. Nothing \in Seen
  BY DEF Nothing, Seen
<1>2. ASSUME Exit(r) PROVE MemoryOK'
  BY <1>1, <1>2, ExclusiveConstants DEF Exit, Goto, MemoryOK, Control
<1>3. ASSUME NextRound(r) PROVE MemoryOK'
  <2>1. CASE tries[r] < MaxTries
    <3>1. tries[r] + 1 \in 0 .. MaxTries
      BY <2>1, ExclusiveConstants DEF MemoryOK
    <3>2. /\ pc' = [pc EXCEPT ![r] = "create"] /\ fd' = [fd EXCEPT ![r] = NoFile]
          /\ seen' = [seen EXCEPT ![r] = Nothing] /\ dead' = [dead EXCEPT ![r] = FALSE]
          /\ tries' = [tries EXCEPT ![r] = tries[r] + 1] /\ waits' = [waits EXCEPT ![r] = 0]
          /\ todo' = todo
      BY <1>3, <2>1 DEF NextRound, Goto
    <3>3. 0 \in 0 .. MaxWaits /\ "create" \in Control
      BY ExclusiveConstants DEF Control
    <3> QED BY <1>1, <3>1, <3>2, <3>3 DEF MemoryOK
  <2>2. CASE ~ (tries[r] < MaxTries)
    BY <1>2, <1>3, <2>2 DEF NextRound
  <2> QED BY <2>1, <2>2
<1>4. ASSUME NextWait(r) PROVE MemoryOK'
  <2>1. CASE waits[r] < MaxWaits
    <3>1. waits[r] + 1 \in 0 .. MaxWaits
      BY <2>1, ExclusiveConstants DEF MemoryOK
    <3> QED BY <1>4, <2>1, <3>1 DEF NextWait, Goto, MemoryOK, Control, InTakeOver
  <2>2. CASE ~ (waits[r] < MaxWaits)
    BY <1>2, <1>4, <2>2 DEF NextWait
  <2> QED BY <2>1, <2>2
<1>5. ASSUME Leave(r) PROVE MemoryOK'
  BY <1>2, <1>5 DEF Leave, round, Goto, MemoryOK, Control
<1> QED BY <1>2, <1>3, <1>4, <1>5

FilesOK ==
    /\ lock \in File \cup {NoFile}
    /\ over \in File \cup {NoFile}
    /\ text \in [File -> Run \cup {NoRun}]
    /\ aged \in [File -> BOOLEAN]

\* Every step keeps the types.
LEMMA TypeStep == TypeOK /\ [Next]_vars => TypeOK'
<1> SUFFICES ASSUME TypeOK, [Next]_vars PROVE FilesOK' /\ MemoryOK' /\ robbed' \subseteq Run
  BY DEF TypeOK, FilesOK, MemoryOK
<1> USE DEF Goto, files, round
<1>1. FilesOK /\ MemoryOK /\ robbed \subseteq Run
  BY DEF TypeOK, FilesOK, MemoryOK
<1>2. CASE UNCHANGED vars
  BY <1>1, <1>2 DEF vars, FilesOK, MemoryOK
<1>3. ASSUME NEW i, Blank(i)
      PROVE  text' \in [File -> Run \cup {NoRun}] /\ aged' \in [File -> BOOLEAN]
  BY <1>1, <1>3 DEF Blank, FilesOK
<1>4. ASSUME NEW r \in Run, WriteMe(r)
      PROVE  text' \in [File -> Run \cup {NoRun}] /\ aged' \in [File -> BOOLEAN]
  BY <1>1, <1>4 DEF WriteMe, FilesOK
<1>5. ASSUME NEW r \in Run, Start(r) \/ Step(r) \/ Killed(r) PROVE FilesOK' /\ MemoryOK' /\ robbed' \subseteq Run
  <2>0. robbed' \subseteq Run
    BY <1>1, <1>5 DEF Step, Start, Killed, Create, CreateLost, Write, Finish, RemoveAll, UnlinkLock,
          UnlinkOver, Rmdir, Release, Unlink, RestGone, Stat, Read, TakeOver, TakeOverLost, Peek,
          StatTakeOver, Steal, WriteTakeOver, StatAgain, ReadAgain, RemoveStale, EndTakeOver,
          LosesLock, LosesOver, InTurn
  <2>1. CASE Start(r) \/ Killed(r) \/ RestGone(r)
    BY <1>1, <2>0, <2>1, RoundTypes DEF Start, Killed, RestGone, FilesOK
  <2>2. CASE Create(r)
    BY <1>1, <2>0, <1>3, <2>2, FreshFile DEF Create, FilesOK, MemoryOK, Control
  <2>3. CASE TakeOver(r)
    BY <1>1, <2>0, <1>3, <2>3, FreshFile DEF TakeOver, FilesOK, MemoryOK, Control, InTakeOver, TakingOver
  <2>4. CASE Write(r) \/ WriteTakeOver(r)
    BY <1>1, <2>0, <1>4, <2>4 DEF Write, WriteTakeOver, FilesOK, MemoryOK, Control, InTakeOver, TakingOver
  <2>5. CASE CreateLost(r) \/ Finish(r) \/ TakeOverLost(r) \/ StatAgain(r) \/ ReadAgain(r)
    BY <1>1, <2>0, <2>5 DEF CreateLost, Finish, TakeOverLost, StatAgain, ReadAgain, FilesOK, MemoryOK,
                     Control, InTakeOver, TakingOver
  <2>6. CASE Release(r)
    <3>1. CASE Leave(r)
      BY <1>1, <2>0, <2>6, <3>1, RoundTypes DEF Release, FilesOK
    <3>2. CASE ~ Leave(r)
      BY <1>1, <2>0, <2>6, <3>2 DEF Release, FilesOK, MemoryOK, Control
    <3> QED BY <3>1, <3>2
  <2>7. CASE Unlink(r)
    BY <1>1, <2>0, <1>3, <2>7, RoundTypes DEF Unlink, FilesOK
  <2>8. CASE Stat(r)
    <3>1. CASE lock = NoFile
      BY <1>1, <2>0, <2>8, <3>1, RoundTypes DEF Stat, FilesOK
    <3>2. CASE lock # NoFile
      <4>1. [seen[r] EXCEPT !.file = lock, !.aged = aged[lock]] \in Seen
        <5>1. seen[r] \in Seen /\ lock \in File \cup {NoFile} /\ aged[lock] \in BOOLEAN
          BY <1>1, <2>0, <3>2 DEF FilesOK, MemoryOK
        <5> QED BY <5>1, SeenTypes
      <4>2. seen' \in [Run -> Seen]
        BY <1>1, <2>0, <2>8, <3>2, <4>1 DEF Stat, MemoryOK
      <4> QED BY <1>1, <2>0, <2>8, <3>2, <4>2 DEF Stat, FilesOK, MemoryOK, Control
    <3> QED BY <3>1, <3>2
  <2>9. CASE Read(r)
    <3>1. CASE lock = NoFile \/ ~ Stale(r, text[lock])
      BY <1>1, <2>0, <2>9, <3>1, RoundTypes DEF Read, FilesOK
    <3>2. CASE lock # NoFile /\ Stale(r, text[lock])
      <4>1. [seen[r] EXCEPT !.text = text[lock], !.aged = FALSE] \in Seen
        <5>1. seen[r] \in Seen /\ text[lock] \in Run \cup {NoRun}
          BY <1>1, <2>0, <3>2 DEF FilesOK, MemoryOK
        <5> QED BY <5>1, SeenTypes
      <4>2. seen' \in [Run -> Seen]
        BY <1>1, <2>0, <2>9, <3>2, <4>1 DEF Read, MemoryOK
      <4>3. 1 \in 0 .. MaxWaits
        BY ExclusiveConstants
      <4> QED BY <1>1, <2>0, <2>9, <3>2, <4>2, <4>3 DEF Read, FilesOK, MemoryOK, Control, InTakeOver
    <3> QED BY <3>1, <3>2
  <2>10. CASE Peek(r)
    <3>1. (over # NoFile /\ Gone(r, text[over])) \in BOOLEAN
      OBVIOUS
    <3>2. dead' \in [Run -> BOOLEAN]
      BY <1>1, <2>0, <2>10, <3>1 DEF Peek, MemoryOK
    <3> QED BY <1>1, <2>0, <2>10, <3>2 DEF Peek, FilesOK, MemoryOK, Control, InTakeOver
  <2>11. CASE StatTakeOver(r)
    <3>1. CASE over # NoFile /\ (dead[r] \/ aged[over])
      BY <1>1, <2>0, <2>11, <3>1 DEF StatTakeOver, FilesOK, MemoryOK, Control, InTakeOver
    <3>2. CASE ~ (over # NoFile /\ (dead[r] \/ aged[over]))
      BY <1>1, <2>0, <2>11, <3>2, RoundTypes DEF StatTakeOver, FilesOK
    <3> QED BY <3>1, <3>2
  <2>12. CASE Steal(r)
    BY <1>1, <2>0, <1>3, <2>12, RoundTypes DEF Steal, FilesOK
  <2>13. CASE RemoveStale(r)
    BY <1>1, <2>0, <1>3, <2>13 DEF RemoveStale, FilesOK, MemoryOK, Control, InTakeOver, TakingOver
  <2>14. CASE EndTakeOver(r)
    <3>1. CASE over = NoFile
      BY <1>1, <2>0, <1>3, <2>14, <3>1, RoundTypes DEF EndTakeOver, FilesOK
    <3>2. CASE over # NoFile
      BY <1>1, <2>0, <1>3, <2>14, <3>2, RoundTypes DEF EndTakeOver, FilesOK
    <3> QED BY <3>1, <3>2
  <2>15. CASE RemoveAll(r) \/ Rmdir(r)
    BY <1>1, <2>0, <2>15 DEF RemoveAll, Rmdir, FilesOK, MemoryOK, Control
  <2>16. CASE UnlinkLock(r) \/ UnlinkOver(r)
    <3>1. todo' \in [Run -> SUBSET Names]
      <4>1. PICK n \in Names : todo' = [todo EXCEPT ![r] = todo[r] \ {n}]
        BY <2>16 DEF UnlinkLock, UnlinkOver, Names
      <4> QED BY <1>1, <4>1 DEF MemoryOK
    <3> QED BY <1>1, <1>3, <2>0, <2>16, <3>1 DEF UnlinkLock, UnlinkOver, FilesOK, MemoryOK
  <2> QED BY <1>5, <2>1, <2>2, <2>3, <2>4, <2>5, <2>6, <2>7, <2>8, <2>9, <2>10, <2>11, <2>12,
             <2>13, <2>14, <2>15, <2>16 DEF Step
<1>6. ASSUME NEW i \in File, Age(i) PROVE FilesOK' /\ MemoryOK' /\ robbed' \subseteq Run
  BY <1>1, <1>6 DEF Age, FilesOK, MemoryOK
<1> QED BY <1>2, <1>5, <1>6 DEF Next

-----------------------------------------------------------------------------
(***************************************************************************)
(* One run's steps leave the others alone.                                 *)
(***************************************************************************)

\* What the end of a run, or its next round, makes of it.
LEMMA RoundFacts ==
    ASSUME TypeOK, NEW r \in Run
    PROVE  /\ Exit(r) \/ NextRound(r) =>
                 pc'[r] \in {"idle", "create"} /\ fd'[r] = NoFile /\ dead'[r] = FALSE
           /\ Exit(r) => pc'[r] = "idle"
           /\ Leave(r) =>
                 /\ pc'[r] \in {"idle", "rest"} /\ fd'[r] = NoFile
                 /\ dead'[r] \in {dead[r], FALSE}
           /\ NextWait(r) =>
                 /\ pc'[r] \in {"idle", "tcreate"} /\ dead'[r] = FALSE
                 /\ fd'[r] \in {fd[r], NoFile}
                 /\ pc'[r] = "tcreate" => seen'[r] = seen[r]
           /\ Exit(r) \/ NextRound(r) \/ NextWait(r) \/ Leave(r) =>
                 \A s \in Run \ {r} : /\ pc'[s] = pc[s] /\ fd'[s] = fd[s]
                                      /\ seen'[s] = seen[s] /\ dead'[s] = dead[s]
<1> USE DEF Goto
<1>1. Exit(r) =>
         /\ pc'[r] = "idle" /\ fd'[r] = NoFile /\ dead'[r] = FALSE
         /\ \A s \in Run \ {r} : /\ pc'[s] = pc[s] /\ fd'[s] = fd[s]
                              /\ seen'[s] = seen[s] /\ dead'[s] = dead[s]
  BY DEF TypeOK, Exit
<1>2. NextRound(r) /\ ~ Exit(r) =>
         /\ pc'[r] = "create" /\ fd'[r] = NoFile /\ dead'[r] = FALSE
         /\ \A s \in Run \ {r} : /\ pc'[s] = pc[s] /\ fd'[s] = fd[s]
                              /\ seen'[s] = seen[s] /\ dead'[s] = dead[s]
  BY DEF TypeOK, NextRound
<1>3. NextWait(r) /\ ~ Exit(r) =>
         /\ pc'[r] = "tcreate" /\ fd'[r] = fd[r] /\ dead'[r] = FALSE /\ seen'[r] = seen[r]
         /\ \A s \in Run \ {r} : /\ pc'[s] = pc[s] /\ fd'[s] = fd[s]
                              /\ seen'[s] = seen[s] /\ dead'[s] = dead[s]
  BY DEF TypeOK, NextWait
<1>4. Leave(r) /\ ~ Exit(r) =>
         /\ pc'[r] = "rest" /\ fd'[r] = NoFile /\ dead' = dead
         /\ \A s \in Run \ {r} : /\ pc'[s] = pc[s] /\ fd'[s] = fd[s]
                              /\ seen'[s] = seen[s] /\ dead'[s] = dead[s]
  BY DEF TypeOK, Leave, round
<1> QED BY <1>1, <1>2, <1>3, <1>4

\* The others stay where they are, with what they remember, and robbed if they
\* were.
Others(r) ==
    \A s \in Run \ {r} : /\ pc'[s] = pc[s] /\ fd'[s] = fd[s]
                         /\ seen'[s] = seen[s] /\ dead'[s] = dead[s]
                         /\ s \in robbed => s \in robbed'

LEMMA OthersStay ==
    ASSUME TypeOK, NEW r \in Run, Start(r) \/ Step(r) \/ Killed(r)
    PROVE  Others(r)
<1> USE DEF Others
<1>1. CASE Start(r) \/ Killed(r) \/ Unlink(r) \/ RestGone(r) \/ Steal(r) \/ EndTakeOver(r)
  BY <1>1, RoundFacts DEF Start, Killed, Unlink, RestGone, Steal, EndTakeOver, InTurn
<1>2. CASE Release(r) \/ Stat(r) \/ Read(r) \/ StatTakeOver(r)
  <2>0. \A s \in Run \ {r} : s \in robbed => s \in robbed'
    BY <1>2 DEF Release, Stat, Read, StatTakeOver
  <2>1. CASE Exit(r) \/ NextRound(r) \/ NextWait(r) \/ Leave(r)
    BY <2>0, <2>1, RoundFacts
  <2>2. CASE ~ (Exit(r) \/ NextRound(r) \/ NextWait(r) \/ Leave(r))
    BY <1>2, <2>0, <2>2 DEF Release, Stat, Read, StatTakeOver, Goto, TypeOK
  <2> QED BY <2>1, <2>2
<1>3. CASE Create(r) \/ CreateLost(r) \/ Write(r) \/ Finish(r) \/ TakeOver(r) \/ TakeOverLost(r)
  BY <1>3 DEF Create, CreateLost, Write, Finish, TakeOver, TakeOverLost, Goto, TypeOK
<1>4. CASE Peek(r) \/ WriteTakeOver(r) \/ StatAgain(r) \/ ReadAgain(r) \/ RemoveStale(r)
  BY <1>4 DEF Peek, WriteTakeOver, StatAgain, ReadAgain, RemoveStale, InTurn, Goto, TypeOK
<1>5. CASE RemoveAll(r) \/ UnlinkLock(r) \/ UnlinkOver(r) \/ Rmdir(r)
  BY <1>5 DEF RemoveAll, UnlinkLock, UnlinkOver, Rmdir, Goto, TypeOK
<1> QED BY <1>1, <1>2, <1>3, <1>4, <1>5 DEF Step

\* While no run dies inside takeOver, a takeover file is never stale: its run
\* lives, and is not slow.
LEMMA NeverStolen ==
    ASSUME TypeOK, OneTakesOver, NEW r \in Run
    PROVE  /\ ~ (over # NoFile /\ (dead[r] \/ aged[over])) /\ ~ Steal(r)
           /\ ~ (over # NoFile /\ Gone(r, text[over]))
<1>1. ~ (over # NoFile /\ (dead[r] \/ aged[over])) /\ ~ Steal(r)
  BY DEF OneTakesOver, Steal
<1>2. ASSUME over # NoFile, Gone(r, text[over]) PROVE FALSE
  <2>1. PICK s \in Run : pc[s] \in TakingOver /\ text[over] \in {NoRun, s}
    BY <1>2 DEF OneTakesOver
  <2> QED BY <1>2, <2>1 DEF Gone, TakingOver
<1> QED BY <1>1, <1>2

\* A step that changes no file leads the run to its end, to a new round, or on
\* in takeOver.
Elsewhere(r) ==
    /\ UNCHANGED files /\ pc[r] \notin TakingOver
    /\ ~ dead'[r] /\ fd'[r] = NoFile
    /\ \A s \in Run \ {r} : s \in robbed' <=> s \in robbed
    /\ \/ pc'[r] \in {"idle", "create", "stat", "rest"}
       \/ pc'[r] \in {"tcreate", "tpeek", "tage"} /\ pc[r] \in InTakeOver /\ seen'[r] = seen[r]

\* The steps that change a file, or what a run knows of one, and the others.
LEMMA Ways ==
    ASSUME TypeOK, Handles, OneTakesOver, NEW r \in Run, Start(r) \/ Step(r) \/ Killed(r),
           ~ DiesInTakeOver
    PROVE  \/ Create(r) \/ Write(r) \/ Finish(r) \/ RemoveAll(r) \/ Rmdir(r)
           \/ UnlinkLock(r) \/ UnlinkOver(r) \/ Unlink(r)
           \/ TakeOver(r) \/ WriteTakeOver(r) \/ StatAgain(r) \/ ReadAgain(r)
           \/ RemoveStale(r) \/ EndTakeOver(r)
           \/ Stat(r) /\ pc'[r] = "read"
           \/ Read(r) /\ pc'[r] = "tcreate"
           \/ Release(r) /\ pc'[r] = "unlink"
           \/ Elsewhere(r)
<1> USE DEF Goto, TypeOK, Elsewhere
<1>1. ~ Steal(r) /\ ~ dead[r]
  BY NeverStolen DEF OneTakesOver
<1>2. pc[r] \in {"create", "tcreate", "tpeek", "tage"} => fd[r] = NoFile /\ pc[r] \notin TakingOver
  BY DEF Handles, Owning, Counting, TakingOver
<1>3. CASE Start(r) \/ Killed(r) \/ RestGone(r)
  BY <1>3, RoundFacts DEF Start, Killed, RestGone, TakingOver, files
<1>4. CASE CreateLost(r)
  BY <1>1, <1>2, <1>4 DEF CreateLost, files
<1>5. CASE Release(r)
  BY <1>1, <1>5, RoundFacts DEF Release, TakingOver
<1>6. CASE Stat(r)
  BY <1>6, RoundFacts DEF Stat, TakingOver
<1>7. CASE Read(r)
  BY <1>7, RoundFacts DEF Read, TakingOver
<1>8. CASE TakeOverLost(r)
  BY <1>1, <1>2, <1>8 DEF TakeOverLost, files, InTakeOver
<1>9. CASE Peek(r)
  BY <1>2, <1>9, NeverStolen DEF Peek, files, InTakeOver
<1>10. CASE StatTakeOver(r)
  <2>1. NextWait(r) /\ UNCHANGED <<files, robbed>> /\ pc[r] = "tage"
    BY <1>10, NeverStolen DEF StatTakeOver
  <2> QED BY <1>2, <2>1, RoundFacts DEF InTakeOver
<1> QED BY <1>1, <1>3, <1>4, <1>5, <1>6, <1>7, <1>8, <1>9, <1>10 DEF Step
-----------------------------------------------------------------------------
(***************************************************************************)
(* The invariant is kept, step by step.                                    *)
(***************************************************************************)

Kept == Handles' /\ Owner' /\ OneTakesOver' /\ Found'

\* A step that changes no file, of a run that goes on elsewhere.
LEMMA ElsewhereKeeps ==
    ASSUME IInv, NEW r \in Run, Start(r) \/ Step(r) \/ Killed(r), Elsewhere(r)
    PROVE  Kept
<1>1. Others(r)
  BY OthersStay DEF IInv
<1>2. /\ pc'[r] \notin Owning \cup TakingOver /\ pc'[r] # "tsteal" /\ fd'[r] = NoFile
      /\ pc[r] \notin TakingOver /\ ~ dead'[r]
      /\ \A s \in Run \ {r} : s \in robbed' <=> s \in robbed
  BY DEF Elsewhere, Owning, Counting, TakingOver
<1>3. UNCHANGED <<lock, over, text, aged>>
  BY DEF Elsewhere, files
<1>4. Handles'
  BY <1>1, <1>2 DEF IInv, Handles, Others
<1>5. Owner'
  <2>1. OwnedBy(r)'
    BY <1>2 DEF OwnedBy
  <2>2. ASSUME NEW s \in Run, s # r PROVE OwnedBy(s)'
    BY <1>1, <1>2, <1>3, <2>2 DEF IInv, Owner, OwnedBy, Others
  <2> QED BY <2>1, <2>2 DEF Owner
<1>6. OneTakesOver'
  BY <1>1, <1>2, <1>3 DEF IInv, OneTakesOver, Others
<1>7. lock' # NoFile => (Nobodys => Nobodys')
  BY <1>1, <1>2, <1>3 DEF Nobodys, Others
<1>8. Found'
  <2>1. ASSUME NEW s \in Run, s # r PROVE FoundBy(s)'
    BY <1>1, <1>2, <1>3, <1>7, <2>1, ExclusiveConstants DEF IInv, Found, FoundBy, Others
  <2>2. FoundBy(r)'
    <3>1. pc'[r] \in InTakeOver => pc[r] \in InTakeOver /\ seen'[r] = seen[r]
      BY DEF Elsewhere, InTakeOver, TakingOver
    <3>2. pc'[r] # "read" /\ pc'[r] \notin {"tread", "tremove"}
      BY <1>2 DEF Elsewhere, TakingOver
    <3> QED BY <1>3, <1>7, <3>1, <3>2, ExclusiveConstants DEF IInv, Found, FoundBy
  <2> QED BY <2>1, <2>2 DEF Found
<1> QED BY <1>4, <1>5, <1>6, <1>8 DEF Kept

\* The create of the lock file: a file that no run has found anything about.
LEMMA CreateKeeps ==
    ASSUME IInv, NEW r \in Run, Create(r)
    PROVE  Kept
<1>1. Others(r) /\ robbed' = robbed
  BY OthersStay DEF IInv, Step, Create
<1>2. /\ pc[r] = "create" /\ pc'[r] = "write" /\ fd'[r] = Fresh /\ lock' = Fresh /\ lock = NoFile
      /\ UNCHANGED <<over, seen, dead>>
  BY DEF Create, Goto, IInv, TypeOK
<1>3. /\ Fresh \in File /\ Fresh # NoFile /\ Fresh # over
      /\ \A s \in Run : fd[s] # Fresh /\ seen[s].file # Fresh
  BY FreshFile DEF Create
<1>4. /\ text'[Fresh] = NoRun /\ ~ aged'[Fresh]
      /\ \A i \in File \ {Fresh} : text'[i] = text[i] /\ aged'[i] = aged[i]
  BY <1>3 DEF Create, Blank, IInv, TypeOK
<1>5. Handles'
  BY <1>1, <1>2, <1>3 DEF IInv, Handles, Others, Owning, Counting, TakingOver
<1>6. Owner'
  <2>1. OwnedBy(r)'
    BY <1>2, <1>3, <1>4 DEF OwnedBy, Owning, Counting
  <2>2. ASSUME NEW s \in Run, s # r PROVE OwnedBy(s)'
    <3>1. pc[s] \in Owning => fd[s] # NoFile
      BY DEF IInv, Handles
    <3> QED BY <1>1, <1>2, <1>3, <2>2, <3>1 DEF IInv, Owner, OwnedBy, Others
  <2> QED BY <2>1, <2>2 DEF Owner
<1>7. OneTakesOver'
  <2>1. over # NoFile => text'[over] = text[over] /\ aged'[over] = aged[over]
    BY <1>3, <1>4 DEF IInv, TypeOK
  <2>2. pc[r] \notin TakingOver /\ pc'[r] \notin TakingOver
    BY <1>2 DEF TakingOver
  <2> QED BY <1>1, <1>2, <1>3, <2>1, <2>2 DEF IInv, OneTakesOver, Others
<1>8. Found'
  <2>1. ASSUME NEW s \in Run, s # r PROVE FoundBy(s)'
    <3>1. pc[s] \in {"tread", "tremove"} => s \in robbed
      BY <1>2, ExclusiveConstants DEF IInv, Found, FoundBy, InTakeOver, TakingOver
    <3> QED BY <1>1, <1>2, <1>3, <2>1, <3>1 DEF IInv, Found, FoundBy, Others
  <2>2. FoundBy(r)'
    BY <1>2 DEF FoundBy, InTakeOver, TakingOver
  <2> QED BY <2>1, <2>2 DEF Found
<1> QED BY <1>5, <1>6, <1>7, <1>8 DEF Kept

\* The steps of a run that has a lock file of its own and keeps the files where
\* they are: the write, the end of the work, the directory of an uninstall.
LEMMA OwnerKeeps ==
    ASSUME IInv, NEW r \in Run,
           \/ Write(r) \/ Finish(r) \/ RemoveAll(r) \/ Rmdir(r)
           \/ Release(r) /\ pc'[r] = "unlink"
    PROVE  Kept
<1>1. Others(r)
  BY OthersStay DEF IInv, Step
<1>2. /\ pc[r] \in Owning /\ pc'[r] \in Owning /\ UNCHANGED <<lock, over>>
      /\ pc'[r] = "held" => Write(r)
      /\ pc'[r] = "rmdir" => pc[r] = "held"
      /\ pc'[r] \in Counting => (pc[r] = "write" \/ lock = fd[r])
  <2>1. CASE Release(r) /\ pc'[r] = "unlink"
    <3>1. lock = fd[r]
      BY <2>1, RoundFacts DEF Release, IInv
    <3> QED BY <2>1, <3>1 DEF Release, Owning, Counting, files
  <2>2. CASE Write(r) \/ Finish(r) \/ RemoveAll(r) \/ Rmdir(r)
    BY <2>2 DEF Write, Finish, RemoveAll, Rmdir, Goto, IInv, TypeOK, Owning, Counting, files
  <2> QED BY <2>1, <2>2
<1>3. UNCHANGED <<fd, seen, dead, robbed>>
  <2>1. CASE Release(r) /\ pc'[r] = "unlink"
    BY <2>1, RoundFacts DEF Release, IInv
  <2> QED BY <2>1 DEF Write, Finish, RemoveAll, Rmdir
<1>4. fd[r] \in File
  BY <1>2 DEF IInv, Handles, TypeOK
<1>5. /\ text'[fd[r]] \in {text[fd[r]], NoRun, r} /\ (aged[fd[r]] \/ ~ aged'[fd[r]] \/ ~ Write(r))
      /\ Write(r) /\ lock = fd[r] => text'[fd[r]] = r /\ ~ aged'[fd[r]]
      /\ ~ Write(r) => UNCHANGED <<text, aged>>
      /\ \A i \in File \ {fd[r]} : text'[i] = text[i] /\ aged'[i] = aged[i]
  <2>1. CASE Write(r)
    BY <1>4, <2>1 DEF Write, WriteMe, IInv, TypeOK
  <2>2. CASE ~ Write(r)
    <3>1. UNCHANGED <<text, aged>>
      BY <2>2 DEF Finish, RemoveAll, Rmdir, Release, files
    <3> QED BY <1>4, <2>2, <3>1
  <2> QED BY <2>1, <2>2
<1>6. Handles'
  BY <1>1, <1>2, <1>3 DEF IInv, Handles, Others
<1>7. Owner'
  <2>1. OwnedBy(r)'
    BY <1>2, <1>3, <1>4, <1>5 DEF IInv, Owner, OwnedBy, Counting
  <2>2. ASSUME NEW s \in Run, s # r PROVE OwnedBy(s)'
    <3>1. pc[s] \in Owning => fd[s] \in File \ {fd[r]}
      BY <1>4, <2>2 DEF IInv, Handles, TypeOK
    <3> QED BY <1>1, <1>2, <1>3, <1>5, <2>2, <3>1 DEF IInv, Owner, OwnedBy, Others
  <2> QED BY <2>1, <2>2 DEF Owner
<1>8. OneTakesOver'
  <2>1. over # NoFile => over \in File /\ text'[over] = text[over] /\ aged'[over] = aged[over]
    BY <1>2, <1>5 DEF IInv, Owner, OwnedBy, TypeOK
  <2>2. pc'[r] \notin TakingOver /\ pc[r] \notin TakingOver /\ pc'[r] # "tsteal"
    BY <1>2 DEF Owning, Counting, TakingOver
  <2> QED BY <1>1, <1>2, <1>3, <2>1, <2>2 DEF IInv, OneTakesOver, Others
<1>9. Found'
  <2>1. ASSUME NEW s \in Run, s # r PROVE FoundBy(s)'
    <3>1. pc[s] = "tremove" /\ s \notin robbed => lock \in File /\ lock # fd[r]
      BY DEF IInv, Found, FoundBy, Nobodys, InTakeOver, TakingOver
    <3> QED BY <1>1, <1>2, <1>3, <1>5, <2>1, <3>1 DEF IInv, Found, FoundBy, Nobodys, Others
  <2>2. FoundBy(r)'
    BY <1>2 DEF FoundBy, Owning, Counting, InTakeOver, TakingOver
  <2> QED BY <2>1, <2>2 DEF Found
<1> QED BY <1>6, <1>7, <1>8, <1>9 DEF Kept

\* What becomes of a run that removes the lock file by its name.
Removes(r) ==
    \/ pc[r] = "unlink" /\ pc'[r] \in {"idle", "rest"} /\ fd'[r] = NoFile /\ ~ dead'[r]
    \/ pc[r] \in {"rmdir", "rest"} /\ UNCHANGED <<pc, fd, seen, dead>>
    \/ /\ pc[r] = "tremove" /\ pc'[r] = "tend" /\ UNCHANGED <<fd, seen, dead>>
       /\ r \in robbed => r \in robbed'

\* The lock file is removed: who counted on it is robbed, or was nobody.
LEMMA LockGone ==
    ASSUME IInv, NEW r \in Run, Others(r), Removes(r), lock' = NoFile, over' = over, Blank(lock),
           \A s \in LosesLock(r) : s \in robbed'
    PROVE  Kept
<1>1. /\ pc'[r] \notin Counting /\ pc'[r] \notin {"tread", "tremove"}
      /\ pc'[r] \in TakingOver => pc[r] \in TakingOver /\ fd'[r] = fd[r]
      /\ pc[r] \in TakingOver /\ fd'[r] # NoFile => pc'[r] \in TakingOver
      /\ pc'[r] \notin {"tsteal", "read"} /\ ~ dead'[r]
  BY DEF Removes, Counting, TakingOver, IInv, OneTakesOver
<1>2. Handles'
  BY <1>1 DEF IInv, Handles, Others, Removes, Owning, Counting, TakingOver
<1>3. over # NoFile => over \in File /\ text'[over] = text[over] /\ aged'[over] = aged[over]
  BY DEF Blank, IInv, OneTakesOver, TypeOK
<1>4. Owner'
  <2>1. OwnedBy(r)'
    <3>1. pc'[r] \in Owning => pc[r] \in Owning /\ fd'[r] = fd[r] /\ fd[r] # NoFile
      BY DEF Removes, Owning, Counting, IInv, Handles
    <3> QED BY <1>1, <3>1 DEF IInv, Owner, OwnedBy
  <2>2. ASSUME NEW s \in Run, s # r PROVE OwnedBy(s)'
    <3>1. pc[s] \in Owning => fd[s] # NoFile
      BY DEF IInv, Handles
    <3>2. pc[s] \in Counting /\ s \notin robbed => s \in robbed'
      BY <2>2 DEF IInv, Owner, OwnedBy, Owning, LosesLock
    <3>3. s \notin robbed' => s \notin robbed
      BY <2>2 DEF Others
    <3> QED BY <2>2, <3>1, <3>2, <3>3 DEF IInv, Owner, OwnedBy, Others
  <2> QED BY <2>1, <2>2 DEF Owner
<1>5. OneTakesOver'
  <2>1. \A s \in Run : pc'[s] \in TakingOver =>
           pc[s] \in TakingOver /\ fd'[s] = fd[s] /\ (s \notin robbed' => s \notin robbed)
    BY <1>1 DEF Others, Removes, TakingOver
  <2>2. \A s \in Run : pc'[s] \in TakingOver => fd'[s] # NoFile
    BY <1>2 DEF Handles
  <2>3. over # NoFile => \E s \in Run :
           pc'[s] \in TakingOver /\ fd'[s] = over /\ text[over] \in {NoRun, s}
    <3> SUFFICES ASSUME over # NoFile
                 PROVE  \E s \in Run : pc'[s] \in TakingOver /\ fd'[s] = over /\ text[over] \in {NoRun, s}
      OBVIOUS
    <3>1. PICK s \in Run : pc[s] \in TakingOver /\ fd[s] = over /\ text[over] \in {NoRun, s}
      BY DEF IInv, OneTakesOver
    <3>2. pc'[s] \in TakingOver /\ fd'[s] = fd[s]
      <4>1. CASE s # r
        BY <3>1, <4>1 DEF Others
      <4>2. CASE s = r
        BY <3>1, <4>2 DEF Removes, TakingOver, IInv, Handles
      <4> QED BY <4>1, <4>2
    <3> QED BY <3>1, <3>2
  <2>4. \A s \in Run : ~ dead'[s] /\ pc'[s] # "tsteal"
    BY <1>1 DEF IInv, OneTakesOver, Others
  <2> QED BY <1>3, <2>1, <2>2, <2>3, <2>4 DEF IInv, OneTakesOver
<1>6. Found'
  <2>1. ASSUME NEW s \in Run, s # r PROVE FoundBy(s)'
    <3>1. pc[s] \in {"tread", "tremove"} /\ s \notin robbed => s \in robbed'
      BY <2>1 DEF IInv, Found, FoundBy, LosesLock
    <3> QED BY <2>1, <3>1, ExclusiveConstants DEF IInv, Found, FoundBy, Others
  <2>2. FoundBy(r)'
    <3>1. pc'[r] \in InTakeOver => pc[r] \in InTakeOver /\ seen'[r] = seen[r]
      BY DEF Removes, InTakeOver, TakingOver
    <3> QED BY <1>1, <3>1, ExclusiveConstants DEF IInv, Found, FoundBy
  <2> QED BY <2>1, <2>2 DEF Found
<1> QED BY <1>2, <1>4, <1>5, <1>6 DEF Kept

\* The removal of the lock file by the run that owns it.
LEMMA UnlinkKeeps ==
    ASSUME IInv, NEW r \in Run, Unlink(r)
    PROVE  Kept
<1>1. Others(r)
  BY OthersStay DEF IInv, Step
<1>2. Removes(r)
  BY RoundFacts DEF Unlink, Removes, IInv, OneTakesOver
<1>3. \A s \in LosesLock(r) : s \in robbed'
  <2>1. CASE r \in robbed
    BY <2>1 DEF Unlink, InTurn, LosesLock
  <2>2. CASE r \notin robbed
    <3>1. lock = fd[r] /\ fd[r] # NoFile
      BY <2>2 DEF Unlink, IInv, Owner, OwnedBy, Handles, Owning, Counting
    <3>2. LosesLock(r) = {}
      BY <3>1 DEF LosesLock, IInv, Handles, Found, FoundBy, Nobodys, InTakeOver, TakingOver
    <3> QED BY <3>2
  <2> QED BY <2>1, <2>2
<1> QED BY <1>1, <1>2, <1>3, LockGone DEF Unlink

\* An uninstall comes to the lock file.
LEMMA UnlinkLockKeeps ==
    ASSUME IInv, NEW r \in Run, UnlinkLock(r)
    PROVE  Kept
<1>1. Others(r)
  BY OthersStay DEF IInv, Step
<1> QED BY <1>1, LockGone DEF UnlinkLock, Removes

\* The stale lock file is removed, and it is nobody's.
LEMMA RemoveKeeps ==
    ASSUME IInv, NEW r \in Run, RemoveStale(r)
    PROVE  Kept
<1>1. Others(r)
  BY OthersStay DEF IInv, Step
<1>2. Removes(r)
  BY DEF RemoveStale, InTurn, Removes, Goto, IInv, TypeOK
<1>3. \A s \in LosesLock(r) : s \in robbed'
  <2>1. CASE r \in robbed
    BY <2>1 DEF RemoveStale, InTurn
  <2>2. CASE r \notin robbed
    <3>1. /\ pc[r] = "tremove" /\ Nobodys /\ over = fd[r] /\ fd[r] # NoFile
          /\ robbed' = robbed
      BY <2>2 DEF RemoveStale, InTurn, IInv, Found, FoundBy, OneTakesOver, Handles, InTakeOver, TakingOver
    <3>2. \A s \in Run : pc[s] \in TakingOver /\ s \notin robbed => s = r
      BY <3>1 DEF IInv, OneTakesOver, Handles
    <3> QED BY <3>1, <3>2 DEF LosesLock, Nobodys, TakingOver
  <2> QED BY <2>1, <2>2
<1> QED BY <1>1, <1>2, <1>3, LockGone DEF RemoveStale

\* A run looks at the lock file: what it finds stale is nobody's.
LEMMA LookKeeps ==
    ASSUME IInv, NEW r \in Run,
           (Stat(r) /\ pc'[r] = "read") \/ (Read(r) /\ pc'[r] = "tcreate")
    PROVE  Kept
<1>1. Others(r)
  BY OthersStay DEF IInv, Step
<1>2. /\ pc[r] \in {"stat", "read"} /\ pc'[r] \in {"read", "tcreate"}
      /\ UNCHANGED <<lock, over, text, aged, robbed>>
  BY DEF Stat, Read, files
<1>3. ~ Exit(r) /\ ~ NextRound(r)
  BY <1>2, RoundFacts DEF IInv
<1>4. lock \in File /\ UNCHANGED <<fd, dead>>
  BY <1>3 DEF Stat, Read, IInv, TypeOK
<1>5. pc[r] \notin Owning \cup TakingOver /\ pc'[r] \notin Owning \cup TakingOver
  BY <1>2 DEF Owning, Counting, TakingOver
<1>6. Handles'
  BY <1>1, <1>4, <1>5 DEF IInv, Handles, Others
<1>7. Owner'
  BY <1>1, <1>2, <1>4, <1>5 DEF IInv, Owner, OwnedBy, Others
<1>8. OneTakesOver'
  BY <1>1, <1>2, <1>4, <1>5 DEF IInv, OneTakesOver, Others
<1>9. Nobodys => Nobodys'
  BY <1>2, <1>4 DEF Nobodys
<1>10. FoundBy(r)'
  <2>1. CASE Stat(r)
    <3>1. pc'[r] = "read" /\ seen'[r].file = lock /\ seen'[r].aged = aged[lock]
      <4>1. seen[r] \in Seen /\ seen' = [seen EXCEPT ![r].file = lock, ![r].aged = aged[lock]]
        BY <1>3, <2>1 DEF Stat, IInv, TypeOK
      <4>2. pc'[r] = "read"
        BY <1>3, <2>1 DEF Stat, Goto, IInv, TypeOK
      <4> QED BY <4>1, <4>2 DEF Seen, IInv, TypeOK
    <3>2. aged[lock] => Nobodys
      BY <1>4, ExclusiveConstants DEF IInv, Owner, OwnedBy, Handles, OneTakesOver, Nobodys
    <3> QED BY <1>2, <1>4, <1>9, <3>1, <3>2 DEF FoundBy, InTakeOver, TakingOver
  <2>2. CASE Read(r)
    <3>1. /\ pc[r] = "read" /\ Stale(r, text[lock]) /\ pc'[r] = "tcreate"
          /\ seen' = [seen EXCEPT ![r].text = text[lock], ![r].aged = FALSE]
      BY <1>3, <2>2 DEF Read, Goto, IInv, TypeOK
    <3>2. seen'[r].file = seen[r].file /\ seen'[r].text = text[lock] /\ seen[r].file \in File
      BY <3>1 DEF IInv, TypeOK, Seen, Found, FoundBy
    <3>3. lock = seen[r].file => Nobodys
      <4> SUFFICES ASSUME lock = seen[r].file, NEW s \in Run, fd[s] = lock PROVE FALSE
        BY DEF Nobodys
      <4>1. pc[s] \in Owning /\ text[lock] \in {NoRun, s}
        BY <1>4, ExclusiveConstants DEF IInv, Handles, Owner, OwnedBy, OneTakesOver
      <4>2. CASE text[lock] = NoRun
        <5>1. seen[r].aged
          BY <3>1, <4>2 DEF Stale
        <5> QED BY <3>1, <5>1 DEF IInv, Found, FoundBy, Nobodys
      <4>3. CASE text[lock] # NoRun
        BY <3>1, <4>1, <4>3 DEF Stale, Gone, Owning, Counting
      <4> QED BY <4>2, <4>3
    <3>4. text[lock] = NoRun \/ SameHost(r, text[lock])
      BY <3>1 DEF Stale, Gone, SameHost
    <3> QED BY <1>2, <1>9, <3>1, <3>2, <3>3, <3>4 DEF FoundBy, SameHost, TakingOver
  <2> QED BY <2>1, <2>2
<1>11. \A s \in Run \ {r} : FoundBy(s)'
  BY <1>1, <1>2, <1>9 DEF IInv, Found, FoundBy, Others
<1> QED BY <1>6, <1>7, <1>8, <1>10, <1>11 DEF Kept, Found

\* The create of the takeover file: whoever else still takes over was robbed.
LEMMA TakeOverKeeps ==
    ASSUME IInv, NEW r \in Run, TakeOver(r)
    PROVE  Kept
<1>1. Others(r) /\ robbed' = robbed
  BY OthersStay DEF IInv, Step, TakeOver
<1>2. /\ pc[r] = "tcreate" /\ pc'[r] = "twrite" /\ fd'[r] = Fresh /\ over' = Fresh /\ over = NoFile
      /\ UNCHANGED <<lock, seen, dead>>
  BY DEF TakeOver, Goto, IInv, TypeOK
<1>3. /\ Fresh \in File /\ Fresh # NoFile /\ Fresh # lock
      /\ \A s \in Run : fd[s] # Fresh
  BY FreshFile DEF TakeOver
<1>4. /\ text'[Fresh] = NoRun /\ ~ aged'[Fresh]
      /\ \A i \in File \ {Fresh} : text'[i] = text[i] /\ aged'[i] = aged[i]
  BY <1>3 DEF TakeOver, Blank, IInv, TypeOK
<1>5. \A s \in Run : pc[s] \in TakingOver => s \in robbed
  BY <1>2, ExclusiveConstants DEF IInv, OneTakesOver, Handles
<1>6. lock # NoFile => lock \in File /\ text'[lock] = text[lock] /\ aged'[lock] = aged[lock]
  BY <1>3, <1>4 DEF IInv, TypeOK
<1>7. /\ pc[r] \notin Owning \cup TakingOver /\ pc'[r] \notin Owning /\ pc'[r] \in TakingOver
      /\ pc[r] \in InTakeOver /\ pc'[r] \notin {"tsteal", "read", "tread", "tremove"}
  BY <1>2 DEF Owning, Counting, TakingOver, InTakeOver
<1>8. Handles'
  BY <1>1, <1>2, <1>3, <1>7 DEF IInv, Handles, Others
<1>9. Owner'
  <2>1. ASSUME NEW s \in Run, s # r PROVE OwnedBy(s)'
    <3>1. pc[s] \in Owning => fd[s] # NoFile
      BY DEF IInv, Handles
    <3> QED BY <1>1, <1>2, <1>3, <1>6, <2>1, <3>1 DEF IInv, Owner, OwnedBy, Others
  <2> QED BY <1>7, <2>1 DEF Owner, OwnedBy
<1>10. OneTakesOver'
  BY <1>1, <1>2, <1>3, <1>4, <1>5, <1>7 DEF IInv, OneTakesOver, Others
<1>11. Nobodys => Nobodys'
  BY <1>1, <1>2, <1>3 DEF Nobodys, Others
<1>12. Found'
  <2>1. ASSUME NEW s \in Run, s # r PROVE FoundBy(s)'
    <3>1. pc[s] \in {"tread", "tremove"} => s \in robbed
      BY <1>5 DEF TakingOver
    <3> QED BY <1>1, <1>2, <1>11, <2>1, <3>1 DEF IInv, Found, FoundBy, Others
  <2>2. FoundBy(r)'
    BY <1>1, <1>2, <1>7, <1>11 DEF IInv, Found, FoundBy
  <2> QED BY <2>1, <2>2 DEF Found
<1> QED BY <1>8, <1>9, <1>10, <1>12 DEF Kept

\* A run that takes over writes what it is, and looks again.
LEMMA AgainKeeps ==
    ASSUME IInv, NEW r \in Run, WriteTakeOver(r) \/ StatAgain(r) \/ ReadAgain(r)
    PROVE  Kept
<1>1. Others(r) /\ robbed' = robbed
  BY OthersStay DEF IInv, Step, WriteTakeOver, StatAgain, ReadAgain
<1>2. /\ pc[r] \in TakingOver /\ pc'[r] \in TakingOver /\ UNCHANGED <<lock, over, fd, seen, dead>>
      /\ (pc'[r] = "tread" => lock = seen[r].file)
      /\ (pc'[r] = "tremove" => pc[r] = "tread" /\ ReadAgain(r) /\ text[lock] = seen[r].text)
  BY DEF WriteTakeOver, StatAgain, ReadAgain, Goto, IInv, TypeOK, TakingOver, files
<1>3. fd[r] \in File /\ fd[r] # lock
  BY <1>2 DEF IInv, OneTakesOver, Handles, TypeOK
<1>4. /\ ~ WriteTakeOver(r) => UNCHANGED <<text, aged>>
      /\ \A i \in File \ {fd[r]} : text'[i] = text[i] /\ aged'[i] = aged[i]
      /\ WriteTakeOver(r) => ~ aged'[fd[r]] /\ text'[fd[r]] \in {NoRun, r}
  BY <1>3 DEF WriteTakeOver, WriteMe, StatAgain, ReadAgain, IInv, TypeOK, files
<1>5. lock # NoFile => lock \in File /\ text'[lock] = text[lock] /\ aged'[lock] = aged[lock]
  BY <1>3, <1>4 DEF IInv, TypeOK
<1>6. /\ pc[r] \notin Owning /\ pc'[r] \notin Owning /\ pc'[r] # "tsteal"
      /\ pc[r] \in InTakeOver /\ pc'[r] # "read"
  BY <1>2 DEF Owning, Counting, TakingOver, InTakeOver
<1>7. Handles'
  BY <1>1, <1>2 DEF IInv, Handles, Others
<1>8. Owner'
  <2>1. ASSUME NEW s \in Run, s # r PROVE OwnedBy(s)'
    <3>1. pc[s] \in Owning => fd[s] # NoFile
      BY DEF IInv, Handles
    <3> QED BY <1>1, <1>2, <1>5, <2>1, <3>1 DEF IInv, Owner, OwnedBy, Others
  <2> QED BY <1>6, <2>1 DEF Owner, OwnedBy
<1>9. OneTakesOver'
  <2>1. \A s \in Run : pc'[s] \in TakingOver => fd'[s] # lock /\ (s \notin robbed' => over = fd'[s])
    BY <1>1, <1>2 DEF IInv, OneTakesOver, Others
  <2>2. over # NoFile => ~ aged'[over] /\ over # lock /\
           \E s \in Run : pc'[s] \in TakingOver /\ fd'[s] = over /\ text'[over] \in {NoRun, s}
    <3> SUFFICES ASSUME over # NoFile
                 PROVE  ~ aged'[over] /\ over # lock /\
                        \E s \in Run : pc'[s] \in TakingOver /\ fd'[s] = over /\ text'[over] \in {NoRun, s}
      OBVIOUS
    <3>1. PICK s \in Run : pc[s] \in TakingOver /\ fd[s] = over /\ text[over] \in {NoRun, s}
      BY DEF IInv, OneTakesOver
    <3>2. ~ aged[over] /\ over # lock /\ over \in File
      BY DEF IInv, OneTakesOver, TypeOK
    <3>3. pc'[s] \in TakingOver /\ fd'[s] = over
      BY <1>1, <1>2, <3>1 DEF Others
    <3>4. ~ aged'[over] /\ text'[over] \in {NoRun, s}
      <4>1. CASE fd[r] = over
        <5>1. s = r
          BY <3>1, <4>1 DEF IInv, Handles
        <5> QED BY <1>4, <3>1, <3>2, <4>1, <5>1
      <4>2. CASE fd[r] # over
        BY <1>4, <3>1, <3>2, <4>2
      <4> QED BY <4>1, <4>2
    <3> QED BY <3>2, <3>3, <3>4
  <2>3. \A s \in Run : ~ dead'[s] /\ pc'[s] # "tsteal"
    BY <1>1, <1>2, <1>6 DEF IInv, OneTakesOver, Others
  <2> QED BY <1>2, <2>1, <2>2, <2>3 DEF OneTakesOver
<1>10. Nobodys => Nobodys'
  BY <1>2 DEF Nobodys
<1>11. Found'
  <2>1. ASSUME NEW s \in Run, s # r PROVE FoundBy(s)'
    <3>1. pc[s] = "tremove" /\ s \notin robbed => text'[lock] = text[lock]
      <4> SUFFICES ASSUME pc[s] = "tremove", s \notin robbed PROVE text'[lock] = text[lock]
        OBVIOUS
      <4>1. lock \in File
        BY DEF IInv, Found, FoundBy, InTakeOver, TakingOver
      <4> QED BY <1>3, <1>4, <4>1
    <3> QED BY <1>1, <1>2, <1>10, <2>1, <3>1 DEF IInv, Found, FoundBy, Others
  <2>2. FoundBy(r)'
    <3>1. pc'[r] = "tremove" => UNCHANGED text
      BY <1>2 DEF ReadAgain, files
    <3>2. r \notin robbed /\ pc'[r] \in {"tread", "tremove"} => lock = seen[r].file
      BY <1>2 DEF IInv, Found, FoundBy
    <3> QED BY <1>1, <1>2, <1>6, <1>10, <3>1, <3>2 DEF IInv, Found, FoundBy
  <2> QED BY <2>1, <2>2 DEF Found
<1> QED BY <1>7, <1>8, <1>9, <1>11 DEF Kept

\* The takeover file is removed: whose it was has ended or is robbed.
LEMMA OverGone ==
    ASSUME IInv, NEW r \in Run, Others(r), over' = NoFile, lock' = lock, Blank(over),
           \A s \in LosesOver(r) : s \in robbed',
           \/ /\ pc[r] = "tend" /\ pc'[r] \in {"idle", "create"} /\ fd'[r] = NoFile /\ ~ dead'[r]
           \/ /\ pc[r] \in {"rmdir", "rest"} /\ UNCHANGED <<pc, fd, seen, dead>>
              /\ r \in robbed => r \in robbed'
    PROVE  Kept
<1>1. /\ pc'[r] \notin TakingOver \cup InTakeOver \cup {"read", "tsteal"} /\ ~ dead'[r]
      /\ pc'[r] \in Owning => pc[r] \in Owning /\ pc'[r] = pc[r] /\ fd'[r] = fd[r]
                              /\ pc[r] \notin Counting
      /\ fd'[r] \in {fd[r], NoFile}
  BY DEF Owning, Counting, TakingOver, InTakeOver, IInv, OneTakesOver
<1>2. Handles'
  BY DEF IInv, Handles, Others, Owning, Counting, TakingOver
<1>3. lock # NoFile => lock \in File /\ text'[lock] = text[lock] /\ aged'[lock] = aged[lock]
  BY DEF Blank, IInv, OneTakesOver, TypeOK
<1>4. Owner'
  <2>1. ASSUME NEW s \in Run PROVE OwnedBy(s)'
    <3>1. pc'[s] \in Owning =>
             /\ pc[s] \in Owning /\ pc'[s] = pc[s] /\ fd'[s] = fd[s] /\ fd[s] # NoFile
             /\ s \notin robbed' /\ pc[s] \in Counting => s \notin robbed
      BY <1>1 DEF Others, IInv, Handles
    <3> QED BY <1>3, <3>1 DEF IInv, Owner, OwnedBy
  <2> QED BY <2>1 DEF Owner
<1>5. OneTakesOver'
  <2>1. ASSUME NEW s \in Run, pc'[s] \in TakingOver PROVE fd'[s] # lock /\ s \in robbed'
    <3>1. s # r /\ pc[s] \in TakingOver /\ fd'[s] = fd[s]
      BY <1>1, <2>1 DEF Others
    <3> QED BY <3>1 DEF IInv, OneTakesOver, Others, LosesOver
  <2>2. \A s \in Run : ~ dead'[s] /\ pc'[s] # "tsteal"
    BY <1>1 DEF IInv, OneTakesOver, Others
  <2> QED BY <2>1, <2>2 DEF OneTakesOver
<1>6. lock # NoFile => (Nobodys => Nobodys')
  BY <1>1 DEF Nobodys, Others
<1>7. Found'
  <2>1. ASSUME NEW s \in Run, s # r PROVE FoundBy(s)'
    <3>1. pc[s] \in {"tread", "tremove"} /\ s \notin robbed' => lock \in File
      BY <2>1, ExclusiveConstants DEF IInv, Found, FoundBy, Others, InTakeOver, TakingOver
    <3> QED BY <1>3, <1>6, <2>1, <3>1, ExclusiveConstants DEF IInv, Found, FoundBy, Others
  <2>2. FoundBy(r)'
    BY <1>1 DEF FoundBy, InTakeOver, TakingOver
  <2> QED BY <2>1, <2>2 DEF Found
<1> QED BY <1>2, <1>4, <1>5, <1>7 DEF Kept

\* The end of a takeover: the takeover file is this run's, unless it was robbed.
LEMMA EndKeeps ==
    ASSUME IInv, NEW r \in Run, EndTakeOver(r)
    PROVE  Kept
<1>1. Others(r)
  BY OthersStay DEF IInv, Step
<1>2. pc'[r] \in {"idle", "create"} /\ fd'[r] = NoFile /\ ~ dead'[r]
  BY RoundFacts DEF EndTakeOver, IInv
<1>3. \A s \in LosesOver(r) : s \in robbed'
  <2>1. CASE r \in robbed
    BY <2>1 DEF EndTakeOver, InTurn, LosesOver
  <2>2. CASE r \notin robbed
    BY <2>2 DEF EndTakeOver, LosesOver, IInv, OneTakesOver, Handles, TakingOver
  <2> QED BY <2>1, <2>2
<1> QED BY <1>1, <1>2, <1>3, OverGone DEF EndTakeOver

\* An uninstall comes to the takeover file.
LEMMA UnlinkOverKeeps ==
    ASSUME IInv, NEW r \in Run, UnlinkOver(r)
    PROVE  Kept
<1>1. Others(r)
  BY OthersStay DEF IInv, Step
<1> QED BY <1>1, OverGone DEF UnlinkOver

\* Time passes over no file that a run owns or takes over with.
LEMMA AgeKeeps ==
    ASSUME IInv, NEW i \in File, Age(i)
    PROVE  Kept
<1>1. /\ UNCHANGED <<lock, over, text, pc, fd, seen, dead, robbed>> /\ ~ Busy(i)
      /\ i = over \/ (i = lock /\ text[i] = NoRun)
      /\ \A j \in File \ {i} : aged'[j] = aged[j]
  BY DEF Age, IInv, TypeOK
<1>2. i # over
  BY <1>1, ExclusiveConstants DEF IInv, OneTakesOver, Busy
<1>3. i = lock /\ Nobodys
  <2>1. ASSUME NEW r \in Run, fd[r] = lock PROVE FALSE
    <3>1. i = lock /\ text[lock] = NoRun /\ fd[r] # NoFile
      BY <1>1, <1>2, <2>1, ExclusiveConstants
    <3>2. pc[r] \in Owning
      BY <2>1, <3>1 DEF IInv, Handles, OneTakesOver
    <3>3. pc[r] \notin {"held", "rmdir"}
      BY <2>1, <3>1, <3>2, ExclusiveConstants DEF IInv, Owner, OwnedBy
    <3>4. Busy(i)
      BY <2>1, <3>1, <3>2, <3>3 DEF Busy, Owning, Counting
    <3> QED BY <1>1, <3>4
  <2> QED BY <1>1, <1>2, <2>1 DEF Nobodys
<1>4. Handles'
  BY <1>1 DEF IInv, Handles
<1>5. Owner'
  BY <1>1, <1>3 DEF IInv, Owner, OwnedBy, Nobodys
<1>6. OneTakesOver'
  <2>1. over # NoFile => aged'[over] = aged[over]
    BY <1>1, <1>2 DEF IInv, TypeOK
  <2> QED BY <1>1, <2>1 DEF IInv, OneTakesOver
<1>7. Found'
  BY <1>1 DEF IInv, Found, FoundBy, Nobodys
<1> QED BY <1>4, <1>5, <1>6, <1>7 DEF Kept

\* Every step keeps the invariant, while no run is killed inside takeOver.
LEMMA InvStep == ASSUME DiesInTakeOver = FALSE, IInv, [Next]_vars PROVE IInv'
<1>1. TypeOK'
  BY TypeStep DEF IInv
<1>2. CASE UNCHANGED vars
  <2>1. UNCHANGED <<lock, over, text, aged, pc, fd, seen, dead, robbed>>
    BY <1>2 DEF vars, files
  <2>2. Handles' /\ Owner' /\ OneTakesOver'
    BY <2>1 DEF IInv, Handles, Owner, OwnedBy, OneTakesOver
  <2>3. Found'
    BY <2>1 DEF IInv, Found, FoundBy, Nobodys
  <2> QED BY <1>1, <2>2, <2>3 DEF IInv
<1>3. ASSUME NEW r \in Run, Start(r) \/ Step(r) \/ Killed(r) PROVE Kept
  BY <1>3, Ways, ElsewhereKeeps, CreateKeeps, OwnerKeeps, UnlinkKeeps, UnlinkLockKeeps,
     UnlinkOverKeeps, LookKeeps, TakeOverKeeps, AgainKeeps, RemoveKeeps, EndKeeps DEF IInv
<1>4. ASSUME Next PROVE Kept
  BY <1>3, <1>4, AgeKeeps DEF Next
<1> QED BY <1>1, <1>2, <1>4 DEF IInv, Kept

\* The first state: no run, and at most a lock file that nobody owns.
LEMMA InitInv == Init => IInv
<1> SUFFICES ASSUME Init PROVE IInv
  OBVIOUS
<1>1. lock \in File \cup {NoFile}
  BY ExclusiveConstants DEF Init
<1>2. TypeOK
  <2>1. Nothing \in Seen /\ 0 \in 0 .. MaxTries /\ 0 \in 0 .. MaxWaits
    BY ExclusiveConstants DEF Nothing, Seen
  <2> QED BY <1>1, <2>1 DEF Init, TypeOK, Control
<1>3. Handles /\ Owner /\ OneTakesOver /\ Found
  BY DEF Init, Handles, Owner, OwnedBy, OneTakesOver, Found, FoundBy, Owning, Counting, TakingOver,
         InTakeOver
<1> QED BY <1>2, <1>3 DEF IInv

\* The invariant of every state, while no run is killed inside takeOver.
THEOREM Invariance == ASSUME DiesInTakeOver = FALSE PROVE Spec => []IInv
BY InitInv, InvStep, PTL DEF Spec

\* Every variable keeps its type, whoever is killed, and the rounds of both
\* loops stay within their bounds (lockExclusive, takeOver).
THEOREM TypeCorrect == Spec => []TypeOK
<1>1. Init => TypeOK
  BY InitInv DEF IInv
<1> QED BY <1>1, TypeStep, PTL DEF Spec

\* The file of the run that holds the lock stays where it created it until it
\* releases it or removes the directory (the comment on holdExclusive), unless
\* an uninstall without the lock took it; none dies inside takeOver.
THEOREM HolderKeeps == ASSUME DiesInTakeOver = FALSE PROVE Spec => []HolderKeepsFile
<1>1. IInv => HolderKeepsFile
  BY DEF IInv, Owner, OwnedBy, Owning, Counting, HolderKeepsFile
<1> QED BY <1>1, Invariance, PTL

\* One run at a time takes over, and removes its takeover file when it is done
\* (takeOver), while none dies in it and no uninstall removes that file.
THEOREM TakesOverAlone == ASSUME DiesInTakeOver = FALSE PROVE Spec => []AloneInTakeOver
<1>1. IInv => AloneInTakeOver
  <2> SUFFICES ASSUME IInv PROVE AloneInTakeOver
    OBVIOUS
  <2>1. ASSUME NEW r \in Run \ robbed, NEW s \in Run \ robbed,
               pc[r] \in TakingOver, pc[s] \in TakingOver
        PROVE  r = s
    BY <2>1 DEF IInv, OneTakesOver, Handles
  <2>2. over # NoFile => \E r \in Run : pc[r] \in TakingOver /\ fd[r] = over
    BY DEF IInv, OneTakesOver
  <2> QED BY <2>1, <2>2 DEF AloneInTakeOver
<1> QED BY <1>1, Invariance, PTL

\* takeOver removes the stale file it read and never a lock created since.
THEOREM OnlyStale == ASSUME DiesInTakeOver = FALSE PROVE Spec => OnlyStaleRemoved
<1>1. IInv /\ [Next]_vars =>
        [\A r \in Run \ robbed : RemoveStale(r) => lock \in {seen[r].file, NoFile}]_vars
  BY DEF IInv, Found, FoundBy, RemoveStale
<1> QED BY <1>1, Invariance, PTL DEF Spec, OnlyStaleRemoved

\* No run takes over a lock file that names a run of another host (lockStale).
THEOREM ForeignStays == ASSUME DiesInTakeOver = FALSE PROVE Spec => ForeignLockStays
<1>1. IInv /\ [Next]_vars =>
        [\A r \in Run \ robbed : RemoveStale(r) /\ lock # NoFile =>
            text[lock] = NoRun \/ (text[lock] \in Remote <=> r \in Remote)]_vars
  BY DEF IInv, Found, FoundBy, RemoveStale, SameHost, InTakeOver, TakingOver
<1> QED BY <1>1, Invariance, PTL DEF Spec, ForeignLockStays

\* On the file that lockExclusive or releaseLock removes by its name no other
\* run counts that still has what it counts on, as long as the run that removes
\* it was not robbed itself.
TakesNobodys ==
    [][ \A r \in Run \ robbed :
           /\ Unlink(r) \/ RemoveStale(r) => LosesLock(r) \subseteq robbed
           /\ EndTakeOver(r) => LosesOver(r) \subseteq robbed ]_vars

\* So it is the os.RemoveAll of an uninstall that begins every robbery: the
\* lock's own removals, each by name some time after a check, never do
\* (takeOver, releaseLock).
THEOREM OnlyUninstallRobs == ASSUME DiesInTakeOver = FALSE PROVE Spec => TakesNobodys
<1>1. IInv => \A r \in Run \ robbed :
                 /\ Unlink(r) \/ RemoveStale(r) => LosesLock(r) \subseteq robbed
                 /\ EndTakeOver(r) => LosesOver(r) \subseteq robbed
  <2> SUFFICES ASSUME IInv, NEW r \in Run \ robbed
               PROVE  /\ Unlink(r) \/ RemoveStale(r) => LosesLock(r) \subseteq robbed
                      /\ EndTakeOver(r) => LosesOver(r) \subseteq robbed
    OBVIOUS
  <2>1. ASSUME Unlink(r) PROVE LosesLock(r) \subseteq robbed
    <3>1. lock = fd[r] /\ fd[r] # NoFile
      BY <2>1 DEF Unlink, IInv, Owner, OwnedBy, Handles, Owning, Counting
    <3> QED BY <3>1 DEF LosesLock, IInv, Handles, Found, FoundBy, Nobodys, InTakeOver, TakingOver
  <2>2. ASSUME RemoveStale(r) PROVE LosesLock(r) \subseteq robbed
    <3>1. Nobodys /\ over = fd[r] /\ fd[r] # NoFile
      BY <2>2 DEF RemoveStale, IInv, Found, FoundBy, OneTakesOver, Handles, InTakeOver, TakingOver
    <3> QED BY <3>1 DEF LosesLock, Nobodys, IInv, OneTakesOver, Handles, TakingOver
  <2>3. ASSUME EndTakeOver(r) PROVE LosesOver(r) \subseteq robbed
    BY <2>3 DEF EndTakeOver, LosesOver, IInv, OneTakesOver, Handles, TakingOver
  <2> QED BY <2>1, <2>2, <2>3
<1>2. IInv /\ [Next]_vars =>
        [\A r \in Run \ robbed :
           /\ Unlink(r) \/ RemoveStale(r) => LosesLock(r) \subseteq robbed
           /\ EndTakeOver(r) => LosesOver(r) \subseteq robbed]_vars
  BY <1>1
<1> QED BY <1>2, Invariance, PTL DEF Spec, TakesNobodys

\* Two runs that count on their lock file, and were not robbed, are one.
LEMMA OneOwner ==
    ASSUME IInv, NEW r \in Run \ robbed, NEW s \in Run \ robbed,
           pc[r] \in Counting, pc[s] \in Counting
    PROVE  r = s
<1>1. fd[r] = lock /\ fd[s] = lock /\ fd[r] # NoFile
  BY DEF IInv, Owner, OwnedBy, Owning, Handles
<1> QED BY <1>1 DEF IInv, Handles

\* The exclusive lock keeps the promise of OneRun to the runs that no uninstall
\* robbed: at most one works on the project, while none dies inside takeOver.
THEOREM Refinement == ASSUME DiesInTakeOver = FALSE PROVE Spec => KeepsThePromise
<1> DEFINE working == {r \in Run \ robbed : pc[r] = "held"}
<1>1. Init => Promise!Init
  BY DEF Init, Promise!Init
<1>2. IInv /\ [Next]_vars => [Promise!Next]_working
  <2> SUFFICES ASSUME IInv, [Next]_vars, working' # working PROVE Promise!Next
    BY DEF Promise!Next
  <2>1. PICK r \in Run : Start(r) \/ Step(r) \/ Killed(r)
    BY DEF Next, vars, Age
  <2>2. Others(r)
    BY <2>1, OthersStay DEF IInv
  <2>3. \A s \in working : working = {s}
    BY OneOwner DEF Counting
  <2>4. working' \subseteq working \cup {r}
    BY <2>2 DEF Others
  <2>5. CASE r \in working' /\ r \notin working
    <3>1. pc[r] = "write" /\ r \notin robbed
      <4>1. CASE Write(r)
        BY <2>5, <4>1 DEF Write
      <4>2. CASE Start(r) \/ Killed(r) \/ Unlink(r) \/ RestGone(r) \/ Steal(r) \/ EndTakeOver(r)
        BY <2>5, <4>2, RoundFacts
        DEF Start, Killed, Unlink, RestGone, Steal, EndTakeOver, IInv
      <4>3. CASE Release(r) \/ Stat(r) \/ Read(r) \/ StatTakeOver(r)
        <5>1. pc'[r] = "held"
          BY <2>5
        <5>2. ~ Exit(r) /\ ~ NextRound(r) /\ ~ NextWait(r) /\ ~ Leave(r)
          BY <5>1, RoundFacts DEF IInv
        <5> QED BY <4>3, <5>1, <5>2 DEF Release, Stat, Read, StatTakeOver, Goto, IInv, TypeOK
      <4>4. CASE Create(r) \/ CreateLost(r) \/ Finish(r) \/ TakeOver(r) \/ TakeOverLost(r)
        BY <2>5, <4>4 DEF Create, CreateLost, Finish, TakeOver, TakeOverLost, Goto, IInv, TypeOK
      <4>5. CASE Peek(r) \/ WriteTakeOver(r) \/ StatAgain(r) \/ ReadAgain(r) \/ RemoveStale(r)
        BY <2>5, <4>5 DEF Peek, WriteTakeOver, StatAgain, ReadAgain, RemoveStale, Goto, IInv, TypeOK
      <4>6. CASE RemoveAll(r) \/ UnlinkLock(r) \/ UnlinkOver(r) \/ Rmdir(r)
        BY <2>5, <4>6 DEF RemoveAll, UnlinkLock, UnlinkOver, Rmdir, Goto, IInv, TypeOK
      <4> QED BY <2>1, <4>1, <4>2, <4>3, <4>4, <4>5, <4>6 DEF Step
    <3>2. working = {}
      BY <3>1, <2>5, OneOwner DEF Counting
    <3>3. working' = {r}
      BY <2>4, <2>5, <3>2
    <3> QED BY <3>2, <3>3 DEF Promise!Next, Promise!Begin
  <2>6. CASE ~(r \in working' /\ r \notin working)
    <3>1. PICK s \in working : s \notin working'
      BY <2>4, <2>6
    <3>2. working = {s} /\ working' = {}
      BY <2>3, <2>4, <2>6, <3>1
    <3> QED BY <3>1, <3>2 DEF Promise!Next, Promise!End
  <2> QED BY <2>5, <2>6
<1> QED BY <1>1, <1>2, Invariance, PTL DEF Spec, KeepsThePromise, Promise!Spec

-----------------------------------------------------------------------------
(***************************************************************************)
(* How long a run can take, wherever another one dies.                     *)
(***************************************************************************)

\* How many steps it is at most from a place to the end of a round, the two
\* names of an os.RemoveAll apart.
Distance(l) ==
    CASE l = "create" -> 14
      [] l = "stat" -> 13
      [] l = "read" -> 12
      [] l = "tcreate" -> 11
      [] l \in {"twrite", "tpeek"} -> 10
      [] l \in {"tstat", "tage"} -> 9
      [] l \in {"tread", "tsteal"} -> 8
      [] l = "tremove" -> 7
      [] l \in {"tend", "write"} -> 6
      [] l = "held" -> 5
      [] l = "rmdir" -> 4
      [] l = "release" -> 3
      [] l = "unlink" -> 2
      [] l = "rest" -> 1
      [] l = "idle" -> 0

\* Run r comes to its end, to a later round of lockExclusive, within that to a
\* later round of takeOver, within that closer to its end, and where it removes
\* a directory, past another name.
Advances(r) ==
    \/ pc'[r] = "idle"
    \/ tries'[r] > tries[r]
    \/ tries'[r] = tries[r] /\ waits'[r] > waits[r]
    \/ /\ tries'[r] = tries[r] /\ waits'[r] = waits[r]
       /\ \/ Distance(pc'[r]) < Distance(pc[r])
          \/ pc'[r] = pc[r] /\ todo'[r] \subseteq todo[r] /\ todo'[r] # todo[r]

Pauses(r) == UNCHANGED <<pc[r], tries[r], waits[r], todo[r]>>

\* No run goes round in circles: each of its steps brings it nearer to its end,
\* of which the rounds, MaxTries and MaxWaits, bound the number.
ComesNearer == [][ \A r \in Run : pc[r] # "idle" => Advances(r) \/ Pauses(r) ]_vars

\* Before takeOver its rounds are not counted.
NotWaiting == \A r \in Run : pc[r] \in {"create", "stat", "read"} => waits[r] = 0

\* The end of a run, its next round, and the next one of takeOver.
LEMMA RoundAdvances ==
    ASSUME TypeOK, NEW r \in Run
    PROVE  /\ Exit(r) => pc'[r] = "idle"
           /\ NextRound(r) => Advances(r) /\ waits'[r] = 0
           /\ NextWait(r) => Advances(r) /\ pc'[r] \in {"idle", "tcreate"}
           /\ Leave(r) /\ pc[r] \in {"release", "unlink"} =>
                 Advances(r) /\ pc'[r] \in {"idle", "rest"}
<1>1. Exit(r) => pc'[r] = "idle" /\ waits'[r] = 0
  BY DEF Exit, Goto, TypeOK
<1>2. NextRound(r) => Advances(r) /\ waits'[r] = 0
  <2>1. CASE tries[r] < MaxTries
    BY <2>1 DEF NextRound, TypeOK, Advances
  <2>2. CASE ~ (tries[r] < MaxTries)
    BY <1>1, <2>2 DEF NextRound, Advances
  <2> QED BY <2>1, <2>2
<1>3. NextWait(r) => Advances(r) /\ pc'[r] \in {"idle", "tcreate"}
  <2>1. CASE waits[r] < MaxWaits
    BY <2>1 DEF NextWait, Goto, TypeOK, Advances
  <2>2. CASE ~ (waits[r] < MaxWaits)
    BY <1>1, <2>2 DEF NextWait, Advances
  <2> QED BY <2>1, <2>2
<1>4. ASSUME Leave(r), pc[r] \in {"release", "unlink"}
      PROVE  Advances(r) /\ pc'[r] \in {"idle", "rest"}
  <2>1. CASE Exit(r)
    BY <1>1, <2>1 DEF Advances
  <2>2. CASE ~ Exit(r)
    BY <1>4, <2>2 DEF Leave, round, Goto, TypeOK, Advances, Distance
  <2> QED BY <2>1, <2>2
<1> QED BY <1>1, <1>2, <1>3, <1>4

\* A step of run r brings it nearer to its end.
LEMMA StepAdvances ==
    ASSUME TypeOK, NotWaiting, NEW r \in Run, Step(r) \/ Killed(r)
    PROVE  /\ Advances(r)
           /\ pc'[r] \in {"create", "stat", "read"} => waits'[r] = 0
<1> USE DEF Goto, round
<1>1. CASE Killed(r) \/ RestGone(r) \/ Unlink(r)
  BY <1>1, RoundAdvances DEF Killed, RestGone, Unlink, Advances
<1>2. CASE EndTakeOver(r)
  BY <1>2, RoundAdvances DEF EndTakeOver, Advances
<1>3. CASE Steal(r)
  BY <1>3, RoundAdvances DEF Steal
<1>4. CASE Release(r)
  <2>1. CASE Leave(r)
    BY <1>4, <2>1, RoundAdvances DEF Release
  <2>2. CASE ~ Leave(r)
    BY <1>4, <2>2 DEF Release, TypeOK, Advances, Distance
  <2> QED BY <2>1, <2>2
<1>5. CASE Stat(r)
  <2>1. CASE NextRound(r)
    BY <2>1, RoundAdvances
  <2>2. CASE ~ NextRound(r)
    BY <1>5, <2>2 DEF Stat, TypeOK, NotWaiting, Advances, Distance
  <2> QED BY <2>1, <2>2
<1>6. CASE Read(r)
  <2>1. CASE NextRound(r)
    BY <2>1, RoundAdvances
  <2>2. CASE Exit(r)
    BY <2>2, RoundAdvances DEF Advances
  <2>3. CASE ~ NextRound(r) /\ ~ Exit(r)
    BY <1>6, <2>3 DEF Read, TypeOK, NotWaiting, Advances
  <2> QED BY <2>1, <2>2, <2>3
<1>7. CASE StatTakeOver(r)
  <2>1. CASE NextWait(r)
    BY <2>1, RoundAdvances
  <2>2. CASE ~ NextWait(r)
    BY <1>7, <2>2 DEF StatTakeOver, TypeOK, Advances, Distance
  <2> QED BY <2>1, <2>2
<1>8. CASE Create(r) \/ CreateLost(r) \/ Write(r) \/ Finish(r) \/ RemoveAll(r) \/ Rmdir(r)
  <2>1. UNCHANGED <<tries, waits>>
    BY <1>8 DEF Create, CreateLost, Write, Finish, RemoveAll, Rmdir
  <2>2. \/ pc[r] = "create" /\ pc'[r] \in {"write", "stat"}
        \/ pc[r] = "write" /\ pc'[r] = "held"
        \/ pc[r] = "held" /\ pc'[r] = "rmdir"
        \/ pc[r] \in {"write", "held", "rmdir"} /\ pc'[r] = "release"
    BY <1>8 DEF Create, CreateLost, Write, Finish, RemoveAll, Rmdir, TypeOK
  <2> QED BY <2>1, <2>2 DEF NotWaiting, Advances, Distance
<1>9. CASE TakeOver(r) \/ TakeOverLost(r) \/ Peek(r) \/ WriteTakeOver(r)
  <2>1. UNCHANGED <<tries, waits>>
    BY <1>9 DEF TakeOver, TakeOverLost, Peek, WriteTakeOver
  <2>2. \/ pc[r] = "tcreate" /\ pc'[r] \in {"twrite", "tpeek"}
        \/ pc[r] = "tpeek" /\ pc'[r] = "tage"
        \/ pc[r] = "twrite" /\ pc'[r] = "tstat"
    BY <1>9 DEF TakeOver, TakeOverLost, Peek, WriteTakeOver, TypeOK
  <2> QED BY <2>1, <2>2 DEF Advances, Distance
<1>10. CASE StatAgain(r) \/ ReadAgain(r) \/ RemoveStale(r)
  <2>1. UNCHANGED <<tries, waits>>
    BY <1>10 DEF StatAgain, ReadAgain, RemoveStale
  <2>2. \/ pc[r] = "tstat" /\ pc'[r] \in {"tread", "tend"}
        \/ pc[r] = "tread" /\ pc'[r] \in {"tremove", "tend"}
        \/ pc[r] = "tremove" /\ pc'[r] = "tend"
    BY <1>10 DEF StatAgain, ReadAgain, RemoveStale, TypeOK
  <2> QED BY <2>1, <2>2 DEF Advances, Distance
<1>11. CASE UnlinkLock(r) \/ UnlinkOver(r)
  <2>1. PICK n \in todo[r] : todo' = [todo EXCEPT ![r] = todo[r] \ {n}]
    BY <1>11 DEF UnlinkLock, UnlinkOver
  <2>2. todo'[r] = todo[r] \ {n}
    BY <2>1 DEF TypeOK
  <2>3. UNCHANGED <<pc, tries, waits>> /\ pc[r] \in {"rmdir", "rest"}
    BY <1>11 DEF UnlinkLock, UnlinkOver
  <2> QED BY <2>2, <2>3 DEF Advances
<1> QED BY <1>1, <1>2, <1>3, <1>4, <1>5, <1>6, <1>7, <1>8, <1>9, <1>10, <1>11 DEF Step

\* The steps of run r count for no other one.
LEMMA OthersPause ==
    ASSUME TypeOK, NEW r \in Run, Start(r) \/ Step(r) \/ Killed(r)
    PROVE  \A s \in Run \ {r} : Pauses(s)
<1> USE DEF round
<1>1. Exit(r) \/ NextRound(r) \/ NextWait(r) \/ Leave(r) => \A s \in Run \ {r} : Pauses(s)
  BY DEF TypeOK, Exit, NextRound, NextWait, Leave, Goto, Pauses
<1>2. CASE Start(r) \/ Killed(r) \/ Unlink(r) \/ RestGone(r) \/ Steal(r) \/ EndTakeOver(r)
  BY <1>1, <1>2 DEF Start, Killed, Unlink, RestGone, Steal, EndTakeOver
<1>3. CASE Release(r) \/ Stat(r) \/ Read(r) \/ StatTakeOver(r)
  <2>1. CASE Exit(r) \/ NextRound(r) \/ NextWait(r) \/ Leave(r)
    BY <1>1, <2>1
  <2>2. CASE ~ (Exit(r) \/ NextRound(r) \/ NextWait(r) \/ Leave(r))
    BY <1>3, <2>2 DEF Release, Stat, Read, StatTakeOver, Goto, TypeOK, Pauses
  <2> QED BY <2>1, <2>2
<1>4. CASE Create(r) \/ CreateLost(r) \/ Write(r) \/ Finish(r) \/ TakeOver(r) \/ TakeOverLost(r)
  BY <1>4 DEF Create, CreateLost, Write, Finish, TakeOver, TakeOverLost, Goto, TypeOK, Pauses
<1>5. CASE Peek(r) \/ WriteTakeOver(r) \/ StatAgain(r) \/ ReadAgain(r) \/ RemoveStale(r)
  BY <1>5 DEF Peek, WriteTakeOver, StatAgain, ReadAgain, RemoveStale, Goto, TypeOK, Pauses
<1>6. CASE RemoveAll(r) \/ UnlinkLock(r) \/ UnlinkOver(r) \/ Rmdir(r)
  BY <1>6 DEF RemoveAll, UnlinkLock, UnlinkOver, Rmdir, Goto, TypeOK, Pauses
<1> QED BY <1>2, <1>3, <1>4, <1>5, <1>6 DEF Step

\* No run goes round in circles, whatever the others do and wherever they die
\* (the loops of lockExclusive and takeOver).
THEOREM Nearer == Spec => ComesNearer
<1>1. Init => NotWaiting
  BY DEF Init, NotWaiting
<1>2. ASSUME TypeOK, NotWaiting, [Next]_vars
      PROVE  /\ NotWaiting'
             /\ \A r \in Run : pc[r] # "idle" => Advances(r) \/ Pauses(r)
  <2>1. CASE \A r \in Run : Pauses(r)
    BY <2>1, <1>2 DEF Pauses, NotWaiting
  <2>2. ASSUME NEW r \in Run, Start(r) \/ Step(r) \/ Killed(r)
        PROVE  /\ NotWaiting'
               /\ \A s \in Run : pc[s] # "idle" => Advances(s) \/ Pauses(s)
    <3>1. \A s \in Run \ {r} : Pauses(s)
      BY <1>2, <2>2, OthersPause
    <3>2. pc'[r] \in {"create", "stat", "read"} => waits'[r] = 0
      BY <1>2, <2>2, StepAdvances, RoundAdvances DEF Start
    <3>3. pc[r] # "idle" => Advances(r)
      BY <1>2, <2>2, StepAdvances DEF Start
    <3> QED BY <1>2, <3>1, <3>2, <3>3 DEF NotWaiting, Pauses
  <2>3. (\A r \in Run : Pauses(r)) \/ \E r \in Run : Start(r) \/ Step(r) \/ Killed(r)
    BY <1>2 DEF Next, Age, vars, round, Pauses
  <2> QED BY <2>1, <2>2, <2>3
<1>3. TypeOK /\ NotWaiting /\ [Next]_vars => NotWaiting'
  BY <1>2
<1>4. TypeOK /\ NotWaiting /\ [Next]_vars
         => [\A r \in Run : pc[r] # "idle" => Advances(r) \/ Pauses(r)]_vars
  BY <1>2
<1> QED BY <1>1, <1>3, <1>4, TypeCorrect, PTL DEF Spec, ComesNearer

=============================================================================

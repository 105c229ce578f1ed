-------------------------- MODULE ProjectLockProofs --------------------------
(***************************************************************************)
(* Proofs about ProjectLock, for any number of runs and inodes, any bound  *)
(* on the retries, and both orders of releaseLock.                         *)
(*                                                                         *)
(* The argument: the lock of an inode is held by exactly the run that      *)
(* stands between its tryLock and its unlock and has that inode open       *)
(* (Locked, NoLockLeft), whatever becomes of the name.  From its samePath  *)
(* to the end of its work, and from that of releaseLock to the removal,    *)
(* the name leads to that inode (Owned): a file is only created under a    *)
(* free name, and who removes another run's file is an uninstall past its  *)
(* lock, or a run robbed by one, and is noted in robbed.  Two runs at work *)
(* would thus have the same inode open and both hold its lock.  Windows    *)
(* refuses to remove an open file, so there nobody is ever robbed.         *)
(***************************************************************************)
EXTENDS ProjectLock, TLAPS

HasLock == Owning \cup {"check", "rmdir", "release", "unlock"}

HasFile == HasLock \cup {"lock", "close"}

\* A run has a file open exactly where the code says it does.
FileOpen == \A r \in Run : fd[r] # NoFile <=> pc[r] \in HasFile

Locked == \A r \in Run : pc[r] \in HasLock => flock[fd[r]] = r

NoLockLeft ==
    \A i \in Inode : flock[i] # NoRun => fd[flock[i]] = i /\ pc[flock[i]] \in HasLock

\* The name leads to the file of every owner that was not robbed of it.
Owned == \A r \in Run \ robbed : pc[r] \in Owning => path = fd[r]

\* What each system removes, and when: an open file, or nobody's.
Systems ==
    /\ \A r \in Run : pc[r] = "remove" => ~windows
    /\ \A r \in Run : pc[r] = "wremove" => windows
    /\ windows => robbed = {} /\ \A r \in Run : pc[r] = "rmdir" => path = fd[r]

Named == \A r \in Run : pc[r] \in {"held", "rmdir"} => says[fd[r]] = r

\* A round of the loop is left to a run about to open the file.
RoundLeft ==
    \A r \in Run :
        /\ pc[r] = "open" => tries[r] < MaxTries
        /\ pc[r] = "idle" => tries[r] = 0

\* On Unix the name has left the file that a run is about to close.
Released ==
    \A r \in Run : pc[r] \in {"unlock", "close"} /\ ~windows => path # fd[r]

IInv ==
    /\ TypeOK
    /\ Released
    /\ RoundLeft
    /\ FileOpen
    /\ Locked
    /\ NoLockLeft
    /\ Owned
    /\ Systems
    /\ Named

-----------------------------------------------------------------------------
\* Before any run starts there is no lock file, and no run has one open.
THEOREM InitInv == Init => IInv
BY LockConstants DEF Init, IInv, TypeOK, FileOpen, Locked, NoLockLeft, Owned,
   Systems, Named, RoundLeft, Released, HasFile, HasLock, Owning, Control

\* A run that is gone keeps the types, whatever it was doing.
LEMMA ExitType ==
    ASSUME TypeOK, NEW r \in Run, Exit(r)
    PROVE  /\ fd' \in [Run -> Inode \cup {NoFile}]
           /\ pc' \in [Run -> Control]
           /\ tries' \in [Run -> 0 .. MaxTries]
           /\ same' \in [Run -> BOOLEAN]
           /\ rest' \in [Run -> BOOLEAN]
           /\ robbed' \subseteq Run
<1>1. fd' \in [Run -> Inode \cup {NoFile}] /\ pc' \in [Run -> Control]
  BY DEF TypeOK, Exit, Forget, Goto, Close, Control
<1>2. tries' \in [Run -> 0 .. MaxTries]
  BY LockConstants DEF TypeOK, Exit, Forget
<1>3. same' \in [Run -> BOOLEAN] /\ rest' \in [Run -> BOOLEAN] /\ robbed' \subseteq Run
  BY DEF TypeOK, Exit, Forget
<1> QED BY <1>1, <1>2, <1>3

\* Every step of lockProject, of releaseLock and of the end of a run keeps the
\* strengthened invariant.
THEOREM StepInv == IInv /\ [Next]_vars => IInv'
<1> SUFFICES ASSUME IInv, [Next]_vars PROVE IInv'
  OBVIOUS
<1>a. windows' = windows
  BY DEF Next, vars
<1> USE LockConstants, <1>a DEF IInv, HasFile, HasLock, Owning
<1>0. ASSUME UNCHANGED vars PROVE IInv'
  BY <1>0 DEF vars, TypeOK, FileOpen, Locked, NoLockLeft, Owned, Systems, Named,
    RoundLeft, Released
<1>1. ASSUME NEW r \in Run, Start(r) PROVE IInv'
  <2>1. TypeOK'
    BY <1>1 DEF Start, Goto, TypeOK, Control, FileOpen
  <2>2. FileOpen'
    BY <1>1 DEF Start, Goto, TypeOK, FileOpen
  <2>3. Locked'
    BY <1>1 DEF Start, Goto, TypeOK, FileOpen, Locked, NoLockLeft
  <2>4. NoLockLeft'
    BY <1>1 DEF Start, Goto, TypeOK, FileOpen, Locked, NoLockLeft
  <2>5. Owned'
    BY <1>1 DEF Start, Goto, TypeOK, FileOpen, Locked, NoLockLeft, Owned
  <2>6. Systems'
    BY <1>1 DEF Start, Goto, TypeOK, FileOpen, Locked, NoLockLeft, Owned, Systems
  <2>7. Named'
    BY <1>1 DEF Start, Goto, TypeOK, FileOpen, Locked, NoLockLeft, Owned, Named
  <2>8. RoundLeft'
    BY <1>1 DEF Start, Goto, TypeOK, Control, RoundLeft
  <2>9. Released'
    BY <1>1 DEF Start, Goto, TypeOK, FileOpen, Owned, Released
  <2> QED BY <2>1, <2>2, <2>3, <2>4, <2>5, <2>6, <2>7, <2>8, <2>9
<1>2. ASSUME NEW r \in Run, Open(r) PROVE IInv'
  <2>1. TypeOK'
    <3>1. tries' \in [Run -> 0 .. MaxTries]
      <4>1. tries[r] + 1 \in 0 .. MaxTries
        BY <1>2 DEF Open, TypeOK, RoundLeft
      <4>2. tries' = [tries EXCEPT ![r] = tries[r] + 1]
        BY <1>2 DEF Open
      <4> QED BY <4>1, <4>2 DEF TypeOK
    <3>2. fd' \in [Run -> Inode \cup {NoFile}] /\ pc' \in [Run -> Control]
      BY <1>2 DEF Open, Goto, TypeOK, Control
    <3> QED BY <1>2, <3>1, <3>2 DEF Open, TypeOK
  <2>2. FileOpen'
    BY <1>2 DEF Open, Goto, TypeOK, FileOpen
  <2>3. Locked'
    BY <1>2 DEF Open, Goto, TypeOK, FileOpen, Locked, NoLockLeft
  <2>4. NoLockLeft'
    BY <1>2 DEF Open, Goto, TypeOK, FileOpen, Locked, NoLockLeft
  <2>5. Owned'
    BY <1>2 DEF Open, Goto, TypeOK, FileOpen, Locked, NoLockLeft, Owned
  <2>6. Systems'
    BY <1>2 DEF Open, Goto, TypeOK, FileOpen, Locked, NoLockLeft, Owned, Systems
  <2>7. Named'
    BY <1>2 DEF Open, Goto, TypeOK, FileOpen, Locked, NoLockLeft, Owned, Named
  <2>8. RoundLeft'
    BY <1>2 DEF Open, Goto, TypeOK, Control, RoundLeft
  <2>9. Released'
    BY <1>2 DEF Open, Goto, TypeOK, FileOpen, Owned, Released
  <2> QED BY <2>1, <2>2, <2>3, <2>4, <2>5, <2>6, <2>7, <2>8, <2>9
<1>3. ASSUME NEW r \in Run, Create(r) PROVE IInv'
  <2>1. TypeOK'
    BY <1>3 DEF Create, Goto, InUse, TypeOK, Control, FileOpen
  <2>2. FileOpen'
    BY <1>3 DEF Create, Goto, InUse, TypeOK, FileOpen
  <2>3. Locked'
    BY <1>3 DEF Create, Goto, InUse, TypeOK, FileOpen, Locked, NoLockLeft
  <2>4. NoLockLeft'
    BY <1>3 DEF Create, Goto, InUse, TypeOK, FileOpen, Locked, NoLockLeft
  <2>5. Owned'
    BY <1>3 DEF Create, Goto, InUse, TypeOK, FileOpen, Locked, NoLockLeft, Owned
  <2>6. Systems'
    BY <1>3 DEF Create, Goto, InUse, TypeOK, FileOpen, Locked, NoLockLeft, Owned, Systems
  <2>7. Named'
    BY <1>3 DEF Create, Goto, InUse, TypeOK, FileOpen, Locked, NoLockLeft, Owned, Named
  <2>8. RoundLeft'
    BY <1>3 DEF Create, Goto, InUse, TypeOK, Control, RoundLeft
  <2>9. Released'
    BY <1>3 DEF Create, Goto, InUse, TypeOK, FileOpen, Owned, Released
  <2> QED BY <2>1, <2>2, <2>3, <2>4, <2>5, <2>6, <2>7, <2>8, <2>9
<1>4. ASSUME NEW r \in Run, CreateLost(r) PROVE IInv'
  <2>1. TypeOK'
    <3>1. CASE tries[r] < MaxTries
      BY <1>4, <3>1 DEF CreateLost, Again, Exit, Forget, Close, Goto, TypeOK, Control, FileOpen
    <3>2. CASE ~(tries[r] < MaxTries)
      BY <1>4, <3>2, ExitType DEF CreateLost, Again, TypeOK
    <3> QED BY <3>1, <3>2
  <2>2. FileOpen'
    BY <1>4 DEF CreateLost, Again, Exit, Forget, Close, Goto, TypeOK, FileOpen
  <2>3. Locked'
    BY <1>4 DEF CreateLost, Again, Exit, Forget, Close, Goto, TypeOK, FileOpen, Locked, NoLockLeft
  <2>4. NoLockLeft'
    BY <1>4 DEF CreateLost, Again, Exit, Forget, Close, Goto, TypeOK, FileOpen, Locked, NoLockLeft
  <2>5. Owned'
    BY <1>4 DEF CreateLost, Again, Exit, Forget, Close, Goto, TypeOK, FileOpen, Locked, NoLockLeft, Owned
  <2>6. Systems'
    BY <1>4 DEF CreateLost, Again, Exit, Forget, Close, Goto, TypeOK, FileOpen, Locked, NoLockLeft, Owned, Systems
  <2>7. Named'
    BY <1>4 DEF CreateLost, Again, Exit, Forget, Close, Goto, TypeOK, FileOpen, Locked, NoLockLeft, Owned, Named
  <2>8. RoundLeft'
    BY <1>4 DEF CreateLost, Again, Exit, Forget, Close, Goto, TypeOK, Control, RoundLeft
  <2>9. Released'
    BY <1>4 DEF CreateLost, Again, Exit, Forget, Close, Goto, TypeOK, FileOpen, Owned, Released
  <2> QED BY <2>1, <2>2, <2>3, <2>4, <2>5, <2>6, <2>7, <2>8, <2>9
<1>5. ASSUME NEW r \in Run, Lock(r) PROVE IInv'
  <2>1. TypeOK'
    BY <1>5 DEF Lock, Goto, TypeOK, Control, FileOpen
  <2>2. FileOpen'
    BY <1>5 DEF Lock, Goto, TypeOK, FileOpen
  <2>3. Locked'
    BY <1>5 DEF Lock, Goto, TypeOK, FileOpen, Locked, NoLockLeft
  <2>4. NoLockLeft'
    BY <1>5 DEF Lock, Goto, TypeOK, FileOpen, Locked, NoLockLeft
  <2>5. Owned'
    BY <1>5 DEF Lock, Goto, TypeOK, FileOpen, Locked, NoLockLeft, Owned
  <2>6. Systems'
    BY <1>5 DEF Lock, Goto, TypeOK, FileOpen, Locked, NoLockLeft, Owned, Systems
  <2>7. Named'
    BY <1>5 DEF Lock, Goto, TypeOK, FileOpen, Locked, NoLockLeft, Owned, Named
  <2>8. RoundLeft'
    BY <1>5 DEF Lock, Goto, TypeOK, Control, RoundLeft
  <2>9. Released'
    BY <1>5 DEF Lock, Goto, TypeOK, FileOpen, Owned, Released
  <2> QED BY <2>1, <2>2, <2>3, <2>4, <2>5, <2>6, <2>7, <2>8, <2>9
<1>6. ASSUME NEW r \in Run, LockHeld(r) PROVE IInv'
  <2>1. TypeOK'
    BY <1>6 DEF LockHeld, Exit, Forget, Close, Goto, TypeOK, Control, FileOpen
  <2>2. FileOpen'
    BY <1>6 DEF LockHeld, Exit, Forget, Close, Goto, TypeOK, FileOpen
  <2>3. Locked'
    BY <1>6 DEF LockHeld, Exit, Forget, Close, Goto, TypeOK, FileOpen, Locked, NoLockLeft
  <2>4. NoLockLeft'
    BY <1>6 DEF LockHeld, Exit, Forget, Close, Goto, TypeOK, FileOpen, Locked, NoLockLeft
  <2>5. Owned'
    BY <1>6 DEF LockHeld, Exit, Forget, Close, Goto, TypeOK, FileOpen, Locked, NoLockLeft, Owned
  <2>6. Systems'
    BY <1>6 DEF LockHeld, Exit, Forget, Close, Goto, TypeOK, FileOpen, Locked, NoLockLeft, Owned, Systems
  <2>7. Named'
    BY <1>6 DEF LockHeld, Exit, Forget, Close, Goto, TypeOK, FileOpen, Locked, NoLockLeft, Owned, Named
  <2>8. RoundLeft'
    BY <1>6 DEF LockHeld, Exit, Forget, Close, Goto, TypeOK, Control, RoundLeft
  <2>9. Released'
    BY <1>6 DEF LockHeld, Exit, Forget, Close, Goto, TypeOK, FileOpen, Owned, Released
  <2> QED BY <2>1, <2>2, <2>3, <2>4, <2>5, <2>6, <2>7, <2>8, <2>9
<1>7. ASSUME NEW r \in Run, CheckSame(r) PROVE IInv'
  <2>1. TypeOK'
    BY <1>7 DEF CheckSame, Goto, TypeOK, Control, FileOpen
  <2>2. FileOpen'
    BY <1>7 DEF CheckSame, Goto, TypeOK, FileOpen
  <2>3. Locked'
    BY <1>7 DEF CheckSame, Goto, TypeOK, FileOpen, Locked, NoLockLeft
  <2>4. NoLockLeft'
    BY <1>7 DEF CheckSame, Goto, TypeOK, FileOpen, Locked, NoLockLeft
  <2>5. Owned'
    BY <1>7 DEF CheckSame, Goto, TypeOK, FileOpen, Locked, NoLockLeft, Owned
  <2>6. Systems'
    BY <1>7 DEF CheckSame, Goto, TypeOK, FileOpen, Locked, NoLockLeft, Owned, Systems
  <2>7. Named'
    BY <1>7 DEF CheckSame, Goto, TypeOK, FileOpen, Locked, NoLockLeft, Owned, Named
  <2>8. RoundLeft'
    BY <1>7 DEF CheckSame, Goto, TypeOK, Control, RoundLeft
  <2>9. Released'
    BY <1>7 DEF CheckSame, Goto, TypeOK, FileOpen, Owned, Released
  <2> QED BY <2>1, <2>2, <2>3, <2>4, <2>5, <2>6, <2>7, <2>8, <2>9
<1>8. ASSUME NEW r \in Run, CheckGone(r) PROVE IInv'
  <2>1. TypeOK'
    <3>1. CASE tries[r] < MaxTries
      BY <1>8, <3>1 DEF CheckGone, Again, Exit, Forget, Close, Goto, Unlocked, TypeOK, Control, FileOpen
    <3>2. CASE ~(tries[r] < MaxTries)
      BY <1>8, <3>2, ExitType DEF CheckGone, Again, Unlocked, TypeOK
    <3> QED BY <3>1, <3>2
  <2>2. FileOpen'
    BY <1>8 DEF CheckGone, Again, Exit, Forget, Close, Goto, Unlocked, TypeOK, FileOpen
  <2>3. Locked'
    BY <1>8 DEF CheckGone, Again, Exit, Forget, Close, Goto, Unlocked, TypeOK, FileOpen, Locked, NoLockLeft
  <2>4. NoLockLeft'
    BY <1>8 DEF CheckGone, Again, Exit, Forget, Close, Goto, Unlocked, TypeOK, FileOpen, Locked, NoLockLeft
  <2>5. Owned'
    BY <1>8 DEF CheckGone, Again, Exit, Forget, Close, Goto, Unlocked, TypeOK, FileOpen, Locked, NoLockLeft, Owned
  <2>6. Systems'
    BY <1>8 DEF CheckGone, Again, Exit, Forget, Close, Goto, Unlocked, TypeOK, FileOpen, Locked, NoLockLeft, Owned, Systems
  <2>7. Named'
    BY <1>8 DEF CheckGone, Again, Exit, Forget, Close, Goto, Unlocked, TypeOK, FileOpen, Locked, NoLockLeft, Owned, Named
  <2>8. RoundLeft'
    BY <1>8 DEF CheckGone, Again, Exit, Forget, Close, Goto, Unlocked, TypeOK, Control, RoundLeft
  <2>9. Released'
    BY <1>8 DEF CheckGone, Again, Exit, Forget, Close, Goto, Unlocked, TypeOK, FileOpen, Owned, Released
  <2> QED BY <2>1, <2>2, <2>3, <2>4, <2>5, <2>6, <2>7, <2>8, <2>9
<1>9. ASSUME NEW r \in Run, Truncate(r) PROVE IInv'
  <2>1. TypeOK'
    BY <1>9 DEF Truncate, Goto, TypeOK, Control, FileOpen
  <2>2. FileOpen'
    BY <1>9 DEF Truncate, Goto, TypeOK, FileOpen
  <2>3. Locked'
    BY <1>9 DEF Truncate, Goto, TypeOK, FileOpen, Locked, NoLockLeft
  <2>4. NoLockLeft'
    BY <1>9 DEF Truncate, Goto, TypeOK, FileOpen, Locked, NoLockLeft
  <2>5. Owned'
    BY <1>9 DEF Truncate, Goto, TypeOK, FileOpen, Locked, NoLockLeft, Owned
  <2>6. Systems'
    BY <1>9 DEF Truncate, Goto, TypeOK, FileOpen, Locked, NoLockLeft, Owned, Systems
  <2>7. Named'
    BY <1>9 DEF Truncate, Goto, TypeOK, FileOpen, Locked, NoLockLeft, Owned, Named
  <2>8. RoundLeft'
    BY <1>9 DEF Truncate, Goto, TypeOK, Control, RoundLeft
  <2>9. Released'
    BY <1>9 DEF Truncate, Goto, TypeOK, FileOpen, Owned, Released
  <2> QED BY <2>1, <2>2, <2>3, <2>4, <2>5, <2>6, <2>7, <2>8, <2>9
<1>10. ASSUME NEW r \in Run, Write(r) PROVE IInv'
  <2>1. TypeOK'
    BY <1>10 DEF Write, Goto, TypeOK, Control, FileOpen
  <2>2. FileOpen'
    BY <1>10 DEF Write, Goto, TypeOK, FileOpen
  <2>3. Locked'
    BY <1>10 DEF Write, Goto, TypeOK, FileOpen, Locked, NoLockLeft
  <2>4. NoLockLeft'
    BY <1>10 DEF Write, Goto, TypeOK, FileOpen, Locked, NoLockLeft
  <2>5. Owned'
    BY <1>10 DEF Write, Goto, TypeOK, FileOpen, Locked, NoLockLeft, Owned
  <2>6. Systems'
    BY <1>10 DEF Write, Goto, TypeOK, FileOpen, Locked, NoLockLeft, Owned, Systems
  <2>7. Named'
    BY <1>10 DEF Write, Goto, TypeOK, FileOpen, Locked, NoLockLeft, Owned, Named
  <2>8. RoundLeft'
    BY <1>10 DEF Write, Goto, TypeOK, Control, RoundLeft
  <2>9. Released'
    BY <1>10 DEF Write, Goto, TypeOK, FileOpen, Owned, Released
  <2> QED BY <2>1, <2>2, <2>3, <2>4, <2>5, <2>6, <2>7, <2>8, <2>9
<1>11. ASSUME NEW r \in Run, SystemError(r) PROVE IInv'
  <2>1. TypeOK'
    BY <1>11 DEF SystemError, Exit, Forget, Close, Goto, TypeOK, Control, FileOpen
  <2>2. FileOpen'
    BY <1>11 DEF SystemError, Exit, Forget, Close, Goto, TypeOK, FileOpen
  <2>3. Locked'
    BY <1>11 DEF SystemError, Exit, Forget, Close, Goto, TypeOK, FileOpen, Locked, NoLockLeft
  <2>4. NoLockLeft'
    BY <1>11 DEF SystemError, Exit, Forget, Close, Goto, TypeOK, FileOpen, Locked, NoLockLeft
  <2>5. Owned'
    BY <1>11 DEF SystemError, Exit, Forget, Close, Goto, TypeOK, FileOpen, Locked, NoLockLeft, Owned
  <2>6. Systems'
    BY <1>11 DEF SystemError, Exit, Forget, Close, Goto, TypeOK, FileOpen, Locked, NoLockLeft, Owned, Systems
  <2>7. Named'
    BY <1>11 DEF SystemError, Exit, Forget, Close, Goto, TypeOK, FileOpen, Locked, NoLockLeft, Owned, Named
  <2>8. RoundLeft'
    BY <1>11 DEF SystemError, Exit, Forget, Close, Goto, TypeOK, Control, RoundLeft
  <2>9. Released'
    BY <1>11 DEF SystemError, Exit, Forget, Close, Goto, TypeOK, FileOpen, Owned, Released
  <2> QED BY <2>1, <2>2, <2>3, <2>4, <2>5, <2>6, <2>7, <2>8, <2>9
<1>12. ASSUME NEW r \in Run, Finish(r) PROVE IInv'
  <2>1. TypeOK'
    BY <1>12 DEF Finish, Goto, TypeOK, Control, FileOpen
  <2>2. FileOpen'
    BY <1>12 DEF Finish, Goto, TypeOK, FileOpen
  <2>3. Locked'
    BY <1>12 DEF Finish, Goto, TypeOK, FileOpen, Locked, NoLockLeft
  <2>4. NoLockLeft'
    BY <1>12 DEF Finish, Goto, TypeOK, FileOpen, Locked, NoLockLeft
  <2>5. Owned'
    BY <1>12 DEF Finish, Goto, TypeOK, FileOpen, Locked, NoLockLeft, Owned
  <2>6. Systems'
    BY <1>12 DEF Finish, Goto, TypeOK, FileOpen, Locked, NoLockLeft, Owned, Systems
  <2>7. Named'
    BY <1>12 DEF Finish, Goto, TypeOK, FileOpen, Locked, NoLockLeft, Owned, Named
  <2>8. RoundLeft'
    BY <1>12 DEF Finish, Goto, TypeOK, Control, RoundLeft
  <2>9. Released'
    BY <1>12 DEF Finish, Goto, TypeOK, FileOpen, Owned, Released
  <2> QED BY <2>1, <2>2, <2>3, <2>4, <2>5, <2>6, <2>7, <2>8, <2>9
<1>13. ASSUME NEW r \in Run, ReleaseCheck(r) PROVE IInv'
  <2>1. TypeOK'
    BY <1>13 DEF ReleaseCheck, Goto, TypeOK, Control, FileOpen
  <2>2. FileOpen'
    BY <1>13 DEF ReleaseCheck, Goto, TypeOK, FileOpen
  <2>3. Locked'
    BY <1>13 DEF ReleaseCheck, Goto, TypeOK, FileOpen, Locked, NoLockLeft
  <2>4. NoLockLeft'
    BY <1>13 DEF ReleaseCheck, Goto, TypeOK, FileOpen, Locked, NoLockLeft
  <2>5. Owned'
    BY <1>13 DEF ReleaseCheck, Goto, TypeOK, FileOpen, Locked, NoLockLeft, Owned
  <2>6. Systems'
    BY <1>13 DEF ReleaseCheck, Goto, TypeOK, FileOpen, Locked, NoLockLeft, Owned, Systems
  <2>7. Named'
    BY <1>13 DEF ReleaseCheck, Goto, TypeOK, FileOpen, Locked, NoLockLeft, Owned, Named
  <2>8. RoundLeft'
    BY <1>13 DEF ReleaseCheck, Goto, TypeOK, Control, RoundLeft
  <2>9. Released'
    BY <1>13 DEF ReleaseCheck, Goto, TypeOK, FileOpen, Owned, Released
  <2> QED BY <2>1, <2>2, <2>3, <2>4, <2>5, <2>6, <2>7, <2>8, <2>9
<1>14. ASSUME NEW r \in Run, Remove(r) PROVE IInv'
  <2>1. TypeOK'
    BY <1>14 DEF Remove, Losers, Goto, TypeOK, Control, FileOpen
  <2>2. FileOpen'
    BY <1>14 DEF Remove, Losers, Goto, TypeOK, FileOpen
  <2>3. Locked'
    BY <1>14 DEF Remove, Losers, Goto, TypeOK, FileOpen, Locked, NoLockLeft
  <2>4. NoLockLeft'
    BY <1>14 DEF Remove, Losers, Goto, TypeOK, FileOpen, Locked, NoLockLeft
  <2>5. Owned'
    BY <1>14 DEF Remove, Losers, Goto, TypeOK, FileOpen, Locked, NoLockLeft, Owned
  <2>6. Systems'
    BY <1>14 DEF Remove, Losers, Goto, TypeOK, FileOpen, Locked, NoLockLeft, Owned, Systems
  <2>7. Named'
    BY <1>14 DEF Remove, Losers, Goto, TypeOK, FileOpen, Locked, NoLockLeft, Owned, Named
  <2>8. RoundLeft'
    BY <1>14 DEF Remove, Losers, Goto, TypeOK, Control, RoundLeft
  <2>9. Released'
    BY <1>14 DEF Remove, Losers, Goto, TypeOK, FileOpen, Owned, Released
  <2> QED BY <2>1, <2>2, <2>3, <2>4, <2>5, <2>6, <2>7, <2>8, <2>9
<1>15. ASSUME NEW r \in Run, Unlock(r) PROVE IInv'
  <2>1. TypeOK'
    BY <1>15 DEF Unlock, Goto, Unlocked, TypeOK, Control, FileOpen
  <2>2. FileOpen'
    BY <1>15 DEF Unlock, Goto, Unlocked, TypeOK, FileOpen
  <2>3. Locked'
    BY <1>15 DEF Unlock, Goto, Unlocked, TypeOK, FileOpen, Locked, NoLockLeft
  <2>4. NoLockLeft'
    BY <1>15 DEF Unlock, Goto, Unlocked, TypeOK, FileOpen, Locked, NoLockLeft
  <2>5. Owned'
    BY <1>15 DEF Unlock, Goto, Unlocked, TypeOK, FileOpen, Locked, NoLockLeft, Owned
  <2>6. Systems'
    BY <1>15 DEF Unlock, Goto, Unlocked, TypeOK, FileOpen, Locked, NoLockLeft, Owned, Systems
  <2>7. Named'
    BY <1>15 DEF Unlock, Goto, Unlocked, TypeOK, FileOpen, Locked, NoLockLeft, Owned, Named
  <2>8. RoundLeft'
    BY <1>15 DEF Unlock, Goto, Unlocked, TypeOK, Control, RoundLeft
  <2>9. Released'
    BY <1>15 DEF Unlock, Goto, Unlocked, TypeOK, FileOpen, Owned, Released
  <2> QED BY <2>1, <2>2, <2>3, <2>4, <2>5, <2>6, <2>7, <2>8, <2>9
<1>16. ASSUME NEW r \in Run, CloseFile(r) PROVE IInv'
  <2>1. TypeOK'
    <3>1. CASE windows /\ same[r]
      BY <1>16, <3>1 DEF CloseFile, Close, Goto, TypeOK, Control, FileOpen
    <3>2. CASE ~(windows /\ same[r]) /\ ~rest[r]
      BY <1>16, <3>2, ExitType DEF CloseFile, Leave, TypeOK
    <3>3. CASE ~(windows /\ same[r]) /\ rest[r]
      BY <1>16, <3>3 DEF CloseFile, Leave, Close, Goto, TypeOK, Control
    <3> QED BY <3>1, <3>2, <3>3
  <2>2. FileOpen'
    BY <1>16 DEF CloseFile, Leave, Exit, Forget, Close, Goto, TypeOK, FileOpen
  <2>3. Locked'
    BY <1>16 DEF CloseFile, Leave, Exit, Forget, Close, Goto, TypeOK, FileOpen, Locked, NoLockLeft
  <2>4. NoLockLeft'
    BY <1>16 DEF CloseFile, Leave, Exit, Forget, Close, Goto, TypeOK, FileOpen, Locked, NoLockLeft
  <2>5. Owned'
    BY <1>16 DEF CloseFile, Leave, Exit, Forget, Close, Goto, TypeOK, FileOpen, Locked, NoLockLeft, Owned
  <2>6. Systems'
    BY <1>16 DEF CloseFile, Leave, Exit, Forget, Close, Goto, TypeOK, FileOpen, Locked, NoLockLeft, Owned, Systems
  <2>7. Named'
    BY <1>16 DEF CloseFile, Leave, Exit, Forget, Close, Goto, TypeOK, FileOpen, Locked, NoLockLeft, Owned, Named
  <2>8. RoundLeft'
    BY <1>16 DEF CloseFile, Leave, Exit, Forget, Close, Goto, TypeOK, Control, RoundLeft
  <2>9. Released'
    BY <1>16 DEF CloseFile, Leave, Exit, Forget, Close, Goto, TypeOK, FileOpen, Owned, Released
  <2> QED BY <2>1, <2>2, <2>3, <2>4, <2>5, <2>6, <2>7, <2>8, <2>9
<1>17. ASSUME NEW r \in Run, WindowsRemove(r) PROVE IInv'
  <2>1. TypeOK'
    <3>1. path' \in Inode \cup {NoFile}
      BY <1>17 DEF WindowsRemove, Unlinked, TypeOK
    <3>2. CASE ~rest[r]
      BY <1>17, <3>1, <3>2, ExitType DEF WindowsRemove, Leave, TypeOK
    <3>3. CASE rest[r]
      BY <1>17, <3>1, <3>3 DEF WindowsRemove, Leave, Close, Goto, TypeOK, Control
    <3> QED BY <3>1, <3>2, <3>3
  <2>2. FileOpen'
    BY <1>17 DEF WindowsRemove, Leave, Exit, Forget, Close, Unlinked, Goto, TypeOK, FileOpen
  <2>3. Locked'
    BY <1>17 DEF WindowsRemove, Leave, Exit, Forget, Close, Unlinked, Goto, TypeOK, FileOpen, Locked, NoLockLeft
  <2>4. NoLockLeft'
    BY <1>17 DEF WindowsRemove, Leave, Exit, Forget, Close, Unlinked, Goto, TypeOK, FileOpen, Locked, NoLockLeft
  <2>5. Owned'
    <3>1. windows /\ robbed = {} /\ robbed' = {}
      BY <1>17 DEF WindowsRemove, Leave, Exit, Systems
    <3>2. \A s \in Run \ {r} : pc'[s] = pc[s] /\ fd'[s] = fd[s]
      BY <1>17 DEF WindowsRemove, Leave, Exit, Forget, Close, Goto, TypeOK
    <3>3. pc'[r] \notin Owning
      BY <1>17 DEF WindowsRemove, Leave, Exit, Forget, Goto, TypeOK
    <3>4. ASSUME NEW s \in Run, s # r, pc[s] \in Owning PROVE path' = fd[s]
      <4>1. path = fd[s] /\ fd[s] # NoFile
        BY <3>1, <3>4 DEF Owned, FileOpen
      <4> QED BY <1>17, <3>1, <4>1 DEF WindowsRemove, Unlinked
    <3> QED BY <3>1, <3>2, <3>3, <3>4 DEF Owned
  <2>6. Systems'
    BY <1>17 DEF WindowsRemove, Leave, Exit, Forget, Close, Unlinked, Goto, TypeOK, FileOpen, Locked, NoLockLeft, Owned, Systems
  <2>7. Named'
    BY <1>17 DEF WindowsRemove, Leave, Exit, Forget, Close, Unlinked, Goto, TypeOK, FileOpen, Locked, NoLockLeft, Owned, Named
  <2>8. RoundLeft'
    BY <1>17 DEF WindowsRemove, Leave, Exit, Forget, Close, Unlinked, Goto, TypeOK, Control, RoundLeft
  <2>9. Released'
    BY <1>17 DEF WindowsRemove, Leave, Exit, Forget, Close, Unlinked, Goto, TypeOK, FileOpen, Owned, Released
  <2> QED BY <2>1, <2>2, <2>3, <2>4, <2>5, <2>6, <2>7, <2>8, <2>9
<1>18. ASSUME NEW r \in Run, Killed(r) PROVE IInv'
  <2>1. TypeOK'
    BY <1>18 DEF Killed, Exit, Forget, Close, Goto, Unlocked, TypeOK, Control, FileOpen
  <2>2. FileOpen'
    BY <1>18 DEF Killed, Exit, Forget, Close, Goto, Unlocked, TypeOK, FileOpen
  <2>3. Locked'
    BY <1>18 DEF Killed, Exit, Forget, Close, Goto, Unlocked, TypeOK, FileOpen, Locked, NoLockLeft
  <2>4. NoLockLeft'
    BY <1>18 DEF Killed, Exit, Forget, Close, Goto, Unlocked, TypeOK, FileOpen, Locked, NoLockLeft
  <2>5. Owned'
    BY <1>18 DEF Killed, Exit, Forget, Close, Goto, Unlocked, TypeOK, FileOpen, Locked, NoLockLeft, Owned
  <2>6. Systems'
    BY <1>18 DEF Killed, Exit, Forget, Close, Goto, Unlocked, TypeOK, FileOpen, Locked, NoLockLeft, Owned, Systems
  <2>7. Named'
    BY <1>18 DEF Killed, Exit, Forget, Close, Goto, Unlocked, TypeOK, FileOpen, Locked, NoLockLeft, Owned, Named
  <2>8. RoundLeft'
    BY <1>18 DEF Killed, Exit, Forget, Close, Goto, Unlocked, TypeOK, Control, RoundLeft
  <2>9. Released'
    BY <1>18 DEF Killed, Exit, Forget, Close, Goto, Unlocked, TypeOK, FileOpen, Owned, Released
  <2> QED BY <2>1, <2>2, <2>3, <2>4, <2>5, <2>6, <2>7, <2>8, <2>9
<1>19. ASSUME NEW r \in Run, RemoveAll(r) PROVE IInv'
  <2>1. TypeOK'
    BY <1>19 DEF RemoveAll, Losers, Unlinked, Goto, TypeOK, Control, FileOpen
  <2>2. FileOpen'
    BY <1>19 DEF RemoveAll, Losers, Unlinked, Goto, TypeOK, FileOpen
  <2>3. Locked'
    BY <1>19 DEF RemoveAll, Losers, Unlinked, Goto, TypeOK, FileOpen, Locked, NoLockLeft
  <2>4. NoLockLeft'
    BY <1>19 DEF RemoveAll, Losers, Unlinked, Goto, TypeOK, FileOpen, Locked, NoLockLeft
  <2>5. Owned'
    BY <1>19 DEF RemoveAll, Losers, Unlinked, Goto, TypeOK, FileOpen, Locked, NoLockLeft, Owned
  <2>6. Systems'
    BY <1>19 DEF RemoveAll, Losers, Unlinked, Goto, TypeOK, FileOpen, Locked, NoLockLeft, Owned, Systems
  <2>7. Named'
    BY <1>19 DEF RemoveAll, Losers, Unlinked, Goto, TypeOK, FileOpen, Locked, NoLockLeft, Owned, Named
  <2>8. RoundLeft'
    BY <1>19 DEF RemoveAll, Losers, Unlinked, Goto, TypeOK, Control, RoundLeft
  <2>9. Released'
    BY <1>19 DEF RemoveAll, Losers, Unlinked, Goto, TypeOK, FileOpen, Owned, Released
  <2> QED BY <2>1, <2>2, <2>3, <2>4, <2>5, <2>6, <2>7, <2>8, <2>9
<1>20. ASSUME NEW r \in Run, Rmdir(r) PROVE IInv'
  <2>1. TypeOK'
    BY <1>20 DEF Rmdir, Goto, TypeOK, Control, FileOpen
  <2>2. FileOpen'
    BY <1>20 DEF Rmdir, Goto, TypeOK, FileOpen
  <2>3. Locked'
    BY <1>20 DEF Rmdir, Goto, TypeOK, FileOpen, Locked, NoLockLeft
  <2>4. NoLockLeft'
    BY <1>20 DEF Rmdir, Goto, TypeOK, FileOpen, Locked, NoLockLeft
  <2>5. Owned'
    BY <1>20 DEF Rmdir, Goto, TypeOK, FileOpen, Locked, NoLockLeft, Owned
  <2>6. Systems'
    BY <1>20 DEF Rmdir, Goto, TypeOK, FileOpen, Locked, NoLockLeft, Owned, Systems
  <2>7. Named'
    BY <1>20 DEF Rmdir, Goto, TypeOK, FileOpen, Locked, NoLockLeft, Owned, Named
  <2>8. RoundLeft'
    BY <1>20 DEF Rmdir, Goto, TypeOK, Control, RoundLeft
  <2>9. Released'
    BY <1>20 DEF Rmdir, Goto, TypeOK, FileOpen, Owned, Released
  <2> QED BY <2>1, <2>2, <2>3, <2>4, <2>5, <2>6, <2>7, <2>8, <2>9
<1>21. ASSUME NEW r \in Run, RemoveRest(r) PROVE IInv'
  <2>1. TypeOK'
    BY <1>21 DEF RemoveRest, Losers, Unlinked, Forget, Close, Goto, TypeOK, Control, FileOpen
  <2>2. FileOpen'
    BY <1>21 DEF RemoveRest, Losers, Unlinked, Forget, Close, Goto, TypeOK, FileOpen
  <2>3. Locked'
    BY <1>21 DEF RemoveRest, Losers, Unlinked, Forget, Close, Goto, TypeOK, FileOpen, Locked, NoLockLeft
  <2>4. NoLockLeft'
    BY <1>21 DEF RemoveRest, Losers, Unlinked, Forget, Close, Goto, TypeOK, FileOpen, Locked, NoLockLeft
  <2>5. Owned'
    BY <1>21 DEF RemoveRest, Losers, Unlinked, Forget, Close, Goto, TypeOK, FileOpen, Locked, NoLockLeft, Owned
  <2>6. Systems'
    BY <1>21 DEF RemoveRest, Losers, Unlinked, Forget, Close, Goto, TypeOK, FileOpen, Locked, NoLockLeft, Owned, Systems
  <2>7. Named'
    BY <1>21 DEF RemoveRest, Losers, Unlinked, Forget, Close, Goto, TypeOK, FileOpen, Locked, NoLockLeft, Owned, Named
  <2>8. RoundLeft'
    BY <1>21 DEF RemoveRest, Losers, Unlinked, Forget, Close, Goto, TypeOK, Control, RoundLeft
  <2>9. Released'
    BY <1>21 DEF RemoveRest, Losers, Unlinked, Forget, Close, Goto, TypeOK, FileOpen, Owned, Released
  <2> QED BY <2>1, <2>2, <2>3, <2>4, <2>5, <2>6, <2>7, <2>8, <2>9
<1> QED BY <1>0, <1>1, <1>2, <1>3, <1>4, <1>5, <1>6, <1>7, <1>8, <1>9, <1>10, <1>11, <1>12, <1>13, <1>14, <1>15, <1>16, <1>17, <1>18, <1>19, <1>20, <1>21 DEF Next, Step

-----------------------------------------------------------------------------
\* The strengthened invariant holds of every behaviour of lockProject and
\* releaseLock.
THEOREM Invariance == Spec => []IInv
<1>1. Init => IInv
  BY InitInv
<1>2. IInv /\ [Next]_vars => IInv'
  BY StepInv
<1> QED BY <1>1, <1>2, PTL DEF Spec

\* Every variable of the project lock keeps its type.
THEOREM TypeCorrect == Spec => []TypeOK
<1>1. IInv => TypeOK
  BY DEF IInv
<1> QED BY Invariance, <1>1, PTL

\* Two runs past their samePath that were not robbed are the same run: both
\* would have the file the name leads to open, and both its lock.
LEMMA OneOwner ==
    ASSUME IInv, NEW r \in Run \ robbed, NEW s \in Run \ robbed,
           pc[r] = "write" \/ UnderLock(r), pc[s] = "write" \/ UnderLock(s)
    PROVE  r = s
<1>1. fd[r] = fd[s]
  BY DEF IInv, Owned, Owning, Systems, UnderLock
<1>2. flock[fd[r]] = r /\ flock[fd[s]] = s
  BY DEF IInv, Locked, HasLock, Owning, UnderLock
<1> QED BY <1>1, <1>2

\* Two runs never work on the project at once, unless an uninstall that no
\* longer has the lock took the file of one of them away.
THEOREM Exclusion == Spec => []MutualExclusion
<1>1. IInv => MutualExclusion
  BY OneOwner DEF MutualExclusion
<1> QED BY Invariance, <1>1, PTL

\* While a run works that no uninstall robbed, the name leads to its file and
\* the file names the run, so that a run refused meanwhile is told by whom.
THEOREM HolderFound == Spec => []HolderIsFound
<1>1. IInv => HolderIsFound
  BY DEF IInv, HolderIsFound, UnderLock, Owned, Owning, Named, Systems
<1> QED BY Invariance, <1>1, PTL

\* No lock outlives its run: nothing has to be taken over.
THEOREM NothingStale == Spec => []NoStaleLock
<1>1. IInv => NoStaleLock
  BY DEF IInv, NoStaleLock, NoLockLeft, HasLock, Owning
<1> QED BY Invariance, <1>1, PTL

\* Windows keeps the project lock whole: an uninstall takes nobody's file, so
\* the three properties hold of every run there.
THEOREM NobodyRobbed == Spec => [](windows => robbed = {})
<1>1. IInv => (windows => robbed = {})
  BY DEF IInv, Systems
<1> QED BY Invariance, <1>1, PTL

\* What an actor has to be to rob a run of its file (uninstallDocker): an
\* uninstall past its lock, or a run robbed before that removes what it takes
\* for its own.
RobbedBy ==
    [][ ~(robbed' \subseteq robbed) =>
        \E r \in Run : RemoveRest(r) \/ (r \in robbed /\ (RemoveAll(r) \/ Remove(r))) ]_vars

\* No step of lockProject or releaseLock of a run that has its file robs
\* another of it, and neither does the first removal of an uninstall.
THEOREM OnlyUninstallRobs == Spec => RobbedBy
<1>1. IInv /\ [Next]_vars =>
        [ ~(robbed' \subseteq robbed) =>
          \E r \in Run : RemoveRest(r) \/ (r \in robbed /\ (RemoveAll(r) \/ Remove(r))) ]_vars
  <2> SUFFICES ASSUME IInv, [Next]_vars, ~(robbed' \subseteq robbed)
               PROVE  \E r \in Run : RemoveRest(r) \/ (r \in robbed /\ (RemoveAll(r) \/ Remove(r)))
    OBVIOUS
  <2>1. PICK r \in Run : Start(r) \/ Step(r) \/ SystemError(r) \/ Killed(r)
    BY DEF Next, vars
  <2>2. RemoveAll(r) \/ Remove(r) \/ RemoveRest(r)
    BY <2>1 DEF Start, Step, SystemError, Killed, Exit, Again, Leave, Open, Create, CreateLost,
                Lock, LockHeld, CheckSame, CheckGone, Truncate, Write, Finish, Rmdir,
                ReleaseCheck, Unlock, CloseFile, WindowsRemove
  <2>3. CASE (RemoveAll(r) \/ Remove(r)) /\ r \notin robbed
    <3>1. path = fd[r] /\ flock[path] = r /\ robbed' = robbed \cup Losers(r)
      BY <2>3 DEF RemoveAll, Remove, IInv, Owned, Locked, HasLock, Owning
    <3>2. \A s \in Run : pc[s] \in Owning /\ fd[s] = path => s = r
      BY <3>1 DEF IInv, Locked, HasLock
    <3>3. Losers(r) = {}
      BY <3>2 DEF Losers
    <3> QED BY <3>1, <3>3
  <2> QED BY <2>2, <2>3
<1> QED BY <1>1, Invariance, PTL DEF Spec, RobbedBy

\* On Unix a run that ends its work has left no file of its own behind, and
\* taken none of another run's.
THEOREM NothingLeft == Spec => GoneWhenDone
<1>1. IInv /\ [Next]_vars => [ \A r \in Run : ~windows =>
          /\ pc[r] = "close" /\ pc'[r] # "close" => path # fd[r]
          /\ pc[r] = "remove" /\ pc'[r] = "unlock" /\ r \notin robbed => path = fd[r] ]_vars
  BY DEF IInv, Released, Owned, Owning
<1> QED BY <1>1, Invariance, PTL DEF Spec, GoneWhenDone

\* The project lock implements OneRun for the runs that no uninstall robbed:
\* those that work change as one run that begins when none does, or as the one
\* that ends, or loses its file.
THEOREM Refinement == Spec => KeepsThePromise
<1> DEFINE working == {r \in Run \ robbed : UnderLock(r)}
<1>1. Init => Promise!Init
  BY DEF Init, UnderLock, Promise!Init
<1>2. IInv /\ [Next]_vars => [Promise!Next]_working
  <2> SUFFICES ASSUME IInv, [Next]_vars, working' # working PROVE Promise!Next
    BY DEF Promise!Next
  <2>0. windows' = windows
    BY DEF Next, vars
  <2>1. PICK r \in Run : Start(r) \/ Step(r) \/ SystemError(r) \/ Killed(r)
    BY DEF Next, vars, UnderLock
  <2>2. \A s \in Run \ {r} : pc'[s] = pc[s] /\ (s \in robbed => s \in robbed')
    BY <2>1 DEF Start, Step, SystemError, Killed, Goto, Exit, Forget, Again, Leave, Open, Create,
                CreateLost, Lock, LockHeld, CheckSame, CheckGone, Truncate, Write, Finish,
                RemoveAll, Rmdir, ReleaseCheck, Remove, Unlock, CloseFile, WindowsRemove,
                RemoveRest, IInv, TypeOK
  <2>3. working' \subseteq working \cup {r}
    BY <2>0, <2>2 DEF UnderLock
  <2>4. CASE r \in working' /\ r \notin working
    <3>1. Write(r)
      <4>1. pc'[r] \in {"held", "rmdir"} /\ r \notin robbed'
        BY <2>4 DEF UnderLock
      <4>2. Write(r) \/ RemoveAll(r)
        BY <2>1, <4>1 DEF Start, Step, SystemError, Killed, Goto, Exit, Forget, Again, Leave, Open,
                Create, CreateLost, Lock, LockHeld, CheckSame, CheckGone, Truncate, Finish,
                Rmdir, ReleaseCheck, Remove, Unlock, CloseFile, WindowsRemove,
                RemoveRest, IInv, TypeOK
      <4>3. ASSUME RemoveAll(r) PROVE FALSE
        BY <2>4, <4>1, <4>3 DEF RemoveAll, UnderLock
      <4> QED BY <4>2, <4>3
    <3>2. pc[r] = "write" /\ r \notin robbed /\ robbed' = robbed
      BY <2>4, <3>1 DEF Write
    <3>3. working = {}
      BY <2>4, <3>2, OneOwner
    <3>4. working' = {r}
      BY <2>3, <2>4, <3>3
    <3> QED BY <3>3, <3>4 DEF Promise!Next, Promise!Begin
  <2>5. CASE ~(r \in working' /\ r \notin working)
    <3>1. PICK s \in working : s \notin working'
      BY <2>3, <2>5
    <3>2. working = {s}
      BY <3>1, OneOwner
    <3>3. working' = {}
      BY <2>3, <2>5, <3>1, <3>2
    <3> QED BY <3>1, <3>2, <3>3 DEF Promise!Next, Promise!End
  <2> QED BY <2>4, <2>5
<1> QED BY <1>1, <1>2, Invariance, PTL DEF Spec, KeepsThePromise, Promise!Spec

=============================================================================

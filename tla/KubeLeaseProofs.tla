--------------------------- MODULE KubeLeaseProofs ---------------------------
(***************************************************************************)
(* Proofs about KubeLease, for any number of runs and attempts.            *)
(*                                                                         *)
(* The argument: every run writes the lease at most once, so the name a    *)
(* run read from a stale lease can only come back if that very lease is    *)
(* still there, and still stale (Writers): the resourceVersion of the code *)
(* replaces no other.  As long as no run outlives its lease, a stale lease *)
(* names a run that is over, so no lease of a run that holds or gives up   *)
(* is ever replaced, and giveUp deletes its own (Holders).                 *)
(***************************************************************************)
EXTENDS KubeLease, TLAPS

\* The runs that have written the lease; none does so twice.
Wrote == Holding \cup {"over"}

Writers ==
    /\ lease # NoRun => pc[lease] \in Wrote
    /\ \A r \in Run : pc[r] = "replace" =>
          seen[r] \in Run /\ pc[seen[r]] \in Wrote /\ (lease = seen[r] => stale)

\* A run between the write of the lease and the end of giveUp has the lease,
\* and a stale lease is that of a run that is over.
Holders ==
    /\ \A r \in Run : pc[r] \in Holding => lease = r
    /\ stale => lease \in Run /\ pc[lease] = "over"

-----------------------------------------------------------------------------
\* The first state has neither a lease nor a run that works.
LEMMA TypeInit == Init => TypeOK
<1> SUFFICES ASSUME Init PROVE TypeOK
  OBVIOUS
<1>1. 0 \in 0 .. MaxTries
  BY LeaseConstants
<1> QED BY <1>1 DEF Init, TypeOK

\* The next attempt of a run keeps the types (acquireKubeLease's loop).
LEMMA NextTryType ==
    ASSUME TypeOK, NEW r \in Run, NextTry(r)
    PROVE  /\ pc' \in [Run -> Holding \cup {"idle", "create", "read", "replace", "over"}]
           /\ tries' \in [Run -> 0 .. MaxTries]
<1>1. CASE tries[r] < MaxTries
  BY <1>1, LeaseConstants DEF TypeOK, NextTry, Goto
<1>2. CASE ~ (tries[r] < MaxTries)
  BY <1>2 DEF TypeOK, NextTry, Goto
<1> QED BY <1>1, <1>2

\* Every step keeps the types, the attempts bounded by MaxTries included.
LEMMA TypeStep == TypeOK /\ [Next]_vars => TypeOK'
<1> SUFFICES ASSUME TypeOK, [Next]_vars PROVE TypeOK'
  OBVIOUS
<1>1. CASE UNCHANGED vars
  BY <1>1 DEF TypeOK, vars
<1>2. CASE Expire
  BY <1>2 DEF Expire, TypeOK
<1>3. ASSUME NEW r \in Run, Start(r) \/ Step(r) \/ Over(r) PROVE TypeOK'
  <2>1. CASE Start(r)
    BY <2>1, NextTryType DEF Start, TypeOK
  <2>2. CASE Create(r)
    BY <2>2 DEF Create, Write, Goto, TypeOK, Holding
  <2>3. CASE CreateExists(r) \/ ReadHeld(r) \/ Finish(r) \/ GiveUpRead(r) \/ Over(r)
    BY <2>3 DEF CreateExists, ReadHeld, Finish, GiveUpRead, Over, Goto, TypeOK, Holding
  <2>4. CASE ReadGone(r) \/ ReplaceConflict(r)
    BY <2>4, NextTryType DEF ReadGone, ReplaceConflict, TypeOK
  <2>5. CASE ReadLeft(r)
    BY <2>5 DEF ReadLeft, Goto, TypeOK, Holding
  <2>6. CASE Replace(r)
    BY <2>6 DEF Replace, Write, Goto, TypeOK, Holding
  <2>7. CASE GiveUpDelete(r)
    BY <2>7 DEF GiveUpDelete, Write, Goto, TypeOK, Holding
  <2> QED BY <1>3, <2>1, <2>2, <2>3, <2>4, <2>5, <2>6, <2>7 DEF Step
<1> QED BY <1>1, <1>2, <1>3 DEF Next

\* kubeLease is always a record of the shape the code gives it, and no run
\* makes more than MaxTries attempts.
THEOREM TypeCorrect == Spec => []TypeOK
BY TypeInit, TypeStep, PTL DEF Spec

\* A run that has written the lease never comes back to writing it, and one
\* that is over stays so: nothing restarts it under the same name.
LEMMA WroteStays ==
    ASSUME TypeOK, [Next]_vars, NEW s \in Run, pc[s] \in Wrote
    PROVE  pc'[s] \in Wrote /\ (pc[s] = "over" => pc'[s] = "over")
<1>1. CASE UNCHANGED vars \/ Expire
  BY <1>1 DEF vars, Expire
<1>2. ASSUME NEW r \in Run, Start(r) \/ Step(r) \/ Over(r)
      PROVE  pc'[s] \in Wrote /\ (pc[s] = "over" => pc'[s] = "over")
  BY <1>2 DEF Start, Step, Over, Create, CreateExists, ReadGone, ReadHeld, ReadLeft, Replace,
     ReplaceConflict, Finish, GiveUpRead, GiveUpDelete, NextTry, Goto, TypeOK, Wrote, Holding
<1> QED BY <1>1, <1>2 DEF Next

\* The step of one run leaves every other where it was.
LEMMA OthersStay ==
    ASSUME TypeOK, NEW r \in Run, Start(r) \/ Step(r) \/ Over(r), NEW s \in Run \ {r}
    PROVE  pc'[s] = pc[s] /\ seen'[s] = seen[s]
BY DEF Start, Step, Over, Create, CreateExists, ReadGone, ReadHeld, ReadLeft, Replace,
       ReplaceConflict, Finish, GiveUpRead, GiveUpDelete, NextTry, Goto, TypeOK

\* Only ReadLeft brings a run to the replace, and only a write to the lease.
LEMMA OtherSteps ==
    ASSUME TypeOK, NEW r \in Run, Start(r) \/ Step(r) \/ Over(r)
    PROVE  /\ pc'[r] = "replace" => ReadLeft(r)
           /\ Create(r) \/ Replace(r) \/ GiveUpDelete(r) \/ UNCHANGED <<lease, stale>>
           /\ pc'[r] \in Holding => Create(r) \/ Replace(r) \/ pc[r] \in Holding
BY DEF Start, Step, Over, Create, CreateExists, ReadGone, ReadHeld, ReadLeft, Replace,
       ReplaceConflict, Finish, GiveUpRead, GiveUpDelete, NextTry, Goto, TypeOK, Holding

\* The writers' part of the invariant does not depend on how long runs work.
LEMMA WritersStep ==
    ASSUME TypeOK, Writers, [Next]_vars PROVE Writers'
<1>0. \A s \in Run : pc[s] \in Wrote => pc'[s] \in Wrote
  BY WroteStays
<1>1. CASE UNCHANGED vars \/ Expire
  BY <1>1 DEF vars, Expire, Writers
<1>2. ASSUME NEW r \in Run, Start(r) \/ Step(r) \/ Over(r) PROVE Writers'
  <2>1. \A s \in Run \ {r} : pc'[s] = pc[s] /\ seen'[s] = seen[s]
    BY <1>2, OthersStay
  <2>2. CASE UNCHANGED <<lease, stale>>
    <3>1. lease' # NoRun => pc'[lease'] \in Wrote
      BY <1>0, <2>2 DEF Writers, TypeOK
    <3>2. pc'[r] = "replace" => seen'[r] = lease /\ lease \in Run /\ stale
      BY <1>2, OtherSteps DEF ReadLeft, TypeOK
    <3> QED BY <1>0, <2>1, <2>2, <3>1, <3>2, LeaseConstants DEF Writers
  <2>3. CASE Create(r) \/ Replace(r)
    <3>1. lease' = r /\ pc[r] \in {"create", "replace"} /\ pc'[r] \in {"held", "over"}
      BY <2>3 DEF Create, Replace, Write, Goto, TypeOK
    <3>2. \A s \in Run \ {r} : pc[s] = "replace" => seen[s] # r
      BY <3>1 DEF Writers, Wrote, Holding
    <3>3. lease' # NoRun => pc'[lease'] \in Wrote
      BY <3>1 DEF Wrote, Holding
    <3>4. \A s \in Run : pc'[s] = "replace" => s # r
      BY <3>1
    <3> QED BY <1>0, <2>1, <3>1, <3>2, <3>3, <3>4 DEF Writers
  <2>4. CASE GiveUpDelete(r)
    <3>1. lease' = NoRun /\ pc'[r] = "over"
      BY <2>4 DEF GiveUpDelete, Write, Goto, TypeOK
    <3> QED BY <1>0, <2>1, <3>1, LeaseConstants DEF Writers
  <2> QED BY <1>2, <2>2, <2>3, <2>4, OtherSteps
<1> QED BY <1>1, <1>2 DEF Next

\* Who has written the lease, and which lease a run is about to replace.
THEOREM WritersInvariance == Spec => [](TypeOK /\ Writers)
<1>1. Init => TypeOK /\ Writers
  BY TypeInit DEF Init, Writers
<1>2. TypeOK /\ Writers /\ [Next]_vars => (TypeOK /\ Writers)'
  BY TypeStep, WritersStep
<1> QED BY <1>1, <1>2, PTL DEF Spec

\* Leases pass only from runs that are over (Replace), or from the run that
\* deletes its own (giveUp).
LEMMA HoldersStep ==
    ASSUME Overrun = FALSE, TypeOK, Writers, Holders, [Next]_vars PROVE Holders'
<1>0. \A s \in Run : pc[s] = "over" => pc'[s] = "over"
  BY WroteStays DEF Wrote
<1>1. CASE UNCHANGED vars
  BY <1>1 DEF vars, Holders
<1>2. CASE Expire
  BY <1>2 DEF Expire, Holders, TypeOK
<1>3. ASSUME NEW r \in Run, Start(r) \/ Step(r) \/ Over(r) PROVE Holders'
  <2>1. \A s \in Run \ {r} : pc'[s] = pc[s]
    BY <1>3, OthersStay
  <2>2. CASE Create(r) \/ Replace(r)
    <3>1. lease' = r /\ stale' = FALSE
      BY <2>2 DEF Create, Replace, Write
    <3>2. \A s \in Run : pc[s] \notin Holding
      BY <2>2, LeaseConstants DEF Create, Replace, Holders, Writers, Holding
    <3> QED BY <2>1, <3>1, <3>2 DEF Holders
  <2>3. CASE GiveUpDelete(r)
    <3>1. stale' = FALSE /\ pc'[r] = "over"
      BY <2>3 DEF GiveUpDelete, Write, Goto, TypeOK
    <3>2. \A s \in Run \ {r} : pc[s] \notin Holding
      BY <2>3 DEF GiveUpDelete, Holders, Holding
    <3> QED BY <2>1, <3>1, <3>2 DEF Holders, Holding
  <2>4. CASE UNCHANGED <<lease, stale>> /\ ~ Create(r) /\ ~ Replace(r)
    <3>1. pc'[r] \in Holding => pc[r] \in Holding
      BY <1>3, <2>4, OtherSteps
    <3> QED BY <1>0, <2>1, <2>4, <3>1 DEF Holders
  <2> QED BY <1>3, <2>2, <2>3, <2>4, OtherSteps
<1> QED BY <1>1, <1>2, <1>3 DEF Next

IInv == TypeOK /\ Writers /\ Holders

\* While runs do not outlive their leases, the strengthening holds for ever.
THEOREM Invariance == ASSUME Overrun = FALSE PROVE Spec => []IInv
<1>1. Init => Holders
  BY DEF Init, Holders, Holding
<1>2. TypeOK /\ Writers /\ Holders /\ [Next]_vars => Holders'
  BY HoldersStep
<1> QED BY <1>1, <1>2, WritersInvariance, PTL DEF Spec, IInv

\* While a run works, the ConfigMap names it (acquireKubeLease).
THEOREM HolderNamed == Spec => []HolderHasLease
<1>1. CASE Overrun = FALSE
  <2>1. IInv => HolderHasLease
    BY DEF IInv, Holders, HolderHasLease, Holding
  <2> QED BY <1>1, <2>1, Invariance, PTL
<1>2. CASE Overrun = TRUE
  <2>1. HolderHasLease
    BY <1>2 DEF HolderHasLease
  <2> QED BY <2>1, PTL
<1> QED BY <1>1, <1>2, LeaseConstants

\* No run writes its name over a lease that is not left behind, however long
\* the runs work: the one it read stale is not there any more.
THEOREM OnlyStale == Spec => OnlyStaleReplaced
<1>1. TypeOK /\ Writers /\ [Next]_vars => [lease # NoRun /\ ~stale => lease' \in {lease, NoRun}]_vars
  <2> SUFFICES ASSUME TypeOK, Writers, [Next]_vars, lease # NoRun, ~stale
               PROVE  lease' \in {lease, NoRun}
    OBVIOUS
  <2>1. CASE UNCHANGED vars \/ Expire
    BY <2>1 DEF vars, Expire
  <2>2. ASSUME NEW r \in Run, Start(r) \/ Step(r) \/ Over(r) PROVE lease' \in {lease, NoRun}
    <3>1. ~ Create(r) /\ ~ Replace(r)
      BY DEF Create, Replace, Writers
    <3> QED BY <2>2, <3>1, OtherSteps DEF GiveUpDelete, Write
  <2> QED BY <2>1, <2>2 DEF Next
<1> QED BY <1>1, WritersInvariance, PTL DEF Spec, OnlyStaleReplaced

\* The lease keeps the promise of OneRun: at most one run works on the events
\* table, as long as none outlives its lease.
THEOREM Refinement == ASSUME Overrun = FALSE PROVE Spec => KeepsThePromise
<1> DEFINE working == {r \in Run : pc[r] = "held"}
<1>1. Init => Promise!Init
  BY DEF Init, Promise!Init
<1>2. IInv /\ [Next]_vars => [Promise!Next]_working
  <2> SUFFICES ASSUME IInv, [Next]_vars, working' # working PROVE Promise!Next
    BY DEF Promise!Next
  <2> USE DEF IInv
  <2>1. PICK r \in Run : Start(r) \/ Step(r) \/ Over(r)
    BY DEF Next, vars, Expire
  <2>2. \A s \in Run \ {r} : pc'[s] = pc[s]
    BY <2>1, OthersStay
  <2>3. CASE pc[r] = "held"
    <3>1. \A s \in Run \ {r} : pc[s] # "held"
      BY <2>3 DEF Holders, Holding
    <3>2. pc'[r] # "held"
      BY <2>2, <2>3
    <3>3. working = {r} /\ working' = {}
      BY <2>2, <2>3, <3>1, <3>2
    <3> QED BY <3>3 DEF Promise!Next, Promise!End
  <2>4. CASE pc[r] # "held"
    <3>1. pc'[r] = "held"
      BY <2>2, <2>4
    <3>2. Create(r) \/ Replace(r)
      BY <2>1, <2>4, <3>1 DEF Start, Step, Over, CreateExists, ReadGone, ReadHeld, ReadLeft,
         ReplaceConflict, Finish, GiveUpRead, GiveUpDelete, NextTry, Goto, TypeOK
    <3>3. \A s \in Run \ {r} : pc[s] # "held"
      BY <3>2, LeaseConstants DEF Create, Replace, Holders, Writers, Holding
    <3>4. working = {} /\ working' = {r}
      BY <2>2, <2>4, <3>1, <3>3
    <3> QED BY <3>4 DEF Promise!Next, Promise!Begin
  <2> QED BY <2>3, <2>4
<1> QED BY <1>1, <1>2, Invariance, PTL DEF Spec, KeepsThePromise, Promise!Spec

=============================================================================

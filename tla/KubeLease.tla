----------------------------- MODULE KubeLease -----------------------------
(***************************************************************************)
(* The lease that keeps two runs off the events table of a Kubernetes      *)
(* plane: acquireKubeLease of kube_lock.go.  The lease is the ConfigMap    *)
(* origamy-reset-lock; a run is named in it by host, pid and a random part *)
(* (newLeaseHolder), so every process is a holder of its own and writes    *)
(* the lease at most once: the holder stands for the resourceVersion too.  *)
(*                                                                         *)
(* Every kubectl call is a step; its answer may be lost whether or not it  *)
(* took effect (kubeRequestTimeout).  A run may be killed at any step; its *)
(* lease stays until another run finds it kubeLeaseStale (45 minutes) old. *)
(***************************************************************************)
EXTENDS Naturals

CONSTANTS
    Run,        \* the processes that are ever started
    NoRun,
    MaxTries,   \* acquireKubeLease's attempts (3 in the code)
    Overrun     \* a run may outlive its lease: it works for longer than
                \* kubeLeaseStale, or another host's clock is that far ahead

ASSUME LeaseConstants ==
    /\ NoRun \notin Run
    /\ MaxTries \in Nat \ {0}
    /\ Overrun \in BOOLEAN

VARIABLES
    lease,   \* the holder the ConfigMap names, NoRun when there is none
    stale,   \* the lease is kubeLeaseStale old
    pc,      \* per run: where it is
    tries,   \* per run: attempts begun
    seen     \* per run: the left-behind lease it read

vars == <<lease, stale, pc, tries, seen>>

\* From the write of the lease to the end of giveUp.
Holding == {"held", "giveup", "delete"}

TypeOK ==
    /\ lease \in Run \cup {NoRun}
    /\ stale \in BOOLEAN
    /\ pc \in [Run -> Holding \cup {"idle", "create", "read", "replace", "over"}]
    /\ tries \in [Run -> 0 .. MaxTries]
    /\ seen \in [Run -> Run \cup {NoRun}]

Init ==
    /\ lease = NoRun
    /\ stale = FALSE
    /\ pc = [r \in Run |-> "idle"]
    /\ tries = [r \in Run |-> 0]
    /\ seen = [r \in Run |-> NoRun]

-----------------------------------------------------------------------------
Goto(r, l) == pc' = [pc EXCEPT ![r] = l]

Write(h) == lease' = h /\ stale' = FALSE

\* The next attempt, or "it keeps changing hands".
NextTry(r) ==
    IF tries[r] < MaxTries
    THEN Goto(r, "create") /\ tries' = [tries EXCEPT ![r] = @ + 1]
    ELSE Goto(r, "over") /\ UNCHANGED tries

Start(r) ==
    /\ pc[r] = "idle"
    /\ NextTry(r)
    /\ UNCHANGED <<lease, stale, seen>>

\* kubectl create fails when the ConfigMap exists, so one run wins; a run
\* that does not get the answer fails, with the lease in its name.
Create(r) ==
    /\ pc[r] = "create"
    /\ lease = NoRun
    /\ Write(r)
    /\ Goto(r, "held") \/ Goto(r, "over")
    /\ UNCHANGED <<tries, seen>>

CreateExists(r) ==
    /\ pc[r] = "create"
    /\ lease # NoRun
    /\ Goto(r, "read")
    /\ UNCHANGED <<lease, stale, tries, seen>>

\* Given up between the two calls: take it.
ReadGone(r) ==
    /\ pc[r] = "read"
    /\ lease = NoRun
    /\ NextTry(r)
    /\ UNCHANGED <<lease, stale, seen>>

\* kubeLeaseHeld: another run works.
ReadHeld(r) ==
    /\ pc[r] = "read"
    /\ lease # NoRun /\ ~stale
    /\ Goto(r, "over")
    /\ UNCHANGED <<lease, stale, tries, seen>>

\* Mutant of ReadLeft: the age of the lease is not looked at.
ReadLeftAnyAge(r) ==
    /\ pc[r] = "read"
    /\ lease # NoRun
    /\ seen' = [seen EXCEPT ![r] = lease]
    /\ Goto(r, "replace")
    /\ UNCHANGED <<lease, stale, tries>>

ReadLeft(r) ==
    /\ pc[r] = "read"
    /\ lease # NoRun /\ stale
    /\ seen' = [seen EXCEPT ![r] = lease]
    /\ Goto(r, "replace")
    /\ UNCHANGED <<lease, stale, tries>>

\* Mutant of Replace: no resourceVersion in the manifest.
ReplaceAny(r) ==
    /\ pc[r] = "replace"
    /\ lease # NoRun
    /\ Write(r)
    /\ Goto(r, "held") \/ Goto(r, "over")
    /\ UNCHANGED <<tries, seen>>

\* kubectl replace at the resourceVersion read: one run takes the lease over.
Replace(r) ==
    /\ pc[r] = "replace"
    /\ lease = seen[r]
    /\ Write(r)
    /\ Goto(r, "held") \/ Goto(r, "over")
    /\ UNCHANGED <<tries, seen>>

\* "conflict", "not found": another run was first.
ReplaceConflict(r) ==
    /\ pc[r] = "replace"
    /\ lease # seen[r]
    /\ NextTry(r)
    /\ UNCHANGED <<lease, stale, seen>>

\* The run's work is over, however it ends (onExit).
Finish(r) ==
    /\ pc[r] = "held"
    /\ Goto(r, "giveup")
    /\ UNCHANGED <<lease, stale, tries, seen>>

\* giveUp reads whose the lease is ...
GiveUpRead(r) ==
    /\ pc[r] = "giveup"
    /\ Goto(r, IF lease = r THEN "delete" ELSE "over")
    /\ UNCHANGED <<lease, stale, tries, seen>>

\* ... and deletes it by its name.
GiveUpDelete(r) ==
    /\ pc[r] = "delete"
    /\ Write(NoRun)
    /\ Goto(r, "over")
    /\ UNCHANGED <<tries, seen>>

\* A call that failed without effect, or the run was killed: it is over.
Over(r) ==
    /\ pc[r] \notin {"idle", "over"}
    /\ Goto(r, "over")
    /\ UNCHANGED <<lease, stale, tries, seen>>

\* kubeLeaseStale passes.
Expire ==
    /\ lease # NoRun /\ ~stale
    /\ Overrun \/ pc[lease] = "over"
    /\ stale' = TRUE
    /\ UNCHANGED <<lease, pc, tries, seen>>

Step(r) ==
    \/ Create(r) \/ CreateExists(r) \/ ReadGone(r) \/ ReadHeld(r) \/ ReadLeft(r)
    \/ Replace(r) \/ ReplaceConflict(r) \/ Finish(r) \/ GiveUpRead(r) \/ GiveUpDelete(r)

Next == (\E r \in Run : Start(r) \/ Step(r) \/ Over(r)) \/ Expire

Spec == Init /\ [][Next]_vars

-----------------------------------------------------------------------------
(***************************************************************************)
(* What holds of it.                                                       *)
(***************************************************************************)

\* "Only the run's own lease is given up" and nobody takes a working run's
\* over (acquireKubeLease): while a run works, the ConfigMap names it, so
\* every run that starts is refused, whatever answers were lost and however
\* many runs found an older lease left behind at once.
HolderHasLease == ~Overrun => \A r \in Run : pc[r] = "held" => lease = r

\* "Replaced in the one step that also checks nobody else replaced it
\* first": no run writes its name over a lease that is not left behind, not
\* even one that found an older lease stale before this one was written.
OnlyStaleReplaced == [][ lease # NoRun /\ ~stale => lease' \in {lease, NoRun} ]_vars

\* The lease keeps the promise of OneRun, while runs do not outlive it.
Promise == INSTANCE OneRun WITH working <- {r \in Run : pc[r] = "held"}

KeepsThePromise == Promise!Spec

\* "giveUp gives it up (once; only if it is still this run's)": the lease of
\* a run that works is never deleted.  The code does not keep it when the
\* lease changes hands between giveUp's read and its delete.
WorkingLeaseStays == [][ lease # NoRun /\ pc[lease] = "held" => lease' # NoRun ]_vars

=============================================================================

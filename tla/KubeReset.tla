------------------------------ MODULE KubeReset ------------------------------
(***************************************************************************)
(* The storage reset of a Kubernetes plane: `origamy upgrade`              *)
(* (upgradeKubernetes, resetKubernetesEvents), `origamy rollback`          *)
(* (rollbackKubernetes) and an in-place `origamy deploy`                   *)
(* (kubeDeployProblem, applyKubernetes) moving a release across it.        *)
(*                                                                         *)
(* Several runs work on the cluster at once.  One that can touch the       *)
(* events table holds the lease (KubeLease) from its questions to its end; *)
(* any other takes none, and decided that it needs none from what it read  *)
(* at its start.  What a run decided dies with it; what survives is        *)
(* ClickHouse, the release, the schema Job, and the ConfigMap that records *)
(* an unfinished reset (the marker).  At any step a run may stop: it is    *)
(* killed, the operator says no, the call of the step fails, or its check  *)
(* refuses (Stop).  An error that leaves something behind is an action of  *)
(* its own.                                                                *)
(***************************************************************************)
EXTENDS Naturals, FiniteSets

CONSTANTS
    Run,        \* the runs that may be under way at once
    Commands,   \* what they run, of {"upgrade", "rollback", "deploy"}
    Targets,    \* the releases they move to, of {"old", "new"}
    AsideName,  \* the names events_pre_reset_<unix time>
    NoName,     \* no such name
    Nobody      \* no run: a lease that is free, or old enough to be taken over

ASSUME KubeConstants ==
    /\ Commands \subseteq {"upgrade", "rollback", "deploy"}
    /\ Targets \subseteq {"old", "new"}
    /\ NoName \notin AsideName
    /\ Nobody \notin Run

VARIABLES
    events,    \* the events table ClickHouse holds
    aside,     \* per name: the table a reset moved there
    lost,      \* the tables that were dropped
    marker,    \* the ConfigMap origamy-reset-pending
    installed, \* the release helm has
    running,   \* what the specs of the data-plane services write
    job,       \* the schema a Job of the chart is still to apply
    lease,     \* who holds the lease on the events table
    pc,        \* per run: its step
    me,        \* per run: what it has decided
    disturbed  \* the table or the release was changed by a hand the lease does
               \* not hold off

cluster == <<events, aside, lost, marker, installed, running, job>>
vars == <<cluster, lease, pc, me, disturbed>>

Schema == {"string", "json"}
Live == Schema \cup {"missing", "other"}

\* releaseSchemaGeneration; "main" is an installed tag of an unknown one.
Gen(t) == CASE t = "old" -> "string" [] t = "new" -> "json" [] OTHER -> "unknown"

\* A table moved aside, and whether its operator agreed to discard it.
Table == [gen : Live \cup {"none"}, agreed : BOOLEAN]
NoTable == [gen |-> "none", agreed |-> FALSE]

\* kubeMarker: the action says whether the operator agreed to discard the table
\* that is moved to the name.
NoMarker == [action |-> "none", name |-> NoName]
Create == [action |-> "create", name |-> NoName]
Marker == {NoMarker, Create} \cup [action : {"reset"}, name : AsideName]

Present(m) == m # NoMarker

\* mayDrop.
MayDrop(m, n) == m.action = "reset" /\ m.name = n

Step == {"idle", "look", "lease", "reread", "ask", "record", "helm", "probe",
         "move", "apply", "verify", "settle", "check", "clear"}

NoRun == [cmd |-> "upgrade", target |-> "old", denied |-> FALSE, relevant |-> FALSE,
          rec |-> NoMarker, prev |-> NoMarker, found |-> "none", agreed |-> FALSE,
          moved |-> NoName, clears |-> FALSE]

Decisions ==
    [cmd : {"upgrade", "rollback", "deploy"}, target : {"old", "new"},
     denied : BOOLEAN,                      \* it may not read ConfigMaps
     relevant : BOOLEAN,                    \* it can touch the events table
     rec : Marker, prev : Marker,           \* the record now, and before this run's
     found : Live \cup {"none"},            \* what ClickHouse held when it was asked
     agreed : BOOLEAN,                      \* the operator agreed to discard it
     moved : AsideName \cup {NoName},       \* where this run moved it
     clears : BOOLEAN]                      \* it did or finished a reset

TypeOK ==
    /\ events \in Live
    /\ aside \in [AsideName -> Table]
    /\ lost \subseteq Table
    /\ marker \in Marker
    /\ installed \in {"old", "new", "main"}
    /\ running \in Schema \cup {"mixed", "unknown"}
    /\ job \in Schema \cup {"none"}
    /\ lease \in Run \cup {Nobody}
    /\ pc \in [Run -> Step]
    /\ me \in [Run -> Decisions]
    /\ disturbed \in BOOLEAN

\* A release in any condition its operator left it in.
Init ==
    /\ events \in Live
    /\ aside = [n \in AsideName |-> NoTable]
    /\ lost = {}
    /\ marker = NoMarker
    /\ installed \in Targets \cup {"main"}
    /\ running = Gen(installed)
    /\ job = "none"
    /\ lease = Nobody
    /\ pc = [r \in Run |-> "idle"]
    /\ me = [r \in Run |-> NoRun]
    /\ disturbed = FALSE

-----------------------------------------------------------------------------
(***************************************************************************)
(* What a run derives from what it read.                                   *)
(***************************************************************************)

\* movesAcrossReset.
Crosses(from, to) == from # to /\ Gen(from) # Gen(to)

\* kubeResetAction, drop or create.
Resets(m) == m.cmd = "upgrade" /\ Gen(m.target) = "json" /\ m.found \in {"string", "missing"}

\* The table is there already: what an earlier run recorded is to be finished.
Finishes(m) == m.cmd = "upgrade" /\ m.found = "json" /\ Present(m.rec)

\* Mutant of OverMarker: an upgrade to a release before the reset goes on.
OverMarkerUpgrades(m, record) == Present(record) /\ m.cmd # "upgrade"

\* A record that refuses the run: markerRefusal, kubeDeployProblem, planRollback.
OverMarker(m, record) ==
    Present(record) /\ (m.cmd # "upgrade" \/ Gen(m.target) # "json")

\* What ClickHouse holds refuses the run.
Refused(m, held) ==
    \/ held = "other"
    \/ held = "json" /\ Gen(m.target) = "string"
    \/ held = "string" /\ Gen(m.target) = "json" /\ m.cmd # "upgrade"

Goto(r, l) == pc' = [pc EXCEPT ![r] = l]

Free == {n \in AsideName : aside[n] = NoTable}

\* chooseAside, and the name resetKubernetesEvents moves the table to.
Names(reserved) == IF reserved \in Free THEN {reserved} ELSE Free

\* The run ends and gives up its lease, if it is still its own.
End(r) ==
    /\ Goto(r, "idle")
    /\ me' = [me EXCEPT ![r] = NoRun]
    /\ lease' = IF lease = r THEN Nobody ELSE lease

-----------------------------------------------------------------------------
(***************************************************************************)
(* Before anything is touched.                                             *)
(***************************************************************************)

\* The revision and the record are read, the latter unless it is denied.
Begin(r, c, t) ==
    /\ pc[r] = "idle"
    /\ \E denied \in BOOLEAN :
          LET m == [NoRun EXCEPT !.cmd = c, !.target = t, !.denied = denied,
                                 !.rec = IF denied THEN NoMarker ELSE marker]
          IN  /\ ~OverMarker(m, m.rec)
              /\ me' = [me EXCEPT ![r] = m]
    /\ Goto(r, "look")
    /\ UNCHANGED <<cluster, lease, disturbed>>

\* The images of the installed release say whether the run can touch the
\* table; ones that cannot be told (none, a digest, a pin that goes) say so too.
Look(r) ==
    /\ pc[r] = "look"
    /\ \E untold \in BOOLEAN :
          LET relevant == Present(me[r].rec) \/ Crosses(installed, me[r].target) \/ untold
          IN  /\ ~(relevant /\ me[r].denied)
              /\ me' = [me EXCEPT ![r].relevant = relevant, ![r].denied = FALSE,
                                  ![r].rec = NoMarker]
              /\ Goto(r, IF relevant THEN "lease" ELSE "helm")
    /\ UNCHANGED <<cluster, lease, disturbed>>

\* Mutant of Acquire: a lease that is held is taken all the same.
AcquireAnyway(r) ==
    /\ pc[r] = "lease"
    /\ lease' = r
    /\ Goto(r, "reread")
    /\ UNCHANGED <<cluster, me, disturbed>>

\* acquireKubeLease.
Acquire(r) ==
    /\ pc[r] = "lease"
    /\ lease = Nobody
    /\ lease' = r
    /\ Goto(r, "reread")
    /\ UNCHANGED <<cluster, me, disturbed>>

\* What another run did before the lease was ours is read now.
Reread(r) ==
    /\ pc[r] = "reread"
    /\ ~OverMarker(me[r], marker)
    /\ me' = [me EXCEPT ![r].rec = marker]
    /\ Goto(r, "ask")
    /\ UNCHANGED <<cluster, lease, disturbed>>

\* askKubeClickHouse, and confirmResetDetails: an operator who does not agree
\* that a table is discarded ends the run (Stop).
Ask(r) ==
    /\ pc[r] = "ask"
    /\ ~Refused(me[r], events)
    /\ LET m == [me[r] EXCEPT !.found = events]
       IN  /\ me' = [me EXCEPT ![r] = [m EXCEPT !.agreed = Resets(m) /\ m.found = "string"]]
           /\ Goto(r, IF Resets(m) THEN "record" ELSE "helm")
    /\ UNCHANGED <<cluster, lease, disturbed>>

-----------------------------------------------------------------------------
(***************************************************************************)
(* The record, and the chart.                                              *)
(***************************************************************************)

\* Mutant of Records: a create takes over the name of an earlier record, and
\* not what its operator agreed to.
RecordsNameOnly(m) ==
    IF m.found = "string"
    THEN {[action |-> "reset", name |-> n] : n \in Names(m.rec.name)}
    ELSE {[action |-> "create", name |-> m.rec.name]}

\* What a run records: a create keeps the agreement of an earlier record.
Records(m) ==
    CASE m.found = "string" ->
             {[action |-> "reset", name |-> n] : n \in Names(m.rec.name)}
      [] m.found # "string" /\ m.rec.action = "reset" -> {m.rec}
      [] OTHER -> {Create}

\* writeResetMarker, before the chart moves.
Record(r) ==
    /\ pc[r] = "record"
    /\ \E record \in Records(me[r]) :
          /\ marker' = record
          /\ me' = [me EXCEPT ![r].rec = record, ![r].prev = me[r].rec]
    /\ Goto(r, "helm")
    /\ UNCHANGED <<events, aside, lost, installed, running, job, lease, disturbed>>

\* kubectl reports an error of an apply that took effect.
RecordFails(r) ==
    /\ pc[r] = "record"
    /\ marker' \in Records(me[r])
    /\ End(r)
    /\ UNCHANGED <<events, aside, lost, installed, running, job, disturbed>>

\* A run without the lease that moves the images to the other table.
Strays(r) == ~me[r].relevant /\ Gen(installed) # Gen(me[r].target)

\* What a run still goes by once only its check is left.
Spent(m, clears) ==
    [NoRun EXCEPT !.cmd = m.cmd, !.relevant = m.relevant, !.clears = clears]

\* What the services write when helm stopped on its way to these images.
Between(gen) == IF running = gen THEN {gen} ELSE {running, gen, "mixed"}

\* `helm upgrade`, `helm rollback --wait`.
Helm(r) ==
    /\ pc[r] = "helm"
    /\ installed' = me[r].target
    /\ running' = Gen(me[r].target)
    /\ job' = Gen(me[r].target)
    /\ IF Resets(me[r]) \/ Finishes(me[r])
       THEN Goto(r, "probe") /\ me' = [me EXCEPT ![r].prev = NoMarker]
       ELSE Goto(r, "check") /\ me' = [me EXCEPT ![r] = Spent(me[r], FALSE)]
    /\ disturbed' = (disturbed \/ Strays(r))
    /\ UNCHANGED <<events, aside, lost, marker, lease>>

\* The values could not be exported, or helm failed before the release moved:
\* undoMarker puts the record before this run's back, unless its kubectl call
\* fails, or helmFailedAfterRecord cannot tell that the revision is the same.
HelmFails(r) ==
    /\ pc[r] = "helm"
    /\ marker' \in IF Resets(me[r]) THEN {marker, me[r].prev} ELSE {marker}
    /\ End(r)
    /\ UNCHANGED <<events, aside, lost, installed, running, job, disturbed>>

\* Mutant of HelmFailsMoved: the record is taken back whatever helm did.
HelmFailsUndone(r) ==
    /\ pc[r] = "helm"
    /\ installed' = me[r].target
    /\ running' \in Between(Gen(me[r].target))
    /\ job' \in {job, Gen(me[r].target)}
    /\ marker' = IF Resets(me[r]) THEN me[r].prev ELSE marker
    /\ End(r)
    /\ disturbed' = (disturbed \/ Strays(r))
    /\ UNCHANGED <<events, aside, lost>>

\* Helm failed after it: a timeout, a lost connection.  The record stays.
HelmFailsMoved(r) ==
    /\ pc[r] = "helm"
    /\ installed' = me[r].target
    /\ running' \in Between(Gen(me[r].target))
    /\ job' \in {job, Gen(me[r].target)}
    /\ End(r)
    /\ disturbed' = (disturbed \/ Strays(r))
    /\ UNCHANGED <<events, aside, lost, marker>>

-----------------------------------------------------------------------------
(***************************************************************************)
(* resetKubernetesEvents.                                                  *)
(***************************************************************************)

\* What ClickHouse holds now, against what the run found, and the schema of
\* the chart (chartSchema).
ToMove(m) == events = "string" /\ m.found = "string" /\ Gen(installed) = "json"
ToApply(m) == events = "missing" /\ m.found # "json" /\ Gen(installed) = "json"

\* Mutant of Probe: what the run found does not matter.
ProbeNow(r) ==
    /\ pc[r] = "probe"
    /\ \/ events = "json" /\ Goto(r, "settle")
       \/ events = "string" /\ Goto(r, "move")
       \/ events = "missing" /\ Goto(r, "apply")
    /\ UNCHANGED <<cluster, lease, me, disturbed>>

Probe(r) ==
    /\ pc[r] = "probe"
    /\ \/ events = "json" /\ Goto(r, "settle")
       \/ ToMove(me[r]) /\ Goto(r, "move")
       \/ ToApply(me[r]) /\ Goto(r, "apply")
    /\ UNCHANGED <<cluster, lease, me, disturbed>>

\* RENAME TABLE, of whatever goes by that name by now.
Move(r) ==
    /\ pc[r] = "move"
    /\ events # "missing"
    /\ \E n \in Names(me[r].rec.name) :
          /\ aside' = [aside EXCEPT ![n] = [gen |-> events, agreed |-> me[r].agreed]]
          /\ me' = [me EXCEPT ![r].moved = n]
    /\ events' = "missing"
    /\ Goto(r, "apply")
    /\ UNCHANGED <<lost, marker, installed, running, job, lease, disturbed>>

\* The RENAME failed and the table is gone: it is taken for moved.
MoveGone(r) ==
    /\ pc[r] = "move"
    /\ events = "missing"
    /\ \E n \in Names(me[r].rec.name) : me' = [me EXCEPT ![r].moved = n]
    /\ Goto(r, "apply")
    /\ UNCHANGED <<cluster, lease, disturbed>>

\* The schema of the chart, CREATE TABLE IF NOT EXISTS, in the pod.
Apply(r) ==
    /\ pc[r] = "apply"
    /\ events' = IF events = "missing" THEN "json" ELSE events
    /\ Goto(r, "verify")
    /\ UNCHANGED <<aside, lost, marker, installed, running, job, lease, me, disturbed>>

Verify(r) ==
    /\ pc[r] = "verify"
    /\ events = "json"
    /\ Goto(r, "settle")
    /\ UNCHANGED <<cluster, lease, me, disturbed>>

\* The table this run moved, and the one the record names with consent.
Droppable(m) ==
    {n \in AsideName : aside[n].gen = "string" /\ (n = m.moved \/ MayDrop(m.rec, n))}

\* settleAsideOf; a table that cannot be dropped is kept.
Settle(r) ==
    /\ pc[r] = "settle"
    /\ \E gone \in SUBSET Droppable(me[r]) :
          /\ aside' = [n \in AsideName |-> IF n \in gone THEN NoTable ELSE aside[n]]
          /\ lost' = lost \cup {aside[n] : n \in gone}
    /\ me' = [me EXCEPT ![r] = Spent(me[r], TRUE)]
    /\ Goto(r, "check")
    /\ UNCHANGED <<events, marker, installed, running, job, lease, disturbed>>

-----------------------------------------------------------------------------
(***************************************************************************)
(* kubeEventsCheck.                                                        *)
(***************************************************************************)

\* Mutant of Fits: that the specs agree is enough.
FitsItself == running \in Schema

\* releaseImagesProblem: the services write the table ClickHouse holds.
Fits == running = events

\* checkFull; checkImages for a run that cannot touch the table, checkSoft for
\* a deploy, which passes without an answer.
CheckPasses(r) ==
    /\ pc[r] = "check"
    /\ me[r].relevant /\ me[r].cmd # "deploy" => Fits
    /\ Goto(r, "clear")
    /\ UNCHANGED <<cluster, lease, me, disturbed>>

\* A deploy that finds no table after the schema Job records one to create.
CheckRecords(r) ==
    /\ pc[r] = "check"
    /\ me[r].cmd = "deploy" /\ events = "missing" /\ job = "none"
    /\ marker' = Create
    /\ disturbed' = (disturbed \/ lease # r)
    /\ End(r)
    /\ UNCHANGED <<events, aside, lost, installed, running, job>>

\* The run reports success; clearResetMarker, of a reset it did or finished.
Succeed(r) ==
    /\ pc[r] = "clear"
    /\ marker' = IF me[r].clears THEN NoMarker ELSE marker
    /\ End(r)
    /\ UNCHANGED <<events, aside, lost, installed, running, job, disturbed>>

-----------------------------------------------------------------------------
\* The run ends at this step: it is killed, a call fails, or what it found
\* refuses it (the step's own guard fails).  The lease of one that is killed is
\* taken over once it is stale.
Stop(r) ==
    /\ pc[r] # "idle"
    /\ End(r)
    /\ UNCHANGED <<cluster, disturbed>>

\* The chart's schema Job: CREATE TABLE IF NOT EXISTS, once it gets to it.
Job ==
    /\ job # "none"
    /\ events' \in IF events = "missing" THEN {"missing", job} ELSE {events}
    /\ job' = "none"
    /\ UNCHANGED <<aside, lost, marker, installed, running, lease, pc, me, disturbed>>

\* The hands that are not held off; one of them per behaviour is enough.
\* A run outlives its lease (kubeLeaseStale), and another may take it over.
Outlive ==
    /\ ~disturbed
    /\ lease \in Run
    /\ lease' = Nobody
    /\ disturbed' = TRUE
    /\ UNCHANGED <<cluster, pc, me>>

\* Somebody drops the table, or puts a pre-reset one in its place.
Meddle ==
    /\ ~disturbed
    /\ events' \in {"missing", "string"}
    /\ disturbed' = TRUE
    /\ UNCHANGED <<aside, lost, marker, installed, running, job, lease, pc, me>>

Act(r) ==
    \/ \E c \in Commands, t \in Targets : Begin(r, c, t)
    \/ Look(r) \/ Acquire(r) \/ Reread(r) \/ Ask(r) \/ Record(r)
    \/ RecordFails(r) \/ Helm(r) \/ HelmFails(r) \/ HelmFailsMoved(r) \/ Probe(r)
    \/ Move(r) \/ MoveGone(r) \/ Apply(r) \/ Verify(r) \/ Settle(r) \/ CheckPasses(r)
    \/ CheckRecords(r) \/ Succeed(r) \/ Stop(r)

Next == (\E r \in Run : Act(r)) \/ Job \/ Outlive \/ Meddle

Spec == Init /\ [][Next]_vars

-----------------------------------------------------------------------------
(***************************************************************************)
(* What holds of it.                                                       *)
(***************************************************************************)

\* What a reset drops is a pre-reset table whose operator agreed to discard
\* it, whichever run moved it aside and whichever drops it, with and without
\* the lease ("a create never turns into consent to drop").
DropsOnlyAgreed == \A t \in lost : t.gen = "string" /\ t.agreed

\* While the lease holds everybody off: a table was moved aside, and the new
\* one is not in its place.  Then the cluster has the record of the reset,
\* wherever the run that began it stopped (resetMarkerConfigMap).
HalfDoneIsRecorded ==
    ~disturbed /\ (\E n \in AsideName : aside[n].gen = "string")
        => events = "json" \/ Present(marker)

\* "one's RENAME would race the other's check" (kube_lock.go): the new table
\* is never moved aside, however many runs there are.
NewTableStays == ~disturbed => \A n \in AsideName : aside[n].gen # "json"

\* A table a reset moved aside with consent, and did not come to drop, is
\* named by a record with that consent until the new one is in its place.
ConsentSurvives ==
    ~disturbed => \A n \in AsideName :
        aside[n].gen = "string" => events = "json" \/ MayDrop(marker, n)

\* While the lease holds everybody off, no check refuses a run that finishes a
\* recorded reset, wherever the runs before it stopped: the table it asks about is
\* one it can move or create (kubeEventsRefusal), what it moves is the pre-reset
\* table, what it has applied is there, and the services write it at the end.  Only
\* a late schema Job of an older chart can have created a table since it asked.
GoesThrough ==
    ~disturbed => \A r \in Run :
        /\ pc[r] = "ask" /\ Present(me[r].rec) => ~Refused(me[r], events)
        /\ pc[r] = "probe" => \/ events = "json" \/ ToMove(me[r]) \/ ToApply(me[r])
                              \/ me[r].found = "missing" /\ events = "string"
        /\ pc[r] = "move" => events = "string"
        /\ pc[r] = "verify" => events = "json"
        /\ pc[r] = "check" /\ me[r].clears => Fits

\* An upgrade or rollback that could touch the table and reports success
\* leaves images that write the table ClickHouse holds.
SuccessIsTrue ==
    [][ \A r \in Run :
          Succeed(r) /\ me[r].relevant /\ me[r].cmd # "deploy" /\ ~disturbed =>
              events = Gen(installed) /\ running = events ]_vars

\* "Moving the release to a chart that cannot write what ClickHouse holds ...
\* is refused before anything changes": a run with the lease moves it there
\* only with a record by which the table follows, whether helm fails or not.
\* (Where it found no table, a Job of the chart before may still create one.)
MovesFit ==
    [][ \A r \in Run :
          (Helm(r) \/ HelmFailsMoved(r)) /\ me[r].relevant /\ ~disturbed
          /\ me[r].found # "missing" => events = Gen(me[r].target) \/ Present(marker') ]_vars

\* A Kubernetes plane keeps the promise of the storage reset: whichever runs are
\* under way, and wherever they stop, its tables and its record change as a
\* reset changes them (resetKubernetesEvents, settleAsideOf, clearResetMarker).
Promise == INSTANCE StorageReset
             WITH table <- events, recorded <- Present(marker), interfered <- disturbed

KeepsThePromise == Promise!Spec

=============================================================================

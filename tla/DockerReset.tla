----------------------------- MODULE DockerReset -----------------------------
(***************************************************************************)
(* The storage reset of a Docker plane: `origamy upgrade` (upgradeDocker)  *)
(* and an in-place `origamy deploy` (planDocker, deployResetPlan,          *)
(* applyDocker) moving a plane between releases that write the pre-reset   *)
(* events table (String payload columns) and releases that write the new   *)
(* one (JSON), with resetDockerEvents, settleAside and checkAfterUp.       *)
(*                                                                         *)
(* One run at a time works on the plane (ProjectLock).  What a run has     *)
(* decided lives in `me` and dies with it; what survives is ClickHouse,    *)
(* the .env, clickhouse-init.sql and the containers.  At any step a run    *)
(* may stop: it is killed or interrupted, the operator says no, or the     *)
(* command of the step fails (Stop); a check of its own may refuse         *)
(* (Refuse).  An error that leaves something behind is an action of its    *)
(* own.                                                                    *)
(***************************************************************************)
EXTENDS Naturals, FiniteSets

CONSTANTS
    Commands,   \* the commands run on the plane, of {"upgrade", "deploy"}
    Targets,    \* the releases they move it to, of {"old", "new", "edge"}
    Served,     \* the schemas the control plane may serve
    AsideName,  \* the names events_pre_reset_<unix time>
    Meddling,   \* whether somebody else changes the events table meanwhile
    MaxMishaps  \* how many steps, and changes by others, may go wrong; 0 for no bound

ASSUME ResetConstants ==
    /\ Commands \subseteq {"upgrade", "deploy"}
    /\ Targets \subseteq {"old", "new", "edge"}
    /\ Served \subseteq {"string", "json"}
    /\ Meddling \in BOOLEAN
    /\ MaxMishaps \in Nat

VARIABLES
    events,    \* the events table ClickHouse holds
    aside,     \* per name: the table a reset moved there
    lost,      \* the tables that were dropped
    initSQL,   \* the schema in clickhouse-init.sql; "cut" half written
    initJob,   \* the schema a clickhouse-init container is still to apply
    envTag,    \* DP_IMAGE_TAG in .env
    pending,   \* whether .env has ORIGAMY_RESET_PENDING
    running,   \* what the containers of the data plane write
    pc,        \* the step of the run
    me,        \* what the run has decided
    mishaps,   \* how many steps went wrong, while they are counted
    meddled    \* somebody else changed the events table

plane == <<events, aside, lost, initSQL, initJob, envTag, pending, running>>
vars == <<plane, pc, me, mishaps, meddled>>

Schema == {"string", "json"}
Live == Schema \cup {"missing", "other"}

\* releaseSchemaGeneration; "main" is an installed tag of an unknown one.
Gen(t) == CASE t = "old" -> "string" [] t \in {"new", "edge"} -> "json" [] OTHER -> "unknown"

\* parseVersion: a numbered release.
Numbered(t) == t \in {"old", "new"}

\* A table moved aside, and whether its operator agreed to discard it.
Table == [gen : Live \cup {"none"}, agreed : BOOLEAN]
NoTable == [gen |-> "none", agreed |-> FALSE]

Step == {"idle", "ask", "plan", "confirm", "pull", "record", "swap", "schema", "server",
         "probe", "move", "apply", "verify", "settle", "commit", "up", "restart", "check",
         "clear"}

NoRun == [cmd |-> "upgrade", target |-> "old", strict |-> FALSE, was |-> FALSE,
          found |-> "none", refresh |-> "none", fetched |-> FALSE, agreed |-> FALSE,
          restarted |-> FALSE]

Decisions ==
    [cmd : {"upgrade", "deploy"}, target : {"old", "new", "edge"}, strict : BOOLEAN,
     was : BOOLEAN, found : Live \cup {"none"}, refresh : Schema \cup {"none"},
     fetched : BOOLEAN, agreed : BOOLEAN, restarted : BOOLEAN]

TypeOK ==
    /\ events \in Live
    /\ aside \in [AsideName -> Table]
    /\ lost \subseteq Table
    /\ initSQL \in Schema \cup {"cut"}
    /\ initJob \in Schema \cup {"cut", "none"}
    /\ envTag \in {"old", "new", "edge", "main"}
    /\ pending \in BOOLEAN
    /\ running \in Schema \cup {"mixed"}
    /\ pc \in Step
    /\ me \in Decisions
    /\ mishaps \in Nat
    /\ meddled \in BOOLEAN

\* A plane in any condition an earlier release, or its operator, left it in.
Init ==
    /\ events \in Live
    /\ aside = [n \in AsideName |-> NoTable]
    /\ lost = {}
    /\ initSQL \in Schema
    /\ initJob = "none"
    /\ envTag \in Targets \cup {"main"}
    /\ pending = FALSE
    /\ running \in Schema
    /\ pc = "idle"
    /\ me = NoRun
    /\ mishaps = 0
    /\ meddled = FALSE

-----------------------------------------------------------------------------
(***************************************************************************)
(* What a run derives from what it read.                                   *)
(***************************************************************************)

\* dockerResetAction, with the record of an earlier run: upgradeDocker's
\* reset or finish, deployResetPlan's target.  Only the upgrade resets a
\* pre-reset table no run recorded.
Resets(m) ==
    /\ Gen(m.target) = "json"
    /\ m.was \/ m.found = "missing" \/ (m.found = "string" /\ m.cmd = "upgrade")

\* The table is still to be created: upgradeDocker's reset, without finish.
Creates(m) == Resets(m) /\ m.found \in {"string", "missing"}

\* The pre-reset tables may be dropped: this run asked, or an earlier one.
Discards(m) == m.was \/ m.found = "string"

\* Mutant of Refused: the deploy does not compare the table with the release.
RefusedByUpgradeOnly(m, held) ==
    \/ held = "other"
    \/ held = "json" /\ Gen(m.target) = "string"
    \/ m.was /\ Gen(m.target) = "string"

\* The refusals on what ClickHouse holds, upgradeDocker's and planDocker's.
Refused(m, held) ==
    \/ held = "other"
    \/ held = "json" /\ Gen(m.target) = "string"
    \/ m.was /\ Gen(m.target) = "string"
    \/ m.cmd = "deploy" /\ ~m.was /\ held = "string"
          /\ Gen(m.target) = "json" /\ Numbered(m.target)

Goto(l) == pc' = l

End == Goto("idle") /\ me' = NoRun

Set(field, v) == me' = [me EXCEPT ![field] = v]

\* A step that goes wrong unless ok; what goes wrong is bounded for liveness.
Luck(ok) ==
    IF ok \/ MaxMishaps = 0
    THEN UNCHANGED mishaps
    ELSE mishaps < MaxMishaps /\ mishaps' = mishaps + 1

-----------------------------------------------------------------------------
(***************************************************************************)
(* Before anything is touched.                                             *)
(***************************************************************************)

\* The record and the release are read; canTouchEventsTable.
Begin(c, t) ==
    /\ pc = "idle"
    /\ pending => Gen(t) = "json"
    /\ me' = [NoRun EXCEPT !.cmd = c, !.target = t, !.was = pending,
                           !.strict = pending \/ Gen(envTag) # Gen(t)]
    /\ Goto("ask")
    /\ UNCHANGED <<plane, mishaps>>

\* askClickHouse or peekClickHouse; an unexpected answer makes the move strict.
Ask ==
    /\ pc = "ask"
    /\ ~Refused(me, events)
    /\ me' = [me EXCEPT !.found = events, !.strict = @ \/ events # Gen(me.target)]
    /\ Goto("plan")
    /\ UNCHANGED <<plane, mishaps>>

AskUnanswered ==
    /\ pc = "ask"
    /\ ~me.strict
    /\ Goto("plan")
    /\ UNCHANGED <<plane, me, mishaps>>

\* What clickhouse-init.sql will say once the bundle is in.
Kept(refresh) == IF refresh = "none" THEN initSQL ELSE refresh

\* planBundleRefresh: no bundle (or one that leaves clickhouse-init.sql as it
\* is), or the schema served.  Across the reset it must be the new one, and is
\* fetched by itself when the bundle does not bring it.
PlanUpgrade ==
    /\ pc = "plan" /\ me.cmd = "upgrade"
    /\ \E refresh \in Served \cup {"none"} :
          /\ IF Creates(me)
             THEN /\ refresh = "none" => "json" \in Served
                  /\ refresh # "string"
             ELSE /\ ~(Kept(refresh) = "json" /\ Gen(me.target) = "string")
                  /\ ~(refresh = "string" /\ Gen(me.target) = "json")
          /\ me' = [me EXCEPT !.refresh = refresh,
                              !.fetched = Creates(me) /\ refresh = "none"]
    /\ Goto("confirm")
    /\ UNCHANGED <<plane, mishaps>>

\* deployResetPlan and the schema guard: the bundle must create the table the
\* release writes; a moving tag is not compared (bundleSchemaMismatch).
PlanDeploy ==
    /\ pc = "plan" /\ me.cmd = "deploy"
    /\ \E refresh \in Served \cup {"none"} :
          /\ Creates(me) => Kept(refresh) = "json"
          /\ (me.found \notin Schema \/ Resets(me) \/ refresh # "none") /\ Numbered(me.target)
                => Kept(refresh) \in {Gen(me.target), "cut"}
          /\ Set("refresh", refresh)
    /\ Goto("confirm")
    /\ UNCHANGED <<plane, mishaps>>

\* confirmResetDetails, confirmResumedReset: only when a table is moved aside.
Confirm ==
    /\ pc = "confirm"
    /\ Set("agreed", Resets(me) /\ me.found = "string")
    /\ Goto(IF me.cmd = "upgrade" THEN "pull" ELSE "swap")
    /\ UNCHANGED <<plane, mishaps>>

Pull ==
    /\ pc = "pull"
    /\ Goto(IF Creates(me) THEN "record" ELSE "swap")
    /\ UNCHANGED <<plane, me, mishaps>>

-----------------------------------------------------------------------------
(***************************************************************************)
(* The reset.                                                              *)
(***************************************************************************)

\* resetPendingVar: the upgrade's first change, the deploy's after its .env.
Record ==
    /\ pc = "record"
    /\ pending' = TRUE
    /\ Goto(IF me.cmd = "upgrade" THEN "swap" ELSE "server")
    /\ UNCHANGED <<events, aside, lost, initSQL, initJob, envTag, running, me, mishaps>>

\* Mutant of AfterSwap: the release is committed before the reset.
AfterSwapCommit(m) == "commit"

\* Mutant of AfterSwap: the schema fetched by itself is not put in its place.
AfterSwapServer(m) == IF m.cmd = "upgrade" /\ Resets(m) THEN "server" ELSE "commit"

AfterSwap(m) ==
    IF m.cmd = "deploy" THEN "commit" ELSE IF Resets(m) THEN "schema" ELSE "commit"

\* swapIn and commit of the refreshed bundle.
Swap ==
    /\ pc = "swap"
    /\ initSQL' = Kept(me.refresh)
    /\ Goto(AfterSwap(me))
    /\ UNCHANGED <<events, aside, lost, initJob, envTag, pending, running, me, mishaps>>

\* swapIn failed, and rollback put the files back.  Across the reset the run
\* ends, and takes back a record it made itself (when .env can be written).
SwapFails ==
    /\ pc = "swap"
    /\ me.refresh # "none"
    /\ IF me.cmd = "upgrade" /\ ~Creates(me)
       THEN Set("refresh", "none") /\ Goto(AfterSwap(me)) /\ UNCHANGED pending
       ELSE /\ End
            /\ pending' \in IF me.cmd = "upgrade" /\ ~me.was THEN {FALSE, pending} ELSE {pending}
    /\ Luck(FALSE)
    /\ UNCHANGED <<events, aside, lost, initSQL, initJob, envTag, running>>

\* The files could not be put back either, or the run was killed meanwhile.
SwapBroken ==
    /\ pc = "swap"
    /\ initSQL' = Kept(me.refresh)
    /\ End
    /\ Luck(FALSE)
    /\ UNCHANGED <<events, aside, lost, initJob, envTag, pending, running>>

\* writeResetSchema, of the schema fetched by itself.
WriteSchema ==
    /\ pc = "schema"
    /\ initSQL' = IF me.fetched THEN "json" ELSE initSQL
    /\ Goto("server")
    /\ UNCHANGED <<events, aside, lost, initJob, envTag, pending, running, me, mishaps>>

\* The file was truncated, and the disk full or the run killed.
SchemaCut ==
    /\ pc = "schema"
    /\ me.fetched
    /\ initSQL' = "cut"
    /\ End
    /\ Luck(FALSE)
    /\ UNCHANGED <<events, aside, lost, initJob, envTag, pending, running>>

\* resetDockerEvents: `up -d clickhouse`, and it answers.
StartServer ==
    /\ pc = "server"
    /\ Goto("probe")
    /\ UNCHANGED <<plane, me, mishaps>>

\* What ClickHouse holds now, against what the run found.
ToMove == events = "string" /\ me.found = "string" /\ initSQL = "json"
ToApply == events = "missing" /\ me.found # "json" /\ initSQL = "json"

Probe ==
    /\ pc = "probe"
    /\ \/ events = "json" /\ Goto("settle")
       \/ ToMove /\ Goto("move")
       \/ ToApply /\ Goto("apply")
    /\ UNCHANGED <<plane, me, mishaps>>

\* No two resets begin in the same second.
NewName == CHOOSE n \in AsideName : aside[n] = NoTable

\* RENAME TABLE, of whatever goes by that name by now, to a name not taken.
Move ==
    /\ pc = "move"
    /\ events # "missing"
    /\ \E n \in AsideName : aside[n] = NoTable
    /\ aside' = [aside EXCEPT ![NewName] = [gen |-> events, agreed |-> me.agreed]]
    /\ events' = "missing"
    /\ Goto("apply")
    /\ UNCHANGED <<lost, initSQL, initJob, envTag, pending, running, me, mishaps>>

\* CREATE TABLE IF NOT EXISTS; the init container exits 0 when it fails.
Created(sql) == IF sql = "cut" THEN "missing" ELSE sql

Apply ==
    /\ pc = "apply"
    /\ \E ok \in BOOLEAN :
          /\ Luck(ok)
          /\ events' = IF events = "missing" /\ ok THEN Created(initSQL) ELSE events
    /\ Goto("verify")
    /\ UNCHANGED <<aside, lost, initSQL, initJob, envTag, pending, running, me>>

Verify ==
    /\ pc = "verify"
    /\ events = "json"
    /\ Goto("settle")
    /\ UNCHANGED <<plane, me, mishaps>>

AfterReset(m) == IF m.cmd = "upgrade" THEN "commit" ELSE "up"

\* Mutant of Droppable: what was moved aside is dropped unchecked.
DroppableUnchecked == {n \in AsideName : aside[n] # NoTable /\ Discards(me)}

\* settleAside: the pre-reset tables are dropped; one that cannot be is kept.
Droppable == {n \in AsideName : aside[n].gen = "string" /\ Discards(me)}

Settle ==
    /\ pc = "settle"
    /\ \E gone \in SUBSET Droppable :
          /\ Luck(gone = Droppable)
          /\ aside' = [n \in AsideName |-> IF n \in gone THEN NoTable ELSE aside[n]]
          /\ lost' = lost \cup {aside[n] : n \in gone}
    /\ Goto(AfterReset(me))
    /\ UNCHANGED <<events, initSQL, initJob, envTag, pending, running, me>>

-----------------------------------------------------------------------------
(***************************************************************************)
(* The release.                                                            *)
(***************************************************************************)

\* DP_IMAGE_TAG: the upgrade's commit point; a deploy writes its whole .env
\* here, before a reset.
Commit ==
    /\ pc = "commit"
    /\ envTag' = me.target
    /\ Goto(IF me.cmd = "deploy" /\ Resets(me) THEN "record" ELSE "up")
    /\ UNCHANGED <<events, aside, lost, initSQL, initJob, pending, running, me, mishaps>>

\* `up -d`: every container, from images an override may pin to another
\* release, and the init container of the bundle.
Up ==
    /\ pc = "up"
    /\ \E ok \in BOOLEAN :
          /\ Luck(ok)
          /\ running' = IF ok THEN Gen(me.target) ELSE "mixed"
    /\ initJob' = initSQL
    /\ Goto("restart")
    /\ UNCHANGED <<events, aside, lost, initSQL, envTag, pending, me>>

\* restartMounts says whether every one restarted.
Restart ==
    /\ pc = "restart"
    /\ \E ok \in BOOLEAN : Luck(ok) /\ Set("restarted", ok)
    /\ Goto("check")
    /\ UNCHANGED plane

\* Mutant of CheckPasses: the images that run are not looked at.
CheckPassesByTable ==
    /\ pc = "check"
    /\ me.strict => events = Gen(me.target)
    /\ Goto("clear")
    /\ UNCHANGED <<plane, me, mishaps>>

\* checkAfterUp.  A ClickHouse that does not answer, and an image that does
\* not say what it writes, fail a strict move only.
CheckPasses ==
    /\ pc = "check"
    /\ me.strict => events = Gen(me.target) /\ running = Gen(me.target)
    /\ Goto("clear")
    /\ UNCHANGED <<plane, me, mishaps>>

\* eventsTableFail: a reset still to do is recorded, when .env can be written.
CheckFails ==
    /\ pc = "check"
    /\ events # Gen(me.target)
    /\ \E ok \in BOOLEAN :
          /\ Luck(ok)
          /\ pending' = (pending \/ (ok /\ Gen(me.target) = "json"
                                       /\ events \in {"string", "missing"}))
    /\ End
    /\ UNCHANGED <<events, aside, lost, initSQL, initJob, envTag, running>>

\* Mutant of Succeed: only a run that created the table clears the record.
SucceedIfCreated ==
    /\ pc = "clear"
    /\ pending' = IF Creates(me) /\ me.restarted THEN FALSE ELSE pending
    /\ End
    /\ UNCHANGED <<events, aside, lost, initSQL, initJob, envTag, running, mishaps>>

\* clearResetRecord, once the services that mount bundle files restarted.
Succeed ==
    /\ pc = "clear"
    /\ pending' = IF Resets(me) /\ me.restarted THEN FALSE ELSE pending
    /\ End
    /\ UNCHANGED <<events, aside, lost, initSQL, initJob, envTag, running, mishaps>>

-----------------------------------------------------------------------------
\* The run ends at this step and leaves the plane as it is.
Stop ==
    /\ pc # "idle"
    /\ Luck(FALSE)
    /\ End
    /\ UNCHANGED plane

\* A check of the run refuses, or finds that its statement did not do it.
Refuse ==
    /\ \/ pc = "ask" /\ Refused(me, events)
       \/ pc = "plan" /\ Creates(me) /\ "json" \notin Served
       \/ pc = "probe" /\ events # "json" /\ ~ToMove /\ ~ToApply
       \/ pc = "move" /\ events = "missing"
       \/ pc = "verify" /\ events # "json"
       \/ pc = "check" /\ events = Gen(me.target) /\ running # Gen(me.target)
    /\ End
    /\ UNCHANGED <<plane, mishaps>>

\* The init container of an `up -d` gets to it some time, or dies.
InitJob ==
    /\ initJob # "none"
    /\ events' \in IF events = "missing" THEN {"missing", Created(initJob)} ELSE {events}
    /\ initJob' = "none"
    /\ UNCHANGED <<aside, lost, initSQL, envTag, pending, running, pc, me, mishaps>>

Meddle ==
    /\ Meddling
    /\ meddled' = TRUE
    /\ events' \in Live
    /\ Luck(FALSE)
    /\ UNCHANGED <<aside, lost, initSQL, initJob, envTag, pending, running, pc, me>>

Work ==
    \/ \E c \in Commands, t \in Targets : Begin(c, t)
    \/ Ask \/ AskUnanswered \/ PlanUpgrade \/ PlanDeploy \/ Confirm \/ Pull
    \/ Record \/ Swap \/ SwapFails \/ WriteSchema \/ StartServer \/ Probe \/ Move
    \/ Apply \/ Verify \/ Settle \/ Commit \/ Up \/ Restart \/ CheckPasses
    \/ CheckFails \/ Succeed \/ Refuse

Next ==
    \/ (Work \/ SwapBroken \/ SchemaCut \/ Stop \/ InitJob) /\ UNCHANGED meddled
    \/ Meddle

Spec == Init /\ [][Next]_vars

\* The operator runs the command again until it succeeds.
FairSpec == Spec /\ WF_vars(Work /\ UNCHANGED meddled)

-----------------------------------------------------------------------------
(***************************************************************************)
(* What holds of it.                                                       *)
(***************************************************************************)

\* What a reset drops is a pre-reset table whose operator agreed to discard
\* it when it was moved aside; the new table is never dropped, even when the
\* table changed between a check and the statement that relied on it
\* (resetDockerEvents, settleAsideOf).
DropsOnlyAgreed == \A t \in lost : t.gen = "string" /\ t.agreed

\* While nobody else changes the table: one was moved aside, and the new one
\* is not in its place.  Then .env says that a reset is unfinished, wherever
\* the run that began it stopped, and whatever was run since (resetPendingVar).
HalfDoneIsRecorded ==
    ~meddled /\ (\E n \in AsideName : aside[n].gen = "string")
        => events = "json" \/ pending

\* An upgrade never has .env name a release that writes the new table while
\* ClickHouse does not hold it (the commit point of upgradeDocker).
TagFollowsSchema ==
    [][ /\ ~meddled /\ me.cmd = "upgrade"
        /\ Gen(envTag') = "json" /\ Gen(envTag) # "json"
        => events' = "json" ]_vars

\* A run that reports success on a move that could touch the events table
\* leaves images and a table that fit, and no reset unfinished but one whose
\* services did not restart (checkAfterUp, clearResetRecord).
SuccessIsTrue ==
    [][ Succeed /\ me.strict /\ ~meddled =>
            /\ events = Gen(envTag) /\ running = Gen(envTag)
            /\ me.restarted => ~pending' ]_vars

\* No run starts the images of a numbered release on an events table of the
\* other generation that it knew to be there (bundleSchemaMismatch leaves the
\* moving tag out).
WritersFitTable ==
    [][ Up /\ ~meddled /\ Numbered(me.target)
            => events = Gen(me.target) \/ me.found \notin Schema ]_vars

\* A run that found a reset recorded, and works while nobody else changes the
\* table, is refused only by what no order of runs has brought about: a control
\* plane that does not serve the new schema, an init container that created the
\* old table since the run looked, or failed to create the new one, an image that
\* is not the release's (upgradeDocker, deployResetPlan, resetDockerEvents,
\* checkAfterUp).  It never finds the table wrong at its end.  What is wrong
\* with the host, with Docker, or with the compose file and its mounts is in
\* Stop, which is no refusal.
OnlyOutsideRefuses ==
    [][ me.was /\ ~meddled =>
          /\ Refuse => \/ pc = "plan" /\ "json" \notin Served
                       \/ pc = "probe" /\ me.found = "missing" /\ events = "string"
                       \/ pc = "verify" /\ events \in {"missing", "string"}
                       \/ pc = "check" /\ events = "json" /\ running # "json"
          /\ ~CheckFails ]_vars

\* A recorded reset is finished, whatever went wrong on the way, once the
\* operator reruns the command and things stop going wrong, unless somebody
\* else changes the events table (a run refuses one it does not recognise).
ResetFinishes == (pending /\ ~meddled) ~> (~pending \/ meddled)

\* A Docker plane keeps the promise of the storage reset: whatever went wrong,
\* and whichever commands ran, its tables and its record change as a reset
\* changes them (resetDockerEvents, settleAsideOf, clearResetRecord).
Promise == INSTANCE StorageReset
             WITH table <- events, recorded <- pending, interfered <- meddled

KeepsThePromise == Promise!Spec

=============================================================================

------------------------------- MODULE Project -------------------------------
(***************************************************************************)
(* A compose project and the runs of the CLI on it: `origamy deploy`       *)
(* (planDocker, applyDocker), `origamy upgrade` (upgradeDocker) and        *)
(* `origamy uninstall` (uninstallDocker), one at a time (ProjectLock),     *)
(* next to an operator who edits .env and runs docker compose.             *)
(*                                                                         *)
(* It follows what lives across runs: the .env (EnvFile), the data-plane   *)
(* containers, service by service, and the secrets the plane's data was    *)
(* written under.  Which schema the events table has is taken in one step  *)
(* here; DockerReset follows that reset.                                   *)
(***************************************************************************)
EXTENDS EnvFile

CONSTANTS
    Tags,       \* the releases the runs move the plane to
    Switched,   \* the profiles that are turned on and off
    Kinds,      \* what the .env of a plane from the dashboard's snippet may be
    MaxMishaps  \* how many steps may fail and edits be made; 0 for no bound

ASSUME ProjectConstants ==
    /\ Tags \subseteq Tag
    /\ Switched \subseteq Profile
    /\ Kinds \subseteq Kind
    /\ MaxMishaps \in Nat

VARIABLES
    con,      \* per data-plane service: the release its container runs
    used,     \* per secret: the value the plane's data depends on
    table,    \* the schema of the events table
    pin,      \* the release an override pins the engine to
    pc,       \* the step of the run
    me,       \* what the run has decided
    touched,  \* the operator touched the project since the run began
    mishaps   \* how many steps failed, and edits were made

world == <<con, used, table, pin>>
vars == <<file, world, pc, me, touched, mishaps>>

\* releaseSchemaGeneration.
Gen(t) == IF t = "old" THEN "string" ELSE "json"

\* The data-plane services, and the profile each needs.
Service == {"agent", "flow", "engine"}
Runs(on) == {"agent"} \cup {s \in {"flow", "engine"} :
                               (IF s = "flow" THEN "full" ELSE "agentic") \in on}

\* cliProfiles, and the profiles that are the operator's.
Managed == {"full", "agentic"}

Step == {"idle", "pull", "record", "reset", "profiles", "tag", "kek", "secret", "render",
         "off", "leftovers", "up", "check", "clear", "done", "down", "remove"}

NoRun == [cmd |-> "upgrade", tag |-> "old", ai |-> "keep", existing |-> FALSE,
          strict |-> FALSE, reset |-> FALSE, before |-> {}, on |-> {}, kek |-> 0]
Decisions ==
    [cmd : {"upgrade", "deploy", "uninstall"}, tag : Tag, ai : {"keep", "on", "off"},
     existing : BOOLEAN, strict : BOOLEAN, reset : BOOLEAN, before : SUBSET Profile,
     on : SUBSET Profile, kek : Value]

TypeOK ==
    /\ FileOK
    /\ con \in [Service -> Tag \cup {"none"}]
    /\ used \in [Secret -> Value]
    /\ table \in {"none", "string", "json"}
    /\ pin \in Tag \cup {"none"}
    /\ pc \in Step
    /\ me \in Decisions
    /\ touched \in BOOLEAN
    /\ mishaps \in Nat

\* A plane the dashboard's snippet installed, whose .env sets no password:
\* its Postgres was initialised with the bundle's default.
Snippet(on) == [tag |-> "old", on |-> on, sec |-> Unset, pending |-> FALSE]

Init ==
    /\ \/ /\ env = NoFile /\ kind = "plain" /\ twin = NoFile
          /\ con = [s \in Service |-> "none"]
          /\ used = Unset
          /\ table = "none"
       \/ /\ \E on \in SUBSET Switched : env = Snippet(on \cup (Profile \ Switched))
          /\ kind \in Kinds
          /\ twin = IF kind = "linked" THEN env ELSE NoFile
          /\ con = [s \in Service |-> IF s \in Runs(env.on) THEN "old" ELSE "none"]
          /\ used = [s \in Secret |->
                        IF s = "DB_PASSWORD" /\ env.on \cap Managed # {} THEN 1 ELSE 0]
          /\ table = "string"
    /\ end = "clean" /\ write = NoWrite /\ fault = FALSE
    /\ pin = "none"
    /\ pc = "idle" /\ me = NoRun
    /\ touched = FALSE /\ mishaps = 0

\* A step goes well, or one more mishap is counted.
Luck(ok) ==
    \/ ok /\ UNCHANGED mishaps
    \/ ~ok /\ MaxMishaps = 0 /\ UNCHANGED mishaps
    \/ ~ok /\ mishaps < MaxMishaps /\ mishaps' = mishaps + 1

EndRun == pc' = "idle" /\ me' = NoRun /\ touched' = FALSE

\* A value nothing else was ever given for the secret.
Fresh(s) == CHOOSE v \in Value : v > 1 /\ v \notin {env.sec[s], used[s]}

\* existingOrRandom, existingOrRandomKEK, existingOrRandomHex.
ExistingOrFresh(s) == IF env.sec[s] # 0 THEN env.sec[s] ELSE Fresh(s)

\* withProfile.
WithProfile(on, p, yes) == IF yes THEN on \cup {p} ELSE on \ {p}

\* Mutant of DeployProfiles: the answers are all there is.
DeployProfilesOnly(before, answers) == answers

\* deployProfiles: the answers, and what the CLI does not manage.
DeployProfiles(before, answers) == answers \cup (before \ Managed)

\* canTouchEventsTable, and the table peeked at: a ClickHouse that was never
\* started does not answer, and counts for nothing.
TouchesTable(tag) ==
    \/ env.pending
    \/ Gen(env.tag) # Gen(tag)
    \/ table # "none" /\ table # Gen(tag)

\* dockerResetAction with a record: the table is created anew, or a recorded
\* reset finished.
Resets(tag) == env.pending \/ (TouchesTable(tag) /\ Gen(tag) = "json" /\ table # "json")

\* The image docker compose starts service s from for release tag.
Image(s, tag) == IF s = "engine" /\ pin # "none" THEN pin ELSE tag

(***************************************************************************)
(* docker compose.                                                         *)
(***************************************************************************)

\* What a secret is to the services: Postgres falls back to the default.
EffectiveIn(text, s) ==
    IF s = "DB_PASSWORD" /\ text.sec[s] = 0 THEN 1 ELSE text.sec[s]

\* The services that write data under a secret; "dp-postgres" runs with either.
Users(s) == CASE s = "DB_PASSWORD" -> {"flow", "engine"}
              [] s = "ORCH_KEK" -> {"engine"}
              [] s = "ENGAGEMENT_SECRET" -> {"flow"}

\* `up -d` gets the services of S up on release tag: their containers, the
\* events table, and what is written under the secrets they read for the
\* first time.
StartServices(S, tag) ==
    /\ con' = [s \in Service |-> IF s \in S THEN Image(s, tag) ELSE con[s]]
    /\ table' = IF "agent" \in S /\ table = "none" THEN Gen(tag) ELSE table
    /\ used' = [s \in Secret |-> IF used[s] = 0 /\ Users(s) \cap S # {}
                                 THEN EffectiveIn(env, s) ELSE used[s]]
    /\ UNCHANGED pin

\* `rm --stop --force` of the services S.
RemoveServices(S) ==
    /\ con' = [s \in Service |-> IF s \in S THEN "none" ELSE con[s]]
    /\ UNCHANGED <<used, table, pin>>

(***************************************************************************)
(* The run's beginning.                                                    *)
(***************************************************************************)

Begin(run, step) ==
    /\ pc = "idle"
    /\ pc' = step
    /\ me' = run
    /\ touched' = FALSE
    /\ UNCHANGED <<file, world, mishaps>>

\* upgradeDocker up to the pull: the profiles and the AI secrets the run will
\* write are worked out here.
UpgradeRun(tag, ai) ==
    [cmd |-> "upgrade", tag |-> tag, ai |-> ai, existing |-> TRUE,
     strict |-> TouchesTable(tag), reset |-> Resets(tag), before |-> env.on,
     on |-> IF ai = "keep" THEN env.on ELSE WithProfile(env.on, "agentic", ai = "on"),
     kek |-> IF ai = "on" THEN ExistingOrFresh("ORCH_KEK") ELSE 0]

BeginUpgrade ==
    \E tag \in Tags, ai \in {"keep", "on", "off"} :
        /\ env # NoFile
        /\ env.pending => Gen(tag) = "json"
        /\ table = "json" => Gen(tag) = "json"
        /\ Begin(UpgradeRun(tag, ai), "pull")

\* The answers of planDocker: a profile that is not switched keeps its default.
Answers ==
    {(on \cup ((IF env = NoFile THEN {"full"} ELSE env.on) \ Switched)) \cap Managed :
        on \in SUBSET Switched}

\* planDocker, up to the answers.
DeployRun(tag, answers) ==
    [cmd |-> "deploy", tag |-> tag, ai |-> IF "agentic" \in answers THEN "on" ELSE "off",
     existing |-> env # NoFile, strict |-> env # NoFile /\ TouchesTable(tag),
     reset |-> env # NoFile /\ Resets(tag), before |-> {}, on |-> answers, kek |-> 0]

BeginDeploy ==
    \E tag \in Tags, answers \in Answers :
        /\ env.pending => Gen(tag) = "json"
        /\ env # NoFile /\ table # "none" /\ ~env.pending => table = Gen(tag)
        /\ Begin(DeployRun(tag, answers), "render")

BeginUninstall ==
    /\ env # NoFile
    /\ Begin([NoRun EXCEPT !.cmd = "uninstall"], "down")

(***************************************************************************)
(* The run's steps, each once the write before it is over.                 *)
(***************************************************************************)

At(step) == pc = step /\ Quiet

Go(step) == pc' = step /\ UNCHANGED <<me, touched, mishaps>>

Refuse == EndRun /\ UNCHANGED <<file, world, mishaps>>

\* The profiles `up` sees: those of .env, but for an upgrade that sets them.
UpProfiles == IF me.cmd = "upgrade" /\ me.ai # "keep" THEN me.on ELSE env.on

\* plannedImagesProblem, plannedGenerationProblem: what the run would start.
PlannedFit ==
    \A s \in Runs(UpProfiles) :
        IF me.strict THEN Image(s, me.tag) = me.tag
        ELSE Gen(Image(s, me.tag)) = Gen(me.tag)

Pull ==
    /\ At("pull")
    /\ IF PlannedFit THEN Go("record") /\ UNCHANGED <<file, world>> ELSE Refuse

\* From here on the reset is under way: it is recorded first.
Record ==
    /\ At("record")
    /\ IF me.reset /\ table # "json" /\ (me.cmd = "upgrade" \/ ~env.pending)
       THEN WriteEnv([env EXCEPT !.pending = TRUE])
       ELSE UNCHANGED file
    /\ Go("reset")
    /\ UNCHANGED world

Reset ==
    /\ At("reset")
    /\ table' = IF me.reset THEN "json" ELSE table
    /\ Go(IF me.cmd = "upgrade" THEN "profiles" ELSE "off")
    /\ UNCHANGED <<file, con, used, pin>>

\* The upgrade's commit point, one setEnvVar after the other in the order of
\* the keys, then backfillEngagementSecret.
Set(from, to, needed, text) ==
    /\ At(from)
    /\ IF needed THEN WriteEnv(text) ELSE UNCHANGED file
    /\ Go(to)
    /\ UNCHANGED world

\* Mutant of SetProfiles: only a profile turned on is written.
SetProfilesOn == Set("profiles", "tag", me.ai = "on", [env EXCEPT !.on = me.on])

SetProfiles == Set("profiles", "tag", me.ai # "keep", [env EXCEPT !.on = me.on])

SetTag == Set("tag", "kek", TRUE, [env EXCEPT !.tag = me.tag])

SetKEK == Set("kek", "secret", me.ai = "on", [env EXCEPT !.sec["ORCH_KEK"] = me.kek])

BackfillSecret ==
    Set("secret", "off", env.sec["ENGAGEMENT_SECRET"] = 0,
        [env EXCEPT !.sec["ENGAGEMENT_SECRET"] = Fresh("ENGAGEMENT_SECRET")])

\* Mutant of KeptPassword: a plane that set none gets a new one.
KeptPasswordFresh == ExistingOrFresh("DB_PASSWORD")

\* The Postgres password a deploy writes: the default for a plane that set none.
KeptPassword ==
    IF me.existing /\ env.sec["DB_PASSWORD"] = 0 THEN 1 ELSE ExistingOrFresh("DB_PASSWORD")

\* applyDocker's .env: renderDockerEnv, merged with the one there (mergeEnv).
Rendered ==
    [tag |-> me.tag, on |-> DeployProfiles(env.on, me.on),
     sec |-> [s \in Secret |->
                CASE s = "DB_PASSWORD" -> KeptPassword
                  [] s = "ORCH_KEK" -> IF me.ai = "on" THEN ExistingOrFresh(s) ELSE env.sec[s]
                  [] s = "ENGAGEMENT_SECRET" -> ExistingOrFresh(s)],
     pending |-> env.pending]

Render ==
    /\ At("render")
    /\ WriteEnv(Rendered)
    /\ pc' = "record"
    /\ me' = [me EXCEPT !.before = env.on, !.on = DeployProfiles(env.on, me.on)]
    /\ UNCHANGED <<world, touched, mishaps>>

\* A removal that fails is a warning.
Remove(from, to, S) ==
    /\ At(from)
    /\ pc' = to
    /\ \/ RemoveServices(S) /\ UNCHANGED mishaps
       \/ S # {} /\ Luck(FALSE) /\ UNCHANGED world
    /\ UNCHANGED <<file, me, touched>>

StopTurnedOff ==
    Remove("off", "leftovers", IF me.existing THEN Runs(me.before) \ Runs(me.on) ELSE {})

\* Mutant of RemoveInactive: what an earlier run left is not this run's.
RemoveInactiveNone == Remove("leftovers", "up", {})

RemoveInactive ==
    Remove("leftovers", "up",
           IF me.strict THEN {s \in Service \ Runs(me.on) : con[s] # "none"} ELSE {})

Up ==
    /\ At("up")
    /\ \/ StartServices(Runs(UpProfiles), me.tag) /\ Go("check")
       \/ /\ \E S \in SUBSET Runs(UpProfiles) : StartServices(S, me.tag)
          /\ Luck(FALSE) /\ EndRun
    /\ UNCHANGED file

\* Mutant of CheckedServices: the services that are on.
CheckedConfigured == {s \in Runs(env.on) : con[s] # "none"}

\* checkAfterUp: runningImagesProblem looks at every data-plane container of
\* the project, advisoryImageNotes only at which table they write.
CheckedServices == {s \in Service : con[s] # "none"}

RunningFit ==
    /\ table = Gen(me.tag)
    /\ \A s \in CheckedServices :
          IF me.strict THEN con[s] = me.tag ELSE Gen(con[s]) = Gen(me.tag)
    /\ me.strict => Runs(env.on) \subseteq CheckedServices

Check ==
    /\ At("check")
    /\ IF RunningFit THEN Go("clear") /\ UNCHANGED <<file, world>> ELSE Refuse

ClearRecord == Set("clear", "done", me.reset, [env EXCEPT !.pending = FALSE])

Succeed == At("done") /\ Refuse

\* `down -v`, and then the directory.
Down ==
    /\ At("down")
    /\ \/ /\ con' = [s \in Service |-> "none"]
          /\ used' = Unset
          /\ table' = "none"
          /\ Go("remove")
       \/ /\ \E S \in SUBSET Service :
                con' = [s \in Service |-> IF s \in S THEN "none" ELSE con[s]]
          /\ UNCHANGED <<used, table>>
          /\ Luck(FALSE) /\ EndRun
    /\ UNCHANGED <<file, pin>>

RemoveDir ==
    /\ At("remove")
    /\ RemoveFile
    /\ pin' = "none"
    /\ EndRun
    /\ UNCHANGED <<con, used, table, mishaps>>

\* The run is killed or interrupted, or its step fails; one that writes .env
\* may fail there too.
Stop ==
    /\ pc # "idle"
    /\ Luck(FALSE)
    /\ Abandon
    /\ EndRun
    /\ UNCHANGED world

WriteStep == Write /\ UNCHANGED <<world, pc, me, touched, mishaps>>

MachineLost == Tear /\ Luck(FALSE) /\ EndRun /\ UNCHANGED world

(***************************************************************************)
(* The operator, at any time a run is not in the middle of a write.        *)
(***************************************************************************)

\* Not while an uninstall runs: what it brought back would lose its .env.
ComposeUp ==
    /\ Quiet /\ env # NoFile
    /\ me.cmd # "uninstall"
    /\ StartServices(Runs(env.on), env.tag)
    /\ UNCHANGED <<file, pc, me, touched, mishaps>>

ComposeDown ==
    /\ Quiet /\ env # NoFile
    /\ RemoveServices(Service)
    /\ touched' = (pc # "idle")
    /\ UNCHANGED <<file, pc, me, mishaps>>

\* A profile is turned on or off in COMPOSE_PROFILES.
EditProfiles ==
    \E p \in Switched :
        /\ Quiet /\ env # NoFile
        /\ Luck(FALSE)
        /\ env' = [env EXCEPT !.on = WithProfile(@, p, p \notin @)]
        /\ twin' = Linked(env')
        /\ touched' = (pc # "idle")
        /\ UNCHANGED <<end, kind, write, fault, world, pc, me>>

\* An override pins the engine to a release, or no longer does.
PinEngine ==
    \E t \in Tags \cup {"none"} :
        /\ Quiet /\ env # NoFile
        /\ Luck(FALSE)
        /\ t # pin
        /\ pin' = t
        /\ touched' = (pc # "idle")
        /\ UNCHANGED <<file, con, used, table, pc, me>>

Commit == SetProfiles \/ SetTag \/ SetKEK \/ BackfillSecret

RunStep ==
    \/ Pull \/ Record \/ Reset \/ Commit \/ Render \/ StopTurnedOff
    \/ RemoveInactive \/ Up \/ Check \/ ClearRecord \/ Succeed \/ Down \/ RemoveDir \/ WriteStep

Operator == ComposeUp \/ ComposeDown \/ EditProfiles \/ PinEngine

\* A project whose .env was torn is the operator's to mend.
Next ==
    /\ ~fault
    /\ \/ BeginUpgrade \/ BeginDeploy \/ BeginUninstall
       \/ RunStep \/ Stop \/ MachineLost \/ Operator

Spec == Init /\ [][Next]_vars

\* A run that began goes on, and an operator whose upgrade did not get through
\* runs it again, as its message says.
FairSpec ==
    /\ Spec
    /\ WF_vars(RunStep)
    /\ SF_vars(BeginUpgrade /\ me'.tag = "new")

-----------------------------------------------------------------------------
(***************************************************************************)
(* What holds of it.                                                       *)
(***************************************************************************)

\* The plane's data stays readable: once Postgres was initialised under a
\* password, LLM keys encrypted under a KEK or callbacks signed with a secret,
\* .env gives the services that very value, through every deploy, upgrade,
\* uninstall and stopped run, until the data itself is gone (existingOrRandom,
\* applyDocker's DB_PASSWORD, backfillEngagementSecret, uninstallDocker).
Fits(text) ==
    \A s \in Secret : used[s] # 0 => text # NoFile /\ EffectiveIn(text, s) = used[s]
SecretsFit == Fits(env)

\* A run never turns a profile on or off that the CLI does not manage, however
\* many writes its .env takes (deployProfiles, withProfile); an edit made while
\* the run was under way can be lost, and is not covered.
OwnProfilesKept ==
    [][WriteStep /\ ~touched => env'.on \ Managed = env.on \ Managed]_vars

\* A run that reports success left no container that writes another events
\* table than ClickHouse holds: not one of a service that is on, nor one left
\* over from a profile turned off in this run, in an earlier one or by hand
\* (checkAfterUp, runningImagesProblem, advisoryImageNotes).
SuccessFits ==
    [][Succeed /\ ~touched =>
          \A s \in Service : con[s] # "none" => Gen(con[s]) = table]_vars

\* After a run that reports success, a plain `docker compose up` finds its
\* work done: the release and the profiles the run worked with are those its
\* .env names, write by write (upgradeDocker's commit point, applyDocker).
LaterUpSame ==
    [][Succeed /\ ~touched => \A s \in Runs(env.on) : con[s] = Image(s, env.tag)]_vars

\* While a reset is recorded, running the upgrade again gets rid of every
\* container that would write the old table: one a profile turned off left
\* behind too, whose removal failed (removeInactiveDataPlane, and the record
\* that keeps the next run strict), unless the operator pins the engine.
Leftover == table = "json" /\ \E s \in Service : con[s] # "none" /\ Gen(con[s]) = "string"
LeftoversGo == Leftover /\ env.pending ~> (~Leftover \/ pin # "none" \/ fault)
=============================================================================

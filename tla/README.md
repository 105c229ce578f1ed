# The origamy CLI in TLA+

`origamy` (Go, `src/cmd/origamy/cmd`) deploys, upgrades, rolls back and tears
down a self-hosted data plane, with Docker Compose or with Helm. It keeps no
daemon and no database: every command reads what is there, decides, and changes
files, containers, a Helm release and a ClickHouse table, in that order, with an
operator, other runs, signals and failing commands in between. What it must not
do is easily said: work on a plane while another run does, throw away events
nobody agreed to throw away, lose an operator's edit, or leave a plane half-way
across a change without knowing it. This directory specifies those parts of the
CLI, checks them with TLC and proves some of them with TLAPS.

Contents: [inventory](#inventory), [modules](#modules), [runs](#runs),
[fairness](#fairness), [proofs](#proofs),
[where code and text disagree](#where-code-and-text-disagree),
[what is not modelled](#what-is-not-modelled), [plan](#plan),
[how to run it](#how-to-run-it).

## Inventory

Paths are relative to `src/cmd/origamy/cmd` unless they say otherwise.

### Project lock (`lock.go`, `lock_unix.go`, `lock_windows.go`)

*State:* the file `.origamy.lock` of a Docker project: which inode has the name,
which open file has the advisory lock, what is written in it. *Operations:*
`lockProject` (open, lock, compare with the name, write), `releaseLock`, in one
order on Unix (remove, then close) and the opposite on Windows, which cannot
remove a file that is open. Where the file system has no advisory locks,
`lockExclusive`: the file itself is the lock, made with O_EXCL, and a stale one
is taken over under a second file, `.origamy.lock.takeover`.
*Used by* `upgrade`, `deploy` and `uninstall` on Docker. An uninstall ends with
`os.RemoveAll` of the directory the lock file is in (`uninstall.go:236-241`): once
under the lock, and once more without it when the first left something.
*Hard:* the lock belongs to an inode, the name to whichever inode came last, and
removal pulls them apart; killed runs leave files; two runs find the same file
stale; a process id means nothing on another host; an uninstall removes the very
file that keeps the others out.
*Correct when* one run works at a time, the file under the name is the working
run's, and nothing that is left behind stops anybody for ever. The first two are
true of the lock's own steps; an uninstall breaks them for runs that come in
while it removes the directory (see [below](#where-code-and-text-disagree)).

### Exit hooks and signals (`lock.go`)

*State:* the list of hooks, one `sync.Once` each, two mutexes (`exitMu`,
`exitGate`), the signal channel. *Operations:* `onExit`, `exitNow`,
`runExitHooks`, `exitGate`, `exitOnSignal`. *Callers:* every command that leaves
something to undo (the lock, a downloaded bundle, the lease); prompts that get no
answer; the signal goroutine.
*Hard:* two goroutines run the same hooks; a hook may call other hooks and
`stop()`, which blocks for ever once a signal was caught; a step on several files
must not be cut by the exit of the process.
*Correct when* a hook that was found runs to its end once, a gated step is whole and
under the lock, and a caught signal ends the process.

### Storage reset of a Docker plane (`upgrade.go`, `deploy.go`, `compose.go`, `preflight.go`)

*State:* the events table in ClickHouse and the tables a reset moved aside;
`clickhouse-init.sql`; `DP_IMAGE_TAG` and `ORIGAMY_RESET_PENDING` in `.env`; the
running containers; the schema container that may still be at work.
*Operations:* `upgradeDocker`, an in-place `deploy` (`planDocker`,
`deployResetPlan`, `applyDocker`), `resetDockerEvents`, `settleAside`,
`checkAfterUp`. A release from 0.1.19 on writes JSON payload columns, an older
one String columns; neither can write the other's table, and events it cannot
write are accepted and then dropped.
*Hard:* the run may end between any two steps; `clickhouse-init` exits 0 when a
statement fails; the table may change between the question and the statement;
several commands are tried one after the other until one succeeds.
*Correct when* only a table whose operator agreed is dropped, an unfinished reset
is always recorded, success is true, and reruns come to an end.

### Bundle refresh (`bundle.go`, `bundle_hashes.go`)

*State:* the bundle's files, their `.origamy-backup*`, `.new` files, the manifest
`.origamy-bundle.json`. *Operations:* `prepareBundleRefresh`, `apply`/`swapIn`,
`rollback`, `commit`, `writeResetSchema`. *Actors:* runs (one at a time) and an
operator with an editor.
*Hard:* several renames that must look like one; the bytes that were classified
are read minutes before they are replaced.
*Correct when* what the operator wrote is in place or in a backup, and a file of
the CLI is never taken for an edit later.

### Lease (`kube_lock.go`)

*State:* the ConfigMap `origamy-reset-lock`. *Operations:* `acquireKubeLease`
(create; read; replace at a resourceVersion when it is 45 minutes old), `giveUp`.
*Hard:* two runs find the same lease left behind; a run outlives its lease, or is
killed with it in its hands.
*Correct when* the ConfigMap names the run that works.

### Storage reset of a Kubernetes plane (`kube_reset.go`, `kube_move.go`, `upgrade.go`, `rollback.go`, `deploy.go`)

*State:* ClickHouse, the Helm release, the images its objects run, the schema Job
of the chart, the ConfigMap `origamy-reset-pending`. *Operations:*
`upgradeKubernetes`, `rollbackKubernetes`, `kubeDeployProblem` and
`applyKubernetes`, `resetKubernetesEvents`, `kubeEventsCheck`,
`helmFailedAfterRecord`.
*Hard:* several runs at once, of which only those that can touch the table take
the lease; Helm fails with and without having moved the release; schema Jobs
create tables late; a record must outlive the run that wrote it and must not say
more than its operator did.
*Correct when* the Docker list holds, and with several runs the new table is
never moved aside.

### A Docker project across runs (`helm.go`, `compose.go`, `images.go`, `deploy.go`, `upgrade.go`, `uninstall.go`)

*State:* `.env` (release, profiles, secrets, the reset record) as a file that may
have another hard link or another owner; the containers, service by service; the
secrets the data in the volumes was first written under; an override that pins an
image. *Operations:* `writeEnvFile` and `writeInPlace` under `setEnvVar`,
`unsetEnvVar` and the rendered file; the commit point of `upgradeDocker`, which
writes one key after the other; `applyDocker`'s render and merge;
`stopTurnedOff`, `removeInactiveDataPlane`, `up -d`, `checkAfterUp`;
`uninstallDocker`. *Actors:* one run at a time, and an operator who edits
`COMPOSE_PROFILES`, pins an image and runs `docker compose up` and `down`.
*Hard:* a rename breaks hard links, a write in place is not atomic; a run that
stops in the middle of its commit leaves some keys of the new release; a secret
that was generated once must be given to the services for ever after, whatever
was turned off in between; `up -d` leaves the containers of a profile that is off
on whatever release they were started with.
*Correct when* `.env` is one text or the other, the data stays readable, success
is true of every container and not only of those that are on, and what the CLI
does not manage it does not touch.

### The rest

| Component | State, operations | Correct when |
|---|---|---|
| ClickHouse connection and prompts (`clickhouse.go`) | none; asks | a refused question ends the run |
| Dead-letter queue (`dlq.go`, `eventctl.go`) | none of its own; drives a tool in the data plane | what was replayed is reported |
| Diagnosis and status (`doctor.go`, `status.go`, `locate.go`, `kube.go`, `version.go`, `root.go`, `src/internal/ui`) | none; reads and prints | |
| Config signing (`signing.go`) | none; keys and releases to settings | |
| Uninstall on Kubernetes (`uninstall.go`) | one confirmed `helm uninstall` | |
| Install token, registration (`src/internal/token`) | parsing, one HTTP call | a token is spent once |
| Release tooling (`src/tools/sign`, `src/scripts`) | build time | |

Interactions: every Docker command runs under the project lock, which it
registers as an exit hook; an upgrade refreshes the bundle while it moves the
plane, and its reset puts the new schema file in the project with
`writeResetSchema`; a move on Kubernetes that can touch the table runs under the
lease, which is an exit hook too. The models meet at the same seams: `DockerReset`
and `BundleRefresh` have one run at a time because `ProjectLock` gives it to them
(where no uninstall is removing the directory),
and `KubeReset` takes the lease in one step because `KubeLease` shows what several
calls make of it. In both locks the abstraction is the same module, `OneRun`, and
so it is where `KubeReset` uses the lease; in both resets it is `StorageReset`.
`Project` EXTENDS `EnvFile`: every write of a run goes through the file's own
steps, and the run goes on once they are over; it takes the schema of the events
table in one step, where `DockerReset` follows the reset step by step and takes
a write of `.env` in one.

## Modules

| Module | Models | Reads as |
|---|---|---|
| `OneRun` | what the README promises under "One run at a time" | `working`, at most one run |
| `StorageReset` | what the README promises of the storage reset, on Docker and on Kubernetes | the tables, the record of a reset, and whether somebody interfered; no runs |
| `ProjectLock` | `lockProject`, `releaseLock` over flock and LockFileEx | one action per system call; `path`, `fd`, `flock`, `says` are the name, the open files, the kernel's locks and the text; `windows` picks the order of release and what may be removed; `RemoveAll`, `Rmdir`, `RemoveRest` are an uninstall's two removals |
| `ExclusiveLock` | `lockExclusive`, `holdExclusive`, `lockStale`, `takeOver` | one action per system call; `Age` lets a file's grace run out; a run is a process id, dead while its `pc` is idle; an uninstall's `os.RemoveAll` comes to the two names in either order (`todo`) |
| `ExitHooks` | the exit code of `lock.go` | two goroutines with a stack of hooks each; a critical section of `exitMu` is a step |
| `DockerReset` | `upgradeDocker`, in-place `deploy`, `resetDockerEvents`, `checkAfterUp` | `me` is what a run has decided and is lost with it; the other variables survive |
| `BundleRefresh` | `prepareBundleRefresh`, `swapIn`, `commit`, `writeResetSchema` | contents are values; one action per rename |
| `KubeLease` | `acquireKubeLease`, `giveUp` | one action per kubectl call, whose answer may be lost |
| `EnvFile` | `writeEnvFile`, `writeInPlace`, `inPlaceImage` | `env` is the text under the name, `twin` the one under the other hard link, `end` what follows the text in the file; a rename is a step, a write in place is two |
| `Project` | `upgradeDocker`, `planDocker`, `applyDocker`, `uninstallDocker` where they write `.env` and containers | `con` and `used` are what Docker and the volumes hold; `me` is what the run decided before it began to write; `touched` remembers that the operator changed something under a run |
| `KubeReset` | upgrade, rollback and in-place deploy on Kubernetes | several runs, each with its `me`; `lease` in one step |
| `…Proofs` | theorems about the module of that name | |
| `MC…` | instances for TLC: symmetry sets, concrete commands and bundles | |

In every module an action that can fail leaves the failure to a `Stop` (the run is
killed, interrupted, refused or its command fails with no effect), and an error
that leaves something behind (a half-written file, Helm that failed after it moved
the release, an apply that took effect and reported an error) is an action of its
own. Definitions named "Mutant of X" are X with a bug in it; they are not used by
the specification, and each run's properties fail when one takes X's place.

`DockerReset`, `BundleRefresh` and `KubeReset` abstract releases to the table
their images write, names of tables to a small set, and contents to values;
`DockerReset` also has a release whose tag says nothing (`edge`) and `KubeReset`
one of unknown generation that may be installed (`main`). `Project` has two
releases of the new generation, and three services, one for each way to be run:
always (`agent`), with `full` (`flow`), with `agentic` (`engine`). A secret is a
number: 0 unset, 1 the bundle's default, 2 and 3 generated; two are enough,
since a value that is generated must only differ from the one in `.env` and the
one the data depends on.

### Variables that remember

In the two lock modules `robbed` remembers the runs that had the lock, or took a
stale one over, when somebody without it removed their file: an uninstall in its
second `os.RemoveAll` (in `ExclusiveLock` also past its own lock file in the
first), or a run that was robbed itself and removes what it takes for its own. The
properties are about the other runs. That the exception is no larger is proved:
nothing else robs anybody (`OnlyUninstallRobs`, in both), and on Windows nobody is
robbed (`NobodyRobbed`). A run leaves `robbed` when it ends.

`meddled` (`DockerReset`), `died` (`BundleRefresh`) and `disturbed` (`KubeReset`)
remember that a behaviour left what the code protects itself against: somebody
changed the table by hand; a run was cut between the swap and its manifest; the
lease ran out under a run, or a run without one moved the release or rewrote the
record. Properties that need it say `~meddled` and so on; `DropsOnlyAgreed`,
`EditKept`, `EditStays` and `RollbackRestores` hold without. `StorageReset` has
both as `interfered`: from then on the promise is only what is dropped. In `Project`,
`touched` says that the operator changed profiles, pins or containers while the
run was under way: what the run then leaves is not its own work only.
`EnvWhole`, `LinkKept`, `SecretsFit` and `LeftoversGo` hold without.

## Runs

| Run | Asks | States | Bounds |
|---|---|---|---|
| `MCProjectLock` | `HolderIsFound`, `NoStaleLock`, `GoneWhenDone`, implements `OneRun` | 927 k | three runs, any of them an uninstall; three inodes (two at most are in use, the third is a fresh one), two rounds of the loop |
| `MCExclusiveLock_runs` | `HolderKeepsFile`, `AloneInTakeOver`, `OnlyStaleRemoved`, `ForeignLockStays`, implements `OneRun` | 1.4 M | two runs on this host, which may be uninstalls, one on another; three files; nobody dies inside `takeOver` |
| `MCExclusiveLock_ends` | `EveryRunEnds` | 475 k | two runs that may die anywhere, one of which may be an uninstall, two rounds of either loop |
| `MCExclusiveLock_death` | `OnlyStaleRemoved` fails | | a run that dies inside `takeOver`, no uninstall |
| `MCExitHooks_runs` | `StepsAreWhole`, `StepsUnderLock`, `FoundHooksFinish`, `NobodyWaitsInVain`, `CaughtEnds` | 6 k | an upgrade, and a deploy whose hook calls two others and `stop()`; the program has no more |
| `MCDockerReset_runs` | implements `StorageReset`, `TagFollowsSchema`, `SuccessIsTrue`, `WritersFitTable`, `OnlyOutsideRefuses`, `ResetFinishes` | 1.4 M | any commands in a row; three mishaps (a failed step, a kill, a change by hand); six names for tables moved aside, which are never all taken then |
| `MCProject_runs` | `EnvWhole`, `LinkKept`, `SecretsFit`, `OwnProfilesKept`, `SuccessFits`, `LaterUpSame`, `LeftoversGo` | 772 k | any deploys, upgrades and uninstalls in a row; two mishaps (a failed or killed step, a lost machine, an edit, a pin); one release of each generation; the engine is turned on and off, `full` and `logs` stay as they are; the dashboard's `.env` is hard-linked or not this user's to write, a deployed one plain |
| `MCBundleRefresh_runs` | `EditKept`, `EditStays`, `OwnIsPristine`, `RollbackRestores` | 696 k | two files, three bundles, two runs, two backups per file; the operator edits between runs |
| `MCBundleRefresh_editor` | `BackedUp` fails | | the operator also edits while images are pulled |
| `MCKubeLease_runs` | `HolderHasLease`, `OnlyStaleReplaced`, implements `OneRun` | 2 k | four runs: one left its lease, two find it, one comes later |
| `MCKubeLease_giveup` | `WorkingLeaseStays` fails | | a run that outlives its lease |
| `MCKubeReset_runs` | implements `StorageReset`, `ConsentSurvives`, `GoesThrough`, `SuccessIsTrue`, `MovesFit` | 1.9 M | two runs at once, as many commands in a row as one likes; two names; one event that the lease does not hold off (`Outlive`, `Meddle`) per behaviour |

The runs leave out what is a theorem and follows from what they check: the type
invariants (`TypeCorrect`); that one run works at a time, which `OneRun` says;
`DropsOnlyAgreed`, `HalfDoneIsRecorded` and `NewTableStays`, which follow from
`StorageReset` (`PromiseSuffices` proves it of the first two).

What the bounds leave out. In the locks the interesting number is of runs at one
file: one that works, one with the old file open, one that arrives, and the loop
is taken once more than any of them needs; the proofs make the safety of
`ProjectLock`, `ExclusiveLock` and `KubeLease` independent of these numbers.
Files and inodes are finite, and a run creates one while one is free
(`FileLeft`). Three files are what a takeover that goes wrong needs, the stale lock,
the takeover file and the lock created next; `MCExclusiveLock_ends` has four, so
that no run waits for one. In the resets, states are few enough
that behaviours are not cut short, except by the mishaps of `DockerReset`, whose
proofs have no such bound, and in `KubeReset` by the names: with both taken the
model refuses a further reset, where the program would find another second. There,
the third run at once would be one that the lease refuses. Two mishaps are what
the hazards of `Project` take: one to leave something behind (a removal that
fails, a profile turned off by hand), one to stop the run that would mend it; its
safety is proved for any number.
`BundleRefresh` needs two files for a swap that fails half-way, and two runs for
what the first leaves to the second.

## Fairness

Liveness is checked in four runs and assumes no more than this:

* `ExclusiveLock!FairSpec`: a run that lives takes its next step (the scheduler),
  so a run that holds the lock is done some time. Nothing makes a file age.
* `ExitHooks!FairSpec`: weak fairness for the goroutines, since Go schedules
  them; a gated step ends; strong fairness for taking `exitGate`, since a Go
  `sync.Mutex` goes into starvation mode and hands itself to a waiter after
  1 ms. Signals are not fair: they need not come.
* `DockerReset!FairSpec`: the operator reruns a command until it succeeds, which
  is what every refusal asks for. Failures are not forbidden, only counted: after
  `MaxMishaps` of them things stop going wrong.
* `Project!FairSpec`: a run that began takes its next step, and the operator whose
  upgrade did not get through runs it again, as every message of a failed upgrade
  says; strong fairness, because a run of something else may be under way at any
  moment, but not for ever. Edits and failures are counted there too.

## Proofs

TLAPS checks every leaf; no fact is taken on trust but the named assumptions on
the constants, which TLC evaluates in each run.

**`ProjectLockProofs`**, for any number of runs, inodes and rounds and both
systems. `IInv` is inductive: besides the types, a run that holds the lock or is
about to give it up has an inode open whose lock it has (`Locked`, `FileOpen`),
where it counts on the name the name is its file's unless it was robbed (`Owned`),
the file says so (`Named`), an open file stays on Windows (`Systems`), and a run
that is through has no lock left (`NoLockLeft`, `Released`, `RoundLeft`).
`MutualExclusion` alone is not inductive: two runs may have locked two inodes, and
only that both would have to be the one with the name excludes it. From it:
`TypeCorrect`, `Exclusion`, `HolderFound`, `NothingStale`, the action property
`NothingLeft`, and `Refinement`, that the lock implements `OneRun` (a run enters
`working` with its last write, and leaves it with the first step of its release,
with the removal of the directory if it is an uninstall on Unix, or when it is
robbed). `Exclusion`, `HolderFound` and `Refinement` except the runs that were robbed:
`OnlyUninstallRobs` says by whom that can be, `NobodyRobbed` that on Windows it
cannot.

**`ExclusiveLockProofs`**, for any runs, hosts, files and rounds. A run has a file of
its own where its place says so, and it is no other run's (`Handles`). The takeover
file is that of a run that takes over, which lives and is not slow, so nobody
finds it stale (`OneTakesOver`). A lock file that a run has found stale is
nobody's, and stays nobody's as long as it has the name, since a run owns only a
file it created (`Found`). So what a takeover removes is a lock that nobody holds,
and a run that works keeps its own (`Owner`), as long as neither was robbed. What a
robbed run does on its own goes wrong in one way only: it removes what it takes for
its own, and then whoever counted on that is robbed too. `TypeCorrect` holds
wherever runs die; `HolderKeeps`, `TakesOverAlone`, `OnlyStale`, `ForeignStays`,
`Refinement`, that the lock implements `OneRun`, and `OnlyUninstallRobs`, that the
lock's own removals by name rob nobody, assume that none is killed inside
`takeOver` (`DiesInTakeOver = FALSE`). The assumption is needed: without it, and
without any uninstall, TLC finds each property of `MCExclusiveLock_runs` violated,
`OnlyStale` as the finding below shows. `Nearer` does without: each step of a run
brings it to its end, to a later one of its rounds, closer to the end of the round,
or past a name that it removes (`ComesNearer`), wherever others die and whatever
they leave. As the rounds are bounded, a run that goes on taking steps ends; that it
takes them is fairness, and left to TLC (`EveryRunEnds`).

**`ExitHooksProofs`**, for any commands: any number of hooks that may call one
another, as long as none calls the one that stops the signals and the last to be
registered, the bundle download's, calls none. A hook whose function is under
way is its goroutine's, and on its stack once (`Frames`); past `delete` it has left
`exitHooks` (`Listed`). A hook the exit found is still to be called, in the stack
or done (`Finds`), and each step of a hook keeps it so. `exitGate` is the command's
in a step and the signal's from then on, and signals are stopped only once the
command takes no step any more (`Gates`); until then it is in no hook but the
download's (`Cleaning`), so nobody has begun to release the lock (`LockKept`). It
gives `TypeCorrect`, `WholeSteps`, `LockedSteps` and `HooksFinish`.
`NoVainWait` needs one assumption more: that hooks call each other without a cycle,
which `HookConstants` states by a rank and the hooks of the program satisfy. Then a goroutine that
is in a hook of some rank waits only for one of a lower rank, and the hook it waits
for is on the other's stack (`WInv`); the one goroutine that is blocked for ever,
the command's in `stop()`, is in no hook the exit still has to wait for. That is the
safety half of `CaughtEnds`: nobody is waited for in vain.

**`KubeLeaseProofs`**, for any number of runs. `Writers` bounds what may be in the
ConfigMap (the name of a run that has asked for it), `Holders` ties the working
run to it; the argument needs that every run writes the ConfigMap at most once,
so a resourceVersion that was read is not seen again. `TypeCorrect` and
`OnlyStale` hold always; `HolderNamed` and `Refinement` while no run outlives its
lease (`Overrun = FALSE`), which is what the code claims.

**`DockerResetProofs`**, for any commands, releases, names and schemas, with and
without changes by hand. `Consent` carries what an agreement is about: a run that
may drop a table has its operator's agreement, and so has every table it moved
(`Consented`, `AsideAgreed`); it gives `TypeCorrect` and `OnlyAgreedDropped`.
`Recorded` says, while nobody else changes the table, what the run knows at each
step (`Knows`), that the record is written before anything moves (`Records`), and
that a check that passed still holds (`Checked`); it gives `NeverForgotten` and
`SuccessTrue`. `Fitting` says what a run was told about the table and did not
refuse is still so until it acts on it (`Sees`): before a pre-reset table is moved
(`NotMoved`) and after the new one was seen (`Replaced`). From both come
`TagFollows` and `WritersFit`, and `Refinement`, that the plane's tables and record
change as `StorageReset` promises; `PromiseSuffices` shows that the promise by itself
gives `DropsOnlyAgreed` and `HalfDoneIsRecorded`, so that it says what the operator
relies on. `CanFinish` adds what makes a rerun get through: a run that is to create
the table brings its schema (`SchemaFits`), and a reset is begun only on a table it
recognises (`Recognised`). From it comes `RerunsGetThrough`, the safety half of
`ResetFinishes` for any number of mishaps: a run that found a reset recorded is
refused only by something outside the runs. Four of those are left, and each is in
the code: the control plane does not serve the new schema, an init container of an
older bundle creates the old table late, the create fails, an image is not the
release's.

**`ProjectProofs`**, for any releases and profiles that are switched, any kinds of
file and any number of mishaps. `Inv` is about the file and the run's place:
a text on its way into `.env` is one a release was given (`FileInv`), and a run
that has begun to write has a `.env` (`PlaceInv`). It gives `TypeCorrect`,
`FileIsWhole` and `LinkIsKept`. `SecretInv` gives `SecretsStay`; `SecretsFit` alone
is not inductive, since a write of `.env` goes through steps and an upgrade works
out the engine's key before it pulls: both the text there and the one on its way
must fit the data, and no key may have come into `.env` but the one the run will
write. `RunInv` ties what a run decided to what `.env` says or will say
(`GivenInv`, `OwnInv`) and to what it started and checked (`CheckedInv`), for
`ProfilesStay`, `SuccessIsFit` and `LaterUpIsSame`. `WayInv` adds what a run that
resets is sure of, for the safety half of `LeftoversGo`: the check after its `up`
can turn it away for a container of a service that is off, and for nothing else
(`LeftoversAlone`), and one that is gone does not come back before the run is over,
from its own `up` or from the operator's (`LeftoversStayGone`). Both are about a run
during which nobody touched the project; an override that pins the engine is the
exception in `LeftoversGo` too.

**`KubeResetProofs`**, for any number of runs, names, commands and releases. `Inv`
says of each run what it knows of itself (`Local`) and, while the lease holds
everybody off, what it knows of the cluster (`Holds`): the record it read or wrote
is the one there, the table is the one it asked about, the release is the one it
moved to. `TablesInv` is about tables moved aside: until the new one is there, the
record names each with its consent, and nothing can bring the old one back (`Kept`:
not a schema Job, not the release). It is this last part, in no property, that
makes the others inductive. It gives `TypeCorrect`, `DropsAgreed`, `NewStays`,
`ConsentStays`, `HalfDoneStaysRecorded`, `SuccessHolds` and `MovesAreFit`;
`DropsAgreed` and `TypeCorrect` need no lease. `Refinement`, that any number of runs
together implement the same `StorageReset` as the one of Docker, needs `Marked` too: a
run that works on the table has its record in the cluster, so that nothing is moved
or dropped without one. `RecordedGoesThrough` is `RerunsGetThrough` here
(`Recognised`, and `Charted` for what a run knows once its chart is in place); one way
to be refused is left, a late schema Job of an older chart. `OneWorks` closes the
seam to `KubeLease`: the runs that work on the table, from their lease to their end,
are a behaviour of `OneRun`, the specification the ConfigMap's several calls
implement.

**`BundleRefreshProofs`**, for any files, bundles and edits and any bound on
backups and runs; all but `TypeCorrect` assume that the operator does not edit
while images are pulled (`~Concurrent`; the run that does is a finding below, and
with it TLC finds `EditKept`, `OwnIsPristine`, `EditStays` and `RollbackRestores`
violated: none of the four could do without the assumption).
`Safe` says where an edit is while a swap may still be undone: in place or in the
backup that will be put back, or in one that will not be touched. Undoing
takes the steps from the newest on, so `BackInv` follows the oldest step of each
file, the one that decides what it ends as. `StepsInv` and `PlaceInv` say that the
list of steps and the files agree, `OwnInv` that what the CLI wrote is known to be
its own. It gives `EditIsKept`, `OwnStaysPristine`, `EditStaysPut` and
`RollbackIsWhole`.

Only model-checked: liveness (`EveryRunEnds`, `CaughtEnds`, `ResetFinishes`,
`LeftoversGo`), which the prover does not do. What can be proved of them without
fairness is: that no run goes round in circles (`Nearer`), that nobody waits in vain
(`NoVainWait`), that no rerun is refused for what earlier runs left
(`RerunsGetThrough`), nor for any container but one it could not remove
(`LeftoversAlone`, `LeftoversStayGone`). Every other property of a run that passes is a theorem.

## Where code and text disagree

* **A takeover file of a dead run** (`lock.go:266`). It is removed by name after it
  was read. Two runs that wait for it can both judge it; the second removes the
  one the first has just made, both take over, and a lock that somebody holds is
  removed. The comment (`lock.go:194-196`) and the README (`src/README.md:281-282`)
  say it cannot happen. `MCExclusiveLock_death`.
* **Giving up a lease** (`kube_lock.go:92`). The ConfigMap is read and then deleted
  by name, so a run that outlived its lease can delete that of the run that took
  over. The comment says "only if it is still this run's". `MCKubeLease_giveup`.
* **A file saved while images are pulled** (`bundle.go:706`). The backup holds the
  bytes read before; the rename replaces what is there now. The comment says
  "backs up every file it replaces". `MCBundleRefresh_editor`.

Four more are in the models as steps, without a run of their own:

* An uninstall removes the directory, lock file included, while it holds the lock
  (`uninstall.go:238`), and what is left of it without (`uninstall.go:240`). From the
  first on, a `deploy` on the same directory can create the file, lock it and work
  while the uninstall still removes; the second can take the file of such a run
  away, so that a third gets in beside it. `lock.go:28-29` has the file "locked by the
  one `origamy upgrade`, `origamy deploy` or `origamy uninstall` working on it", and
  `src/README.md` promises one run at a time. On Windows the file stays until it is
  unlocked, so only the second removal is without it, and it takes no file that
  another run has open.
* `stop()` is deferred after `unlock` (`upgrade.go:1129`), so it runs first, and a
  signal between the two is not caught: the lock file stays. It names a dead
  process, and the next run takes it over.
* A run on Kubernetes decides that it cannot touch the table from the images it
  reads at its start (`upgrade.go:376`), and takes no lease. If another run moves
  the release across the reset before its `helm` call, the images land on a table
  they cannot write (`Strays`); only the check of images at its end can tell.
* A deploy without the lease that finds no table records one to create
  (`deploy.go:606`), over the record of a reset another run may be in the middle
  of (`CheckRecords`). The consent in it is lost, and the old table is kept.

## What is not modelled

* In the modelled parts: the portal's URL and the signing keys an upgrade
  backfills; an external ClickHouse, which the CLI never resets; which digest pins
  which image (a run whose images cannot be told is one that can touch the table);
  the shortcut of an upgrade with nothing to do; waits and their timeouts, which
  end in an answer or in `Stop`.
* What a run makes of a project whose directory an uninstall is still removing, or
  the other way round: the locks have the steps by which it gets in, `Project`,
  `DockerReset` and `BundleRefresh` one run at a time.
* In `Project`: the operator does not save `.env` while a run is in the middle of
  writing it (a few milliseconds, and the one who saves last wins), nor starts the
  plane between the `down -v` of an uninstall and the removal of its directory; a
  deploy finds no volumes of a plane whose directory somebody deleted (their
  passwords went with it), nor those of another compose project name, which are
  refused before anything changes (`strandedPlane`); restarts of
  containers for their bind mounts, which are in `DockerReset`; `CLICKHOUSE_PASSWORD`
  and the other datastore passwords, which are handled as `DB_PASSWORD` is but for
  its default.
* Quoting, comments and duplicate lines of `.env` (`dotenv.go`): a text is its
  settings.
* The dead-letter queue: `dlq` asks a tool in the data plane, `eventctl`, that is
  not in this repository, and keeps nothing itself.
* Pure functions on strings (tags, digests, compose files, tokens) and everything
  that only reads and prints: there is no order of steps in them to get wrong.
* The schema Job and `clickhouse-init` are in charts and images outside this
  repository: they are modelled by what `src/` says of them (CREATE TABLE IF NOT
  EXISTS, late or not at all).

## Plan

Done, in this order: `OneRun`, `ProjectLock` and its proofs; `ExclusiveLock`;
`DockerReset` and its proofs; `ExitHooks`; `KubeLease` and its proofs;
`BundleRefresh`; `KubeReset`; then `EnvFile` and `Project` with their proofs, and
the proofs of `KubeReset`, `BundleRefresh`, `ExclusiveLock`, `ExitHooks` and of what
`DockerReset` still lacked; then `StorageReset` and the two refinements of it, and
the safety halves of the four liveness properties.

Next, in this order:

1. `Project` and `DockerReset` as one: `DockerReset`'s steps in the place of
   `Project`'s `Reset`, and the refinement that shows it.
2. A run of `KubeReset` that outlives its lease, over `KubeLease` and its calls:
   today the two meet at `OneRun`, which ends there.
3. Image identity, and the move between generations on Kubernetes, as operators
   checked against a reference definition.

## How to run it

    tlc -workers 2 -config MCKubeReset_runs.cfg MCKubeReset.tla
    tlapm ProjectLockProofs.tla

`PROJECT.json` lists components, runs, mutants, the lines every definition
models, hazards and theorems. The longest runs (`MCKubeReset_runs`, `MCProject_runs`,
`MCDockerReset_runs`) take two to three minutes, the longest proofs as long.

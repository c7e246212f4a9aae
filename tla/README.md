# wtm in TLA+

`wtm` manages Git worktrees for several repositories on one machine: a command
line (`packages/cli`) and a per-user daemon (`packages/daemon`) share one SQLite
database (`packages/core/src/state`) and start, watch and destroy things on disk
and processes. This directory models the parts whose correctness depends on the order
in which several of those actors act.

## 1. Inventory

| Component | State it keeps | Operations | What is hard |
|---|---|---|---|
| Repository operation lease (`core/analysis/operation-lease.ts`, lease part of `core/state/sqlite-store.ts`) | table `repository_operation_leases` (owner token, pid, start time, host, expiry, stage) | acquire, adopt, renew, advance stage, release; forget/register a repository | several processes and hosts, crash with a row left, recycled PIDs, verdicts measured before the transaction, partial acquisition |
| Heavy-job queue (`daemon/heavy-job-queue.ts`, `core/state/jobs-store.ts`, `job-scheduling.ts`) | table `heavy_jobs`; in memory: timer, exits, recovering set, one running flush | enqueue, claim, launch, reconcile, cancel, time out, finish, prune, start, close | every step of a flush is an await; daemon crash at any of them; late, missing or unreadable evidence |
| Process supervisor (`daemon/process-supervisor.ts`) | table `managed_processes`, reservations, listeners on anchors | start with handshake, stop, recover, record exit, roll back a spawn | a start fails half way; ownership of a process that cannot be proved |
| Process anchor (`daemon/process-anchor.ts`) | a process of its own that leads the task's group | handshake, GO, deadline, completion marker | survives the daemon, can be killed alone |
| Managed logs (`daemon/logs.ts`) | log files, launch/exit/completion markers | open, rotate, read cursor, read marker, remove job directory | replaced directories, partial writes |
| Worktree removal (`core/analysis/remove-worktree.ts`, `worktree-analysis.ts`, `cli/removal-coordinator.ts`) | stage in the lease row, worktree state | analyse, lease, stop, release endpoints, re-analyse, `git worktree remove`, reconcile | stale analysis, identity of the directory, resume |
| Resources (`core/resources/*`) | storage objects, references, cleanup leases, cleanup journal | materialise, guard, plan and run gc | crash between quarantine and deletion, expiry in the middle |
| Feature creation (`cli/commands/create-feature.ts`, `core/analysis/create-feature*.ts`) | journal of members and phases | plan, lease, apply per member, register, resume | crash between any two writes |
| Endpoints (`core/runtime/endpoint*.ts`, `sqlite-store.ts`) | port leases per worktree | allocate, release, hand over, reactivate | a worktree vanishes and returns |
| CI watcher (`daemon/ci/watcher.ts`, `core/state/ci-store.ts`) | watches, budget of provider calls | watch, unwatch, poll | budget read before an await; unwatch during a poll |
| Watcher and reconciler (`daemon/watcher.ts`, `events.ts`, `reconciler-queue.ts`) | signals, one running reconciliation | signal, drain, close | signals during a run |
| Interactive runtime (`daemon/runtime-controller.ts`, `idle-runtime.ts`, `readiness.ts`, ...) | running tasks, budgets, activity times | start, stop, restart, idle sweep | concurrent starts, sweep against request |
| IPC (`platform/ipc/*`, `daemon/server.ts`, `cli/client.ts`) | a socket path | publish, quarantine a stale one, connect | two daemons at once |
| Service lifecycle (`daemon/service-lifecycle.ts`, `platform/service/*`) | service definition, crash record | install, upgrade, uninstall, quarantine | interrupted upgrade |
| Proxy, configuration, adapters, Git access, ranking, CLI, diagnostics, protocol | none of their own | parse, validate, format, forward | not concurrent; left out |

The components meet in the database. A destructive operation (`remove`, `gc`) and a
heavy job exclude each other because each checks the other's table inside its own
`BEGIN IMMEDIATE`: `assertNoHeavyJobs` when a lease is taken, `assertRegistered` when a
job is admitted, claimed or started. The daemon's queue drives the supervisor, the
supervisor drives anchors, and anchors answer by exit status and by markers on disk.

What makes each modelled component correct:

* **Lease**: at most one live run is inside one registration of a repository; a run
  that returned leaves no row; a colliding run is refused and never waits; a journal is
  inherited only by the operation that wrote it; no heavy job under a destruction.
* **Queue**: a command is started at most once; a slot covers every process of it until
  the last is gone, so the limits hold for real processes; the recorded outcome is what
  happened; an accepted stop request decides; terminal records never change; every job
  ends.
* **Removal**: nothing of the user's that the second analysis could see is deleted; no
  task starts under the lease of a removal; a worktree that is gone gives up its ports,
  wherever its removal stopped.
* **Feature creation**: what a creation made stays in its journal until it is complete;
  Git is run in a repository by one creation at a time; a creation reported done is
  whole; resuming finishes one that nobody disturbed.
* **Interactive runtime**: admitted runs stay within the budget; a launched group is
  always answered for by a row; a task has one live run; strangers are never signalled.
* **Garbage collection**: only the object that was checked is deleted; what lies in
  quarantine is reserved; a referenced object is not touched; a crash is recovered from.
* **Reconciliation**: no signal is lost; an answered request is in the registry; a broken
  watch comes back.
* **CI watcher**: every watch ends; the answer of a poll does not revive an ended one; a
  log is fetched once.
* **Service lifecycle**: one owner of the lock; a definition is never lost; a stranger's
  definition is not deleted unread; a run alone is never refused.

## 2. Modules

| Module | Models |
|---|---|
| `RepositoryMutex` | abstract: per repository a set of at most one holder, and which runs have ended |
| `OperationLease` | the lease table, the policy around it, and the runs of `wtm` that use it |
| `JobQueue` | the queue, its table, and the supervisor and anchors as it sees them |
| `WorktreeRemoval` | `wtm remove` against the user, task starts, reconciliation and a sibling's removal |
| `FeatureCreation` | `wtm create --repos` and `--resume`: leases, journal, `git worktree add`, registration |
| `ManagedRuntime` | controller, supervisor, anchors and idle sweep of the interactive tasks |
| `ResourceGc` | `wtm gc --apply` on one storage object, with its recovery |
| `Reconciliation` | the daemon's passes, its signal queue, its watches and the `reconcile` request |
| `CiWatcher` | the CI watcher and its table |
| `ServiceLifecycle` | `wtm daemon install`, `uninstall`, `status` on the file system and the service manager |
| `OperationLeaseProofs`, `JobQueueProofs`, `WorktreeRemovalProofs`, `FeatureCreationProofs`, `ManagedRuntimeProofs`, `ResourceGcProofs`, `CiWatcherProofs`, `ServiceLifecycleProofs` | the theorems |
| `MC...` | constants and symmetry for TLC |

`OperationLease` refines `RepositoryMutex`; the others use leases in one step, as that
abstraction allows. `JobQueue` and `ManagedRuntime` look at the same supervisor from its
two clients; `WorktreeRemoval`, `FeatureCreation` and `Reconciliation` meet in the rows of
worktrees. Each models what it shares by its effect and says so in its comments.

### OperationLease

A member of `Procs` is one run of `wtm` (`Start` ... `Exit`, or `Crash`). `phase`
follows `acquireLease`: `List` reads the rows of the repository, `Measure` asks the
operating system about the owner of each expired row (`livenessOf`), and one
transaction then decides: `AcquireGranted`, `AcquireRetry` (the row blocking us is not
the one measured; at most `maxAcquisitionAttempts`) or `AcquireRefused`. Between these
steps anything may happen, which is where a verdict can be stale. In the body, `Advance`
journals a stage and `RenewAll` renews, and `Finish` or a throw leads to the nested
`finally` blocks (`Release`, innermost first). `Forget` and `Register` retire a
repository and give it a new id; `EnqueueHeavyJob` and `HeavyJobsDrained` are the queue
as the lease sees it.

The clock is an integer that all hosts share. `Pid` and `Host` say what the kernel gave
a run; two runs may share a PID on one host if they do not live at the same time. The
session token is unique per run in the code and is modelled by the run itself; so is
the start time. `repair` is declared as an operation and requested by no caller.
`RenewAll` is called only by `create`, `Advance` only by `remove`. A resumed stage is
reported to the caller and not obeyed by the lease.

### JobQueue

`op` is the flush that runs, with `op.pc` the await it is suspended at and its local
variables beside it (`stop`, `done`, `unread`: the values read earlier in
`#reconcile`). `job` is the table. `group`, `record` and `marker` are a job's process
group, its `managed_processes` row and its completion marker; they survive the daemon.
`outcome` and `starts` are history, never read by an action of the code.

Left out or merged: all worktrees belong to one repository; memory admission is off
(it is off unless configured); the admission counter and the cap on retained history
are not modelled; flushes that wait behind a running one are merged (they do the same
work); the three attempts at reserving a start are one (`StartConflict`); the two
destructive operations are one (`destroy`); a PID is not recycled while it is watched;
logs are always configured.

### WorktreeRemoval

A worktree is a member of one feature: one branch in several repositories, sharing one
leased endpoint. `run` holds the locals of a removal and `run.stage` its place in
`removalStages`; `releaseEndpointLeases` is four stages because it is four transactions
(`MarkCleaning`, `FindSibling`, `Reassign`, `Release`), and reconciliation two, because
Git's list is read before it is applied (`ListAfterwards`, `ReconcileAfterwards`; in the
daemon `DaemonLists`, `DaemonReconciles`). `start` is one start of a task in the daemon:
`StartRequest`, `ReadGroup`, `ResolveEndpoints`, `Prepare`, `Reserve`, `Record`, `Launch`
are separated by its awaits, except the second and third, which other processes can
still interrupt in the database. `row`, `settings`, `endpoint` and `lease` are tables;
`git`, `work`, `resource` and `head` are what an analysis sees on disk. `run.late`,
`run.early`, `lost` and `deserted` are history, never read by an action of the code.

Left out or merged: an analysis is one atomic reading; deleting watches, overrides and
the checklist is part of `MarkCleaning`; the lease is taken in one step, its acquisition
being `OperationLease`'s subject; an unreachable daemon is a failed request; a worktree
does not come back while its own removal runs; symbolic links, the main worktree and
policies that are refused before the first stage are not modelled; no code writes the
states `REMOVED` and `DEGRADED_CLEANUP`.

### FeatureCreation

One workspace and one branch; a repository's number is the position of its member. `run`
holds the locals of a shell: `StartFresh` reads the journal and plans (`planFeatureCreation`),
`Acquire` takes all leases in one step, `Measure` looks again under them, `Journal` opens
the creation, `Apply` journals a member and starts Git, `GitAnswers` is what
`applyAndRegister` makes of Git's exit and its list, `Announce` asks the daemon to
reconcile, `Register` and `Complete` close the journal. A resume goes through
`StartResume`, `Acquire` (with adoption), `Reread` and `Recover`, which is
`classifyMemberRecovery` for one member. `git worktree add` has three steps (the branch,
the entry, the files), because it outlives the shell that started it. `Meddle` is the
user, or `wtm create` of one repository, which takes no lease. `made` and `touched` are
history.

Left out or merged: a lease expires only for the dead (`"dead"`); the measurements of
several repositories are one step, and so are the reading of Git's answer and the journal
entry after it; the daemon's reconciliation is one step; a registry row is only written
by the creation. `Kills` lets Git be killed half way, `SlowGit` lets an orphaned Git
outlast the 120 seconds of a lease; both are off in the run and on in configurations run
by hand.

### ManagedRuntime

A request (`start`, `restart`, `stop`) spawns at most one anchor, so a run has the name of
its request. `lock[t]` is the supervisor's promise chain of a task and `at[t]` the step of
its head; `rec` are the rows of `managed_processes`, `held` the start reservations,
`anchor` and `work` the processes, which survive the daemon. `other` is a process that
took a dead anchor's pid. Left out or merged: the per-task chain is first in, first out;
the refusal under a repository lease, `stopAll`, the memory floor, readiness and database
errors are not modelled; exit codes are nondeterministic; SIGTERM has no effect of its
own; the sweep's list and policy are one step; a reservation expires only with nobody
inside the lock.

### ResourceGc

One storage object: rows, leases, journal entries and containers belong to objects, so one
is enough. `run.pc` is the step of a run between two system calls or transactions. `renew`,
`validate` and the move are separate steps, and so are the three that take the original name
of a file away: the renewal (`RenewForUnlink`), the last look at both links (`CheckLinks`)
and the unlink by path (`UnlinkOriginal`), which takes whatever is there by then. `erased` is
the history of both deletions, `known` what there was at a run's last look, and `late` tells
what was put at the path since. A move is one step with the look at what arrived, a deletion
inside the container with the check before it. Left out: the repository lease, tampering inside a container,
legacy journal rows, dry runs; an inode number is reissued only when neither a link nor a
descriptor holds it. The materialiser has no caller in production and is not modelled.

### Reconciliation

A root's topology is a version; the one linked worktree exists in odd versions. `pass`
holds the locals of the daemon's first pass and of the running batch, `req` those of a
`reconcile` request, `owed` what the last signal of a root told of. What the event loop
runs between two awaits is one step. File events may be lost; fingerprints, watches of
worktree paths, adapter discovery, process recovery and an orderly close are left out.

### CiWatcher

`watch` is the table, `tick` and `poll` the work under way, `asks` the requests that await
their probe, `calls` the window of the budget. Time is what has passed: a watch is due or
not, its age is how often it fell due. Left out: pull request numbers, log summaries,
retention, the limit of 20 pending watches (not reached), re-runs on the provider's side. A
CI run that failed has a failed job; any other may list none, and is then read again.
A `gh` call always ends, by its 30 second timeout.

### ServiceLifecycle

Every system call of an operation is a step; `run.pc` names it. `lock`, `candidate` and
`claim` are the owner file and its `.owner-` and `.successor-` links; `journal` and
`journalTmp` the transaction; `def`, `tmp`, `quarantine` the definition and its
temporaries. Left out: `print` failing after a bootstrap that failed with an effect, I/O
errors other than by a crash, enabling and disabling, `ensureManagedDirectories`.

## 3. Runs

Every run passes within its bounds.

| Run | Bounds | Shows |
|---|---|---|
| `lease_exclusion` | 3 runs of `wtm`: two with one PID on one host, one on another host; 1 repository; TTL 1, clock to 2, 2 registrations, 2 stages | mutual exclusion, jobs against destruction, the journal |
| `lease_multi` | 2 runs, 2 repositories whose order by path is the reverse of the order by id | no waiting, nothing left behind, refinement of `RepositoryMutex` |
| `queue_job` | 1 job, 4 mishaps | start-once, truth of the record, stop reasons, binding, and that the job ends |
| `queue_pair` | 2 jobs of one worktree, 2 slots, 2 mishaps | slots cover processes, exclusion of destruction |
| `remove_worktree` | 2 worktrees, 2 ports, 3 kinds of blockers, 3 outside events | no seen work lost, no start under the lease, ports of the dead given up |
| `feature_creation` | 2 shells, 2 repositories (the branch exists in one), 2 creations, 1 fault, 1 outside change | journal, one writer, completeness, and that resuming finishes |
| `managed_runtime` | 2 requests, 2 tasks, budget 1, 1 fault, pids reused | budget, ownership, one live run, strangers |
| `resource_gc` | 3 runs, 2 at once, 2 kills, 1 expiry, deletion or replacement, a file or a directory | identity, reservation, references, recovery |
| `reconciliation` | 1 root, 1 request, 2 changes, 1 move, 2 faults | no lost signal, fresh answers, watches come back |
| `ci_watcher` | 2 watches, 3 calls a minute, 2 CI runs, deadlines after 2 and 4 polls | every watch ends, ended rows stay, logs once |
| `service_recovery` | 4 runs one after another, 3 mishaps, of which 2 may be failing commands or edits | the definition survives, recovery, rollback |
| `service_lock` | 3 runs, 2 at once, 2 mishaps, 2 polls of a held lock | one owner of the lock, `status` stops nothing |

A *mishap* of the queue is a cancellation, retry, lease, deadline, vanished worktree,
crash, unpublished or unreadable completion, failed inspection or killed anchor. Four of
them reach every combination of a stop request with a late deadline, a crash and bad
evidence in the life of one job. Three runs of `wtm` are enough for a holder, a contender
and a third that profits from a wrong verdict; a clock of two covers taking, lapsing and
taking again; two registrations cover a forgotten and re-registered repository.

An *outside event* of a removal is a command, a write by the user, a disappearance, a
return, a crash or a failed reconciliation. Three are enough for a start, a removal and
a write; for two removals and a crash; and for a removal of a worktree that vanishes and
returns. `untracked`, `ignored` and `commit` stand for the three ways Git treats what is
in the way: it vetoes untracked, modified and locked alike, deletes ignored content
silently, and does not look at unpushed commits.

A creation with one crash or failure and one change by somebody else in the same
behaviour reaches every phase of a member with every state Git can be in; two shells give
a creation, its resume and a competitor. The same with two faults and no change, and with
`--from`, passes too (`MaxFaults = 2`, `MaxMeddling = 0`; `Froms` with another commit).

Two requests under a budget of one meet in admission, in the lock and in the sweep; the
proofs of section 4 cover every number. Two concurrent collectors and a third that
recovers what both left are the most the journal tells apart. One root is enough for a
lost signal. Three calls a minute are fewer than one failed commit needs, so the budget
always bites. A replacement of the object is one outside change, as by a rename over it; the
theorem about deletions covers every number of them. Four service runs are one that is
killed, two recoveries that are killed, and one that must succeed.

Deadlock checking is off where runs end and nothing has to follow (leases, creation,
garbage collection, service, and the instances with bounded requests); the queue and
removal runs keep it on: the daemon can always be restarted, and may always look again.

`TypeOK` is part of the inductive invariants of section 4 or proved beside them; that of
`Reconciliation` is checked by hand with the same bounds.

Fairness: in `OperationLease` every started run keeps taking steps, since nothing in it
waits. In `JobQueue`, Node runs the continuation of a flush and a timer that is due; the
service manager restarts the daemon (`KeepAlive`, `Restart=`); process trees end and
their exit events are delivered. Mishaps are finitely many, so nothing keeps failing for
ever. In `WorktreeRemoval` only one step is fair: a pass of the daemon that has read Git's
list applies it. Nothing makes a pass begin, for the daemon has no periodic one (ADR 0002;
`main.ts` reconciles on signals, watch retries, requests and at its start), so `DeadLeasesEnd`
has an antecedent: as long as passes of the worktree's repository keep coming. One pass is not
enough, since the one that turns a `CLEANING` row into `ORPHANED` keeps its ports
(`sqlite-store.ts:459-479`, see `OrphanedGivesBack` below). In `FeatureCreation` a shell
that runs goes on, Git ends, and the user resumes what is open. In `Reconciliation` the
daemon's own steps are fair and in `CiWatcher` its timer, ticks and polls, the answers
(every `gh` call has a timeout) and the restart; requests, crashes and the provider's
progress are not. A daemon whose start was refused is taken to be started again, by the
service manager or by the next command, which `NoSignalIsLost` and `WatchComesBack` rely on.

### Disagreements with the documentation and comments

Each of these is a configuration to run by hand (with several properties, by
`tlc -continue`); TLC finds the property violated by what the code does.

| Configuration | Property | What the code does |
|---|---|---|
| `MCOperationLeaseForget` | `LiveHolderKeepsRow` | `operation-lease.ts:20` says "A lapsed TTL never evicts a live holder"; `forgetRepository` and `forgetWorkspace` delete such a row (`sqlite-store.ts:1921` refuses only unexpired ones, and its comment says so). |
| `MCJobQueueSlot` | `SlotIsReleased` | A `create` lease taken between `claim` and `reserveManagedProcessStart` makes the start refuse before anything is spawned; the error carries no `spawnOutcome`, the queue records `SPAWN_OWNERSHIP_UNCONFIRMED` and `#reconcile` skips the job from then on. `docs/13` ties a slot to the process group's absence. `EveryJobEnds` is stated with this exception. |
| `MCJobQueueStates` | `DocumentedTransitions` | `claim` ends a queued job as `INTERRUPTED`; `docs/13` knows no such transition. |
| `MCWorktreeRemovalDocs` | `AbortLeavesLive` | An untracked file or a lock that appears after the second analysis makes `git worktree remove` refuse, with the row `CLEANING` and its watches, overrides and ports gone; `remove-worktree.ts:324` calls the second analysis "the one gate that can still abort the whole removal". |
| the same | `StoppedBeforeGit` | `residueOf` counts process records, not start reservations: a start reserved before the lease records its process after `verify-processes`, against "a worktree with running managed processes can never reach Git". `NoStartUnderLease` is stated with this exception. |
| the same | `OrphanedGivesBack` | `docs/07:40` says "reconciliation releases every active lease of a worktree it marks `ORPHANED`". The pass that marks a `CLEANING` row keeps its leases, and nothing schedules the next one: after a removal that died, one batch of signals leaves the port held until something else wakes the daemon. |
| `MCFeatureCreationPlanned` | `PlannedWroteNothing` | `sqlite-store.ts:1793` says "Nothing was written to Git while every member is PLANNED". A `git worktree add -b` that fails leaves the branch it created, and the member goes back to `PLANNED`; after that another `--from` is refused because the branch exists. |
| `MCFeatureCreationForgotten` | `InitRestores` | `create-feature-recovery.ts:51` advises "Register it again with `wtm init`, then resume"; registration gives a new random id, which no member of the journal has, so the resume refuses for ever. |
| `MCFeatureCreationKilled` | `CompletedIsWhole` | A `git worktree add` that is killed half way (with its shell, or by SIGKILL after its 30 seconds) leaves an entry that Git lists; `createWorktree` and `classifyMemberRecovery` take the entry for a finished worktree. |
| `MCFeatureCreationSlow` | `OneWriter` | A `git worktree add` whose shell died is not bounded by the 30 seconds; should it outlast the lease, a resume runs beside it. |
| `MCManagedRuntimeBudget` | `WithinBudget` | `docs/07` (about line 401) refuses a start that would raise the count above the limit. A start of a task found active takes no reservation, and is a new process if that run ends before its turn. |
| `MCManagedRuntimeGroups` | `EveryGroupOwned` | An anchor killed from outside leaves its task running; its exit closes the row (`process-supervisor.ts`, about line 472). |
| `MCManagedRuntimeBoot` | `BootCompletes` | A `STOPPED` row that still owes its cleanup is given a transition the store refuses, and the boot fails. |
| `MCManagedRuntimeIdle` | `AskedIsSpared` | The sweep's second look precedes its wait for the task's lock (`idle-runtime.ts:179-185`). |
| `MCResourceGcPath` | `DeletesOnlyOwned` | `docs/01:78` says "GC only deletes resources that are owned". The original name of a file is unlinked by its path after the last look at its links was awaited (`gc.ts:369-370`, `783-784`): a file put there in between is deleted. `ErasesWhatItChecked` is stated with this exception. |
| `MCResourceGcRemoved` | `RemovedIsGone` | `docs/13` says of `REMOVED` "content deleted"; an object that is absent at one look and back at the next is recorded as removed. |
| `MCReconciliationEarly` | `AnsweredIsFresh` | The socket opens before the first pass has ended (`main.ts:265-281`); that pass may apply an older reading over a newer one, and `create.ts:104` relies on the answer. |
| `MCReconciliationWatched` | `AnsweredIsWatched` | `main.ts:428` clears the flag another request set in the meantime, against the comment at 523. |
| `MCReconciliationFailure` | `FailureIsOwn` | An error recorded before a request fails it (comment at `main.ts:441`). |
| `MCCiWatcherCalls` | `WithinCalls` | A probe looks at the budget before its await and is charged after it (`watcher.ts:139-143`, against the comment at 135). |
| `MCServiceTorn` | `AloneNeverRefused` | A crash between the creation and the writing of a small file leaves it empty, and every later operation refuses it, against the header of `service-lifecycle.ts`. |

By reading only: a sibling's start that read the feature group before the mark can allocate
the shared port on the dying worktree after the hand-over, and `Release` takes it, where
`removal-coordinator.ts` says the release "only ever gives back leases nothing else in the
group still needs". `docs/02` says "an empty queue has no recurring scheduler timer";
`flush` re-arms an hourly one. A gc that fails before `linked` restores the row and leaves
its journal entry `prepared`, and the next one reports contention. After a budget stop all
due watches get the same `nextPollAt`, so the first by sequence may spend everything again
(comment at `watcher.ts:225`), and a commit that needs more calls than the budget never
completes before its deadline; a `ci.watch` delayed in its probe supersedes a newer one. A
daemon recovers processes before it knows that it is the only one. `FAILED` rows that owe
a cleanup are skipped by `stop`. `publish` deletes the quarantined old definition although
its restore failed, an orphaned `.owner-` candidate stays (`service-lifecycle.ts:1026`).

Besides those of `PROJECT.json`, further hazards met while reading: `main.ts:428`,
`gc.ts:257`, `service-lifecycle.ts:1767`, `1191`, `1295`, `operation-lease.ts:255`, `275`.

## 4. Proofs

A run shows a property on a small instance, a theorem for every value of the constants.
Each theorem follows from an inductive invariant; each invariant was checked with TLC on
the instance of the run before it was proved. The proof that a step preserves it has a
lemma or a step per action, and under it a step per conjunct the action can disturb; an
action property follows from the invariant, action by action.

**`OperationLeaseProofs`**: any sets of runs and repositories, any assignment of PIDs and
hosts, any TTL (`ReposAssumption`, `BoundsAssumption`). Mutual exclusion alone is not
inductive. `LeaseInv` adds that a run inside has a row (`HoldersHaveRows`), or a newcomer
would meet an empty table; that the row is of the current registration (`RowsAreCurrent`)
and its owner still intends to delete it (`RowsAreOwned`), or a release could take another's;
and that a verdict `gone`, used after it was measured, is still true (`GoneIsDead`), since
death is final and rows name runs that have started. Ids of registrations only grow
(`IdsArePast`), so a run that outlived a forgotten registration is not inside the new one.
`JournalInv` adds `SessionShape` for `JournalIsOwn`: a session holds only what it wants, a
removal wants one repository, and stages are journalled only by the body and its unwinding;
a stage inherited from a dead run is of the same kind of operation, because adoption asks
for it. `LeaseImplementsMutex` is the refinement: Init maps to Init, each step to one of
`RepositoryMutex` or to a stutter.

**`JobQueueProofs`**: any jobs, worktrees and limits, any number of mishaps
(`JobsAssumption`, `LimitsAssumption`). `IInv` relates a job's row to itself (`RowSound`: a
slot goes with `RUNNING`, a job that never ran is untouched), its process group to its
record, marker and row (`GroupSound`: what runs has a slot, an owner and a record), the
locals of the suspended flush to what has become of them (`FlushOK`: what it read before an
await is still a sound basis after it), leases to jobs (`LeaseOK`) and the number of slots
to the limits (`LimitOK`). It gives the six invariants of the two runs, `RunningWithinLimits`
and the action property `TerminalIsFinal`.

**`WorktreeRemovalProofs`**: any number of worktrees of a feature, ports, kinds of blockers
and outside events (`WorktreesAssumption`, `WrittenAssumption`). `WorkSurvives` needs
`GateOK`: from the second analysis on, what stands in the worktree, and a head other than
the one first seen, came later. `NoStartUnderLease` needs `LeaseHeld` (a removal under way
has the lease, so no start is reserved under it) and `StartsOK`: a removal whose lease met
no reserved start meets none later, and none recorded once the records were verified.

**`FeatureCreationProofs`**: any shells, repositories, creations, crashes, failures and
changes by others (`CreationAssumption`), under `~SlowGit`: no `git worktree add` outlives the
lease of its dead shell. `MCFeatureCreationSlow` shows that `OneWriter` needs it; the code
bounds Git only while its shell lives. In `CreationInv` a run's locals agree with its place
and its leases (`RunOK`), ids of repositories are never given again (`IdsOK`), and a Git that
is running is its own shell's or an orphan (`AddOK`). Of an orphan `Orphan` says why nobody
works beside it: the lease is the dead shell's, or the repository was forgotten and the
journal names an id it will never have again; and whoever took the leases and looks at the
journal learns from its `APPLYING` member that it must not plan. This gives `OneWriter` and
`MadeIsJournalled`. `CompletedIsWhole` needs `WholeInv` and, in addition, `~Kills` (see
`MCFeatureCreationKilled`): a half worktree is being made (`HalfOK`), the branch of a member
nobody touched is where it was planned or not yet there (`BranchOK`), what a run is about to
journal or to make agrees with it (`PlanOK`, `StartsOK`), a member with nothing left to apply
is applied and, once the daemon answered, in the registry (`RestOK`). `TypeOK`, with at most
one creation open at a time, needs no hypothesis: `TypeInv` knows nothing of who holds which
lease, so it also holds where Git outlives its shell.

**`ManagedRuntimeProofs`**: any requests, tasks and budget (`RuntimeAssumption`). The
supervisor's promise chains are shown to be what they look like (`QueuesOK`, `HeadsOK`: a
request is in one queue, the head's locals agree with its place), a request that was not
made has left no trace (`UnaskedOK`), anchors and rows agree (`LaunchesOK`, `RowsOK`,
`Owned`), a process that took over a pid is told from the anchor (`StrangersOK`), and
reservations count against the budget (`BudgetOK`).

**`ResourceGcProofs`**: any number of concurrent collectors, kills and expiries
(`RunsAssumption`). In `GcInv` a run's locals agree with its place (`RunsOK`), an inode number
is reissued only when nothing names or holds the object (`InodesOK`), a reserved row has no
references and every run at work and every contained object finds it reserved
(`ReservedOK`), and of all leases only one gives up the reservation when it is released
(`LeaseOK`); and until it unlinks, what a run saw at its last look is all that it may delete
unless something new was put at the path (`KnownOK`), which is what `ErasesWhatItChecked` says
of the unlink. Besides the two invariants it gives the action property `ReferencesProtect`.
`AloneFinishes`, which asks that no run, dead or alive, has met another, needs `AloneInv`,
which speaks of the time before anybody interferes
(`Quiet`): the journal says where the object is, whatever step a run was killed behind
(`PhaseOK`: between two phases, the two sides of the move that lies between them); one
operation is open at a time, and without one the object is at its path until it is removed
(`WorldOK`); a living run is the only one, has every operation that is not closed on its
list (`SoloOK`), and stands where the journal and the disk agree with its next step
(`PlaceOK`). Under it no check of a run refuses: each step is shown to take the branch that
goes on, so a run ends only when nothing is left open (`Ends`). `Quiet` is what the property
itself asks for, and is lost for good (`QuietBefore`).

**`CiWatcherProofs`**: any watches, commits, CI runs and limits (`CiAssumption`). `RowsOK`
(a row that ended is at rest, one log per run of its commit), `SavedOK` (what a poll keeps
over its awaits is an earlier state of the row) and `PollOK` give the action properties
`EndedStays` and `LogsOnce`.

**`ServiceLifecycleProofs`**: any number of runs, takeovers and kills (`RunsAssumption`). The
operation lock is replaced by rename, guarded only by hard links, so `LockIsOwned` needs the
whole protocol in `LockInv`: the lock and its companions name runs that have started
(`NamesOK`), and dead is dead for ever; a run acts only on an owner it found dead
(`SeenOK`); nobody takes a living run's candidate or claim (`CandidateOK`, `ClaimOK`); and a
run about to rename still finds the lock it saw (`LockOK`), because whoever else could have
replaced it needed the claim it holds, and a claim is only removed by its owner or for a
dead one. `Spares` is what a step of one run may not do to the others; one lemma per kind
of change of the three names reduces each action to it. `NextOK` keeps a journal write under
the lock. On top of `LockInv` stand further invariants, in each of which a holder's step leaves
the others where they are:

* `TakeoverInv` for `StatusKeepsDaemon`: while a legacy service can still be handed over, the
  new one has been up since `status` decided to (`HandOverOK`), because whoever else would
  stop it has stopped the legacy one first (`StatusOK`).
* `FileInv` for `DefinitionSurvives` and `StrangerSurvives`: the definition is allowed or
  `Adrift`, that is, in the quarantine of the transaction the journal names, whose journal
  and temporary both say that it may be there (`SettledOK`, `JournalsOK`); a run that has not
  come to its own transaction has left nothing of one (`OwnOK`); what it is about to journal
  (`WriteOK`), what the journal says of what it read (`JournalOK`) and what it carries in its
  quarantine (`CarriedOK`) agree with its place. Recovery keeps all of it in every step, so
  a recovery that is killed is recovered like any other.
* `RollbackInv` for `FailedInstallRollsBack`: a run knows nothing before its probe, no service
  runs while files change (`Stopping`), a service that runs was loaded from the definition
  that is there (`ServiceOK`), and an install's locals, files and service agree at every
  place (`InstallOK`). In particular, unless somebody edits the definition, a first
  publication is never undone, and the second one of a run publishes what it found.
* `AloneNeverRefused` takes four more. `CompanionInv`: a claim is one on a dead owner by a run
  that inherits from it, and while the lock it claims is there its claimant has its candidate
  (`ClaimsOK`, `BackedOK`); one that inherits and still has its candidate was never seen in the
  lock (`UnseenOK`); so what is found beside the lock is what some interrupted takeover left.
  `LineageInv`: the lock's metadata, and what an heir will replace it by, names whoever left a
  journal or its temporary, and only one transaction did (`Covers`, `OneLeft`, `HeirsOK`); so
  the cut at `maxOwnerPredecessors` forgets none that matters. `RecoverableInv`: unless
  somebody edits the definition, journal and files fit as recovery demands (`Fits`) behind
  every system call of a run or of a recovery. `AloneInv`: runs that are there together have
  met, and one that is alone finds what it saw, so each of its checks takes the branch that
  goes on. The theorem assumes `MaxPredecessors >= 2`, since beside its owner a lock has to
  name one transaction that left something (the code's bound is 8), and `~TornWrites`;
  `MCServiceTorn` shows that this is needed.
* `TypeOK` follows from `TypeInv`, `CompanionInv` and `FileInv` without a hypothesis.

What a takeover inherits is defined with `Among` and `Newest` and not with `SelectSeq`, a
recursive definition the provers cannot expand; `AmongKeeps` and `InheritedKeeps` state what
the cut keeps.

Only model-checked:

* liveness under fairness, which the prover cannot reach: `NeverWaits`, `EveryJobEnds`,
  `DeadLeasesEnd`, `ResumeFinishes`, `NoSignalIsLost`, `WatchComesBack`, `WatchEnds`;
* `EveryJobEnds` says nothing of jobs that queue behind each other, since its run has one job:
  on two jobs of one worktree it passes by hand with one mishap (about 190,000 states), and
  with two it is too large; that no limit is exceeded is a theorem (`RunningWithinLimits`);
* safety without a proof so far: `AnsweredIsFresh` and `TypeOK` of `Reconciliation`.

## 5. Plan

Modelled, checked and proved: the leases, the queue, the removal, feature creation, the
interactive runtime, garbage collection, the CI watcher and the service lifecycle. Left, in
this order:

1. Safety of `Reconciliation` (`AnsweredIsFresh`).
2. Endpoint leases with several features competing for ports; the publication of the IPC
   socket (`platform/src/ipc/unix.ts`).
3. The anchor handshake message by message, and `JobQueue` shown to be consistent with
   `ManagedRuntime`.

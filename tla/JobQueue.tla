------------------------------ MODULE JobQueue ------------------------------
(***************************************************************************)
(* The shared heavy-job queue of the daemon (heavy-job-queue.ts) over its  *)
(* durable table (jobs-store.ts).                                          *)
(*                                                                         *)
(* One flush at a time reconciles every job that holds a slot, claims and  *)
(* launches up to MaxConcurrent more, prunes, and re-arms the timer.  A    *)
(* flush is a chain of awaits: op.pc names the await it is suspended at,   *)
(* and between two of them requests arrive, tasks exit, deadlines pass,    *)
(* leases come and go and the daemon may crash.  The supervisor            *)
(* (process-supervisor.ts) and the anchor that owns a task's process group *)
(* (process-anchor.ts) appear by what the queue can see of them.           *)
(*                                                                         *)
(* All worktrees belong to one repository; memory admission is off, as it  *)
(* is unless it is configured; a PID is not recycled while it is watched.  *)
(* Flushes that wait for the same operation are merged into one.           *)
(***************************************************************************)
EXTENDS Integers, FiniteSets

CONSTANTS
    Jobs,          \* 1..n: job rows, numbered by their FIFO sequence
    WorktreeOf,    \* WorktreeOf[j]: the worktree job j is submitted for
    MaxConcurrent, \* [jobs] max_concurrent_heavy
    MaxPending,    \* maxPendingHeavyJobs
    MaxMishaps     \* bound: cancellations, retries, leases, deadlines, crashes and failures

ASSUME JobsAssumption == Jobs \subseteq Nat /\ IsFiniteSet(Jobs)
ASSUME LimitsAssumption == MaxConcurrent \in Nat \ {0} /\ MaxPending \in Nat /\ MaxMishaps \in Nat

VARIABLES
    job,       \* table heavy_jobs
    rows,      \* lease rows on the repository, by operation
    vanished,  \* worktrees whose row is gone or in a dead state
    group,     \* group[j]: the process group spawned for j
    record,    \* record[j]: its managed_processes row
    marker,    \* marker[j]: the completion record its anchor published
    late,      \* late[j]: j's deadline has passed
    outcome,   \* outcome[j]: how j's task really ended (history)
    starts,    \* starts[j]: how often j's command was started (history)
    daemon,    \* "down", "up" or "closing"
    timer,     \* the armed #timer, by its delay
    pending,   \* a flush waits for the one that runs
    recovering,\* #recovering
    exits,     \* #exits[j]: the anchor exit the supervisor reported
    owned,     \* #owned: anchors this daemon instance listens to
    op,        \* the running flush and its locals
    mishaps    \* how much has gone wrong so far

store == <<job, rows, vanished>>
world == <<group, record, marker, late, outcome, starts>>
memory == <<timer, pending, recovering, exits, owned>>
vars == <<store, world, memory, daemon, op, mishaps>>

Terminal == {"SUCCEEDED", "FAILED", "CANCELLED", "TIMED_OUT", "INTERRUPTED"}
StopReasons == {"none", "CANCELLED", "TIMED_OUT", "INTERRUPTED"}
Operations == {"create", "destroy"}   \* "destroy" stands for remove and gc

Rows == [state : {"absent", "QUEUED", "RUNNING", "pruned"} \cup Terminal,
         slot : BOOLEAN, stop : StopReasons,
         error : {"none", "unconfirmed", "unreadable", "other"},
         anchor : BOOLEAN, process : BOOLEAN]   \* anchor_pid, process_id bound

NoRow == [state |-> "absent", slot |-> FALSE, stop |-> "none", error |-> "none",
          anchor |-> FALSE, process |-> FALSE]

\* none: never spawned; anchor: spawned, no GO; task: the command runs; closing: the
\* anchor published and is leaving; orphan: the anchor was killed, its children run on.
Groups == {"none", "anchor", "task", "closing", "orphan", "absent"}
\* Its managed_processes row: starting and not acknowledged; open (active or
\* cleanup_required); closed; none.
Records == {"none", "starting", "open", "closed"}
Unsettled(j) == record[j] \in {"starting", "open"}

Running(j) == group[j] \in {"task", "closing", "orphan"}
Present(j) == group[j] \notin {"none", "absent"}

Markers == {"none", "ok", "fail", "timedout"}

\* Timer delays: 0 ms, 1 s, 1 h, no timer.
Now == 0
Poll == 1
Idle == 2
NoTimer == 3

PCs == {"idle", "scan", "anchor", "read", "group", "stop", "regroup", "confirm", "finish",
        "claim", "launch", "reserve", "spawned", "handshake", "bind", "go", "ack", "prune"}

Ops == [pc : PCs, job : Jobs \cup {0}, todo : SUBSET Jobs, count : Nat,
        stop : StopReasons, done : Markers, unread : BOOLEAN,
        state : Terminal, ret : {"scan", "claim"}]

NoOp == [pc |-> "idle", job |-> 0, todo |-> {}, count |-> 0, stop |-> "none",
         done |-> "none", unread |-> FALSE, state |-> "INTERRUPTED", ret |-> "scan"]

\* One of the bounded number of things that go wrong, or a step that may be one.
Mishap == mishaps < MaxMishaps /\ mishaps' = mishaps + 1
MishapIf(wrong) == IF wrong THEN Mishap ELSE UNCHANGED mishaps

Active(j) == job[j].state = "QUEUED" \/ job[j].slot
Held == {j \in Jobs : job[j].slot}

\* A fault: any armed timer, however long, keeps a new one from being armed.
Armed_FirstWins(delay) == IF timer # NoTimer THEN timer ELSE delay

\* #schedule: a strictly shorter delay replaces the armed timer; a closing queue arms none.
Armed(delay) == IF daemon # "up" THEN timer ELSE IF delay < timer THEN delay ELSE timer

Init ==
    /\ job = [j \in Jobs |-> NoRow]
    /\ rows = {} /\ vanished = {}
    /\ group = [j \in Jobs |-> "none"]
    /\ record = [j \in Jobs |-> "none"]
    /\ marker = [j \in Jobs |-> "none"]
    /\ late = [j \in Jobs |-> FALSE]
    /\ outcome = [j \in Jobs |-> "none"]
    /\ starts = [j \in Jobs |-> 0]
    /\ daemon = "down" /\ mishaps = 0
    /\ timer = NoTimer /\ pending = FALSE
    /\ recovering = {} /\ owned = {}
    /\ exits = [j \in Jobs |-> "none"]
    /\ op = NoOp

-----------------------------------------------------------------------------
\* Requests.

\* assertRegistered: the worktree is registered and alive and no operation holds a lease.
Registered(j) == WorktreeOf[j] \notin vanished /\ rows = {}

\* #prune: finished jobs past retention go, unless their process still needs cleanup.
Prunable(j) == job[j].state \in Terminal /\ ~job[j].slot /\ ~Unsettled(j)

WithoutJobs(S) == [j \in Jobs |-> IF j \in S THEN [NoRow EXCEPT !.state = "pruned"] ELSE job[j]]
Without(f, S) == [j \in Jobs |-> IF j \in S THEN "none" ELSE f[j]]

\* Job row, process record and log directory, with the completion in it, go together.
Prune(S, table) ==
    /\ job' = table
    /\ record' = Without(record, S)
    /\ marker' = Without(marker, S)

\* enqueue: pruning, the transaction, and the wake-up it asks for.  An admission under
\* way when the queue closes still commits.
Enqueue(j) ==
    /\ daemon # "down"
    /\ job[j].state = "absent" /\ \A i \in Jobs : i < j => job[i].state # "absent"
    /\ Registered(j)
    /\ Cardinality({i \in Jobs : Active(i)}) < MaxPending
    /\ \E S \in SUBSET {i \in Jobs : Prunable(i)} :
         Prune(S, [WithoutJobs(S) EXCEPT ![j].state = "QUEUED"])
    /\ timer' = Armed(Now)
    /\ UNCHANGED <<rows, vanished, group, late, outcome, starts, pending, recovering,
                   exits, owned, daemon, op, mishaps>>

\* The same idempotency key again: the stored job is answered, whatever became of it.
EnqueueAgain(j) ==
    /\ daemon # "down"
    /\ job[j].state \notin {"absent", "pruned"}
    /\ timer' = Armed(Now)
    /\ Mishap
    /\ UNCHANGED <<store, world, pending, recovering, exits, owned, daemon, op>>

\* A fault: a job that ended already is given a stop reason as well.
Requested_AnyState(table, j, reason) == [table EXCEPT ![j].stop = reason]

\* requestCancellation: a queued job ends at once, a held one only learns its stop reason.
Requested(table, j, reason) ==
    IF table[j].state = "QUEUED"
    THEN [table EXCEPT ![j].state = reason, ![j].stop = reason]
    ELSE IF table[j].slot /\ table[j].stop = "none"
         THEN [table EXCEPT ![j].stop = reason]
         ELSE table

\* jobs.cancel: the request, then a flush of its own.
Cancel(j) ==
    /\ daemon = "up" /\ job[j].state \notin {"absent", "pruned"}
    /\ job' = Requested(job, j, "CANCELLED")
    /\ timer' = NoTimer /\ pending' = TRUE
    /\ Mishap
    /\ UNCHANGED <<rows, vanished, world, recovering, exits, owned, daemon, op>>

-----------------------------------------------------------------------------
\* The rest of the store.

\* A fault: the heavy-job guard counts queued jobs only.
NoHeavyJobs_QueuedOnly == \A j \in Jobs : job[j].state # "QUEUED"

\* assertNoHeavyJobs.
NoHeavyJobs == \A j \in Jobs : ~Active(j)

\* acquireRepositoryOperationLease: repository-wide, and `create` skips the guard.
LeaseTaken(o) ==
    /\ rows = {}
    /\ o = "create" \/ NoHeavyJobs
    /\ rows' = {o}
    /\ UNCHANGED <<job, vanished, world, memory, daemon, op>>
    /\ Mishap

LeaseReleased ==
    /\ rows # {}
    /\ rows' = {}
    /\ UNCHANGED <<job, vanished, world, memory, daemon, op, mishaps>>

\* A removal finished, or Git stopped reporting the worktree and it was marked ORPHANED.
WorktreeVanishes(w) ==
    /\ w \notin vanished
    /\ vanished' = vanished \cup {w}
    /\ UNCHANGED <<job, rows, world, memory, daemon, op>>
    /\ Mishap

\* Git reports it again (the directory came back, or the worktree was made anew).
WorktreeReturns(w) ==
    /\ w \in vanished
    /\ vanished' = vanished \ {w}
    /\ UNCHANGED <<job, rows, world, memory, daemon, op>>
    /\ Mishap

-----------------------------------------------------------------------------
\* Process groups, which live on whatever the daemon does.

\* The task and everything it left behind ended; the anchor publishes how, or fails to.
TaskEnds(j) ==
    /\ group[j] = "task"
    /\ \E how \in {"ok", "fail"}, published \in BOOLEAN :
         /\ outcome' = [outcome EXCEPT ![j] = how]
         /\ marker' = [marker EXCEPT ![j] = IF published THEN how ELSE @]
         /\ MishapIf(~published)
    /\ group' = [group EXCEPT ![j] = "closing"]
    /\ UNCHANGED <<store, record, late, starts, memory, daemon, op>>

\* The anchor enforces the deadline itself: it publishes, then kills its group.
AnchorDeadline(j) ==
    /\ group[j] = "task" /\ late[j]
    /\ \E published \in BOOLEAN :
         /\ marker' = [marker EXCEPT ![j] = IF published THEN "timedout" ELSE @]
         /\ MishapIf(~published)
    /\ outcome' = [outcome EXCEPT ![j] = "fail"]
    /\ group' = [group EXCEPT ![j] = "closing"]
    /\ UNCHANGED <<store, record, late, starts, memory, daemon, op>>

Launching(j) == op.job = j /\ op.pc \in {"spawned", "handshake", "bind", "go", "ack"}

\* The anchor leaves last; without GO it leaves when its control pipe closes.
AnchorLeaves(j) ==
    /\ \/ group[j] = "closing"
       \/ group[j] = "anchor" /\ ~Launching(j)
    /\ group' = [group EXCEPT ![j] = "absent"]
    /\ UNCHANGED <<store, record, marker, late, outcome, starts, memory, daemon, op, mishaps>>

\* Somebody kills the anchor alone; the task has lost its only witness.
AnchorKilled(j) ==
    /\ group[j] = "task"
    /\ group' = [group EXCEPT ![j] = "orphan"]
    /\ UNCHANGED <<store, record, marker, late, outcome, starts, memory, daemon, op>>
    /\ Mishap

OrphanEnds(j) ==
    /\ group[j] = "orphan"
    /\ group' = [group EXCEPT ![j] = "absent"]
    /\ outcome' = [outcome EXCEPT ![j] = "fail"]
    /\ UNCHANGED <<store, record, marker, late, starts, memory, daemon, op, mishaps>>

DeadlinePasses(j) ==
    /\ job[j].slot /\ ~late[j]
    /\ late' = [late EXCEPT ![j] = TRUE]
    /\ UNCHANGED <<store, group, record, marker, outcome, starts, memory, daemon, op>>
    /\ Mishap

\* #recordExit and recordExit: the anchor's exit status, which a signal or an
\* unpublished completion turns into a failure.
ObserveExit(j) ==
    /\ daemon # "down" /\ j \in owned /\ group[j] \in {"absent", "orphan"}
    /\ owned' = owned \ {j}
    /\ record' = [record EXCEPT ![j] = IF group[j] = "absent" /\ @ # "none" THEN "closed" ELSE @]
    /\ IF daemon = "up" /\ job[j].process /\ job[j].slot
       THEN /\ exits' = [exits EXCEPT ![j] = IF marker[j] = "ok" THEN "ok" ELSE "bad"]
            /\ timer' = Armed(Now)
       ELSE UNCHANGED <<exits, timer>>
    /\ UNCHANGED <<store, group, marker, late, outcome, starts, pending, recovering,
                   daemon, op, mishaps>>

-----------------------------------------------------------------------------
\* Flush.  Goto keeps the locals; a step that leaves a job behind clears them.

Goto(pc) == op' = [op EXCEPT !.pc = pc]
NextJob == op' = [NoOp EXCEPT !.pc = "scan", !.todo = op.todo \ {op.job}]
NextClaim == op' = [NoOp EXCEPT !.pc = "claim", !.count = op.count + 1]
Finishing(state, ret) == op' = [op EXCEPT !.pc = "finish", !.state = state, !.ret = ret]
Reason(stop) == IF stop = "none" THEN "INTERRUPTED" ELSE stop
At(pc) == daemon # "down" /\ op.pc = pc

TimerFires ==
    /\ daemon = "up" /\ timer # NoTimer
    /\ timer' = NoTimer /\ pending' = TRUE
    /\ UNCHANGED <<store, world, recovering, exits, owned, daemon, op, mishaps>>

\* flush: the jobs that hold a slot now will each be reconciled.
FlushStarts ==
    /\ At("idle") /\ pending
    /\ pending' = FALSE
    /\ op' = IF daemon = "up" THEN [NoOp EXCEPT !.pc = "scan", !.todo = Held] ELSE NoOp
    /\ UNCHANGED <<store, world, timer, recovering, exits, owned, daemon, mishaps>>

ScanEnds ==
    /\ At("scan") /\ op.todo = {}
    /\ Goto("claim")
    /\ UNCHANGED <<store, world, memory, daemon, mishaps>>

IsHead(j) == j \in op.todo /\ \A i \in op.todo : j <= i

\* #reconcile up to its first await.  A missing record is judged by what was bound.
ReconcileLookup(j) ==
    /\ At("scan") /\ IsHead(j)
    /\ IF record[j] # "none"
       THEN /\ job' = [job EXCEPT ![j].process = TRUE]
            /\ op' = [op EXCEPT !.pc = "read", !.job = j, !.stop = job[j].stop]
       ELSE /\ UNCHANGED job
            /\ op' = IF job[j].error = "unconfirmed"
                     THEN [op EXCEPT !.todo = @ \ {j}]
                     ELSE [op EXCEPT !.pc = "anchor", !.job = j, !.stop = job[j].stop]
    /\ UNCHANGED <<rows, vanished, world, memory, daemon, mishaps>>

\* Without a record an anchor that was bound must be seen gone; an inspection that fails
\* is not absence.  A job with no process bound was never started, and ends.
ReconcileAnchor ==
    /\ At("anchor")
    /\ \/ /\ (job[op.job].anchor => ~Present(op.job)) /\ ~job[op.job].process
          /\ Finishing(Reason(op.stop), "scan")
          /\ UNCHANGED <<job, mishaps>>
       \/ /\ job[op.job].anchor \/ job[op.job].process
          /\ job' = [job EXCEPT ![op.job].error = "other"]
          /\ NextJob
          /\ MishapIf(~Present(op.job))
    /\ UNCHANGED <<rows, vanished, world, memory, daemon>>

\* readCompletion: what the anchor published, or a failure to read or trust it.
Reads(j) == {marker[j], "unreadable"}

Completion(read) == IF read = "unreadable" THEN "none" ELSE read

\* Once unreadable, a completion stays so until a valid one is read.
Unreadable(read, before) == read = "unreadable" \/ (read = "none" /\ before)

WithReadError(table, j, read) ==
    IF read = "unreadable" THEN [table EXCEPT ![j].error = "unreadable"] ELSE table

\* confirmTimeout.
WithTimeout(table, j, read) ==
    IF read = "timedout" /\ table[j].slot /\ table[j].stop \in {"none", "INTERRUPTED"}
    THEN [table EXCEPT ![j].stop = "TIMED_OUT"] ELSE table

\* Judged late: by the completion's own time when there is one, else by the clock.
JudgedLate(j, read) ==
    IF Completion(read) = "none" /\ exits[j] = "none" THEN {late[j]} ELSE {FALSE, late[j]}

\* Between readCompletion and inspectGroup, on the stop reason read before both: decide
\* whether j must stop, or is still running.
ReconcileRead ==
    LET j == op.job IN
    /\ At("read")
    /\ \E read \in Reads(j) : \E isLate \in JudgedLate(j, read) :
         LET unread == Unreadable(read, job[j].error = "unreadable")
             first == WithTimeout(WithReadError(job, j, read), j, read)
             known == IF read = "timedout" THEN first[j].stop ELSE op.stop
             why == IF isLate THEN "TIMED_OUT"
                    ELSE IF j \in recovering /\ Completion(read) = "none" THEN "INTERRUPTED"
                    ELSE "none"
             second == IF known = "none" /\ why # "none" THEN Requested(first, j, why) ELSE first
             stop == IF known = "none" /\ why # "none" THEN second[j].stop ELSE known
         IN  /\ job' = second
             /\ MishapIf(read = "unreadable")
             /\ IF Completion(read) = "none" /\ exits[j] = "none" /\ stop = "none" /\ ~unread
                THEN NextJob
                ELSE op' = [op EXCEPT !.pc = "group", !.stop = stop,
                                      !.done = Completion(read), !.unread = unread]
    /\ UNCHANGED <<rows, vanished, world, memory, daemon>>

\* setError and give up on j until the next flush.
StillThere ==
    /\ MishapIf(~Present(op.job))
    /\ job' = [job EXCEPT ![op.job].error = IF op.unread THEN "unreadable" ELSE "other"]
    /\ NextJob

SeenAbsent(j) == ~Present(j)

\* inspectGroup: only a confirmed absence goes on; a stop is attempted at most every 5 s.
ReconcileGroup ==
    /\ At("group")
    /\ \/ /\ SeenAbsent(op.job) /\ Goto("confirm") /\ UNCHANGED <<job, mishaps>>
       \/ /\ op.stop # "none" /\ Goto("stop") /\ UNCHANGED <<job, mishaps>>
       \/ StillThere
    /\ UNCHANGED <<rows, vanished, world, memory, daemon>>

\* supervisor.stopRecord: an open record's group is killed while its anchor proves whose
\* it is; a closed record is left alone; a failure leaves the record open.
ReconcileStop ==
    LET j == op.job IN
    /\ At("stop")
    /\ \/ /\ Unsettled(j) /\ group[j] # "orphan"
          /\ record' = [record EXCEPT ![j] = "closed"]
          /\ group' = [group EXCEPT ![j] = "absent"]
          /\ outcome' = [outcome EXCEPT ![j] = IF group[j] = "task" THEN "fail" ELSE @]
          /\ UNCHANGED <<job, mishaps>>
       \/ /\ record[j] = "closed"
          /\ UNCHANGED <<record, group, outcome, job, mishaps>>
       \/ /\ Unsettled(j)
          /\ job' = [job EXCEPT ![j].error = "other"]
          /\ record' = [record EXCEPT ![j] = "open"]
          /\ UNCHANGED <<group, outcome>>
          /\ MishapIf(group[j] # "orphan")
    /\ Goto("regroup")
    /\ UNCHANGED <<rows, vanished, marker, late, starts, memory, daemon>>

ReconcileRegroup ==
    /\ At("regroup")
    /\ \/ /\ SeenAbsent(op.job) /\ Goto("confirm") /\ UNCHANGED <<job, mishaps>>
       \/ StillThere
    /\ UNCHANGED <<rows, vanished, world, memory, daemon>>

\* A fault: an anchor that exited 0 is believed although its completion cannot be read.
ChosenState_TrustsExit(stop, done, unread, observed) ==
    IF stop # "none" THEN stop
    ELSE IF done = "ok" \/ observed # "none" THEN "SUCCEEDED" ELSE "INTERRUPTED"

\* The outcome, from the stop reason, the completion and the observed exit, in this order.
ChosenState(stop, done, unread, observed) ==
    IF stop # "none" THEN stop
    ELSE IF unread THEN "INTERRUPTED"
    ELSE IF done = "ok" \/ (done = "none" /\ observed = "ok") THEN "SUCCEEDED"
    ELSE IF done # "none" \/ observed # "none" THEN "FAILED"
    ELSE "INTERRUPTED"

\* confirmStopped, then the completion once more, then the choice of outcome.
ReconcileConfirm ==
    LET j == op.job IN
    /\ At("confirm")
    /\ ~Present(j)
    /\ record' = [record EXCEPT ![j] = "closed"]
    /\ \E read \in Reads(j) :
         LET done == IF Completion(read) = "none" THEN op.done ELSE read
             unread == Unreadable(read, op.unread)
             table == WithTimeout(WithReadError(job, j, read), j, done)
             stop == IF done = "timedout" THEN table[j].stop ELSE op.stop
         IN  /\ job' = table
             /\ MishapIf(read = "unreadable")
             /\ Finishing(ChosenState(stop, done, unread, exits[j]), "scan")
    /\ UNCHANGED <<rows, vanished, group, marker, late, outcome, starts, memory, daemon>>

\* An await of the flush rejects: the operation is dropped and polled again.
FlushFails ==
    /\ At("confirm")
    /\ op' = NoOp
    /\ timer' = Armed(Poll)
    /\ UNCHANGED <<store, world, pending, recovering, exits, owned, daemon>>
    /\ Mishap

\* A fault: an interrupted job goes back to the queue.
FinalState_Requeues(j, state) == IF state = "INTERRUPTED" THEN "QUEUED" ELSE state

\* A fault: the outcome chosen before source verification is written as it is.
FinalState_AsChosen(j, state) == state

\* finish rereads the stop reason in its transaction.
FinalState(j, state) == IF job[j].stop = "none" THEN state ELSE job[j].stop

\* #finish: source verification is awaited, then the slot is released for good.
FinishJob ==
    LET j == op.job IN
    /\ At("finish")
    /\ job' = IF Active(j)
              THEN [job EXCEPT ![j].state = FinalState(j, op.state), ![j].slot = FALSE]
              ELSE job
    /\ recovering' = recovering \ {j}
    /\ exits' = [exits EXCEPT ![j] = "none"]
    /\ IF op.ret = "scan" THEN NextJob ELSE NextClaim
    /\ UNCHANGED <<rows, vanished, world, timer, pending, owned, daemon, mishaps>>

-----------------------------------------------------------------------------
\* Claim and launch.

Head(j) == job[j].state = "QUEUED" /\ \A i \in Jobs : job[i].state = "QUEUED" => j <= i

\* A fault: capacity counts the queued jobs too.
Dispatchable_CountsQueued(j) ==
    /\ Cardinality({i \in Jobs : Active(i)}) < MaxConcurrent
    /\ Head(j)

\* A fault: worktree occupancy is not checked.
Dispatchable_AnyWorktree(j) == Head(j) /\ Cardinality(Held) < MaxConcurrent

\* jobWaitingReasons = dispatch_pending: capacity, FIFO head, free worktree.
Dispatchable(j) ==
    /\ Cardinality(Held) < MaxConcurrent
    /\ Head(j)
    /\ \A i \in Held : WorktreeOf[i] # WorktreeOf[j]

\* The flush looks once whether the queue was closed, and then claims as long as it may.
MayClaim == (op.count = 0 => daemon = "up") /\ op.count < MaxConcurrent

\* claim: the head becomes RUNNING and takes a slot.
ClaimGranted(j) ==
    /\ At("claim") /\ MayClaim /\ Dispatchable(j) /\ Registered(j)
    /\ job' = [job EXCEPT ![j].state = "RUNNING", ![j].slot = TRUE]
    /\ op' = [op EXCEPT !.pc = "launch", !.job = j]
    /\ UNCHANGED <<rows, vanished, world, memory, daemon, mishaps>>

\* claim: the head's worktree or repository is not available, so the job ends unstarted.
ClaimUnavailable(j) ==
    /\ At("claim") /\ MayClaim /\ Dispatchable(j) /\ ~Registered(j)
    /\ job' = [job EXCEPT ![j].state = "INTERRUPTED"]
    /\ Goto("prune")
    /\ UNCHANGED <<rows, vanished, world, memory, daemon, mishaps>>

ClaimNothing ==
    /\ At("claim") /\ ~(MayClaim /\ \E j \in Jobs : Dispatchable(j))
    /\ Goto("prune")
    /\ UNCHANGED <<store, world, memory, daemon, mishaps>>

\* #launch before the spawn: task and sources are resolved again and compared.
LaunchRejected ==
    /\ At("launch")
    /\ Finishing("INTERRUPTED", "claim")
    /\ UNCHANGED <<store, world, memory, daemon>>
    /\ Mishap

LaunchTooLate ==
    /\ At("launch") /\ late[op.job]
    /\ job' = Requested(job, op.job, "TIMED_OUT")
    /\ Finishing("TIMED_OUT", "claim")
    /\ UNCHANGED <<rows, vanished, world, memory, daemon, mishaps>>

StoppedBeforeStart(j) == daemon # "up" \/ job[j].stop # "none"

LaunchStopped ==
    /\ At("launch") /\ StoppedBeforeStart(op.job)
    /\ Finishing(Reason(job[op.job].stop), "claim")
    /\ UNCHANGED <<store, world, memory, daemon, mishaps>>

LaunchGoes ==
    /\ At("launch") /\ ~StoppedBeforeStart(op.job) /\ ~late[op.job]
    /\ Goto("reserve")
    /\ UNCHANGED <<store, world, memory, daemon, mishaps>>

\* A fault: a failed start ends the job at once.
Failed_ReleasesSlot(j, reason, error) ==
    [job EXCEPT ![j].state = reason, ![j].slot = FALSE, ![j].stop = reason]

\* A failed start: the slot survives with a stop reason and an error.
Failed(j, reason, error) ==
    [Requested(job, j, reason) EXCEPT ![j].error = error]

\* reserveManagedProcessStart refuses under a lease: nothing was spawned, and nothing
\* in the START_CONFLICT error says so.
StartConflict ==
    /\ At("reserve") /\ rows # {}
    /\ job' = Failed(op.job, "INTERRUPTED", "unconfirmed")
    /\ NextClaim
    /\ UNCHANGED <<rows, vanished, world, memory, daemon, mishaps>>

\* spawnOutcome not-started: logs could not be prepared or the spawn failed.
NotStarted ==
    /\ At("reserve") /\ rows = {}
    /\ Finishing("INTERRUPTED", "claim")
    /\ UNCHANGED <<store, world, memory, daemon>>
    /\ Mishap

Spawn ==
    /\ At("reserve") /\ rows = {}
    /\ group' = [group EXCEPT ![op.job] = "anchor"]
    /\ Goto("spawned")
    /\ UNCHANGED <<store, record, marker, late, outcome, starts, memory, daemon, mishaps>>

\* onSpawned.
BindAnchor ==
    /\ At("spawned")
    /\ job' = [job EXCEPT ![op.job].anchor = TRUE]
    /\ Goto("handshake")
    /\ UNCHANGED <<rows, vanished, world, memory, daemon, mishaps>>

\* READY arrived and createManagedProcess committed a STARTING record.
CreateRecord ==
    /\ At("handshake")
    /\ record' = [record EXCEPT ![op.job] = "starting"]
    /\ Goto("bind")
    /\ UNCHANGED <<store, group, marker, late, outcome, starts, memory, daemon, mishaps>>

\* onRecorded.
BindProcess ==
    /\ At("bind")
    /\ job' = [job EXCEPT ![op.job].process = TRUE]
    /\ Goto("go")
    /\ UNCHANGED <<rows, vanished, world, memory, daemon, mishaps>>

\* A fault: GO is sent as soon as the anchor is ready.
MayGo_BeforeBinding == op.pc \in {"handshake", "go"}

\* GO is sent only after the record and the binding are durable.
MayGo == op.pc = "go"

SendGo ==
    /\ daemon # "down" /\ MayGo /\ group[op.job] = "anchor"
    /\ \/ /\ group' = [group EXCEPT ![op.job] = "task"]
          /\ starts' = [starts EXCEPT ![op.job] = @ + 1]
          /\ UNCHANGED <<marker, mishaps>>
       \/ /\ late[op.job]                        \* refuseExpiredDeadline
          /\ group' = [group EXCEPT ![op.job] = "closing"]
          /\ \E published \in BOOLEAN :
               /\ marker' = [marker EXCEPT ![op.job] = IF published THEN "timedout" ELSE @]
               /\ MishapIf(~published)
          /\ UNCHANGED starts
    /\ Goto("ack")
    /\ UNCHANGED <<store, record, late, outcome, memory, daemon>>

\* LAUNCHED: start returns, and the exit listener stays.
Launched ==
    /\ At("ack") /\ starts[op.job] > 0
    /\ owned' = owned \cup {op.job}
    /\ record' = [record EXCEPT ![op.job] = "open"]
    /\ NextClaim
    /\ UNCHANGED <<store, group, marker, late, outcome, starts, timer, pending, recovering,
                   exits, daemon, mishaps>>

\* Any step between spawn and LAUNCHED may fail: #rollbackSpawn kills the group its anchor
\* leads, or cannot prove that it did and leaves the record open.
StartFails ==
    LET j == op.job IN
    /\ daemon # "down" /\ op.pc \in {"handshake", "go", "ack"}
    /\ \/ /\ group' = [group EXCEPT ![j] = IF @ = "orphan" THEN @ ELSE "absent"]
          /\ record' = [record EXCEPT ![j] = IF @ = "none" THEN @ ELSE "closed"]
          /\ outcome' = [outcome EXCEPT ![j] = IF group[j] = "task" THEN "fail" ELSE @]
       \/ /\ record' = [record EXCEPT ![j] = IF @ = "none" THEN @ ELSE "open"]
          /\ UNCHANGED <<group, outcome>>
    /\ \E reason \in {"INTERRUPTED"} \cup (IF late[j] THEN {"TIMED_OUT"} ELSE {}) :
         job' = Failed(j, reason, "other")
    /\ NextClaim
    /\ UNCHANGED <<rows, vanished, marker, late, starts, memory, daemon>>
    /\ MishapIf(op.pc # "ack" \/ starts[j] > 0)

FlushEnds ==
    /\ At("prune")
    /\ \E S \in SUBSET {j \in Jobs : daemon = "up" /\ Prunable(j)} :
         Prune(S, WithoutJobs(S))
    /\ op' = NoOp
    /\ timer' = Armed(IF \E j \in Jobs : Active(j) THEN Poll ELSE Idle)
    /\ UNCHANGED <<rows, vanished, group, late, outcome, starts, pending, recovering,
                   exits, owned, daemon, mishaps>>

-----------------------------------------------------------------------------
\* The daemon's life.

\* recover: a record whose group is gone is settled, and so is a start that was never
\* acknowledged, by terminating it; a launched one is adopted without an exit listener.
\* An inspection that fails settles nothing.
CanSettle(j) ==
    /\ Unsettled(j)
    /\ group[j] = "absent" \/ (record[j] = "starting" /\ group[j] # "orphan")

\* recover, then start: every job that holds a slot was interrupted.
Boot ==
    /\ daemon = "down"
    /\ daemon' = "up"
    /\ \E settled \in SUBSET {j \in Jobs : CanSettle(j)} :
         /\ record' = [j \in Jobs |-> IF j \in settled THEN "closed"
                                      ELSE IF Unsettled(j) THEN "open" ELSE record[j]]
         /\ group' = [j \in Jobs |-> IF j \in settled THEN "absent" ELSE group[j]]
         /\ outcome' = [j \in Jobs |-> IF j \in settled /\ group[j] = "task" THEN "fail"
                                       ELSE outcome[j]]
    /\ recovering' = Held
    /\ timer' = Now
    /\ UNCHANGED <<store, marker, late, starts, pending, exits, owned, op, mishaps>>

\* The process dies with everything it kept in memory.
Dies ==
    /\ daemon' = "down" /\ op' = NoOp
    /\ timer' = NoTimer /\ pending' = FALSE /\ recovering' = {} /\ owned' = {}
    /\ exits' = [j \in Jobs |-> "none"]
    /\ UNCHANGED <<store, world>>

Crash ==
    /\ daemon # "down"
    /\ Dies
    /\ Mishap

\* close: no new flush or claim; the running flush ends first.
Close ==
    /\ daemon = "up"
    /\ Mishap
    /\ daemon' = "closing" /\ timer' = NoTimer
    /\ UNCHANGED <<store, world, pending, recovering, exits, owned, op>>

Closed ==
    /\ daemon = "closing" /\ op.pc = "idle"
    /\ Dies
    /\ UNCHANGED mishaps

-----------------------------------------------------------------------------
FlushStep ==
    \/ FlushStarts \/ ScanEnds \/ \E j \in Jobs : ReconcileLookup(j)
    \/ ReconcileAnchor \/ ReconcileRead \/ ReconcileGroup \/ ReconcileStop \/ ReconcileRegroup
    \/ ReconcileConfirm \/ FlushFails \/ FinishJob
    \/ \E j \in Jobs : ClaimGranted(j) \/ ClaimUnavailable(j)
    \/ ClaimNothing
    \/ LaunchRejected \/ LaunchTooLate \/ LaunchStopped \/ LaunchGoes
    \/ StartConflict \/ NotStarted \/ Spawn \/ BindAnchor \/ CreateRecord \/ BindProcess
    \/ SendGo \/ Launched \/ StartFails \/ FlushEnds

GroupStep(j) ==
    \/ TaskEnds(j) \/ AnchorDeadline(j) \/ AnchorLeaves(j) \/ OrphanEnds(j)

Next ==
    \/ FlushStep \/ TimerFires
    \/ \E j \in Jobs : \/ Enqueue(j) \/ EnqueueAgain(j) \/ Cancel(j)
                       \/ GroupStep(j) \/ AnchorKilled(j) \/ DeadlinePasses(j) \/ ObserveExit(j)
    \/ \E o \in Operations : LeaseTaken(o)
    \/ LeaseReleased
    \/ \E j \in Jobs : WorktreeVanishes(WorktreeOf[j]) \/ WorktreeReturns(WorktreeOf[j])
    \/ Boot \/ Crash \/ Close \/ Closed

Spec == Init /\ [][Next]_vars

\* Node keeps running the flush and its timers, the service manager restarts the daemon,
\* and process trees end; what goes wrong goes wrong MaxMishaps times.
FairSpec ==
    /\ Spec
    /\ WF_vars(FlushStep) /\ WF_vars(TimerFires) /\ WF_vars(Boot) /\ WF_vars(Closed)
    /\ \A j \in Jobs : WF_vars(GroupStep(j)) /\ WF_vars(ObserveExit(j))

-----------------------------------------------------------------------------
\* Every stored column, in-memory field and local of the flush keeps its shape (table
\* heavy_jobs, class HeavyJobQueue).
TypeOK ==
    /\ job \in [Jobs -> Rows]
    /\ rows \subseteq Operations
    /\ vanished \subseteq {WorktreeOf[j] : j \in Jobs}
    /\ group \in [Jobs -> Groups]
    /\ record \in [Jobs -> Records]
    /\ marker \in [Jobs -> Markers]
    /\ late \in [Jobs -> BOOLEAN]
    /\ outcome \in [Jobs -> {"none", "ok", "fail"}]
    /\ starts \in [Jobs -> Nat]
    /\ daemon \in {"down", "up", "closing"} /\ mishaps \in Nat
    /\ timer \in Now..NoTimer /\ pending \in BOOLEAN
    /\ recovering \subseteq Jobs /\ owned \subseteq Jobs
    /\ exits \in [Jobs -> {"none", "ok", "bad"}]
    /\ op \in Ops

\* A job keeps its slot until its whole process group is gone: no process of a command
\* runs without a slot, so the limits count every one (#reconcile, finish).
SlotCoversProcesses == \A j \in Jobs : Running(j) => job[j].slot

\* Commands that run at the same time are at most MaxConcurrent, and no two of them share
\* a worktree, whatever was interrupted, timed out or orphaned before (claim).
RunningWithinLimits ==
    LET running == {j \in Jobs : Running(j)}
    IN  /\ Cardinality(running) <= MaxConcurrent
        /\ \A i, j \in running : i # j => WorktreeOf[i] # WorktreeOf[j]

\* A command is started at most once, across mishaps at any point of the launch and
\* across failed starts (claim, recover, #reconcile).
NeverReplayed == \A j \in Jobs : starts[j] <= 1

\* A stop reason once accepted decides the outcome, also when it was accepted while an
\* outcome was already chosen (finish, requestCancellation).
StopReasonWins ==
    \A j \in Jobs : job[j].state \in Terminal /\ job[j].stop # "none" => job[j].state = job[j].stop

\* Success is reported only of a command that ran to its end and exited 0, never because
\* evidence was missing, unreadable or the anchor's own (#reconcile).
SuccessIsReal == \A j \in Jobs : job[j].state = "SUCCEEDED" => outcome[j] = "ok"

\* While a removal or collection holds the repository no command runs in it (each side's
\* transaction looks at the other's rows).
TaskNeverUnderDestruction == "destroy" \in rows => \A j \in Jobs : ~Running(j)

\* A command is only ever started for a job that is durably bound to its process record,
\* so that a restarted daemon finds what it left behind (onRecorded, GO).
StartedIsBound ==
    \A j \in Jobs : Running(j) => job[j].process /\ record[j] # "none"

\* The queue never sleeps on work: with a job waiting or held and no flush under way, a
\* timer of at most a second is armed (#schedule).
NoLostWakeup ==
    daemon = "up" /\ op.pc = "idle" /\ ~pending /\ (\E j \in Jobs : Active(j)) => timer <= Poll

\* A finished job never changes again, except that it is pruned; a queued one never skips
\* back, and a slot once given up is not taken again (finish, deleteFinished).
TerminalIsFinal ==
    [][\A j \in Jobs : job[j].state \in Terminal /\ ~job[j].slot
          => job'[j] = job[j] \/ job'[j].state = "pruned"]_vars

\* Every admitted job ends and gives up its slot, through mishaps, lost exits, unreadable
\* completions and failed inspections, unless a slot was lost to an unconfirmed spawn.
EveryJobEnds ==
    \A j \in Jobs : Active(j) ~> (~Active(j) \/ \E i \in Jobs : job[i].error = "unconfirmed")

\* docs/13: "a job keeps its slot until the daemon proves its complete owned process group
\* or tree is absent": nothing was spawned, or all of it is gone, so the slot goes.
SlotIsReleased ==
    \A j \in Jobs : (job[j].slot /\ ~Present(j)) ~> (~job[j].slot \/ Present(j))

\* docs/13: "QUEUED -> RUNNING -> SUCCEEDED | FAILED | TIMED_OUT | INTERRUPTED", and a
\* queued job leaves the queue otherwise only as CANCELLED.
DocumentedTransitions ==
    [][\A j \in Jobs : job[j].state = "QUEUED"
          => job'[j].state \in {"QUEUED", "RUNNING", "CANCELLED"}]_vars
=============================================================================

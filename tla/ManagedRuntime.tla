--------------------------- MODULE ManagedRuntime ---------------------------
(***************************************************************************)
(* The interactive runtime of the daemon: the controller that admits       *)
(* `start`, `restart` and `stop` (runtime-controller.ts, process-budgets.ts)*)
(* the supervisor that runs one detached process group per task behind an  *)
(* anchor (process-supervisor.ts, process-anchor.ts), the rows and         *)
(* reservations it keeps (sqlite-store.ts) and the idle sweep              *)
(* (idle-runtime.ts).                                                      *)
(*                                                                         *)
(* A request spawns at most one anchor, so a run is named by the request   *)
(* that spawned it.  The supervisor's per-task promise chain is the queue  *)
(* `lock[t]`: its head is the operation inside, at step `at[t]`.  Whatever *)
(* runs between two awaits is one step; a look at the process table and    *)
(* the signal that follows it in the same tick are one step too.           *)
(***************************************************************************)
EXTENDS Naturals, Sequences, FiniteSets

CONSTANTS
    Requests,        \* the requests, and the runs they spawn
    Tasks,           \* owner keys, worktree and task
    OptedIn,         \* the tasks with an idle policy; the clocks of the others are never read
    None,
    MaxProcesses,    \* `[budgets] max_processes`
    MaxFaults,       \* bound: daemon crashes, and anchors killed from outside
    Reuses           \* bound: whether a dead anchor's pid is ever reused

ASSUME RuntimeAssumption ==
    /\ MaxProcesses \in Nat \ {0}
    /\ MaxFaults \in Nat
    /\ Reuses \in BOOLEAN
    /\ IsFiniteSet(Requests) /\ None \notin Requests
    /\ OptedIn \subseteq Tasks

ActiveStates == {"STARTING", "RUNNING", "STOPPING"}

TerminalStates == {"STOPPED", "FAILED", "STALE_IDENTITY"}

(* assertProcessTransition: what the store lets a row's state become. *)
Allowed(from, to) ==
    \/ from = to
    \/ from = "STARTING" /\ to \in TerminalStates \cup {"RUNNING", "STOPPING"}
    \/ from = "RUNNING" /\ to \in TerminalStates \cup {"STOPPING"}
    \/ from = "STOPPING" /\ to \in TerminalStates

VARIABLES
    up,       \* the daemon: "down", "booting", "serving"
    phase,    \* each request: "new", "inside", "ran", "failed", "done"
    kind,     \* what it asks for
    task,     \* of which task
    admit,    \* "no": found its task active; "pending": holds a reserved start;
              \* "counted": held one
    lock,     \* each task's queue of operations
    at,       \* the step its head has reached
    rec,      \* each run's row: its state, and whether a cleanup is owed
    held,     \* each task's start reservation
    anchor,   \* each run's anchor: "none", "waiting", "sent", "up", "gone"
    work,     \* its task's processes: "none", "up", "left" behind, "over"
    acked,    \* the runs whose launch marker is written and reported
    ear,      \* the anchors whose exit this daemon listens for
    other,    \* a stranger's process under the run's pid: "none", "alive", "dead"
    todo,     \* the rows a booting daemon has still to recover
    clock,    \* since each task was asked for or started: "fresh", "old", "due" for the sweep
    sweep,    \* the idle sweep: "off", "noting", "stopping", and its run
    faults

ctrl  == <<up, phase, kind, task, admit>>
sup   == <<lock, at, rec, held, ear>>
procs == <<anchor, work, acked, other>>
idle  == <<clock, sweep>>
rest  == <<todo, faults>>
vars  == <<ctrl, sup, procs, idle, rest>>

NoRow == [state |-> "none", dirty |-> FALSE]

Row(s, d) == [state |-> s, dirty |-> d]

NoToken == [by |-> None, old |-> None, late |-> FALSE]

Init ==
    /\ up = "serving"
    /\ phase = [q \in Requests |-> "new"]
    /\ kind = [q \in Requests |-> "none"]
    /\ task = [q \in Requests |-> None]
    /\ admit = [q \in Requests |-> "no"]
    /\ lock = [t \in Tasks |-> <<>>]
    /\ at = [t \in Tasks |-> "begin"]
    /\ rec = [q \in Requests |-> NoRow]
    /\ held = [t \in Tasks |-> NoToken]
    /\ anchor = [q \in Requests |-> "none"]
    /\ work = [q \in Requests |-> "none"]
    /\ acked = {} /\ ear = {}
    /\ other = [q \in Requests |-> "none"]
    /\ todo = {}
    /\ clock = [t \in Tasks |-> "fresh"]
    /\ sweep = [step |-> "off", run |-> None]
    /\ faults = 0

-----------------------------------------------------------------------------
(* What the store and the process table say. *)

Active(q) == rec[q].state \in ActiveStates

Current(t) == {q \in Requests : task[q] = t /\ Active(q)}

Owed(t) == {q \in Requests : task[q] = t /\ (Active(q) \/ rec[q].dirty)}

(* reserveManagedProcessStart first deletes an expired reservation no row stands behind. *)
Unreserved(t) == held[t] = NoToken \/ (held[t].late /\ Owed(t) = {})

Matches(q) == anchor[q] \in {"waiting", "sent", "up"}

Mismatches(q) == anchor[q] = "gone" /\ other[q] = "alive"

Absent(q) == anchor[q] = "gone" /\ other[q] # "alive"

GroupEmpty(q) == anchor[q] \in {"none", "gone"} /\ work[q] \in {"none", "over"}

(* taskExit: the anchor wrote how its task ended while children hold the group. *)
TaskExited(q) == rec[q].state = "RUNNING" /\ work[q] \in {"left", "over"} /\ anchor[q] = "up"

Op(t) == Head(lock[t])[1]

Subject(t) == Head(lock[t])[2]

Doing(t, what) == lock[t] # <<>> /\ Op(t) = what

(* The run an operation stops: the idle sweep's own, or the task's active one. *)
Target(t) == IF Op(t) = "idle" THEN Subject(t) ELSE CHOOSE q \in Current(t) : TRUE

SetRow(q, s, d) == rec' = [rec EXCEPT ![q] = Row(s, d)]

Goto(t, l) == at' = [at EXCEPT ![t] = l]

Unlock(t) ==
    /\ lock' = [lock EXCEPT ![t] = Tail(@)]
    /\ Goto(t, "begin")

(* The operation of a request returns: it leaves the lock with its result. *)
Return(t, result) ==
    /\ Unlock(t)
    /\ phase' = [phase EXCEPT ![Subject(t)] = result]

ReleaseOwn(t) == held' = IF held[t].by = Subject(t) THEN [held EXCEPT ![t] = NoToken] ELSE held

-----------------------------------------------------------------------------
(* The controller. *)

(* Mutant: the starts still on their way to a row are not counted. *)
CountsRowsOnly == Cardinality({q \in Requests : Active(q)})

(* checkProcessBudgets: the live rows, and the starts admitted but not yet settled. *)
Managed == Cardinality({q \in Requests : Active(q)})
           + Cardinality({q \in Requests : admit[q] = "pending"})

Enqueue(t, what, q) == lock' = [lock EXCEPT ![t] = Append(@, <<what, q>>)]

(* `start` and `restart`: a task found active takes no reserved start. *)
Submit(q) ==
    /\ up = "serving" /\ phase[q] = "new"
    /\ \E k \in {"start", "restart"}, t \in Tasks :
        LET alreadyActive == Current(t) # {} IN
        /\ kind' = [kind EXCEPT ![q] = k]
        /\ task' = [task EXCEPT ![q] = t]
        /\ IF alreadyActive \/ Managed < MaxProcesses
           THEN /\ phase' = [phase EXCEPT ![q] = "inside"]
                /\ admit' = [admit EXCEPT ![q] = IF alreadyActive THEN @ ELSE "pending"]
                /\ Enqueue(t, "request", q)
           ELSE /\ phase' = [phase EXCEPT ![q] = "done"]
                /\ UNCHANGED <<admit, lock>>
    /\ UNCHANGED <<up, at, rec, held, ear, procs, idle, rest>>

SubmitStop(q) ==
    /\ up = "serving" /\ phase[q] = "new"
    /\ \E t \in Tasks :
        /\ kind' = [kind EXCEPT ![q] = "stop"]
        /\ task' = [task EXCEPT ![q] = t]
        /\ phase' = [phase EXCEPT ![q] = "inside"]
        /\ Enqueue(t, "request", q)
    /\ UNCHANGED <<up, admit, at, rec, held, ear, procs, idle, rest>>

(* The controller resumes: the reserved start is given back, and the task counts as asked for. *)
Answer(q) ==
    /\ phase[q] \in {"ran", "failed"}
    /\ phase' = [phase EXCEPT ![q] = "done"]
    /\ admit' = [admit EXCEPT ![q] = IF @ = "pending" THEN "counted" ELSE @]
    /\ clock' = IF phase[q] = "ran" /\ task[q] \in OptedIn THEN [clock EXCEPT ![task[q]] = "fresh"] ELSE clock
    /\ UNCHANGED <<up, kind, task, sup, procs, sweep, rest>>

(* `ps` and `logs`. *)
Observe(t) ==
    /\ up = "serving" /\ t \in OptedIn /\ clock[t] # "fresh"
    /\ \E q \in Current(t) : rec[q].state = "RUNNING"
    /\ clock' = [clock EXCEPT ![t] = "fresh"]
    /\ UNCHANGED <<ctrl, sup, procs, sweep, rest>>

-----------------------------------------------------------------------------
(* Start and restart, inside the lock. *)

Starting(t) == Doing(t, "request") /\ kind[Subject(t)] = "start" /\ at[t] = "begin"

StartReserves(t) ==
    /\ Starting(t)
    /\ Current(t) = {} /\ Unreserved(t)
    /\ held' = [held EXCEPT ![t] = [NoToken EXCEPT !.by = Subject(t)]]
    /\ Goto(t, "spawn")
    /\ UNCHANGED <<ctrl, lock, rec, ear, procs, idle, rest>>

(* A reservation stands: a verified run that outlived it may still be reported. *)
StartFindsReservation(t) ==
    /\ Starting(t)
    /\ ~Unreserved(t)
    /\ \E seen \in BOOLEAN :
        LET ours == {q \in Current(t) : rec[q] = Row("RUNNING", FALSE) /\ Matches(q) /\ seen
                        /\ (held[t].by = q \/ (held[t].late /\ held[t].old = q))}
        IN /\ held' = IF ours = {} THEN held ELSE [held EXCEPT ![t] = NoToken]
           /\ Return(t, IF ours = {} THEN "failed" ELSE "ran")
    /\ UNCHANGED <<up, kind, task, admit, rec, ear, procs, idle, rest>>

(* The task is active: report it, retire it, or settle its row and try again. *)
StartFindsActive(t) ==
    /\ Starting(t)
    /\ Unreserved(t)
    /\ \E q \in Current(t), seen \in BOOLEAN :
        IF rec[q].state = "STOPPING" \/ ~seen THEN
            Return(t, "failed") /\ UNCHANGED <<rec>>
        ELSE IF Matches(q) /\ ~TaskExited(q) THEN
            /\ SetRow(q, "RUNNING", rec[q].dirty)
            /\ Return(t, IF rec[q].dirty THEN "failed" ELSE "ran")
        ELSE IF Matches(q) THEN
            Goto(t, "stop") /\ UNCHANGED <<rec, lock, phase>>
        ELSE
            /\ SetRow(q, IF Mismatches(q) THEN "STALE_IDENTITY"
                         ELSE IF GroupEmpty(q) THEN "STOPPED" ELSE "FAILED", rec[q].dirty)
            /\ UNCHANGED <<at, lock, phase>>
    /\ UNCHANGED <<up, kind, task, admit, held, ear, procs, idle, rest>>

(* `restart` reserves in the name of the run it replaces, which it then stops. *)
RestartReserves(t) ==
    /\ Doing(t, "request") /\ kind[Subject(t)] = "restart" /\ at[t] = "begin"
    /\ IF Unreserved(t)
       THEN /\ held' = [held EXCEPT ![t] = [NoToken EXCEPT !.by = Subject(t),
                            !.old = IF Current(t) = {} THEN None ELSE Target(t)]]
            /\ Goto(t, IF Current(t) = {} THEN "spawn" ELSE "stop")
            /\ UNCHANGED <<lock, phase>>
       ELSE Return(t, "failed") /\ UNCHANGED held
    /\ UNCHANGED <<up, kind, task, admit, rec, ear, procs, idle, rest>>

(* No anchor, or one that does not identify itself: nothing is recorded, and an anchor that is *)
(* never told GO leaves with its standard input. *)
SpawnFails(t) ==
    /\ at[t] = "spawn"
    /\ ReleaseOwn(t)
    /\ Return(t, "failed")
    /\ UNCHANGED <<up, kind, task, admit, rec, ear, procs, idle, rest>>

(* #spawn: a detached anchor that is READY waits for GO on its standard input.  The row comes *)
(* first, and says a cleanup is owed until the launch is confirmed. *)
CreateRecord(t) ==
    /\ at[t] = "spawn"
    /\ anchor' = [anchor EXCEPT ![Subject(t)] = "waiting"]
    /\ SetRow(Subject(t), "STARTING", TRUE)
    /\ clock' = [clock EXCEPT ![t] = "fresh"]
    /\ ear' = ear \cup {Subject(t)}
    /\ Goto(t, "go")
    /\ UNCHANGED <<ctrl, lock, held, work, acked, other, sweep, rest>>

SendGo(t) ==
    /\ at[t] = "go" /\ Matches(Subject(t))
    /\ anchor' = [anchor EXCEPT ![Subject(t)] = "sent"]
    /\ Goto(t, "ack")
    /\ UNCHANGED <<ctrl, lock, rec, held, ear, work, acked, other, idle, rest>>

Launched(t) ==
    /\ at[t] = "ack" /\ Subject(t) \in acked
    /\ rec[Subject(t)].state = "STARTING"
    /\ SetRow(Subject(t), "RUNNING", FALSE)
    /\ ReleaseOwn(t)
    /\ Return(t, "ran")
    /\ UNCHANGED <<up, kind, task, admit, ear, procs, idle, rest>>

(* A timeout, a refusal or an exit before the launch is confirmed. *)
LaunchFails(t) ==
    /\ at[t] \in {"go", "ack"}
    /\ ear' = ear \ {Subject(t)}
    /\ Goto(t, "rollback")
    /\ UNCHANGED <<ctrl, lock, rec, held, procs, idle, rest>>

(* SIGKILL to a group takes the anchor and whatever it left, or a stranger that has its pid. *)
Killed(q) ==
    /\ anchor' = [anchor EXCEPT ![q] = "gone"]
    /\ work' = [work EXCEPT ![q] = IF anchor[q] = "gone" \/ @ = "none" THEN @ ELSE "over"]
    /\ other' = [other EXCEPT ![q] = IF @ = "alive" THEN "dead" ELSE @]

(* #rollbackSpawn: an anchor that exited, or is verified and killed, needs no cleanup; a *)
(* cleanup that cannot be confirmed stays owed, and keeps the reservation. *)
Rollback(t) ==
    LET q == Subject(t) IN
    /\ at[t] = "rollback"
    /\ \E confirmed \in BOOLEAN :
        /\ \/ Matches(q) /\ Killed(q)
           \/ confirmed = (anchor[q] = "gone") /\ UNCHANGED <<anchor, work, other>>
        /\ SetRow(q, "FAILED", ~confirmed)
        /\ IF confirmed THEN ReleaseOwn(t) ELSE UNCHANGED held
    /\ Return(t, "failed")
    /\ UNCHANGED <<up, kind, task, admit, ear, acked, idle, rest>>

-----------------------------------------------------------------------------
(* Stopping, inside the lock: for `stop`, for a restart, for a start that retires a run whose *)
(* task is over, and for the idle sweep. *)

(* `stop` of a task with no active row. *)
StopFindsNothing(t) ==
    /\ Doing(t, "request") /\ kind[Subject(t)] = "stop" /\ at[t] = "begin"
    /\ Current(t) = {}
    /\ Return(t, "failed")
    /\ UNCHANGED <<up, kind, task, admit, rec, held, ear, procs, idle, rest>>

SweepEnds(t) ==
    /\ Unlock(t)
    /\ clock' = [clock EXCEPT ![t] = "fresh"]
    /\ sweep' = [step |-> "off", run |-> None]
    /\ UNCHANGED phase

(* #terminateCleanupOwned: what is left of a run whose cleanup is owed is verified and killed. *)
Terminated(q, done) ==
    \/ Matches(q) /\ Killed(q)
    \/ Matches(q) /\ ~done /\ UNCHANGED <<anchor, work, other>>
    \/ Absent(q) /\ (done => GroupEmpty(q)) /\ UNCHANGED <<anchor, work, other>>
    \/ Mismatches(q) /\ UNCHANGED <<anchor, work, other>>

(* stopRecord, for the idle sweep: the run of its snapshot if it is still active, or the cleanup *)
(* it still owes. *)
IdleStopBegins(t) ==
    LET q == Subject(t) IN
    /\ Doing(t, "idle") /\ at[t] = "begin"
    /\ IF Active(q)
       THEN Goto(t, "stop") /\ UNCHANGED <<phase, lock, rec, clock, sweep, anchor, work, other>>
       ELSE /\ SweepEnds(t)
            /\ \E done \in {d \in BOOLEAN : d => rec[q].dirty} :
                /\ rec' = [rec EXCEPT ![q].dirty = @ /\ ~done]
                /\ IF rec[q].dirty THEN Terminated(q, done)
                   ELSE UNCHANGED <<anchor, work, other>>
    /\ UNCHANGED <<up, kind, task, admit, held, ear, acked, rest>>

(* #stopActive of an active run. *)
MarkStopping(t) ==
    /\ \/ at[t] = "stop"
       \/ Doing(t, "request") /\ kind[Subject(t)] = "stop" /\ at[t] = "begin" /\ Current(t) # {}
    /\ Active(Target(t))
    /\ SetRow(Target(t), "STOPPING", rec[Target(t)].dirty)
    /\ Goto(t, "term")
    /\ UNCHANGED <<ctrl, lock, held, ear, procs, idle, rest>>

(* Where a stop that succeeded goes on; a `stop` leaves no sign of activity, as a refusal does not. *)
AfterStop(t) ==
    IF Op(t) = "idle" THEN SweepEnds(t)
    ELSE /\ UNCHANGED <<clock, sweep>>
         /\ CASE kind[Subject(t)] = "stop" -> Return(t, "failed")
              [] kind[Subject(t)] = "restart" -> Goto(t, "spawn") /\ UNCHANGED <<lock, phase>>
              [] OTHER -> Goto(t, "begin") /\ UNCHANGED <<lock, phase>>

(* Mutant: a stop that fails leaves no trace of what it could not confirm. *)
StopFailsClean(t) ==
    /\ SetRow(Target(t), "FAILED", FALSE)
    /\ Unlock(t)
    /\ IF Op(t) = "idle"
       THEN /\ clock' = [clock EXCEPT ![t] = "fresh"]
            /\ sweep' = [step |-> "off", run |-> None]
            /\ UNCHANGED <<phase, held>>
       ELSE /\ phase' = [phase EXCEPT ![Subject(t)] = "failed"]
            /\ ReleaseOwn(t)
            /\ UNCHANGED <<clock, sweep>>

(* A stop that cannot be confirmed owes a cleanup. *)
StopFails(t) ==
    /\ SetRow(Target(t), "FAILED", TRUE)
    /\ Unlock(t)
    /\ IF Op(t) = "idle"
       THEN /\ clock' = [clock EXCEPT ![t] = "fresh"]
            /\ sweep' = [step |-> "off", run |-> None]
            /\ UNCHANGED <<phase, held>>
       ELSE /\ phase' = [phase EXCEPT ![Subject(t)] = "failed"]
            /\ ReleaseOwn(t)
            /\ UNCHANGED <<clock, sweep>>

(* The group is gone.  A task that had ended by itself may read FAILED. *)
Gone(t) ==
    /\ \E s \in {"STOPPED", "FAILED"} : SetRow(Target(t), s, rec[Target(t)].dirty)
    /\ AfterStop(t)
    /\ UNCHANGED held

Stale(t) ==
    /\ SetRow(Target(t), "STALE_IDENTITY", rec[Target(t)].dirty)
    /\ AfterStop(t)
    /\ UNCHANGED held

(* One look at the stopped run before a signal, as #stopLocked takes it before each. *)
Look(t) ==
    LET q == Target(t) IN
    \/ Absent(q) /\ GroupEmpty(q) /\ Gone(t)
    \/ Absent(q) /\ ~GroupEmpty(q) /\ StopFails(t)
    \/ Mismatches(q) /\ Stale(t)
    \/ StopFails(t)                                      \* the inspection fails

(* A look, SIGTERM and the grace period: the task may end, as it may at any time.  Whether a *)
(* stranger that takes the pid meanwhile leads a group decides how the row ends. *)
Term(t) ==
    LET q == Target(t) IN
    /\ at[t] = "term"
    /\ \/ Look(t)
       \/ Mismatches(q) /\ Gone(t)
       \/ /\ Matches(q)
          /\ Goto(t, "kill")
          /\ UNCHANGED <<phase, lock, rec, held, clock, sweep>>
    /\ UNCHANGED <<up, kind, task, admit, ear, procs, rest>>

(* Mutant: SIGKILL goes to the pid that SIGTERM went to. *)
StillThere(q) == Matches(q) \/ Mismatches(q)

(* SIGKILL, after a second look at who has the pid. *)
Verified(q) == Matches(q)

Kill(t) ==
    /\ at[t] = "kill"
    /\ \/ Look(t) /\ UNCHANGED <<anchor, work, other>>
       \/ /\ Verified(Target(t))
          /\ Killed(Target(t))
          /\ Goto(t, "dead")
          /\ UNCHANGED <<phase, lock, rec, held, clock, sweep>>
    /\ UNCHANGED <<up, kind, task, admit, ear, acked, rest>>

(* waitForGroupAbsent; a stranger leading a group of that number looks alive. *)
AwaitDeath(t) ==
    /\ at[t] = "dead"
    /\ (GroupEmpty(Target(t)) /\ Gone(t)) \/ StopFails(t)
    /\ UNCHANGED <<up, kind, task, admit, ear, procs, rest>>

(* The child process ended: its exit waits for the task's lock. *)
HearExit(q) ==
    /\ q \in ear /\ anchor[q] = "gone"
    /\ ear' = ear \ {q}
    /\ Enqueue(task[q], "exit", q)
    /\ UNCHANGED <<ctrl, at, rec, held, procs, idle, rest>>

(* #recordExit: the anchor of an active run ended without a stop. *)
RecordExit(t) ==
    LET q == Subject(t) IN
    /\ Doing(t, "exit") /\ at[t] = "begin"
    /\ \E gone \in {g \in BOOLEAN : g => GroupEmpty(q)}, s \in {"STOPPED", "FAILED"} :
        IF Active(q) THEN SetRow(q, IF gone THEN s ELSE "FAILED", ~gone) ELSE UNCHANGED rec
    /\ Unlock(t)
    /\ UNCHANGED <<ctrl, held, ear, procs, idle, rest>>

-----------------------------------------------------------------------------
(* The idle sweep. *)

Suspendable(q) == rec[q] = Row("RUNNING", FALSE)

(* A sweep finds a running task whose window has passed, and notes why it stops it. *)
SweepDecides(q) ==
    /\ up = "serving" /\ sweep.step = "off"
    /\ Suspendable(q) /\ clock[task[q]] = "old"
    /\ clock' = [clock EXCEPT ![task[q]] = "due"]
    /\ sweep' = [step |-> "noting", run |-> q]
    /\ UNCHANGED <<ctrl, sup, procs, rest>>

SweepRechecks ==
    LET q == sweep.run  t == task[q] IN
    /\ sweep.step = "noting"
    /\ IF clock[t] = "due"
       THEN /\ Enqueue(t, "idle", q)
            /\ sweep' = [sweep EXCEPT !.step = "stopping"]
       ELSE /\ sweep' = [step |-> "off", run |-> None]
            /\ UNCHANGED lock
    /\ UNCHANGED <<ctrl, at, rec, held, ear, procs, clock, rest>>

(* The window of a running task passes.  A clock that is unknown, forgotten with its run or with *)
(* the daemon, starts at the next sweep: it is as good as fresh. *)
WindowPasses(t) ==
    /\ t \in OptedIn /\ clock[t] = "fresh"
    /\ \E q \in Current(t) : Suspendable(q)
    /\ clock' = [clock EXCEPT ![t] = "old"]
    /\ UNCHANGED <<ctrl, sup, procs, sweep, rest>>

-----------------------------------------------------------------------------
(* The anchors and what runs under them, daemon or no daemon. *)

AnchorLaunches(q) ==
    /\ anchor[q] = "sent"
    /\ anchor' = [anchor EXCEPT ![q] = "up"]
    /\ work' = [work EXCEPT ![q] = "up"]
    /\ UNCHANGED <<ctrl, sup, acked, other, idle, rest>>

LaunchAcknowledged(q) ==
    /\ anchor[q] = "up" /\ q \notin acked
    /\ acked' = acked \cup {q}
    /\ UNCHANGED <<ctrl, sup, anchor, work, other, idle, rest>>

(* An anchor that is refused, or whose daemon is gone, leaves without having launched. *)
AnchorLeaves(q) ==
    /\ anchor[q] \in {"waiting", "sent"}
    /\ anchor' = [anchor EXCEPT ![q] = "gone"]
    /\ UNCHANGED <<ctrl, sup, work, acked, other, idle, rest>>

TaskEnds(q) ==
    /\ work[q] \in {"up", "left"}
    /\ \E w \in {"left", "over"} \ {work[q]} : work' = [work EXCEPT ![q] = w]
    /\ UNCHANGED <<ctrl, sup, anchor, acked, other, idle, rest>>

(* checkGroup: the anchor stays until its whole group is gone. *)
AnchorEnds(q) ==
    /\ anchor[q] = "up" /\ work[q] = "over"
    /\ anchor' = [anchor EXCEPT ![q] = "gone"]
    /\ UNCHANGED <<ctrl, sup, work, acked, other, idle, rest>>

AnchorKilled(q) ==
    /\ faults < MaxFaults
    /\ anchor[q] = "up"
    /\ faults' = faults + 1
    /\ anchor' = [anchor EXCEPT ![q] = "gone"]
    /\ UNCHANGED <<ctrl, sup, work, acked, other, idle, todo>>

(* The kernel gives the pid away, once nothing of the group is left. *)
PidReused(q) ==
    /\ Reuses /\ other[q] = "none"
    /\ anchor[q] = "gone" /\ GroupEmpty(q)
    /\ Active(q) \/ rec[q].dirty                        \* bound: of no consequence otherwise
    /\ other' = [other EXCEPT ![q] = "alive"]
    /\ UNCHANGED <<ctrl, sup, anchor, work, acked, idle, rest>>

-----------------------------------------------------------------------------
(* The daemon dies, and the next one recovers every row before it serves. *)

Crash ==
    /\ up # "down" /\ faults < MaxFaults
    /\ up' = "down"
    /\ faults' = faults + 1
    /\ phase' = [q \in Requests |-> IF phase[q] = "new" THEN "new" ELSE "done"]
    /\ admit' = [q \in Requests |-> IF admit[q] = "pending" THEN "counted" ELSE admit[q]]
    /\ lock' = [t \in Tasks |-> <<>>]
    /\ at' = [t \in Tasks |-> "begin"]
    /\ ear' = {} /\ todo' = {}
    /\ clock' = [t \in Tasks |-> "fresh"]
    /\ sweep' = [step |-> "off", run |-> None]
    /\ UNCHANGED <<kind, task, rec, held, procs>>

(* The 30 seconds of a reservation pass. *)
ReservationExpires(t) ==
    /\ held[t] # NoToken /\ ~held[t].late
    /\ lock[t] = <<>>                                   \* bound: no spawn takes that long
    /\ held' = [held EXCEPT ![t].late = TRUE]
    /\ UNCHANGED <<ctrl, lock, at, rec, ear, procs, idle, rest>>

(* releaseOrphanedManagedProcessStartReservations, before the rows. *)
Boot ==
    /\ up = "down"
    /\ up' = "booting"
    /\ held' = [t \in Tasks |-> IF Owed(t) = {} THEN NoToken ELSE held[t]]
    /\ todo' = {q \in Requests : Active(q) \/ rec[q].dirty}
    /\ UNCHANGED <<phase, kind, task, admit, lock, at, rec, ear, procs, idle, faults>>

(* Mutant: a launching or failed run is taken for gone once its remains were signalled. *)
RecoveredUnconfirmed(q, seen, done, s) ==
    IF ~seen THEN Row("FAILED", TRUE)
    ELSE IF Matches(q) THEN
        IF rec[q].state \in {"RUNNING", "STARTING"} /\ ~(rec[q].dirty /\ q \notin acked)
        THEN Row("RUNNING", FALSE) ELSE Row("FAILED", FALSE)
    ELSE IF Mismatches(q) THEN Row(IF rec[q].state = "FAILED" THEN "FAILED" ELSE "STALE_IDENTITY", FALSE)
    ELSE IF GroupEmpty(q) THEN Row(IF rec[q].state = "FAILED" THEN "FAILED" ELSE s, FALSE)
    ELSE Row("FAILED", TRUE)

(* The state recovery gives a row, and whether its cleanup stays owed. *)
Recovered(q, seen, done, s) ==
    LET launching == rec[q].state = "STARTING"
        unlaunched == launching /\ q \notin acked
        ended == IF rec[q].state = "FAILED" THEN "FAILED"
                 ELSE IF rec[q].state \in {"STARTING", "RUNNING"} THEN s ELSE "STOPPED" IN
    IF ~seen THEN Row("FAILED", TRUE)
    ELSE IF Matches(q) THEN
        IF rec[q].dirty /\ (rec[q].state = "FAILED" \/ unlaunched)
        THEN IF done THEN Row("FAILED", FALSE) ELSE rec[q]
        ELSE IF rec[q].state = "STOPPING"
        THEN IF done THEN Row("STOPPED", rec[q].dirty) ELSE Row("FAILED", TRUE)
        ELSE Row("RUNNING", FALSE)
    ELSE IF Mismatches(q) THEN Row(IF rec[q].state = "FAILED" THEN "FAILED" ELSE "STALE_IDENTITY", FALSE)
    ELSE IF GroupEmpty(q) THEN Row(ended, FALSE)
    ELSE Row("FAILED", TRUE)

(* A row whose reservation is its own gives it back once nothing is owed. *)
RecoveryReleases(q, row) ==
    LET t == task[q] IN
    held' = IF held[t].by = q /\ ~row.dirty /\ ~(Matches(q) /\ rec[q].state = "STOPPING") THEN [held EXCEPT ![t] = NoToken] ELSE held

(* recover: one row.  The verified remains of an unlaunched, a failed or a stopping run are *)
(* killed; a transition the store refuses ends the boot. *)
Recover(q) ==
    /\ up = "booting" /\ q \in todo
    /\ \E seen \in BOOLEAN, done \in BOOLEAN, s \in {"STOPPED", "FAILED"} :
        LET row == Recovered(q, seen, done, s)
            kill == seen /\ Matches(q) /\ row.state # "RUNNING" IN
        /\ IF Allowed(rec[q].state, row.state)
           THEN /\ rec' = [rec EXCEPT ![q] = row]
                /\ RecoveryReleases(q, row)
                /\ IF kill THEN Terminated(q, done) ELSE UNCHANGED <<anchor, work, other>>
                /\ todo' = todo \ {q}
                /\ UNCHANGED up
           ELSE /\ up' = "down"
                /\ UNCHANGED <<rec, held, anchor, work, other, todo>>
    /\ UNCHANGED <<phase, kind, task, admit, lock, at, ear, acked, idle, faults>>

Serve ==
    /\ up = "booting" /\ todo = {}
    /\ up' = "serving"
    /\ UNCHANGED <<phase, kind, task, admit, sup, procs, idle, rest>>

-----------------------------------------------------------------------------
Next ==
    \/ \E q \in Requests : Submit(q)
    \/ \E q \in Requests : SubmitStop(q)
    \/ \E q \in Requests : Answer(q)
    \/ \E t \in Tasks : Observe(t)
    \/ \E t \in Tasks : StartReserves(t)
    \/ \E t \in Tasks : StartFindsReservation(t)
    \/ \E t \in Tasks : StartFindsActive(t)
    \/ \E t \in Tasks : RestartReserves(t)
    \/ \E t \in Tasks : SpawnFails(t)
    \/ \E t \in Tasks : CreateRecord(t)
    \/ \E t \in Tasks : SendGo(t)
    \/ \E t \in Tasks : Launched(t)
    \/ \E t \in Tasks : LaunchFails(t)
    \/ \E t \in Tasks : Rollback(t)
    \/ \E t \in Tasks : StopFindsNothing(t)
    \/ \E t \in Tasks : IdleStopBegins(t)
    \/ \E t \in Tasks : MarkStopping(t)
    \/ \E t \in Tasks : Term(t)
    \/ \E t \in Tasks : Kill(t)
    \/ \E t \in Tasks : AwaitDeath(t)
    \/ \E q \in Requests : HearExit(q)
    \/ \E t \in Tasks : RecordExit(t)
    \/ \E q \in Requests : SweepDecides(q)
    \/ SweepRechecks
    \/ \E t \in Tasks : WindowPasses(t)
    \/ \E q \in Requests : AnchorLaunches(q)
    \/ \E q \in Requests : LaunchAcknowledged(q)
    \/ \E q \in Requests : AnchorLeaves(q)
    \/ \E q \in Requests : TaskEnds(q)
    \/ \E q \in Requests : AnchorEnds(q)
    \/ \E q \in Requests : AnchorKilled(q)
    \/ \E q \in Requests : PidReused(q)
    \/ Crash
    \/ \E t \in Tasks : ReservationExpires(t)
    \/ Boot
    \/ \E q \in Requests : Recover(q)
    \/ Serve

Spec == Init /\ [][Next]_vars

-----------------------------------------------------------------------------
(* The rows, the reservations and the queues stay well formed, and no operation is left inside *)
(* a lock that nobody holds. *)
TypeOK ==
    /\ up \in {"down", "booting", "serving"}
    /\ phase \in [Requests -> {"new", "inside", "ran", "failed", "done"}]
    /\ task \in [Requests -> Tasks \cup {None}]
    /\ admit \in [Requests -> {"no", "pending", "counted"}]
    /\ lock \in [Tasks -> Seq({"request", "exit", "idle"} \X Requests)]
    /\ at \in [Tasks -> {"begin", "spawn", "go", "ack", "rollback", "stop", "term", "kill", "dead"}]
    /\ rec \in [Requests -> [state : ActiveStates \cup TerminalStates \cup {"none"}, dirty : BOOLEAN]]
    /\ held \in [Tasks -> [by : Requests \cup {None}, old : Requests \cup {None}, late : BOOLEAN]]
    /\ anchor \in [Requests -> {"none", "waiting", "sent", "up", "gone"}]
    /\ other \in [Requests -> {"none", "alive", "dead"}]
    /\ ear \subseteq Requests
    /\ sweep.step # "off" => sweep.run \in Requests
    /\ \A t \in Tasks : at[t] # "begin" => lock[t] # <<>>

(* Among the live runs that the budget admitted there are never more than it allows, however many *)
(* starts are between their admission and their row. *)
AdmittedWithinBudget ==
    Cardinality({q \in Requests : Active(q) /\ admit[q] # "no"}) <= MaxProcesses

(* docs/07-process-port-runtime.md: a start or restart that would raise the count above the limit *)
(* is refused. *)
WithinBudget == Cardinality({q \in Requests : Active(q)}) <= MaxProcesses

(* A process group whose anchor lives is always answered for: by a row that is active or owes its *)
(* cleanup.  A crash at any point of a launch, a rollback or a stop must not lose one. *)
LaunchedIsOwned ==
    \A q \in Requests : anchor[q] \in {"sent", "up"} => Active(q) \/ rec[q].dirty

(* The same of every group, its anchor killed or not. *)
EveryGroupOwned ==
    \A q \in Requests : work[q] \in {"up", "left"} => Active(q) \/ rec[q].dirty

(* Two runs of one task are never both up, unless the row of one says that its cleanup is owed. *)
OneLiveRun ==
    \A q, r \in Requests :
        q # r /\ task[q] = task[r] /\ anchor[q] = "up" /\ anchor[r] = "up"
            => rec[q].dirty \/ rec[r].dirty

(* No signal reaches a process that took a dead anchor's pid. *)
StrangersAreSpared == \A q \in Requests : other[q] # "dead"

(* A boot never stops at a row that it cannot give a state. *)
BootCompletes == [][~(up = "booting" /\ up' = "down" /\ faults' = faults)]_vars

(* A task somebody asked about within its window is not suspended. *)
AskedIsSpared ==
    [][\A t \in Tasks : at[t] = "stop" /\ at'[t] = "term" /\ Op(t) = "idle" => clock[t] # "fresh"]_vars

=============================================================================

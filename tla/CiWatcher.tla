----------------------------- MODULE CiWatcher -----------------------------
(***************************************************************************)
(* `wtm ci watch`: the daemon's follower of the CI of commits              *)
(* (daemon/src/ci/watcher.ts) and the watches it keeps in the state        *)
(* database (core/src/state/ci-store.ts).                                  *)
(*                                                                         *)
(* Time is what has passed: a watch is due or not, its age is how often it *)
(* fell due, and calls leave the window of a minute one by one.  What runs *)
(* between two awaits may be several steps here, which nothing interrupts. *)
(***************************************************************************)
EXTENDS Naturals, FiniteSets

CONSTANTS
    Worktrees,
    Commits,
    Asked,              \* bound: the worktrees and commits that `ci.watch` is asked for
    Begun,              \* what the provider tells of the runs at first
    RunsOf,             \* the CI runs that can appear for each commit
    None,
    CallsPerMinute,     \* ciPollPolicy
    MaxPending,
    UnavailableAfter,
    MaxWatches,         \* bound: watches ever started
    NoRunsAfter,        \* bound: how often a watch falls due within three minutes,
    TimeoutAfter        \* and within two hours

Runs == UNION {RunsOf[c] : c \in Commits}

Conclusions == {"none", "running", "success", "failure", "cancelled"}

ASSUME CiAssumption ==
    /\ Asked \subseteq Worktrees \X Commits
    /\ None \notin Commits
    /\ RunsOf \in [Commits -> SUBSET Runs]
    /\ Begun \in [Runs -> Conclusions]
    /\ {CallsPerMinute, MaxPending, UnavailableAfter} \subseteq Nat \ {0}
    /\ {MaxWatches, NoRunsAfter, TimeoutAfter} \subseteq Nat

Watches == 1..MaxWatches          \* by sequence

VARIABLES
    ci,        \* each run, as the provider tells: one of Conclusions
    watch,     \* the rows: `due` when nextPollAt has passed, `age` since startedAt
    up,        \* the daemon: "down", "up", "closing"
    timer,     \* #timer is armed
    ticks,     \* the ticks that wait in #operation
    tick,      \* the tick under way, and the watches of its snapshot still to poll
    poll,      \* the poll under way
    asks,      \* the `ci.watch` requests that await their probe
    calls      \* #calls within the last minute

loop == <<timer, ticks, tick, poll>>
vars == <<ci, watch, up, loop, asks, calls>>

Unseen == [status |-> "none", log |-> FALSE]

NoRuns == [r \in Runs |-> Unseen]

NoWatch == [state |-> "none", tree |-> None, head |-> None, due |-> FALSE, age |-> 0,
            saw |-> FALSE, streak |-> 0, runs |-> NoRuns,
            fetched |-> [r \in Runs |-> 0]]          \* how often each log was, since a fault last lost it

(* What the table shows of a watch that ended: the rest of its row is never read again. *)
Ended(row, state) == [NoWatch EXCEPT !.state = state, !.tree = row.tree]

NoPoll == [step |-> "off", w |-> 0, head |-> None, at |-> None, streak |-> 0, stored |-> NoRuns, late |-> FALSE,
           runs |-> NoRuns, todo |-> {}]

NoTick == [on |-> FALSE, list |-> {}]

Init ==
    /\ ci = Begun
    /\ watch = [w \in Watches |-> NoWatch]
    /\ up = "up"
    /\ timer = FALSE /\ ticks = 0 /\ tick = NoTick /\ poll = NoPoll
    /\ asks = {} /\ calls = 0

Pending == {w \in Watches : watch[w].state = "pending"}

PendingOf(t) == {w \in Pending : watch[w].tree = t}

Finished(row) == row.state \notin {"none", "gone", "pending", "superseded"}

(* prune: a superseded watch goes once its worktree has a newer one that ended by itself. *)
Pruned(rows) ==
    [w \in Watches |->
        IF /\ rows[w].state = "superseded"
           /\ \E v \in Watches : v > w /\ rows[v].tree = rows[w].tree /\ Finished(rows[v])
        THEN [NoWatch EXCEPT !.state = "gone"] ELSE rows[w]]

(* Mutant: whoever writes last decides. *)
UpdateAnyway(w, row) == [watch EXCEPT ![w] = row]

(* update: a watch that is no longer pending is left as it is. *)
Update(w, row) == IF watch[w].state = "pending" THEN [watch EXCEPT ![w] = row] ELSE watch

(* #arm, after the rows became what they are: one timer, for the watch that is due first. *)
Arm == timer' = (up = "up" /\ \E w \in Watches : watch'[w].state = "pending")

HasBudget == calls < CallsPerMinute

-----------------------------------------------------------------------------
(* The requests. *)

(* start: it supersedes the worktree's pending watch, in one transaction. *)
Start(t, c) ==
    LET old == PendingOf(t) IN
    IF \E w \in old : watch[w].head = c THEN watch' = Pruned(watch) /\ Arm
    ELSE IF Cardinality(Pending \ old) >= MaxPending THEN UNCHANGED <<watch, timer>>
    ELSE \E new \in Watches :
         /\ watch[new].state = "none" /\ \A w \in Watches : watch[w].state = "none" => new <= w
         /\ watch' = Pruned([w \in Watches |->
                IF w = new THEN [NoWatch EXCEPT !.state = "pending", !.tree = t, !.head = c]
                ELSE IF w \in old THEN Ended(watch[w], "superseded") ELSE watch[w]])
         /\ Arm

Unstarted == Cardinality({w \in Watches : watch[w].state = "none"})

(* `ci.watch` of a commit that no pending watch follows: `gh` is probed, if the budget allows. *)
Watch(t, c) ==
    /\ up = "up"
    /\ <<t, c>> \in Asked
    /\ Unstarted > 0 /\ asks = {}                        \* bound: one probe at a time
    /\ \A w \in PendingOf(t) : watch[w].head # c
    /\ IF HasBudget
       THEN asks' = asks \cup {[tree |-> t, head |-> c]} /\ UNCHANGED <<watch, timer>>
       ELSE Start(t, c) /\ UNCHANGED asks
    /\ UNCHANGED <<ci, up, ticks, tick, poll, calls>>

(* The probe answers; only a `gh` that is missing or not allowed refuses. *)
ProbeAnswers(a) ==
    /\ a \in asks
    /\ asks' = asks \ {a}
    /\ calls' = calls + 1
    /\ Start(a.tree, a.head) \/ UNCHANGED <<watch, timer>>
    /\ UNCHANGED <<ci, up, ticks, tick, poll>>

Unwatch(t) ==
    /\ up = "up" /\ PendingOf(t) # {}
    /\ watch' = Pruned([w \in Watches |->
                    IF w \in PendingOf(t) THEN Ended(watch[w], "cancelled") ELSE watch[w]])
    /\ Arm
    /\ UNCHANGED <<ci, up, ticks, tick, poll, asks, calls>>

(* deleteForWorktree, by the removal of the worktree: another process. *)
Remove(t) ==
    /\ PendingOf(t) # {}                              \* bound: the ended ones only disappear
    /\ watch' = [w \in Watches |-> IF watch[w].tree = t THEN [NoWatch EXCEPT !.state = "gone"] ELSE watch[w]]
    /\ UNCHANGED <<ci, up, loop, asks, calls>>

-----------------------------------------------------------------------------
(* The timer and the ticks. *)

(* nextPollAt has passed. *)
FallsDue(row) == [row EXCEPT !.due = TRUE, !.age = IF @ < TimeoutAfter THEN @ + 1 ELSE @]

TimedOut(w) == watch[w].age >= TimeoutAfter

(* The delay passes: a watch is due by then, unless what it was armed for has ended. *)
TimerFires ==
    /\ timer
    /\ \E now \in SUBSET {w \in Pending : ~watch[w].due} :
        /\ watch' = [w \in Watches |-> IF w \in now THEN FallsDue(watch[w]) ELSE watch[w]]
        /\ Pending = {} \/ \E w \in Pending : watch'[w].due
    /\ timer' = FALSE
    /\ ticks' = ticks + 1
    /\ UNCHANGED <<ci, up, tick, poll, asks, calls>>

TickBegins ==
    /\ ticks > 0 /\ ~tick.on
    /\ ticks' = ticks - 1
    /\ tick' = [on |-> TRUE, list |-> Pending]
    /\ UNCHANGED <<ci, watch, up, timer, poll, asks, calls>>

Eligible == {w \in tick.list \cap Pending : watch[w].due}

(* A tick that ends re-arms the timer, whether it returned or threw. *)
EndTick ==
    /\ tick' = NoTick
    /\ poll' = NoPoll
    /\ Arm

TickEnds ==
    /\ tick.on /\ poll.step = "off"
    /\ Eligible = {} \/ up # "up"
    /\ UNCHANGED <<ci, watch, up, ticks, asks, calls>>
    /\ EndTick

(* The budget is exhausted: every watch that is due waits for the next minute. *)
BudgetStop(rows) ==
    /\ watch' = [w \in Watches |-> [rows[w] EXCEPT !.due = FALSE]]
    /\ EndTick
    /\ UNCHANGED calls

(* The poll is over, and the tick goes on. *)
EndPoll == poll' = NoPoll /\ UNCHANGED <<tick, timer>>

Finish(w, state) == watch' = Pruned(Update(w, Ended(watch[w], state)))

(* #poll of the next watch, read anew: its deadline, then the listing of its runs. *)
PollBegins(w) ==
    /\ tick.on /\ poll.step = "off" /\ up = "up"
    /\ w \in Eligible
    /\ IF TimedOut(w) THEN
           /\ Finish(w, "timed_out")
           /\ tick' = [tick EXCEPT !.list = @ \ {w}]
           /\ UNCHANGED <<poll, timer, calls>>
       ELSE IF HasBudget THEN
           /\ calls' = calls + 1
           /\ poll' = [NoPoll EXCEPT !.step = "list", !.w = w, !.head = watch[w].head, !.streak = watch[w].streak,
                        !.stored = watch[w].runs, !.late = (watch[w].age >= NoRunsAfter /\ ~watch[w].saw)]
           /\ tick' = [tick EXCEPT !.list = @ \ {w}]
           /\ UNCHANGED <<watch, timer>>
       ELSE BudgetStop(watch)
    /\ UNCHANGED <<ci, up, ticks, asks>>

-----------------------------------------------------------------------------
(* A poll, call by call. *)

(* Its next poll is one interval away. *)
Waiting == [watch[poll.w] EXCEPT !.due = FALSE]

(* #failed: a throttled or transient answer only delays; `unavailable` counts. *)
Failed ==
    LET streak == poll.streak + 1 IN
    /\ \/ watch' = Update(poll.w, Waiting)
       \/ streak < UnavailableAfter /\ watch' = Update(poll.w, [Waiting EXCEPT !.streak = streak])
       \/ streak >= UnavailableAfter /\ Finish(poll.w, "unavailable")
    /\ EndPoll

(* #reschedule: the next poll, after some runs or none. *)
Reschedule(row) ==
    /\ watch' = Update(poll.w, [row EXCEPT !.streak = 0, !.due = FALSE])
    /\ EndPoll

Progressed == [watch[poll.w] EXCEPT !.runs = poll.runs, !.saw = TRUE]

Listed == {r \in RunsOf[poll.head] : ci[r] # "none"}

(* The jobs of a run that had completed when they were stored are not read again, unless there *)
(* were none; a run that failed has a failed job. *)
Known(r) == poll.stored[r].status = ci[r] /\ ci[r] # "running"

Jobless == {r \in Listed : Known(r) /\ ci[r] # "failure"}

ListAnswers ==
    /\ poll.step = "list"
    /\ \/ Failed
       \/ /\ Listed = {} /\ poll.late
          /\ Finish(poll.w, "no_runs")
          /\ EndPoll
       \/ /\ Listed = {} /\ ~poll.late
          /\ Reschedule(watch[poll.w])
       \/ /\ Listed # {}
          /\ \E again \in SUBSET Jobless :
               poll' = [poll EXCEPT !.step = "jobs",
                !.runs = [r \in Runs |-> IF r \in Listed
                                         THEN [status |-> ci[r], log |-> poll.stored[r].log] ELSE Unseen],
                !.todo = {r \in Listed : ~Known(r)} \cup again]
          /\ UNCHANGED <<watch, tick, timer>>
    /\ UNCHANGED <<ci, up, ticks, asks, calls>>

ReadJobs(r) ==
    /\ poll.step = "jobs" /\ r \in poll.todo
    /\ IF HasBudget
       THEN /\ calls' = calls + 1
            /\ poll' = [poll EXCEPT !.step = "job", !.at = r]
            /\ UNCHANGED <<watch, tick, timer>>
       ELSE BudgetStop(watch)
    /\ UNCHANGED <<ci, up, ticks, asks>>

JobsAnswer ==
    /\ poll.step = "job"
    /\ \/ Failed
       \/ /\ poll' = [poll EXCEPT !.step = "jobs", !.at = None, !.todo = @ \ {poll.at}]
          /\ UNCHANGED <<watch, tick, timer>>
    /\ UNCHANGED <<ci, up, ticks, asks, calls>>

(* The failed jobs of a complete listing whose log is not there yet. *)
Unlogged == {r \in Runs : poll.runs[r].status = "failure" /\ ~poll.runs[r].log}

Complete == poll.todo = {} /\ \A r \in Runs : poll.runs[r].status # "running"

StillRunning ==
    /\ poll.step = "jobs" /\ poll.todo = {} /\ ~Complete
    /\ Reschedule(Progressed)
    /\ UNCHANGED <<ci, up, ticks, asks, calls>>

(* Mutant: a budget that runs out between two logs loses the ones already fetched. *)
FetchLogUnsaved(r) ==
    /\ poll.step = "jobs" /\ Complete /\ r \in Unlogged
    /\ IF HasBudget
       THEN /\ calls' = calls + 1
            /\ poll' = [poll EXCEPT !.step = "log", !.at = r]
            /\ UNCHANGED <<watch, tick, timer>>
       ELSE BudgetStop(watch)
    /\ UNCHANGED <<ci, up, ticks, asks>>

(* The progress so far is saved before the budget stops the tick. *)
FetchLog(r) ==
    /\ poll.step = "jobs" /\ Complete /\ r \in Unlogged
    /\ IF HasBudget
       THEN /\ calls' = calls + 1
            /\ poll' = [poll EXCEPT !.step = "log", !.at = r]
            /\ UNCHANGED <<watch, tick, timer>>
       ELSE BudgetStop(Update(poll.w, Progressed))
    /\ UNCHANGED <<ci, up, ticks, asks>>

(* A log that does not exist is noted as such; a throttled answer saves and waits. *)
LogAnswers ==
    /\ poll.step = "log"
    /\ \/ /\ poll' = [poll EXCEPT !.step = "jobs", !.at = None, !.runs[poll.at].log = TRUE]
          /\ watch' = Update(poll.w, [watch[poll.w] EXCEPT !.fetched[poll.at] = @ + 1])
          /\ UNCHANGED <<tick, timer>>
       \/ /\ watch' = Update(poll.w, [Progressed EXCEPT !.due = FALSE])
          /\ EndPoll
    /\ UNCHANGED <<ci, up, ticks, asks, calls>>

Found(status) == \E r \in Runs : poll.runs[r].status = status

Verdict ==
    /\ poll.step = "jobs" /\ Complete /\ Unlogged = {}
    /\ Finish(poll.w, IF Found("failure") THEN "failure"
                      ELSE IF Found("cancelled") THEN "cancelled" ELSE "success")
    /\ EndPoll
    /\ UNCHANGED <<ci, up, ticks, asks, calls>>

(* A fault loses the logs that were fetched and not saved. *)
Lost(row) == [row EXCEPT !.fetched = [r \in Runs |-> IF row.runs[r].log THEN @[r] ELSE 0]]

(* Mutant: a tick that throws does not arm the timer again. *)
PollThrowsSilently ==
    /\ poll.step \in {"list", "job", "log"}
    /\ watch' = Update(poll.w, Lost(Waiting))
    /\ tick' = NoTick
    /\ poll' = NoPoll
    /\ UNCHANGED <<ci, up, timer, ticks, asks, calls>>

(* Anything else that goes wrong: the watch waits one interval, and the tick is given up. *)
PollThrows ==
    /\ poll.step \in {"list", "job", "log"}
    /\ watch' = Update(poll.w, Lost(Waiting))
    /\ EndTick
    /\ UNCHANGED <<ci, up, ticks, asks, calls>>

-----------------------------------------------------------------------------
(* Time, the provider, and the daemon's life. *)

(* A watch of the snapshot becomes due while an earlier one is polled. *)
Due(w) ==
    /\ w \in Pending \cap tick.list /\ ~watch[w].due
    /\ watch' = [watch EXCEPT ![w] = FallsDue(@)]
    /\ UNCHANGED <<ci, up, loop, asks, calls>>

CallsAge ==
    /\ calls > 0 /\ ~tick.on                            \* bound: a tick takes less than a minute
    /\ calls' = calls - 1
    /\ UNCHANGED <<ci, watch, up, loop, asks>>

(* What happens at the provider shows in the next listing, and may as well happen during it. *)
RunAdvances(r) ==
    /\ poll.step = "list" /\ r \in RunsOf[poll.head]
    /\ \/ ci[r] = "none" /\ ci' = [ci EXCEPT ![r] = "running"]
       \/ ci[r] = "running" /\ \E s \in {"success", "failure", "cancelled"} : ci' = [ci EXCEPT ![r] = s]
    /\ UNCHANGED <<watch, up, loop, asks, calls>>

Off ==
    /\ up' = "down"
    /\ timer' = FALSE /\ ticks' = 0 /\ tick' = NoTick /\ poll' = NoPoll
    /\ asks' = {} /\ calls' = 0

Crash ==
    /\ up # "down"
    /\ Off
    /\ watch' = [w \in Watches |-> Lost(watch[w])]
    /\ UNCHANGED ci

(* close: the poll under way is waited for, the rest of its tick is not. *)
Close ==
    /\ up = "up"
    /\ up' = "closing"
    /\ timer' = FALSE
    /\ UNCHANGED <<ci, watch, ticks, tick, poll, asks, calls>>

Exit ==
    /\ up = "closing" /\ ticks = 0 /\ ~tick.on
    /\ Off
    /\ UNCHANGED <<ci, watch>>

(* start: a watch that is too old ends at once, the others are polled soon.  Bound: the daemon was *)
(* away for as long as a poll interval. *)
Boot ==
    /\ up = "down"
    /\ up' = "up"
    /\ watch' = Pruned([w \in Watches |->
                    IF w \notin Pending THEN watch[w]
                    ELSE IF watch[w].age + 1 >= TimeoutAfter THEN Ended(watch[w], "timed_out")
                    ELSE [FallsDue(watch[w]) EXCEPT !.due = FALSE]])
    /\ timer' = (\E w \in Watches : watch'[w].state = "pending")
    /\ UNCHANGED <<ci, ticks, tick, poll, asks, calls>>

-----------------------------------------------------------------------------
(* Between two awaits nothing else of the daemon runs, and what others do may as well come later. *)
Awaiting == poll.step # "jobs" /\ (tick.on => poll.step # "off")

Next ==
    \/ Awaiting /\ \E t \in Worktrees, c \in Commits : Watch(t, c)
    \/ Awaiting /\ \E a \in asks : ProbeAnswers(a)
    \/ Awaiting /\ \E t \in Worktrees : Unwatch(t)
    \/ Awaiting /\ \E t \in Worktrees : Remove(t)
    \/ Awaiting /\ TimerFires
    \/ Awaiting /\ TickBegins
    \/ TickEnds
    \/ \E w \in Watches : PollBegins(w)
    \/ Awaiting /\ ListAnswers
    \/ \E r \in Runs : ReadJobs(r)
    \/ Awaiting /\ JobsAnswer
    \/ StillRunning
    \/ \E r \in Runs : FetchLog(r)
    \/ Awaiting /\ LogAnswers
    \/ Verdict
    \/ Awaiting /\ PollThrows
    \/ Awaiting /\ \E w \in Watches : Due(w)
    \/ Awaiting /\ CallsAge
    \/ Awaiting /\ \E r \in Runs : RunAdvances(r)
    \/ Awaiting /\ Crash
    \/ Awaiting /\ Close
    \/ Awaiting /\ Exit
    \/ Awaiting /\ Boot

(* What the daemon and the clock do sooner or later; `gh` is killed after 30 seconds. *)
Progress ==
    \/ Awaiting /\ TimerFires
    \/ Awaiting /\ TickBegins
    \/ TickEnds
    \/ \E w \in Watches : PollBegins(w)
    \/ Awaiting /\ ListAnswers
    \/ \E r \in Runs : ReadJobs(r)
    \/ Awaiting /\ JobsAnswer
    \/ StillRunning
    \/ \E r \in Runs : FetchLog(r)
    \/ Awaiting /\ LogAnswers
    \/ Verdict
    \/ Awaiting /\ Exit
    \/ Awaiting /\ Boot

Spec == Init /\ [][Next]_vars

FairSpec == Spec /\ WF_vars(Progress)

-----------------------------------------------------------------------------
Listings == [Runs -> [status : Conclusions, log : BOOLEAN]]

Verdicts == {"success", "failure", "no_runs", "unavailable", "timed_out", "cancelled", "superseded"}

Rows == [state : {"none", "pending", "gone"} \cup Verdicts, tree : Worktrees \cup {None}, head : Commits \cup {None},
         due : BOOLEAN, age : Nat, saw : BOOLEAN, streak : Nat, runs : Listings, fetched : [Runs -> Nat]]

Polls == [step : {"off", "list", "jobs", "job", "log"}, w : {0} \cup Watches, head : Commits \cup {None},
          at : Runs \cup {None}, streak : Nat, stored : Listings, late : BOOLEAN, runs : Listings, todo : SUBSET Runs]

(* The rows and the poll are well formed, and a poll is always of a tick and of a commit. *)
TypeOK ==
    /\ ci \in [Runs -> Conclusions]
    /\ watch \in [Watches -> Rows]
    /\ poll \in Polls
    /\ tick \in [on : BOOLEAN, list : SUBSET Watches]
    /\ asks \subseteq [tree : Worktrees, head : Commits]
    /\ \A w \in Watches : watch[w].state = "pending" => watch[w].head \in Commits
    /\ poll.step # "off" => tick.on /\ up # "down" /\ poll.w \in Watches /\ poll.head \in Commits
    /\ poll.step \in {"job", "log"} => poll.at \in Runs

(* A watch that ended, was cancelled or was superseded is never written again by the answer of a *)
(* poll that was under way: only the pruning of its row and the removal of its worktree follow. *)
EndedStays ==
    [][\A w \in Watches : watch[w].state \notin {"none", "pending"} =>
        watch'[w] = watch[w] \/ watch'[w].state = "gone"]_vars

(* The log of a failed job is fetched once for each watch, however often the budget or a throttled *)
(* answer stops the work half way; only a crash or a poll that throws may lose one not saved yet. *)
LogsOnce == \A w \in Watches, r \in Runs : watch[w].fetched[r] <= 1

(* No watch is pending for ever, whatever the provider answers, however its polls and those of the *)
(* others go, and whoever stops the daemon meanwhile: time and again none is left. *)
WatchEnds == []<>(Pending = {})

(* The comment at watcher.ts:136: at most 30 gh invocations per minute across all watches. *)
WithinCalls == calls <= CallsPerMinute

=============================================================================

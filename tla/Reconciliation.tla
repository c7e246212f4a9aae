--------------------------- MODULE Reconciliation ---------------------------
(***************************************************************************)
(* How the daemon keeps the registered worktrees equal to what Git has: its*)
(* start, its reconciliation batches and the `reconcile` request (main.ts),*)
(* the queue that coalesces their signals (reconciler-queue.ts), the       *)
(* watcher that raises them (watcher.ts) and the event a discovered        *)
(* worktree announces (events.ts).                                         *)
(*                                                                         *)
(* A root is a registered workspace of one repository.  Its topology is a  *)
(* version that only grows; the one linked worktree exists in the odd ones.*)
(* What the event loop runs between two awaits is one step, and so is a    *)
(* promise's whole chain of continuations.                                 *)
(***************************************************************************)
EXTENDS Integers, FiniteSets

CONSTANTS
    Roots,        \* the roots, numbered in registration order
    Requests,
    Early,        \* bound: whether requests may come before the daemon has started
    MaxVersion,   \* bound: changes of each root's topology
    MaxMoves,     \* bound: registrations and directories that come and go
    MaxFaults     \* bound: crashes, failed readings, refused and broken watches

ASSUME ReconciliationAssumption ==
    /\ Roots \subseteq Nat \ {0}
    /\ Early \in BOOLEAN
    /\ {MaxVersion, MaxMoves, MaxFaults} \subseteq Nat

Rebuild == 0                 \* the root `*` of a rebuild that failed

ASSUME RebuildIsNoRoot == Rebuild \notin Roots

Unread == -1

Failed == -2

VARIABLES
    tree,       \* each root's topology, as Git lists it
    listed,     \* the roots that are registered and on disk
    store,      \* the version the registry holds of each root
    known,      \* the roots whose linked worktree has a row
    claim,      \* its once-only event: "no", "claimed"
    ran,        \* how often the event's tasks were started
    up,         \* the daemon: "down", "starting", "started"
    snapshot,   \* #snapshot
    pending,    \* #watchRefreshPending
    backoff,    \* #failedWatchRebuilds > 0
    retry,      \* #watchRetry is armed
    watcher,    \* the roots #watcher has a live handle on
    pass,       \* the two passes: the daemon's start, and the batch that runs
    signals,    \* #roots of the queue
    error,      \* whether its kinds include `watch-error`
    timer,      \* whether its timer is armed
    broken,     \* #hasPendingError
    flushing,   \* whether a flush is under way
    req,        \* the requests
    owed,       \* the version the last signal of each root told of
    blind,      \* the roots whose watch broke and has not been re-established
    moves,
    faults

world  == <<tree, listed, moves>>
db     == <<store, known, claim, ran>>
watch  == <<pending, backoff, retry, watcher, blind>>
queue  == <<signals, error, timer>>
answer == <<broken, flushing, req>>
vars   == <<world, db, up, snapshot, watch, pass, queue, answer, owed, faults>>

Passes == {"start", "batch"}

NoPass == [step |-> "off", roots |-> {}, before |-> {}, got |-> [r \in Roots |-> Unread],
           todo |-> {}, changed |-> FALSE, at |-> Rebuild, opened |-> {}, lost |-> {}]

NoRequest == [step |-> "new", roots |-> {}, before |-> {}, asked |-> [r \in Roots |-> 0],
              stale |-> FALSE]

Init ==
    /\ tree = [r \in Roots |-> 0] /\ store = tree
    /\ listed = Roots
    /\ known = {} /\ claim = [r \in Roots |-> "no"] /\ ran = [r \in Roots |-> 0]
    /\ up = "down" /\ snapshot = {}
    /\ pending = FALSE /\ backoff = FALSE /\ retry = FALSE
    /\ watcher = {} /\ blind = {}
    /\ pass = [p \in Passes |-> NoPass]
    /\ signals = {} /\ error = FALSE /\ timer = FALSE
    /\ broken = FALSE /\ flushing = FALSE
    /\ req = [q \in Requests |-> NoRequest]
    /\ owed = [r \in Roots |-> 0]
    /\ moves = 0 /\ faults = 0

Linked(v) == v % 2 = 1

First(S) == CHOOSE r \in S : \A s \in S : r <= s

Running == pass["batch"].step # "off"

At(p, step) == pass[p].step = step

Set(p, record) == pass' = [pass EXCEPT ![p] = record]

-----------------------------------------------------------------------------
(* The queue. *)

(* Mutant: a signal that arrives while a batch runs is dropped. *)
ScheduleIfIdle(roots, isError) ==
    IF Running THEN UNCHANGED queue
    ELSE /\ signals' = signals \cup roots
         /\ error' = (error \/ isError)
         /\ timer' = (timer \/ roots # {})

(* schedule: while a batch runs, the signals wait for it to end. *)
Schedule(roots, isError) ==
    /\ signals' = signals \cup roots
    /\ error' = (error \/ isError)
    /\ timer' = (timer \/ (roots # {} /\ ~Running))

(* #drain: the signals so far become a batch, which first reads the registrations. *)
Drain ==
    /\ signals' = {} /\ error' = FALSE
    /\ pending' = (pending \/ error)
    /\ backoff' = (backoff \/ error)
    /\ Set("batch", [NoPass EXCEPT !.step = "load", !.roots = listed, !.before = snapshot])

TimerFires ==
    /\ timer
    /\ timer' = FALSE
    /\ IF ~Running /\ signals # {} THEN Drain ELSE UNCHANGED <<signals, error, pending, backoff, pass>>
    /\ UNCHANGED <<world, db, up, snapshot, retry, watcher, blind, answer, owed, faults>>

FlushDrains ==
    /\ flushing /\ ~Running /\ signals # {}
    /\ Drain
    /\ UNCHANGED <<world, db, up, snapshot, retry, watcher, blind, timer, answer, owed, faults>>

(* Mutant: a flush waits for the batch that runs, and not for the signals that waited for it. *)
FlushEndsEarly ==
    /\ flushing /\ ~Running
    /\ flushing' = FALSE /\ broken' = FALSE
    /\ req' = [q \in Requests |->
                IF req[q].step = "flush" THEN [req[q] EXCEPT !.step = IF broken THEN "error" ELSE "ok"]
                ELSE req[q]]
    /\ UNCHANGED <<world, db, up, snapshot, watch, pass, queue, owed, faults>>

(* The flush ends with the first error recorded since the last one did. *)
FlushEnds ==
    /\ flushing /\ ~Running /\ signals = {}
    /\ flushing' = FALSE /\ broken' = FALSE
    /\ req' = [q \in Requests |->
                IF req[q].step = "flush" THEN [req[q] EXCEPT !.step = IF broken THEN "error" ELSE "ok"]
                ELSE req[q]]
    /\ UNCHANGED <<world, db, up, snapshot, watch, pass, queue, owed, faults>>

(* The batch returns, or throws the first failure of its readings. *)
EndBatch ==
    /\ Set("batch", NoPass)
    /\ broken' = (broken \/ \E r \in pass["batch"].roots : pass["batch"].got[r] = Failed)

-----------------------------------------------------------------------------
(* A pass: registrations, readings, the registry, the events, the watches. *)

Assign ==
    LET batch == pass["batch"] IN
    /\ At("batch", "load")
    /\ snapshot' = batch.roots
    /\ pending' = (pending \/ batch.roots # batch.before)
    /\ Set("batch", [batch EXCEPT !.step = "read", !.todo = batch.roots])
    /\ owed' = [r \in Roots |-> IF r \in batch.roots THEN owed[r] ELSE 0]
    /\ UNCHANGED <<world, db, up, backoff, retry, watcher, blind, queue, answer, faults>>

(* The readings overlap; one that overran its bound is taken once more, by itself. *)
Read(p) ==
    /\ At(p, "read")
    /\ \E r \in pass[p].roots :
        /\ pass[p].got[r] = Unread
        /\ \/ /\ Set(p, [pass[p] EXCEPT !.got[r] = tree[r]])
              /\ UNCHANGED <<faults, owed>>
           \/ /\ faults < MaxFaults
              /\ faults' = faults + 1
              /\ Set(p, [pass[p] EXCEPT !.got[r] = Failed])
              /\ owed' = [owed EXCEPT ![r] = 0]              \* the failure is reported
    /\ UNCHANGED <<world, db, up, snapshot, watch, queue, answer>>

Discovers(r, v) == Linked(v) /\ r \notin known

Orphans(r, v) == ~Linked(v) /\ Linked(store[r])

(* reconcileWorktrees, in registration order, once every reading is in. *)
Apply(p) ==
    LET r == First(pass[p].todo)  v == pass[p].got[r] IN
    /\ At(p, "read")
    /\ pass[p].todo # {}
    /\ \A s \in pass[p].roots : pass[p].got[s] # Unread
    /\ IF v = Failed
       THEN /\ Set(p, [pass[p] EXCEPT !.todo = @ \ {r}])
            /\ UNCHANGED <<store, known>>
       ELSE /\ store' = [store EXCEPT ![r] = v]
            /\ known' = IF Linked(v) THEN known \cup {r} ELSE known
            /\ Set(p, [pass[p] EXCEPT !.todo = @ \ {r}, !.changed = @ \/ Discovers(r, v) \/ Orphans(r, v),
                                      !.at = r,
                                      !.step = IF Linked(v) /\ claim[r] = "no" THEN "announce" ELSE "read"])
    /\ UNCHANGED <<world, claim, ran, up, snapshot, watch, queue, answer, owed, faults>>

(* dispatch: the event is claimed before the work. *)
Claim(p) ==
    LET r == pass[p].at IN
    /\ At(p, "announce")
    /\ claim' = [claim EXCEPT ![r] = "claimed"]
    /\ Set(p, [pass[p] EXCEPT !.step = IF claim[r] = "no" THEN "dispatch" ELSE "read"])
    /\ UNCHANGED <<world, store, known, ran, up, snapshot, watch, queue, answer, owed, faults>>

(* Its tasks are started, or the claim is withdrawn because the event could not be dispatched. *)
Dispatch(p) ==
    LET r == pass[p].at IN
    /\ At(p, "dispatch")
    /\ \/ ran' = [ran EXCEPT ![r] = @ + 1] /\ UNCHANGED claim
       \/ claim' = [claim EXCEPT ![r] = "no"] /\ UNCHANGED ran
    /\ Set(p, [pass[p] EXCEPT !.step = "read"])
    /\ UNCHANGED <<world, store, known, up, snapshot, watch, queue, answer, owed, faults>>

(* The readings are applied: the watches are rebuilt when something says so, and at the start. *)
Applied(p) ==
    LET rebuild == p = "start" \/ pending \/ pass[p].changed IN
    /\ At(p, "read")
    /\ pass[p].todo = {}
    /\ IF rebuild
       THEN /\ Set(p, [pass[p] EXCEPT !.step = "watch", !.todo = snapshot])
            /\ pending' = (pending \/ p = "batch")
            /\ UNCHANGED <<broken, timer>>
       ELSE /\ EndBatch
            /\ timer' = (timer \/ signals # {})
            /\ UNCHANGED pending
    /\ UNCHANGED <<world, db, up, snapshot, backoff, retry, watcher, blind, signals, error, flushing, req, owed, faults>>

(* scheduleFromWatcher of a `watch-error`: the first retry is immediate, the next ones wait; a *)
(* failure long after the last counts as a first one. *)
WatchError ==
    IF retry THEN UNCHANGED <<backoff, retry, queue>>
    ELSE \E longAgo \in BOOLEAN :
        /\ backoff' = (backoff /\ ~longAgo)
        /\ retry' = backoff'
        /\ IF backoff' THEN UNCHANGED queue ELSE Schedule({Rebuild}, TRUE)

(* A handle on the next root of the replacement. *)
OpenNext(p) ==
    /\ At(p, "watch") /\ pass[p].todo # {}
    /\ Set(p, [pass[p] EXCEPT !.todo = @ \ {First(@)}, !.opened = @ \cup {First(pass[p].todo)}])
    /\ UNCHANGED <<world, db, up, snapshot, watch, queue, answer, owed, faults>>

(* Mutant: a replacement that is refused is left to whatever rebuilds the watches next. *)
RefusedSilently ==
    /\ At("batch", "watch") /\ pass["batch"].todo # {}
    /\ IF First(pass["batch"].todo) \in listed
       THEN faults < MaxFaults /\ faults' = faults + 1
       ELSE UNCHANGED faults
    /\ EndBatch
    /\ timer' = (timer \/ signals # {})
    /\ UNCHANGED <<world, db, up, snapshot, pending, backoff, retry, watcher, blind, signals, error, flushing, req, owed>>

(* The host refuses a handle, or the root has gone: the replacement is given up, and a batch *)
(* asks for another. *)
Refused ==
    /\ At("batch", "watch") /\ pass["batch"].todo # {}
    /\ IF First(pass["batch"].todo) \in listed
       THEN faults < MaxFaults /\ faults' = faults + 1
       ELSE UNCHANGED faults
    /\ EndBatch
    /\ IF retry THEN timer' = (timer \/ signals # {}) /\ UNCHANGED <<backoff, retry, signals, error>>
       ELSE \E longAgo \in BOOLEAN :
            /\ backoff' = (backoff /\ ~longAgo)
            /\ retry' = backoff'
            /\ signals' = IF backoff' THEN signals ELSE signals \cup {Rebuild}
            /\ error' = (error \/ ~backoff')
            /\ timer' = (timer \/ signals' # {})
    /\ UNCHANGED <<world, db, up, snapshot, pending, watcher, blind, flushing, req, owed>>

(* The replacement is complete: it takes over, and the previous watcher is closed. *)
Swap(p) ==
    LET live == pass[p].opened \ pass[p].lost IN
    /\ At(p, "watch") /\ pass[p].todo = {}
    /\ watcher' = live
    /\ blind' = (blind \ live) \cap pass[p].opened
    /\ IF p = "start"
       THEN /\ Set(p, NoPass)
            /\ up' = "started"
            /\ UNCHANGED <<pending, broken, timer>>
       ELSE /\ EndBatch
            /\ pending' = FALSE
            /\ timer' = (timer \/ signals # {})
            /\ UNCHANGED up
    /\ UNCHANGED <<world, db, snapshot, backoff, retry, signals, error, flushing, req, owed, faults>>

-----------------------------------------------------------------------------
(* The daemon's life. *)

(* #start: the registrations, then a pass of its own, with nothing of the queue in it. *)
Boot ==
    /\ up = "down"
    /\ up' = "starting"
    /\ snapshot' = listed
    /\ Set("start", [NoPass EXCEPT !.step = "read", !.roots = listed, !.todo = listed])
    /\ owed' = [r \in Roots |-> IF r \in listed THEN owed[r] ELSE 0]
    /\ UNCHANGED <<world, db, watch, queue, answer, faults>>

(* Nothing in memory survives, and whoever was waiting gets no answer. *)
Dies ==
    /\ up' = "down"
    /\ pass' = [p \in Passes |-> NoPass]
    /\ snapshot' = {}
    /\ pending' = FALSE /\ backoff' = FALSE /\ retry' = FALSE
    /\ watcher' = {} /\ blind' = {}
    /\ signals' = {} /\ error' = FALSE /\ timer' = FALSE
    /\ broken' = FALSE /\ flushing' = FALSE
    /\ req' = [q \in Requests |-> IF req[q].step \in {"load", "flush"}
                                  THEN [req[q] EXCEPT !.step = "error"] ELSE req[q]]
    /\ UNCHANGED <<world, db, owed>>

Crash ==
    /\ up # "down" /\ faults < MaxFaults
    /\ faults' = faults + 1
    /\ Dies

(* A daemon that cannot establish its first watches does not start. *)
StartRefused ==
    /\ At("start", "watch") /\ pass["start"].todo # {}
    /\ IF First(pass["start"].todo) \in listed
       THEN faults < MaxFaults /\ faults' = faults + 1
       ELSE UNCHANGED faults
    /\ Dies

-----------------------------------------------------------------------------
(* The request. *)

(* It brings a waiting retry forward, and reads the registrations. *)
Ask(q) ==
    /\ up = "started" \/ (Early /\ up = "starting")
    /\ req[q].step = "new"
    /\ req' = [req EXCEPT ![q] = [step |-> "load", roots |-> listed, before |-> snapshot, asked |-> tree,
                              stale |-> broken]]
    /\ retry' = FALSE
    /\ backoff' = (backoff /\ ~retry)
    /\ IF retry THEN Schedule({Rebuild}, TRUE) ELSE UNCHANGED queue
    /\ UNCHANGED <<world, db, up, snapshot, pending, watcher, blind, pass, broken, flushing, owed, faults>>

(* A signal for every workspace, and a flush, or a share in the one under way. *)
AskLoaded(q) ==
    /\ req[q].step = "load"
    /\ snapshot' = req[q].roots
    /\ pending' = (pending \/ req[q].roots # req[q].before)
    /\ signals' = signals \cup req[q].roots
    /\ timer' = (flushing /\ (timer \/ (req[q].roots # {} /\ ~Running)))
    /\ flushing' = TRUE
    /\ req' = [req EXCEPT ![q].step = "flush"]
    /\ UNCHANGED <<world, db, up, backoff, retry, watcher, blind, pass, error, broken, owed, faults>>

-----------------------------------------------------------------------------
(* What happens around it. *)

Change(r) ==
    /\ tree[r] < MaxVersion
    /\ tree' = [tree EXCEPT ![r] = @ + 1]
    /\ UNCHANGED <<listed, moves, db, up, snapshot, watch, pass, queue, answer, owed, faults>>

Move(r) ==
    /\ moves < MaxMoves
    /\ moves' = moves + 1
    /\ listed' = IF r \in listed THEN listed \ {r} ELSE listed \cup {r}
    /\ UNCHANGED <<tree, db, up, snapshot, watch, pass, queue, answer, owed, faults>>

Handles == watcher \cup UNION {pass[p].opened \ pass[p].lost : p \in Passes}

(* A handle reports a change.  It may as well not: nothing here makes it happen. *)
Signal(r) ==
    /\ r \in Handles
    /\ tree[r] > owed[r]
    /\ owed' = [owed EXCEPT ![r] = tree[r]]
    /\ Schedule({r}, FALSE)
    /\ UNCHANGED <<world, db, up, snapshot, watch, pass, answer, faults>>

WatchDies(r) ==
    /\ r \in Handles
    /\ faults < MaxFaults
    /\ faults' = faults + 1
    /\ watcher' = watcher \ {r}
    /\ pass' = [p \in Passes |-> IF r \in watcher THEN pass[p] ELSE [pass[p] EXCEPT !.lost = @ \cup {r}]]
    /\ blind' = blind \cup {r}
    /\ WatchError
    /\ UNCHANGED <<world, db, up, snapshot, pending, answer, owed>>

RetryFires ==
    /\ retry
    /\ retry' = FALSE
    /\ Schedule({Rebuild}, TRUE)
    /\ UNCHANGED <<world, db, up, snapshot, pending, backoff, watcher, blind, pass, answer, owed, faults>>

-----------------------------------------------------------------------------
(* What the daemon does by itself, sooner or later. *)
Progress ==
    \/ Boot
    \/ TimerFires
    \/ FlushDrains
    \/ FlushEnds
    \/ RetryFires
    \/ Assign
    \/ \E p \in Passes : Read(p)
    \/ \E p \in Passes : Apply(p)
    \/ \E p \in Passes : Claim(p)
    \/ \E p \in Passes : Dispatch(p)
    \/ \E p \in Passes : Applied(p)
    \/ \E p \in Passes : OpenNext(p)
    \/ Refused
    \/ StartRefused
    \/ \E p \in Passes : Swap(p)
    \/ \E q \in Requests : AskLoaded(q)

Next ==
    \/ Boot
    \/ TimerFires
    \/ FlushDrains
    \/ FlushEnds
    \/ RetryFires
    \/ Assign
    \/ \E p \in Passes : Read(p)
    \/ \E p \in Passes : Apply(p)
    \/ \E p \in Passes : Claim(p)
    \/ \E p \in Passes : Dispatch(p)
    \/ \E p \in Passes : Applied(p)
    \/ \E p \in Passes : OpenNext(p)
    \/ Refused
    \/ StartRefused
    \/ \E p \in Passes : Swap(p)
    \/ \E q \in Requests : AskLoaded(q)
    \/ \E q \in Requests : Ask(q)
    \/ \E r \in Roots : Change(r)
    \/ \E r \in Roots : Move(r)
    \/ \E r \in Roots : Signal(r)
    \/ \E r \in Roots : WatchDies(r)
    \/ Crash

Spec == Init /\ [][Next]_vars

FairSpec == Spec /\ WF_vars(Progress)

-----------------------------------------------------------------------------
TypeOK ==
    /\ store \in [Roots -> 0..MaxVersion]
    /\ signals \subseteq Roots \cup {Rebuild}
    /\ \A p \in Passes : pass[p].step \in {"off", "load", "read", "announce", "dispatch", "watch"}
    /\ pass["start"].step # "off" => up = "starting"

(* Whatever a signal told of is in the registry in the end, or its reading failed and was reported. *)
NoSignalIsLost == \A r \in Roots : (owed[r] > store[r]) ~> (owed[r] <= store[r])

(* A request that was answered has in the registry what Git had when it was made: create.ts relies *)
(* on it to know that the new worktree is registered. *)
AnsweredIsFresh ==
    [][\A q \in Requests : req[q].step = "flush" /\ req'[q].step = "ok" =>
        \A r \in req[q].roots \cap snapshot : store[r] >= req[q].asked[r]]_vars

(* ... and is under a watch, or a retry of the watch is on its way. *)
AnsweredIsWatched ==
    [][\A q \in Requests : req[q].step = "flush" /\ req'[q].step = "ok" =>
        req[q].roots \cap snapshot \subseteq watcher \/ retry \/ pending]_vars

(* A request is not told of an error that was recorded before it was made. *)
FailureIsOwn ==
    [][\A q \in Requests : req[q].step = "flush" /\ req'[q].step = "error" /\ up' = up => ~req[q].stale]_vars

(* A watch that broke is established again. *)
WatchComesBack == \A r \in Roots : (r \in blind) ~> (r \notin blind)

(* A newer reading is never replaced by an older one. *)
NeverBackwards == [][\A r \in Roots : store'[r] >= store[r]]_vars

(* The tasks of a once-only event are started at most once, whatever crashes or runs beside it. *)
OnceOnly == \A r \in Roots : ran[r] <= 1

=============================================================================

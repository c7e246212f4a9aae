--------------------------- MODULE OperationLease ---------------------------
(***************************************************************************)
(* The repository-operation lease: cross-process exclusion of `wtm remove`,*)
(* `wtm gc` and `wtm create` on one repository.                            *)
(*                                                                         *)
(* The store (sqlite-store.ts) keeps the rows and decides inside BEGIN     *)
(* IMMEDIATE; the policy (operation-lease.ts) lists the rows, asks the     *)
(* operating system whether the owner of each expired row still lives, and *)
(* hands those verdicts to the transaction.  Time passes, owners die, PIDs *)
(* are recycled and rows change between the two.                           *)
(*                                                                         *)
(* A member of Procs is one run of `wtm`: an OS process with a PID on a    *)
(* host, whose start time is its own.  It opens one session, so its        *)
(* lease token is modelled by the process itself.                          *)
(***************************************************************************)
EXTENDS Integers, FiniteSets

CONSTANTS
    Procs,            \* runs of `wtm`
    Repos,            \* repositories on disk, numbered in id order
    RootOrder,        \* RootOrder[r]: r's place by main_root, the order `gc` goes by
    Pid, Host,        \* Pid[p], Host[p]: what the kernel gave run p
    TTL,              \* lease lifetime in clock units
    MaxClock,         \* bound: the clock stops here
    MaxRegistrations, \* bound: registrations of one repository
    MaxStage          \* bound: stages a removal journals

ASSUME ReposAssumption == Repos \subseteq Int /\ RootOrder \in [Repos -> Int]
ASSUME BoundsAssumption ==
    TTL \in Nat \ {0} /\ MaxClock \in Nat /\ MaxRegistrations \in Nat /\ MaxStage \in Nat

VARIABLES
    clock,        \* wall clock all hosts read
    leases,       \* table repository_operation_leases
    registration, \* registration[r]: id of r's latest row in table repositories
    registered,   \* registered[r]: that row still exists
    heavyJobs,    \* heavyJobs[r]: r has a queued or slot-holding heavy job
    phase,        \* phase[p]: where run p is
    session       \* session[p]: the local variables of p's session

vars == <<clock, leases, registration, registered, heavyJobs, phase, session>>

\* RepositoryOperation; 'repair' is declared there and requested by no caller.
Operations == {"remove", "gc", "create"}

Phases == {"unborn", "list", "measure", "body", "unwind", "dead"}

Verdicts == {"alive", "unknown", "gone"}

\* One row.  owner stands for (token, pid, process_start_time, host_id).
Rows == [repo : Repos, reg : Nat, op : Operations, owner : Procs,
         acquired : Nat, expires : Nat, stage : Nat]

Sessions == [op : Operations, adopt : BOOLEAN,
             want : SUBSET Repos,         \* repositories to lease, ascending
             ids : [Repos -> Nat],        \* their registration ids, read up front
             held : SUBSET Repos,         \* leases granted to this session so far
             now : Nat,                   \* timestamp of the current attempt
             observed : SUBSET Rows,      \* expired rows still to be measured
             measured : SUBSET (Rows \X Verdicts),
             attempt : Nat,
             stage : Nat]                 \* stages this session journalled

NoSession == [op |-> "gc", adopt |-> FALSE, want |-> {}, ids |-> [r \in Repos |-> 0],
              held |-> {}, now |-> 0, observed |-> {}, measured |-> {},
              attempt |-> 0, stage |-> 0]

maxAcquisitionAttempts == 2

Live(p) == phase[p] \notin {"unborn", "dead"}

\* `create` sorts its repositories by id, `gc` leases them as they are listed, by path.
Rank(p, r) == IF session[p].op = "gc" THEN RootOrder[r] ELSE r

\* The repository whose turn it is: leases nest in that order.
IsTarget(p, r) == /\ r \in session[p].want \ session[p].held
                  /\ \A s \in session[p].want \ session[p].held : Rank(p, r) <= Rank(p, s)

\* The lease taken last, which is given back first.
IsInnermost(p, r) == /\ r \in session[p].held
                     /\ \A s \in session[p].held : Rank(p, s) <= Rank(p, r)

RowsOf(p, r) == {row \in leases : row.repo = r /\ row.reg = session[p].ids[r]}

IsOwnRow(row, p, r) == /\ row.repo = r
                       /\ row.reg = session[p].ids[r]
                       /\ row.op = session[p].op
                       /\ row.owner = p

Expired(row, now) == row.expires <= now

-----------------------------------------------------------------------------
Init ==
    /\ clock = 0
    /\ leases = {}
    /\ registration = [r \in Repos |-> 1]
    /\ registered = [r \in Repos |-> TRUE]
    /\ heavyJobs = [r \in Repos |-> FALSE]
    /\ phase = [p \in Procs |-> "unborn"]
    /\ session = [p \in Procs |-> NoSession]

\* The kernel starts a run of wtm: `remove` over one repository, `gc` and `create` over
\* several; `gc` has no resume flag and never adopts.
Start(p) ==
    /\ phase[p] = "unborn"
    /\ \A q \in Procs : Live(q) => <<Pid[q], Host[q]>> # <<Pid[p], Host[p]>>
    /\ \E op \in Operations, adopt \in BOOLEAN, want \in SUBSET Repos :
         /\ want # {} /\ \A r \in want : registered[r]
         /\ op = "gc" => ~adopt
         /\ op = "remove" => \E r \in want : want = {r}
         /\ session' = [session EXCEPT ![p] = [NoSession EXCEPT
                           !.op = op, !.adopt = adopt, !.want = want, !.ids = registration]]
    /\ phase' = [phase EXCEPT ![p] = "list"]
    /\ UNCHANGED <<clock, leases, registration, registered, heavyJobs>>

\* First half of an attempt: read the clock and the rows; only expired ones get measured.
List(p) ==
    /\ phase[p] = "list"
    /\ \E r \in Repos :
         /\ IsTarget(p, r)
         /\ session' = [session EXCEPT
                          ![p].now = clock,
                          ![p].observed = {row \in RowsOf(p, r) : Expired(row, clock)},
                          ![p].measured = {}]
    /\ phase' = [phase EXCEPT ![p] = "measure"]
    /\ UNCHANGED <<clock, leases, registration, registered, heavyJobs>>

\* A fault: ask the local kernel about a holder of any host.
LivenessOf_AnyHost(p, owner) ==
    IF \E q \in Procs : /\ Live(q) /\ q = owner /\ Host[q] = Host[p] THEN "alive" ELSE "gone"

\* The PID of a holder on this host is looked up; whoever has it now answers with a
\* start time, and only the holder itself answers with the recorded one.
LivenessOf(p, owner) ==
    IF Host[owner] # Host[p] THEN "unknown"
    ELSE IF \E q \in Procs : Live(q) /\ Pid[q] = Pid[owner] /\ Host[q] = Host[p] /\ q = owner
         THEN "alive" ELSE "gone"

\* livenessOf awaits the operating system once per expired row.
Measure(p) ==
    /\ phase[p] = "measure"
    /\ \E row \in session[p].observed :
         session' = [session EXCEPT
                       ![p].observed = @ \ {row},
                       ![p].measured = @ \cup {<<row, LivenessOf(p, row.owner)>>}]
    /\ UNCHANGED <<clock, leases, registration, registered, heavyJobs, phase>>

\* The locals of one attempt go out of scope.
EndAttempt(p) == [session[p] EXCEPT !.now = 0, !.observed = {}, !.measured = {}]

\* A reader that cannot answer, about the run itself or about an owner, rejects, and the
\* whole acquisition with it.
MeasureFails(p) ==
    /\ \/ phase[p] = "list" /\ session[p].attempt = 0
       \/ phase[p] = "measure" /\ session[p].observed # {}
    /\ session' = [session EXCEPT ![p] = EndAttempt(p)]
    /\ phase' = [phase EXCEPT ![p] = "unwind"]
    /\ UNCHANGED <<clock, leases, registration, registered, heavyJobs>>

-----------------------------------------------------------------------------
\* The acquisition transaction.

IsSameHolder(m, row) == m.op = row.op /\ m.owner = row.owner /\ m.acquired = row.acquired

\* ownerLiveness: the verdict measured from this very holder, if there is one.
MeasuredGone(p, row) ==
    \E m \in session[p].measured : IsSameHolder(m[1], row) /\ m[2] = "gone"

Unmeasured(p, row) == ~ \E m \in session[p].measured : IsSameHolder(m[1], row)

\* A fault: a lapsed TTL is taken as evidence that the holder is gone.
Reclaimable_LapsedIsGone(p, row) == Expired(row, session[p].now)

Reclaimable(p, row) == Expired(row, session[p].now) /\ MeasuredGone(p, row)

\* Rows are read oldest first; the first one that cannot be reclaimed decides.
FirstBlocking(p, r) ==
    LET blocking == {row \in RowsOf(p, r) : ~Reclaimable(p, row)}
    IN  CHOOSE row \in blocking : \A other \in blocking : row.acquired <= other.acquired

Blocked(p, r) == \E row \in RowsOf(p, r) : ~Reclaimable(p, row)

Raced(p, r) == LET row == FirstBlocking(p, r)
               IN  Expired(row, session[p].now) /\ Unmeasured(p, row)

\* A fault: the guard exempts garbage collection as well as creation.
HeavyJobGuard_ExemptsGc(p, r) ==
    session[p].op = "remove" /\ heavyJobs[r] /\ registration[r] = session[p].ids[r]

\* assertNoHeavyJobs, which `create` skips.
HeavyJobGuard(p, r) ==
    session[p].op # "create" /\ heavyJobs[r] /\ registration[r] = session[p].ids[r]

\* The row references table repositories: a forgotten registration cannot be leased.
Registered(p, r) == registered[r] /\ registration[r] = session[p].ids[r]

\* A fault: any reclaimed row hands its stage on.
InheritedStage_AnyOperation(p, r) ==
    IF \E row \in RowsOf(p, r) : TRUE
    THEN (CHOOSE row \in RowsOf(p, r) : TRUE).stage ELSE 0

\* The journal of a dead holder goes to its own operation only.
InheritedStage(p, r) ==
    IF \E row \in RowsOf(p, r) : row.op = session[p].op
    THEN (CHOOSE row \in RowsOf(p, r) : row.op = session[p].op).stage ELSE 0

NewRow(p, r) ==
    [repo |-> r, reg |-> session[p].ids[r], op |-> session[p].op, owner |-> p,
     acquired |-> session[p].now, expires |-> session[p].now + TTL,
     stage |-> InheritedStage(p, r)]

Transacting(p, r) == phase[p] = "measure" /\ session[p].observed = {} /\ IsTarget(p, r)

\* Granted: every dead row goes and this session's row is inserted.
AcquireGranted(p, r) ==
    /\ Transacting(p, r)
    /\ ~HeavyJobGuard(p, r)
    /\ ~Blocked(p, r)
    /\ RowsOf(p, r) # {} => session[p].adopt
    /\ Registered(p, r)
    /\ leases' = (leases \ RowsOf(p, r)) \cup {NewRow(p, r)}
    /\ session' = [session EXCEPT ![p] = [EndAttempt(p) EXCEPT !.held = @ \cup {r},
                                                              !.attempt = 0]]
    /\ phase' = [phase EXCEPT ![p] =
                   IF session[p].want = session[p].held \cup {r} THEN "body" ELSE "list"]
    /\ UNCHANGED <<clock, registration, registered, heavyJobs>>

\* One retry, and only when the row was not the one that had been measured.
MayRetry(p, r) == Raced(p, r) /\ session[p].attempt + 1 < maxAcquisitionAttempts

\* A fault: a refused acquisition polls until the holder is gone.
AcquireRetry_Polls(p, r) ==
    /\ Transacting(p, r)
    /\ ~HeavyJobGuard(p, r)
    /\ Blocked(p, r)
    /\ session' = [session EXCEPT ![p] = EndAttempt(p)]
    /\ phase' = [phase EXCEPT ![p] = "list"]
    /\ UNCHANGED <<clock, leases, registration, registered, heavyJobs>>

\* Refused once, but the row had changed under the measurement: measure again.
AcquireRetry(p, r) ==
    /\ Transacting(p, r)
    /\ ~HeavyJobGuard(p, r)
    /\ Blocked(p, r)
    /\ MayRetry(p, r)
    /\ session' = [session EXCEPT ![p] = [EndAttempt(p) EXCEPT !.attempt = @ + 1]]
    /\ phase' = [phase EXCEPT ![p] = "list"]
    /\ UNCHANGED <<clock, leases, registration, registered, heavyJobs>>

\* Refused for good: a heavy job, a holder that may live, a dead one nobody asked to
\* resume, or a registration that is gone.
AcquireRefused(p, r) ==
    /\ Transacting(p, r)
    /\ \/ HeavyJobGuard(p, r)
       \/ Blocked(p, r) /\ ~MayRetry(p, r)
       \/ ~Blocked(p, r) /\ RowsOf(p, r) # {} /\ ~session[p].adopt
       \/ ~Registered(p, r)
    /\ session' = [session EXCEPT ![p] = EndAttempt(p)]
    /\ phase' = [phase EXCEPT ![p] = "unwind"]
    /\ UNCHANGED <<clock, leases, registration, registered, heavyJobs>>

-----------------------------------------------------------------------------
\* The body under the lease.

HasRow(p, r) == \E row \in leases : IsOwnRow(row, p, r)

\* A removal journals a stage through its row; a missing row throws.
Advance(p) ==
    /\ phase[p] = "body" /\ session[p].op = "remove" /\ session[p].stage < MaxStage
    /\ \E r \in session[p].held :
         IF HasRow(p, r)
         THEN /\ leases' = {IF IsOwnRow(row, p, r)
                            THEN [row EXCEPT !.stage = session[p].stage + 1] ELSE row
                              : row \in leases}
              /\ session' = [session EXCEPT ![p].stage = @ + 1]
              /\ UNCHANGED phase
         ELSE /\ phase' = [phase EXCEPT ![p] = "unwind"]
              /\ UNCHANGED <<leases, session>>
    /\ UNCHANGED <<clock, registration, registered, heavyJobs>>

\* renewAll extends each row it still owns, in order, and throws at the first it does not.
RenewAll(p) ==
    LET renewed == {r \in session[p].held : \A s \in session[p].held : s <= r => HasRow(p, s)}
    IN  /\ phase[p] = "body" /\ session[p].op = "create"
        /\ leases' = {IF \E r \in renewed : IsOwnRow(row, p, r)
                      THEN [row EXCEPT !.expires = clock + TTL] ELSE row : row \in leases}
        /\ phase' = IF renewed = session[p].held THEN phase
                    ELSE [phase EXCEPT ![p] = "unwind"]
        /\ UNCHANGED <<clock, registration, registered, heavyJobs, session>>

\* body returns or throws: the finally blocks run next.
Finish(p) ==
    /\ phase[p] = "body"
    /\ phase' = [phase EXCEPT ![p] = "unwind"]
    /\ UNCHANGED <<clock, leases, registration, registered, heavyJobs, session>>

\* A fault: only the outermost lease is given back.
Release_OutermostOnly(p) ==
    /\ phase[p] = "unwind"
    /\ \E r \in session[p].held :
         /\ IsInnermost(p, r)
         /\ leases' = {row \in leases : ~(IsOwnRow(row, p, r) /\ session[p].held = {r})}
         /\ session' = [session EXCEPT ![p].held = @ \ {r}]
    /\ UNCHANGED <<clock, registration, registered, heavyJobs, phase>>

\* Each finally block deletes its row by token, innermost lease first.
Release(p) ==
    /\ phase[p] = "unwind"
    /\ \E r \in session[p].held :
         /\ IsInnermost(p, r)
         /\ leases' = {row \in leases : ~IsOwnRow(row, p, r)}
         /\ session' = [session EXCEPT ![p].held = @ \ {r}]
    /\ UNCHANGED <<clock, registration, registered, heavyJobs, phase>>

Exit(p) ==
    /\ phase[p] = "unwind" /\ session[p].held = {}
    /\ phase' = [phase EXCEPT ![p] = "dead"]
    /\ session' = [session EXCEPT ![p] = NoSession]
    /\ UNCHANGED <<clock, leases, registration, registered, heavyJobs>>

Crash(p) ==
    /\ Live(p)
    /\ phase' = [phase EXCEPT ![p] = "dead"]
    /\ session' = [session EXCEPT ![p] = NoSession]
    /\ UNCHANGED <<clock, leases, registration, registered, heavyJobs>>

-----------------------------------------------------------------------------
\* The rest of the system, as far as the lease table sees it.

Tick ==
    /\ clock < MaxClock
    /\ clock' = clock + 1
    /\ UNCHANGED <<leases, registration, registered, heavyJobs, phase, session>>

LiveLease(r) == \E row \in leases : row.repo = r /\ ~Expired(row, clock)

\* `wtm forget` deletes the registration and its lease rows; it refuses on a heavy job
\* and on an unexpired row, and asks nobody whether the owner of an expired one lives.
Forget(r) ==
    /\ registered[r] /\ ~heavyJobs[r] /\ ~LiveLease(r)
    /\ leases' = {row \in leases : row.repo # r}
    /\ registered' = [registered EXCEPT ![r] = FALSE]
    /\ UNCHANGED <<clock, registration, heavyJobs, phase, session>>

\* `wtm init` registers the repository again, under a fresh id.
Register(r) ==
    /\ ~registered[r] /\ registration[r] < MaxRegistrations
    /\ registration' = [registration EXCEPT ![r] = @ + 1]
    /\ registered' = [registered EXCEPT ![r] = TRUE]
    /\ UNCHANGED <<clock, leases, heavyJobs, phase, session>>

\* assertRegistered: any lease row at all keeps a heavy job out.
JobAdmissible(r) == registered[r] /\ ~ \E row \in leases : row.repo = r

EnqueueHeavyJob(r) ==
    /\ ~heavyJobs[r] /\ JobAdmissible(r)
    /\ heavyJobs' = [heavyJobs EXCEPT ![r] = TRUE]
    /\ UNCHANGED <<clock, leases, registration, registered, phase, session>>

HeavyJobsDrained(r) ==
    /\ heavyJobs[r]
    /\ heavyJobs' = [heavyJobs EXCEPT ![r] = FALSE]
    /\ UNCHANGED <<clock, leases, registration, registered, phase, session>>

\* What a run does by itself once it has started: its code, without crashes.
Step(p) ==
    \/ List(p) \/ Measure(p) \/ MeasureFails(p)
    \/ \E r \in Repos : AcquireGranted(p, r) \/ AcquireRetry(p, r) \/ AcquireRefused(p, r)
    \/ Release(p) \/ Exit(p)

Next ==
    \/ \E p \in Procs : \/ Start(p) \/ Step(p) \/ Crash(p)
                        \/ Advance(p) \/ RenewAll(p) \/ Finish(p)
    \/ Tick
    \/ \E r \in Repos : \/ Forget(r) \/ Register(r)
                        \/ EnqueueHeavyJob(r) \/ HeavyJobsDrained(r)

Spec == Init /\ [][Next]_vars

\* Node runs a started promise chain on: each run keeps taking its own steps.
FairSpec == Spec /\ \A p \in Procs : WF_vars(Step(p))

-----------------------------------------------------------------------------
\* Every row, session and clock value keeps its shape (table repository_operation_leases,
\* RepositoryOperationLease).
TypeOK ==
    /\ clock \in Nat
    /\ leases \subseteq Rows
    /\ registration \in [Repos -> Nat]
    /\ registered \in [Repos -> BOOLEAN]
    /\ heavyJobs \in [Repos -> BOOLEAN]
    /\ phase \in [Procs -> Phases]
    /\ session \in [Procs -> Sessions]

\* Run p is inside repository r: it was granted r's lease under registration id and is alive.
Inside(p, r, id) == Live(p) /\ r \in session[p].held /\ session[p].ids[r] = id

\* At most one live run at a time is inside one registered repository, whatever
\* expires, crashes, is recycled or is measured late (acquireRepositoryOperationLease,
\* withRepositoryOperationLease).
MutualExclusion ==
    \A p, q \in Procs, r \in Repos :
        Inside(p, r, session[p].ids[r]) /\ Inside(q, r, session[p].ids[r]) => p = q

\* A heavy job never shares its repository with a live removal or collection: each
\* side's transaction sees the other's rows (assertNoHeavyJobs, assertRegistered).
JobsExcludeDestruction ==
    \A r \in Repos, p \in Procs :
        heavyJobs[r] /\ Inside(p, r, registration[r]) => session[p].op = "create"

\* The journal of a live run's row is the run's own: the last stage it recorded itself,
\* or, before its first, nothing that another operation wrote.
JournalIsOwn ==
    \A row \in leases :
        /\ row.op # "remove" => row.stage = 0
        /\ Live(row.owner) /\ session[row.owner].stage > 0
              => row.stage = session[row.owner].stage

-----------------------------------------------------------------------------
\* Why the lease excludes.  A row belongs to the current registration:
RowsAreCurrent ==
    \A row \in leases : registered[row.repo] /\ row.reg = registration[row.repo]

\* it names a run that was started and, while that run lives, still means to delete it;
RowsAreOwned ==
    \A row \in leases :
        /\ phase[row.owner] # "unborn"
        /\ Live(row.owner) => /\ row.op = session[row.owner].op
                             /\ row.reg = session[row.owner].ids[row.repo]
                             /\ row.repo \in session[row.owner].held

\* a verdict "gone" is for ever, however late it is used: it was measured from a row
\* whose owner had been started;
GoneIsDead ==
    \A p \in Procs :
        /\ \A row \in session[p].observed : phase[row.owner] # "unborn"
        /\ \A m \in session[p].measured : m[2] = "gone" => phase[m[1].owner] = "dead"

\* registration ids are never used again;
IdsArePast == \A p \in Procs, r \in Repos : session[p].ids[r] <= registration[r]

\* and who is inside the current registration has its row to show for it.
HoldersHaveRows ==
    \A p \in Procs, r \in Repos :
        Inside(p, r, registration[r]) /\ registered[r] => HasRow(p, r)

\* The inductive invariant: these five together carry the exclusion of runs and jobs.
LeaseInv ==
    /\ TypeOK
    /\ RowsAreCurrent
    /\ RowsAreOwned
    /\ GoneIsDead
    /\ IdsArePast
    /\ HoldersHaveRows
    /\ MutualExclusion
    /\ JobsExcludeDestruction

\* A colliding operation is refused, never kept waiting: an acquisition always ends.
NeverWaits ==
    \A p \in Procs : phase[p] \in {"list", "measure"} ~> phase[p] \in {"body", "unwind", "dead"}

\* What a live run has in the table is what its finally blocks will delete: a refusal
\* part-way through several repositories, or a throw, leaves no row behind.
NothingLeftBehind ==
    \A row \in leases : Live(row.owner) => row.repo \in session[row.owner].held

\* The lease table implements the abstract mutex: a row is a hold, whatever its expiry.
Holders(r) == {row.owner : row \in {l \in leases : l.repo = r}}
Ended == {p \in Procs : phase[p] = "dead"}

Mutex == INSTANCE RepositoryMutex WITH
    holder <- [r \in Repos |-> Holders(r)],
    gone <- Ended

MutexSpec == Mutex!Spec

\* operation-lease.ts: "A lapsed TTL never evicts a live holder".
LiveHolderKeepsRow ==
    \A p \in Procs, r \in Repos :
        phase[p] = "body" /\ r \in session[p].held => HasRow(p, r)
=============================================================================

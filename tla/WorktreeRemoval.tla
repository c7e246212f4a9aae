--------------------------- MODULE WorktreeRemoval ---------------------------
(***************************************************************************)
(* `wtm remove`: the stages that take a worktree apart, against everything *)
(* that runs beside them: the user at work in the directory, the daemon    *)
(* starting tasks and reconciling with Git's own list, a removal of a      *)
(* sibling worktree, and the death of the removing process.                *)
(*                                                                         *)
(* Worktrees are the members of one feature: one branch, checked out in    *)
(* several repositories, sharing one endpoint lease.  Git checks a branch  *)
(* out once per repository, so each has a repository, and with it an       *)
(* operation lease, of its own.  They are numbered in path order.          *)
(***************************************************************************)
EXTENDS Integers, FiniteSets

CONSTANTS
    Worktrees,  \* the feature's worktrees, numbered in path order
    Ports,      \* the configured range
    Written,    \* the kinds of blockers that come up
    MaxEvents   \* bound: commands, user writes, crashes, failures and disappearances

ASSUME WorktreesAssumption == Worktrees \subseteq Nat \ {0} /\ IsFiniteSet(Worktrees)
ASSUME PortsAssumption == Ports \subseteq Nat \ {0}
ASSUME WrittenAssumption == Written \subseteq {"tracked", "untracked", "ignored", "commit", "locked"}
ASSUME MaxEventsAssumption == MaxEvents \in Nat

VARIABLES
    git,       \* git[w]: what `git worktree list` says of w
    work,      \* work[w]: what of the user's stands against a removal
    resource,  \* resource[w]: w holds content WTM materialised and may collect
    head,      \* head[w]: the commit w is on
    row,       \* row[w]: worktrees.state
    settings,  \* settings[w]: w has CI watches, task overrides and a checklist
    lease,     \* lease[w]: the operation lease of w's repository
    endpoint,  \* endpoint[w]: w's row in endpoint_leases
    start,     \* start[w]: the daemon's start of w's task, and what became of it
    run,       \* run[w]: the locals of a running removal
    listed,    \* listed[w]: the daemon's reading of Git's list, not yet applied
    lost,      \* history: lost[w]: what a removal deleted of the user's
    deserted,  \* history: deserted[w]: deleted by a removal whose lease met no start
    events     \* how many outside events there have been

user == <<work, resource, head>>
store == <<row, settings, endpoint>>
history == <<lost, deserted>>
vars == <<git, user, store, lease, start, run, listed, history, events>>

None == 0

\* Blockers of buildSafety: staged, unstaged or unmerged paths; untracked; ignored; a HEAD
\* no remote has; a lock.
Blockers == {"tracked", "untracked", "ignored", "commit", "locked"}

\* What `git worktree remove` refuses by itself, without --force.
GitVetoes == {"tracked", "untracked", "locked"}

Stages == {"idle", "analyze", "stop-processes", "verify-processes", "cleanup-resources",
           "reanalyze", "release-endpoints", "find-sibling", "reassign", "release",
           "git-remove", "reconcile", "apply"}

\* Past the analysis that gates the deletion.
PastGate == {"release-endpoints", "find-sibling", "reassign", "release", "git-remove"}

\* 'resolving' to 'prepared' are awaits of resolveTask, 'reserved' the start reservation,
\* the rest the state of the managed process record; 'owed' is cleanup_required.
StartStates == {"none", "resolving", "grouped", "resolved", "prepared", "reserved",
                "STARTING", "RUNNING", "owed"}

\* late and early are history: what was written since the final analysis, and whether the
\* lease was taken when a start had already been reserved.
Idle == [stage |-> "idle", head |-> 0, sibling |-> None, snapshot |-> "none",
         late |-> {}, early |-> FALSE]

NoStart == [pc |-> "none", alive |-> FALSE, group |-> {}, owner |-> None, port |-> None]

NoEndpoint == [state |-> "none", port |-> None]

Event == events < MaxEvents /\ events' = events + 1

\* deadWorktreeStates and cleanupOwnedStates; REMOVED and DEGRADED_CLEANUP are never written.
Dead(w) == row[w] \in {"ORPHANED", "CLEANING"}

First(S) == CHOOSE w \in S : \A v \in S : w <= v

LiveMembers == {w \in Worktrees : ~Dead(w)}

\* featureGroup: the live members, and the asking worktree whatever its state.
FeatureGroup(w) == LiveMembers \cup {w}

\* leaseOwner: the first live member.
LeaseOwner(w) == IF LiveMembers = {} THEN w ELSE First(LiveMembers)

\* The first live member other than w, if there is one.
Sibling(w) == IF LiveMembers \ {w} = {} THEN None ELSE First(LiveMembers \ {w})

Active(w) == endpoint[w].state = "ACTIVE"

-----------------------------------------------------------------------------
Init ==
    /\ git = [w \in Worktrees |-> "there"]
    /\ work = [w \in Worktrees |-> {}]
    /\ resource = [w \in Worktrees |-> FALSE]
    /\ head = [w \in Worktrees |-> 0]
    /\ row = [w \in Worktrees |-> "DISCOVERED"]
    /\ settings = [w \in Worktrees |-> TRUE]
    /\ lease = [w \in Worktrees |-> "none"]
    /\ endpoint = [w \in Worktrees |-> NoEndpoint]
    /\ start = [w \in Worktrees |-> NoStart]
    /\ run = [w \in Worktrees |-> Idle]
    /\ listed = [w \in Worktrees |-> "none"]
    /\ lost = [w \in Worktrees |-> {}]
    /\ deserted = [w \in Worktrees |-> FALSE]
    /\ events = 0

-----------------------------------------------------------------------------
\* Endpoint leases.

\* reassignActiveLeases: the row moves, unless the target has an active one of that name.
Reassigned(rows, from, to) ==
    IF rows[from].state = "ACTIVE" /\ rows[to].state # "ACTIVE"
    THEN [rows EXCEPT ![to] = rows[from], ![from] = NoEndpoint]
    ELSE rows

\* releaseEndpointLeasesForWorktree.
Released(rows, w) ==
    IF rows[w].state = "ACTIVE" THEN [rows EXCEPT ![w].state = "RELEASED"] ELSE rows

\* #releaseOrHandOverLeases, inside one transaction.
HandedOver(w) ==
    Released(IF Sibling(w) = None THEN endpoint ELSE Reassigned(endpoint, w, Sibling(w)), w)

\* A fault: leases are released by the pass that first misses the worktree, not by later ones.
Reconcile_OnTransition(w, snapshot) ==
    /\ row' = [row EXCEPT ![w] =
                 CASE snapshot = "there" /\ @ = "ORPHANED" -> "DISCOVERED"
                   [] snapshot = "prunable" /\ ~Dead(w) -> "ORPHANED"
                   [] snapshot = "gone" -> "ORPHANED"
                   [] OTHER -> @]
    /\ endpoint' = IF snapshot # "there" /\ ~Dead(w) THEN HandedOver(w) ELSE endpoint

\* reconcileWorktrees for one worktree, from a reading of Git's list made earlier.  Absence
\* settles a row as ORPHANED and gives up its leases on every pass; a row in CLEANING
\* keeps them on the pass that closes it, and stays CLEANING while Git lists it.
Reconcile(w, snapshot) ==
    /\ row' = [row EXCEPT ![w] =
                 CASE snapshot = "there" /\ @ = "ORPHANED" -> "DISCOVERED"
                   [] snapshot = "prunable" /\ ~Dead(w) -> "ORPHANED"
                   [] snapshot = "gone" -> "ORPHANED"
                   [] OTHER -> @]
    /\ endpoint' = IF \/ snapshot = "prunable" /\ ~Dead(w)
                      \/ snapshot = "gone" /\ row[w] # "CLEANING"
                   THEN HandedOver(w) ELSE endpoint

-----------------------------------------------------------------------------
\* The daemon starts a task.

\* Starts and stops leave these alone.
StartFrame == <<git, work, head, row, settings, lease, run, listed, history>>

\* resolveTask finds the registration and awaits the configuration.
StartRequest(w) ==
    /\ start[w].pc = "none" /\ git[w] = "there" /\ Event
    /\ start' = [start EXCEPT ![w] = [NoStart EXCEPT !.pc = "resolving", !.alive = ~Dead(w)]]
    /\ UNCHANGED <<StartFrame, resource, endpoint>>

\* Reading the group and resolving the endpoints happen in one turn of the daemon's event
\* loop, so not two starts at once; other processes write to the store in between.
ReadGroup(w) ==
    /\ start[w].pc = "resolving"
    /\ \A v \in Worktrees : start[v].pc # "grouped"
    /\ start' = [start EXCEPT ![w].pc = "grouped", ![w].group = FeatureGroup(w),
                                    ![w].owner = LeaseOwner(w)]
    /\ UNCHANGED <<StartFrame, resource, endpoint, events>>

\* leasedPort: an active lease of the group is shared; else one is allocated on the owner,
\* on a port no other active lease has, unless a probe finds them all busy.  Then #runtime
\* refuses a dead registration.
ResolveEndpoints(w) ==
    LET group  == start[w].group
        shared == {v \in group : Active(v)}
        taken  == {endpoint[v].port : v \in {u \in Worktrees : Active(u)}}
        Resolved(port) ==
            start' = [start EXCEPT ![w] =
                        IF @.alive THEN [NoStart EXCEPT !.pc = "resolved", !.port = port]
                        ELSE NoStart]
    IN  /\ start[w].pc = "grouped"
        /\ \/ \E v \in shared :
                /\ \A u \in shared : endpoint[v].port <= endpoint[u].port
                /\ Resolved(endpoint[v].port)
                /\ UNCHANGED endpoint
           \/ /\ shared = {}
              /\ \E port \in Ports \ taken :
                   /\ endpoint' = [endpoint EXCEPT ![start[w].owner] = [state |-> "ACTIVE", port |-> port]]
                   /\ Resolved(port)
           \/ /\ shared = {}
              /\ start' = [start EXCEPT ![w] = NoStart]
              /\ UNCHANGED endpoint
        /\ UNCHANGED <<StartFrame, resource, events>>

\* prepareRuntimeResources, without a look at any lease; the configuration may declare none.
Prepare(w) ==
    /\ start[w].pc = "resolved"
    /\ start' = [start EXCEPT ![w].pc = "prepared"]
    /\ \/ UNCHANGED resource
       \/ git[w] = "there" /\ resource' = [resource EXCEPT ![w] = TRUE]
    /\ UNCHANGED <<StartFrame, endpoint, events>>

\* A fault: a start is reserved whatever holds the repository.
Reserve_Always(w) ==
    /\ start[w].pc = "prepared"
    /\ start' = [start EXCEPT ![w].pc = "reserved"]
    /\ UNCHANGED <<StartFrame, resource, endpoint, events>>

\* reserveManagedProcessStart refuses while an operation holds the repository.
Reserve(w) ==
    /\ start[w].pc = "prepared"
    /\ start' = [start EXCEPT ![w] =
                   IF lease[w] = "none" THEN [@ EXCEPT !.pc = "reserved"] ELSE NoStart]
    /\ UNCHANGED <<StartFrame, resource, endpoint, events>>

\* The anchor is spawned in the worktree and recorded; or the start fails before that.
Record(w) ==
    /\ start[w].pc = "reserved"
    /\ \/ git[w] = "there" /\ start' = [start EXCEPT ![w].pc = "STARTING"]
       \/ git[w] # "there" /\ start' = [start EXCEPT ![w] = NoStart]
    /\ UNCHANGED <<StartFrame, resource, endpoint, events>>

\* GO and its acknowledgement; or a rollback, confirmed or not.
Launch(w) ==
    /\ start[w].pc = "STARTING"
    /\ \E pc \in {"RUNNING", "none", "owed"} :
         start' = [start EXCEPT ![w] = IF pc = "none" THEN NoStart ELSE [@ EXCEPT !.pc = pc]]
    /\ UNCHANGED <<StartFrame, resource, endpoint, events>>

\* The task exits or is stopped by its user, or the daemon pays off a cleanup it owes.
TaskEnds(w) ==
    /\ start[w].pc \in {"RUNNING", "owed"}
    /\ start' = [start EXCEPT ![w] = NoStart]
    /\ UNCHANGED <<StartFrame, resource, endpoint, events>>

-----------------------------------------------------------------------------
\* The removal.

Goto(w, stage) == run' = [run EXCEPT ![w].stage = stage]

\* Returned or thrown: the finally block gives the lease back.
End(w) ==
    /\ run' = [run EXCEPT ![w] = Idle]
    /\ lease' = [lease EXCEPT ![w] = "none"]

\* The command picks a worktree Git lists; a dead holder's lease is taken only by --resume.
StartRemoval(w) ==
    /\ run[w].stage = "idle" /\ git[w] # "gone" /\ Event
    /\ lease' = [lease EXCEPT ![w] = "held"]
    /\ run' = [run EXCEPT ![w] = [Idle EXCEPT !.stage = "analyze",
                                              !.early = start[w].pc = "reserved"]]
    /\ UNCHANGED <<git, user, store, start, listed, history>>

\* What the first gate lets through: no blocker, or only ones that name reclaimable paths,
\* which takes a readable configuration.
Deferrable(w) == work[w] = {} /\ git[w] = "there"

Analyze(w) ==
    /\ run[w].stage = "analyze"
    /\ \/ /\ Deferrable(w)
          /\ run' = [run EXCEPT ![w].stage = "stop-processes", ![w].head = head[w]]
          /\ UNCHANGED lease
       \/ (~Deferrable(w) \/ resource[w]) /\ End(w)
    /\ UNCHANGED <<git, user, store, start, listed, history, events>>

\* residueOf: a record in an active state or owing cleanup.
Residue(w) == start[w].pc \in {"STARTING", "RUNNING", "owed"}

\* Stopping is a request to the daemon, which waits for a start in progress; without a
\* daemon, or when it reports a failure, the removal refuses.
StopProcesses(w) ==
    /\ run[w].stage = "stop-processes"
    /\ \/ ~Residue(w) /\ Goto(w, "verify-processes") /\ UNCHANGED <<lease, start>>
       \/ /\ start[w].pc \in {"RUNNING", "owed"}
          /\ \E pc \in {"none", "owed"} :
               start' = [start EXCEPT ![w] = IF pc = "none" THEN NoStart
                                             ELSE [@ EXCEPT !.pc = pc]]
          /\ Goto(w, "verify-processes") /\ UNCHANGED lease
       \/ Residue(w) /\ End(w) /\ UNCHANGED start
    /\ UNCHANGED <<git, user, store, listed, history, events>>

\* The records decide, not the daemon's answer.
VerifyProcesses(w) ==
    /\ run[w].stage = "verify-processes"
    /\ \/ ~Residue(w) /\ Goto(w, "cleanup-resources") /\ UNCHANGED lease
       \/ Residue(w) /\ End(w)
    /\ UNCHANGED <<git, user, store, start, listed, history, events>>

\* Declared resources are collected; a refused path throws, and an unreadable
\* configuration or a retained policy leaves them.
CleanupResources(w) ==
    /\ run[w].stage = "cleanup-resources"
    /\ \/ resource' = [resource EXCEPT ![w] = FALSE] /\ Goto(w, "reanalyze") /\ UNCHANGED lease
       \/ resource[w] /\ Goto(w, "reanalyze") /\ UNCHANGED <<resource, lease>>
       \/ resource[w] /\ End(w) /\ UNCHANGED resource
    /\ UNCHANGED <<git, work, head, store, start, listed, history, events>>

\* A fault: the second gate looks for what cleanup left and trusts the first for the rest.
Removable_TrustsFirst(w) == ~resource[w] /\ git[w] = "there"

Removable(w) == work[w] = {} /\ ~resource[w] /\ git[w] = "there"

\* assertRemovable and assertIdentityUnchanged.
Reanalyze(w) ==
    /\ run[w].stage = "reanalyze"
    /\ \/ /\ Removable(w) /\ head[w] = run[w].head
          /\ Goto(w, "release-endpoints")
          /\ UNCHANGED lease
       \/ ~(Removable(w) /\ head[w] = run[w].head) /\ End(w)
    /\ UNCHANGED <<git, user, store, start, listed, history, events>>

\* releaseEndpointLeases is four transactions.  First the row is marked, and what else the
\* worktree recorded goes.
MarkCleaning(w) ==
    /\ run[w].stage = "release-endpoints"
    /\ row' = [row EXCEPT ![w] = "CLEANING"]
    /\ settings' = [settings EXCEPT ![w] = FALSE]
    /\ Goto(w, "find-sibling")
    /\ UNCHANGED <<git, user, endpoint, lease, start, listed, history, events>>

FindSibling(w) ==
    /\ run[w].stage = "find-sibling"
    /\ run' = [run EXCEPT ![w].stage = "reassign", ![w].sibling = Sibling(w)]
    /\ UNCHANGED <<git, user, store, lease, start, listed, history, events>>

\* The sibling may be dying itself by now.
Reassign(w) ==
    /\ run[w].stage = "reassign"
    /\ endpoint' = IF run[w].sibling = None THEN endpoint
                   ELSE Reassigned(endpoint, w, run[w].sibling)
    /\ run' = [run EXCEPT ![w].stage = "release", ![w].sibling = None]
    /\ UNCHANGED <<git, user, row, settings, lease, start, listed, history, events>>

Release(w) ==
    /\ run[w].stage = "release"
    /\ endpoint' = Released(endpoint, w)
    /\ Goto(w, "git-remove")
    /\ UNCHANGED <<git, user, row, settings, lease, start, listed, history, events>>

\* Git has the last word: it vetoes modified, untracked and locked worktrees, deletes
\* ignored content without a question, may see WTM's own content as either, and forgets a
\* worktree whose directory is missing.
GitRemove(w) ==
    LET vetoed == work[w] \cap GitVetoes # {} \/ git[w] = "gone"
    IN  /\ run[w].stage = "git-remove"
        /\ \/ /\ ~vetoed
              /\ git' = [git EXCEPT ![w] = "gone"]
              /\ lost' = [lost EXCEPT ![w] = @ \cup (work[w] \ run[w].late)
                            \cup IF head[w] # run[w].head /\ "commit" \notin run[w].late
                                 THEN {"identity"} ELSE {}]
              /\ work' = [work EXCEPT ![w] = {}]
              /\ resource' = [resource EXCEPT ![w] = FALSE]
              /\ deserted' = [deserted EXCEPT ![w] = ~run[w].early]
              /\ run' = [run EXCEPT ![w] = [Idle EXCEPT !.stage = "reconcile"]]
              /\ UNCHANGED lease
           \/ /\ vetoed \/ resource[w]
              /\ End(w)
              /\ UNCHANGED <<git, work, resource, history>>
        /\ UNCHANGED <<head, store, start, listed, events>>

\* The removal's own pass, in the daemon or locally: Git is read, then the store written.
ListAfterwards(w) ==
    /\ run[w].stage = "reconcile"
    /\ run' = [run EXCEPT ![w].stage = "apply", ![w].snapshot = git[w]]
    /\ UNCHANGED <<git, user, store, lease, start, listed, history, events>>

\* A pass that fails is a warning: the worktree is gone all the same.
ReconcileAfterwards(w) ==
    /\ run[w].stage = "apply"
    /\ \/ Reconcile(w, run[w].snapshot) /\ UNCHANGED events
       \/ Event /\ UNCHANGED <<row, endpoint>>
    /\ End(w)
    /\ UNCHANGED <<git, user, settings, start, listed, history>>

\* The removing process dies; its lease row stays.
Crash(w) ==
    /\ run[w].stage # "idle" /\ Event
    /\ run' = [run EXCEPT ![w] = Idle]
    /\ lease' = [lease EXCEPT ![w] = "stale"]
    /\ UNCHANGED <<git, user, store, start, listed, history>>

-----------------------------------------------------------------------------
\* The rest of the world.

\* A pass of the daemon reads the list of a repository and applies it later.
DaemonLists(w) ==
    /\ listed[w] = "none"
    /\ listed' = [listed EXCEPT ![w] = git[w]]
    /\ UNCHANGED <<git, user, store, lease, start, run, history, events>>

DaemonReconciles(w) ==
    /\ listed[w] # "none"
    /\ Reconcile(w, listed[w])
    /\ listed' = [listed EXCEPT ![w] = "none"]
    /\ UNCHANGED <<git, user, settings, lease, start, run, history, events>>

\* Work appears in the worktree, by the user or by a process that flushes its files.
Write(w, k) ==
    /\ git[w] = "there" /\ k \notin work[w] /\ Event
    /\ work' = [work EXCEPT ![w] = @ \cup {k}]
    /\ head' = IF k = "commit" THEN [head EXCEPT ![w] = @ + 1] ELSE head
    /\ run' = IF run[w].stage \in PastGate THEN [run EXCEPT ![w].late = @ \cup {k}] ELSE run
    /\ UNCHANGED <<git, resource, store, lease, start, listed, history>>

\* It is committed, deleted, pushed or unlocked again.
Settle(w, k) ==
    /\ git[w] = "there" /\ k \in work[w]
    /\ work' = [work EXCEPT ![w] = @ \ {k}]
    /\ UNCHANGED <<git, resource, head, store, lease, start, run, listed, history, events>>

\* The directory is deleted by hand, or the worktree with Git.
Vanish(w) ==
    /\ git[w] = "there" /\ Event
    /\ \E to \in {"prunable", "gone"} : git' = [git EXCEPT ![w] = to]
    /\ work' = [work EXCEPT ![w] = {}]
    /\ resource' = [resource EXCEPT ![w] = FALSE]
    /\ UNCHANGED <<head, store, lease, start, run, listed, history>>

\* `git worktree prune`.
Prune(w) ==
    /\ git[w] = "prunable"
    /\ git' = [git EXCEPT ![w] = "gone"]
    /\ UNCHANGED <<user, store, lease, start, run, listed, history, events>>

\* The branch is checked out at the same path again, or a lost volume is mounted; not
\* while a removal of the worktree is under way.
Return(w) ==
    /\ git[w] # "there" /\ run[w].stage = "idle" /\ Event
    /\ git' = [git EXCEPT ![w] = "there"]
    /\ deserted' = [deserted EXCEPT ![w] = FALSE]
    /\ UNCHANGED <<user, store, lease, start, run, listed, lost>>

Removing(w) ==
    \/ Analyze(w) \/ StopProcesses(w) \/ VerifyProcesses(w) \/ CleanupResources(w)
    \/ Reanalyze(w) \/ MarkCleaning(w) \/ FindSibling(w) \/ Reassign(w) \/ Release(w)
    \/ GitRemove(w) \/ ListAfterwards(w) \/ ReconcileAfterwards(w)

Starting(w) ==
    \/ ReadGroup(w) \/ ResolveEndpoints(w) \/ Prepare(w) \/ Reserve(w) \/ Record(w)
    \/ Launch(w)

Reconciling(w) == DaemonLists(w) \/ DaemonReconciles(w)

Next ==
    \E w \in Worktrees :
        \/ StartRemoval(w) \/ Removing(w) \/ Crash(w)
        \/ StartRequest(w) \/ Starting(w) \/ TaskEnds(w)
        \/ Reconciling(w)
        \/ \E k \in Written : Write(w, k) \/ Settle(w, k)
        \/ Vanish(w) \/ Prune(w) \/ Return(w)

Spec == Init /\ [][Next]_vars

\* A pass that has read Git's list applies it.  Nothing makes the daemon begin one: it polls
\* nothing, and only a file system event, a request or its own boot wakes it.
FairSpec == Spec /\ \A w \in Worktrees : WF_vars(DaemonReconciles(w))

-----------------------------------------------------------------------------
\* Every table row and local keeps its shape.
TypeOK ==
    /\ git \in [Worktrees -> {"there", "prunable", "gone"}]
    /\ work \in [Worktrees -> SUBSET Blockers]
    /\ resource \in [Worktrees -> BOOLEAN]
    /\ head \in [Worktrees -> Nat]
    /\ row \in [Worktrees -> {"DISCOVERED", "CLEANING", "ORPHANED"}]
    /\ settings \in [Worktrees -> BOOLEAN]
    /\ lease \in [Worktrees -> {"none", "held", "stale"}]
    /\ endpoint \in [Worktrees -> {NoEndpoint} \cup
                                  [state : {"ACTIVE", "RELEASED"}, port : Ports]]
    /\ start \in [Worktrees -> [pc : StartStates, alive : BOOLEAN,
                                group : SUBSET Worktrees, owner : Worktrees \cup {None},
                                port : Ports \cup {None}]]
    /\ run \in [Worktrees -> [stage : Stages, head : Nat, sibling : Worktrees \cup {None},
                              snapshot : {"none", "there", "prunable", "gone"},
                              late : SUBSET Blockers, early : BOOLEAN]]
    /\ listed \in [Worktrees -> {"none", "there", "prunable", "gone"}]
    /\ lost \in [Worktrees -> SUBSET (Blockers \cup {"identity"})]
    /\ deserted \in [Worktrees -> BOOLEAN]
    /\ events \in Nat

\* Nothing the user had in the worktree when the second analysis looked is deleted with it,
\* and what is deleted is the commit the first analysis saw (runRemovalLifecycle).
WorkSurvives == \A w \in Worktrees : lost[w] = {}

\* A task in a worktree a removal deleted had its start reserved before the removal took
\* its lease (reserveManagedProcessStart, verifyManagedProcessesStopped).
NoStartUnderLease ==
    \A w \in Worktrees :
        deserted[w] => start[w].pc \notin {"STARTING", "RUNNING"}

\* As long as something keeps waking the daemon, the port of a worktree Git no longer lists
\* is given up, however its removal ended and whatever was allocated on it meanwhile: every
\* pass that finds it absent releases, not only the one that first noticed
\* (reconcileWorktrees).  One pass is not enough, see OrphanedGivesBack.
DeadLeasesEnd ==
    \A w \in Worktrees :
        []<><<DaemonLists(w)>>_vars
            => ((git[w] = "gone" /\ Active(w)) ~> (git[w] # "gone" \/ ~Active(w)))

\* docs/07-process-port-runtime.md: "reconciliation releases every active lease of a worktree
\* it marks `ORPHANED`", whatever became of the removal that was taking it down.
OrphanedGivesBack ==
    [][\A w \in Worktrees : row[w] # "ORPHANED" /\ row'[w] = "ORPHANED" => ~Active(w)']_vars

\* remove-worktree.ts calls the second analysis "the one gate that can still abort the whole
\* removal": a worktree that survives its removal is not left in the state of a dying one.
AbortLeavesLive ==
    \A w \in Worktrees : git[w] = "there" /\ row[w] = "CLEANING" => lease[w] # "none"

\* remove-worktree.ts: "a worktree with running managed processes can never reach Git
\* without them being stopped first".
StoppedBeforeGit ==
    \A w \in Worktrees : run[w].stage = "git-remove" => start[w].pc # "RUNNING"
=============================================================================

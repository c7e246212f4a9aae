----------------------- MODULE WorktreeRemovalProofs -----------------------
(***************************************************************************)
(* Proofs about `wtm remove`: for any number of worktrees of a feature,    *)
(* any ports, any kinds of blockers and any number of outside events.      *)
(***************************************************************************)
EXTENDS WorktreeRemoval, WellFoundedInduction, TLAPS

\* What the locals of a removal and of a start can hold.
Removals == [stage : Stages, head : Nat, sibling : Worktrees \cup {None},
             snapshot : {"none", "there", "prunable", "gone"},
             late : SUBSET Blockers, early : BOOLEAN]

Starts == [pc : StartStates, alive : BOOLEAN, group : SUBSET Worktrees,
           owner : Worktrees \cup {None}, port : Ports \cup {None}]

Endpoints == {NoEndpoint} \cup [state : {"ACTIVE", "RELEASED"}, port : Ports]

\* A removal under way holds its repository's lease.
LeaseHeld == \A w \in Worktrees : run[w].stage # "idle" => lease[w] = "held"

\* Once the second analysis has passed, whatever stands in the worktree, and a head other
\* than the one first seen, came later.
GateOK ==
    \A w \in Worktrees :
        run[w].stage \in PastGate =>
            /\ work[w] \subseteq run[w].late
            /\ head[w] # run[w].head => "commit" \in run[w].late

\* A removal before Git has deleted anything.
Pending(w) == run[w].stage \notin {"idle", "reconcile", "apply"}

\* A removal that has seen the records without an active task.
Verified(w) == run[w].stage \in {"cleanup-resources", "reanalyze"} \cup PastGate

\* If no start was reserved when the lease was taken, none is until it is given back, and
\* a task that was recorded is gone once the records have been verified; what the removal
\* deleted stays deleted.
StartsOK ==
    \A w \in Worktrees :
        /\ deserted[w] => git[w] # "there" /\ start[w].pc \notin {"STARTING", "RUNNING"}
        /\ Pending(w) /\ ~run[w].early => start[w].pc # "reserved"
        /\ Verified(w) /\ ~run[w].early => start[w].pc \notin {"STARTING", "RUNNING"}

RemovalInv == TypeOK /\ LeaseHeld /\ GateOK /\ StartsOK /\ WorkSurvives

-----------------------------------------------------------------------------
\* The first worktree of a group exists.

LEMMA NatMin ==
    ASSUME NEW T, T \subseteq Nat, T # {}
    PROVE  \E x \in T : \A y \in T : x <= y
<1> DEFINE R == OpToRel(<, Nat)
<1>1. IsWellFoundedOn(R, Nat)
  BY NatLessThanWellFounded
<1>2. \A x, y \in Nat : <<y, x>> \in R <=> y < x
  BY DEF OpToRel
<1> HIDE DEF R
<1>3. PICK x \in T : \A y \in T : ~ (<<y, x>> \in R)
  BY <1>1, WFMin
<1>4. ASSUME NEW y \in T
      PROVE  x <= y
  <2>1. x \in Nat /\ y \in Nat /\ ~ (y < x)
    BY <1>2, <1>3
  <2> QED
    BY <2>1
<1> QED
  BY <1>4

LEMMA FirstIsMember ==
    ASSUME NEW S, S \subseteq Worktrees, S # {}
    PROVE  First(S) \in S
<1>1. S \subseteq Nat
  BY WorktreesAssumption
<1>2. \E w \in S : \A v \in S : w <= v
  BY <1>1, NatMin
<1> QED
  BY <1>2 DEF First

\* Whom a lease is handed to, and who a new one is taken for, are worktrees of the feature.
LEMMA MembersAre ==
    ASSUME NEW w \in Worktrees
    PROVE  /\ Sibling(w) \in Worktrees \cup {None}
           /\ LeaseOwner(w) \in Worktrees
           /\ FeatureGroup(w) \in SUBSET Worktrees
<1>1. LiveMembers \subseteq Worktrees
  BY DEF LiveMembers
<1> QED
  BY <1>1, FirstIsMember DEF Sibling, LeaseOwner, FeatureGroup

-----------------------------------------------------------------------------
\* Types.

LEMMA NoneTypes == Idle \in Removals /\ NoStart \in Starts
BY DEF Idle, Removals, NoStart, Starts, Stages, StartStates

\* Handing a lease over, releasing it, and reconciling keep the table's rows rows.
LEMMA EndpointTypes ==
    ASSUME NEW rows \in [Worktrees -> Endpoints], NEW w \in Worktrees
    PROVE  /\ Released(rows, w) \in [Worktrees -> Endpoints]
           /\ \A v \in Worktrees : Reassigned(rows, w, v) \in [Worktrees -> Endpoints]
<1>1. NoEndpoint \in Endpoints
  BY DEF Endpoints
<1>2. rows[w].state = "ACTIVE" => [rows[w] EXCEPT !.state = "RELEASED"] \in Endpoints
  BY DEF Endpoints, NoEndpoint
<1>3. Released(rows, w) \in [Worktrees -> Endpoints]
  BY <1>2 DEF Released
<1>4. ASSUME NEW v \in Worktrees
      PROVE  Reassigned(rows, w, v) \in [Worktrees -> Endpoints]
  BY <1>1 DEF Reassigned
<1> QED
  BY <1>3, <1>4

LEMMA ReconcileTypes ==
    ASSUME endpoint \in [Worktrees -> Endpoints],
           row \in [Worktrees -> {"DISCOVERED", "CLEANING", "ORPHANED"}],
           NEW w \in Worktrees, NEW snapshot, Reconcile(w, snapshot)
    PROVE  /\ endpoint' \in [Worktrees -> Endpoints]
           /\ row' \in [Worktrees -> {"DISCOVERED", "CLEANING", "ORPHANED"}]
<1>1. HandedOver(w) \in [Worktrees -> Endpoints]
  <2>1. Sibling(w) \in Worktrees \cup {None}
    BY MembersAre
  <2>2. CASE Sibling(w) = None
    BY <2>2, EndpointTypes DEF HandedOver
  <2>3. CASE Sibling(w) # None
    <3>1. Reassigned(endpoint, w, Sibling(w)) \in [Worktrees -> Endpoints]
      BY <2>1, <2>3, EndpointTypes
    <3> QED
      BY <2>3, <3>1, EndpointTypes DEF HandedOver
  <2> QED
    BY <2>2, <2>3
<1>2. endpoint' = HandedOver(w) \/ endpoint' = endpoint
  BY DEF Reconcile
<1>3. row' = row \/ \E s \in {"DISCOVERED", "ORPHANED"} : row' = [row EXCEPT ![w] = s]
  BY DEF Reconcile
<1> QED
  BY <1>1, <1>2, <1>3

\* The types in the names above.
LEMMA TypeParts ==
    TypeOK <=> /\ git \in [Worktrees -> {"there", "prunable", "gone"}]
               /\ work \in [Worktrees -> SUBSET Blockers]
               /\ resource \in [Worktrees -> BOOLEAN]
               /\ head \in [Worktrees -> Nat]
               /\ row \in [Worktrees -> {"DISCOVERED", "CLEANING", "ORPHANED"}]
               /\ settings \in [Worktrees -> BOOLEAN]
               /\ lease \in [Worktrees -> {"none", "held", "stale"}]
               /\ endpoint \in [Worktrees -> Endpoints]
               /\ start \in [Worktrees -> Starts]
               /\ run \in [Worktrees -> Removals]
               /\ listed \in [Worktrees -> {"none", "there", "prunable", "gone"}]
               /\ lost \in [Worktrees -> SUBSET (Blockers \cup {"identity"})]
               /\ deserted \in [Worktrees -> BOOLEAN]
               /\ events \in Nat
BY DEF TypeOK, Endpoints, Starts, Removals

-----------------------------------------------------------------------------
\* The daemon's starts and stops.

\* A step in the life of w's task that leaves the removal alone: it reserves a start only
\* when no lease is held, and records a task only where a start was reserved and Git lists
\* the worktree.
LEMMA TaskKeeps ==
    ASSUME RemovalInv, NEW w \in Worktrees, NEW s \in Starts, start' = [start EXCEPT ![w] = s],
           s.pc = "reserved" => start[w].pc = "reserved" \/ lease[w] = "none",
           s.pc \in {"STARTING", "RUNNING"} =>
               \/ start[w].pc \in {"STARTING", "RUNNING"}
               \/ start[w].pc = "reserved" /\ git[w] = "there",
           UNCHANGED <<git, work, head, lease, run, lost, deserted>>
    PROVE  LeaseHeld' /\ GateOK' /\ StartsOK' /\ WorkSurvives' /\ start' \in [Worktrees -> Starts]
<1>1. start \in [Worktrees -> Starts]
  BY TypeParts DEF RemovalInv
<1>2. LeaseHeld' /\ GateOK' /\ WorkSurvives'
  BY DEF RemovalInv, LeaseHeld, GateOK, WorkSurvives
<1>3. start'[w] = s /\ \A v \in Worktrees \ {w} : start'[v] = start[v]
  BY <1>1
<1>4. Verified(w) => Pending(w)
  BY DEF Verified, Pending, PastGate
<1>5. Pending(w) => lease[w] # "none"
  BY DEF RemovalInv, LeaseHeld, Pending
<1>6. StartsOK'
  BY <1>3, <1>4, <1>5 DEF RemovalInv, StartsOK, Pending, Verified
<1> QED
  BY <1>1, <1>2, <1>6

\* Up to the launch, and after it.
LEMMA StartingStep ==
    ASSUME RemovalInv, NEW w \in Worktrees, StartRequest(w) \/ Starting(w) \/ TaskEnds(w)
    PROVE  RemovalInv'
<1>0. TypeOK
  BY DEF RemovalInv
<1>1. start[w] \in Starts /\ start \in [Worktrees -> Starts] /\ NoStart \in Starts
      /\ endpoint \in [Worktrees -> Endpoints] /\ resource \in [Worktrees -> BOOLEAN]
      /\ events \in Nat
  BY <1>0, TypeParts, NoneTypes
<1>2. /\ UNCHANGED <<git, work, head, row, settings, lease, run, listed, lost, deserted>>
  BY DEF StartRequest, Starting, ReadGroup, ResolveEndpoints, Prepare, Reserve, Record, Launch,
         TaskEnds, StartFrame, history
<1>3. ASSUME NEW s \in Starts, start' = [start EXCEPT ![w] = s],
             s.pc = "reserved" => start[w].pc = "reserved" \/ lease[w] = "none",
             s.pc \in {"STARTING", "RUNNING"} =>
                 \/ start[w].pc \in {"STARTING", "RUNNING"}
                 \/ start[w].pc = "reserved" /\ git[w] = "there",
             resource' \in [Worktrees -> BOOLEAN], endpoint' \in [Worktrees -> Endpoints],
             events' \in Nat
      PROVE  RemovalInv'
  <2>1. LeaseHeld' /\ GateOK' /\ StartsOK' /\ WorkSurvives' /\ start' \in [Worktrees -> Starts]
    BY <1>2, <1>3, TaskKeeps
  <2>2. TypeOK'
    BY <1>0, <1>2, <1>3, <2>1 DEF TypeOK, Starts, Endpoints
  <2> QED
    BY <2>1, <2>2 DEF RemovalInv
<1>4. NoStart.pc = "none"
  BY DEF NoStart
<1>5. CASE StartRequest(w)
  <2> DEFINE s == [NoStart EXCEPT !.pc = "resolving", !.alive = ~Dead(w)]
  <2>1. s \in Starts /\ s.pc = "resolving"
    BY <1>1 DEF Starts, StartStates
  <2>2. start' = [start EXCEPT ![w] = s] /\ UNCHANGED <<resource, endpoint>> /\ events' \in Nat
    BY <1>1, <1>5 DEF StartRequest, Event
  <2> HIDE DEF s
  <2> QED
    BY <1>1, <1>3, <2>1, <2>2
<1>6. CASE ReadGroup(w)
  <2> DEFINE s == [start[w] EXCEPT !.pc = "grouped", !.group = FeatureGroup(w),
                                   !.owner = LeaseOwner(w)]
  <2>1. s \in Starts /\ s.pc = "grouped"
    BY <1>1, MembersAre DEF Starts, StartStates
  <2>2. start' = [start EXCEPT ![w] = s] /\ UNCHANGED <<resource, endpoint, events>>
    BY <1>6 DEF ReadGroup
  <2> HIDE DEF s
  <2> QED
    BY <1>1, <1>3, <2>1, <2>2
<1>7. CASE ResolveEndpoints(w)
  <2>1. UNCHANGED <<resource, events>>
    BY <1>7 DEF ResolveEndpoints
  \* A port is resolved, or the registration was dead.
  <2>2. ASSUME NEW port \in Ports \cup {None}, endpoint' \in [Worktrees -> Endpoints],
               start' = [start EXCEPT ![w] = IF @.alive THEN [NoStart EXCEPT !.pc = "resolved", !.port = port]
                                  ELSE NoStart]
        PROVE  RemovalInv'
    <3> DEFINE s == IF start[w].alive THEN [NoStart EXCEPT !.pc = "resolved", !.port = port]
                    ELSE NoStart
    <3>1. s \in Starts /\ s.pc \in {"resolved", "none"}
      BY <1>1, <1>4 DEF Starts, StartStates
    <3>2. start' = [start EXCEPT ![w] = s]
      BY <2>2
    <3> HIDE DEF s
    <3> QED
      BY <1>1, <1>3, <2>1, <2>2, <3>1, <3>2
  <2>3. CASE start' = [start EXCEPT ![w] = NoStart] /\ UNCHANGED endpoint
    BY <1>1, <1>3, <1>4, <2>1, <2>3
  <2>4. ASSUME NEW v \in start[w].group, Active(v), UNCHANGED endpoint,
               start' = [start EXCEPT ![w] =
                   IF @.alive THEN [NoStart EXCEPT !.pc = "resolved", !.port = endpoint[v].port]
                   ELSE NoStart]
        PROVE  RemovalInv'
    <3>1. v \in Worktrees
      BY <1>1 DEF Starts
    <3>2. endpoint[v].port \in Ports \cup {None}
      BY <1>1, <3>1 DEF Endpoints, NoEndpoint
    <3> QED
      BY <1>1, <2>2, <2>4, <3>2
  <2>5. ASSUME NEW port \in Ports,
               endpoint' = [endpoint EXCEPT ![start[w].owner] = [state |-> "ACTIVE", port |-> port]],
               start' = [start EXCEPT ![w] =
                   IF @.alive THEN [NoStart EXCEPT !.pc = "resolved", !.port = port]
                   ELSE NoStart]
        PROVE  RemovalInv'
    <3>1. endpoint' \in [Worktrees -> Endpoints]
      BY <1>1, <2>5 DEF Endpoints
    <3> QED
      BY <2>2, <2>5, <3>1
  <2> QED
    BY <1>7, <2>3, <2>4, <2>5 DEF ResolveEndpoints
<1>8. CASE Prepare(w)
  <2> DEFINE s == [start[w] EXCEPT !.pc = "prepared"]
  <2>1. s \in Starts /\ s.pc = "prepared"
    BY <1>1 DEF Starts, StartStates
  <2>2. start' = [start EXCEPT ![w] = s] /\ UNCHANGED <<endpoint, events>>
        /\ resource' \in [Worktrees -> BOOLEAN]
    BY <1>1, <1>8 DEF Prepare
  <2> HIDE DEF s
  <2> QED
    BY <1>1, <1>3, <2>1, <2>2
<1>9. CASE Reserve(w)
  <2> DEFINE s == IF lease[w] = "none" THEN [start[w] EXCEPT !.pc = "reserved"] ELSE NoStart
  <2>1. s \in Starts /\ (s.pc = "none" \/ (s.pc = "reserved" /\ lease[w] = "none"))
    BY <1>1, <1>4 DEF Starts, StartStates
  <2>2. start' = [start EXCEPT ![w] = s] /\ UNCHANGED <<resource, endpoint, events>>
    BY <1>9 DEF Reserve
  <2> HIDE DEF s
  <2> QED
    BY <1>1, <1>3, <2>1, <2>2
<1>10. CASE Record(w)
  <2> DEFINE s == [start[w] EXCEPT !.pc = "STARTING"]
  <2>1. s \in Starts /\ s.pc = "STARTING"
    BY <1>1 DEF Starts, StartStates
  <2>2. /\ start[w].pc = "reserved" /\ UNCHANGED <<resource, endpoint, events>>
        /\ \/ git[w] = "there" /\ start' = [start EXCEPT ![w] = s]
           \/ start' = [start EXCEPT ![w] = NoStart]
    BY <1>10 DEF Record
  <2> HIDE DEF s
  <2> QED
    BY <1>1, <1>3, <1>4, <2>1, <2>2
<1>11. CASE Launch(w)
  <2>1. PICK pc \in {"RUNNING", "none", "owed"} :
         start' = [start EXCEPT ![w] = IF pc = "none" THEN NoStart ELSE [@ EXCEPT !.pc = pc]]
    BY <1>11 DEF Launch
  <2> DEFINE s == IF pc = "none" THEN NoStart ELSE [start[w] EXCEPT !.pc = pc]
  <2>2. s \in Starts /\ s.pc = pc
    BY <1>1, <1>4 DEF Starts, StartStates
  <2>3. /\ start[w].pc = "STARTING" /\ UNCHANGED <<resource, endpoint, events>>
        /\ start' = [start EXCEPT ![w] = s]
    BY <1>11, <2>1 DEF Launch
  <2> HIDE DEF s
  <2> QED
    BY <1>1, <1>3, <2>2, <2>3
<1>12. CASE TaskEnds(w)
  BY <1>1, <1>3, <1>4, <1>12 DEF TaskEnds
<1> QED
  BY <1>5, <1>6, <1>7, <1>8, <1>9, <1>10, <1>11, <1>12 DEF Starting

-----------------------------------------------------------------------------
\* The removal.

\* A stage of w's removal that touches nothing of the user's: it goes on only under the
\* lease, passes the gate only where nothing stands, and counts on no start to be reserved
\* or running but where the one before did, or where it has looked.
LEMMA RemovalKeeps ==
    ASSUME RemovalInv, NEW w \in Worktrees, NEW r \in Removals,
           NEW l \in {"none", "held", "stale"}, NEW s \in Starts,
           run' = [run EXCEPT ![w] = r], lease' = [lease EXCEPT ![w] = l],
           start' = [start EXCEPT ![w] = s],
           UNCHANGED <<git, work, head, lost, deserted>>,
           r.stage # "idle" => l = "held",
           r.stage \in PastGate =>
               \/ run[w].stage \in PastGate /\ r.late = run[w].late /\ r.head = run[w].head
               \/ work[w] = {} /\ head[w] = r.head,
           s.pc \in {"STARTING", "RUNNING"} => start[w].pc \in {"STARTING", "RUNNING"},
           r.stage \notin {"idle", "reconcile", "apply"} /\ ~r.early => s.pc # "reserved",
           r.stage \in {"cleanup-resources", "reanalyze"} \cup PastGate /\ ~r.early =>
               s.pc \notin {"STARTING", "RUNNING"}
    PROVE  /\ LeaseHeld' /\ GateOK' /\ StartsOK' /\ WorkSurvives'
           /\ run' \in [Worktrees -> Removals] /\ start' \in [Worktrees -> Starts]
           /\ lease' \in [Worktrees -> {"none", "held", "stale"}]
<1>1. /\ start \in [Worktrees -> Starts] /\ run \in [Worktrees -> Removals]
      /\ lease \in [Worktrees -> {"none", "held", "stale"}]
  BY TypeParts DEF RemovalInv
<1>2. /\ run'[w] = r /\ lease'[w] = l /\ start'[w] = s
      /\ \A v \in Worktrees \ {w} : run'[v] = run[v] /\ lease'[v] = lease[v] /\ start'[v] = start[v]
  BY <1>1
<1>3. LeaseHeld' /\ WorkSurvives'
  BY <1>2 DEF RemovalInv, LeaseHeld, WorkSurvives
<1>4. GateOK'
  <2> SUFFICES ASSUME NEW v \in Worktrees, run'[v].stage \in PastGate
               PROVE  /\ work[v] \subseteq run'[v].late
                      /\ head[v] # run'[v].head => "commit" \in run'[v].late
    BY DEF GateOK
  <2> QED
    BY <1>2 DEF RemovalInv, GateOK
<1>5. StartsOK'
  <2> SUFFICES ASSUME NEW v \in Worktrees
               PROVE  /\ deserted[v] => git[v] # "there" /\ start'[v].pc \notin {"STARTING", "RUNNING"}
                      /\ Pending(v)' /\ ~run'[v].early => start'[v].pc # "reserved"
                      /\ Verified(v)' /\ ~run'[v].early => start'[v].pc \notin {"STARTING", "RUNNING"}
    BY DEF StartsOK
  <2>1. CASE v = w
    BY <1>2, <2>1 DEF RemovalInv, StartsOK, Pending, Verified
  <2>2. CASE v # w
    BY <1>2, <2>2 DEF RemovalInv, StartsOK, Pending, Verified
  <2> QED
    BY <2>1, <2>2
<1> QED
  BY <1>1, <1>3, <1>4, <1>5

\* One that gives the lease back, as each may.
LEMMA EndKeeps ==
    ASSUME RemovalInv, NEW w \in Worktrees, End(w),
           UNCHANGED <<git, work, head, start, lost, deserted>>
    PROVE  /\ LeaseHeld' /\ GateOK' /\ StartsOK' /\ WorkSurvives'
           /\ run' \in [Worktrees -> Removals] /\ start' \in [Worktrees -> Starts]
           /\ lease' \in [Worktrees -> {"none", "held", "stale"}]
<1>1. start[w] \in Starts /\ start' = [start EXCEPT ![w] = start[w]]
  BY TypeParts DEF RemovalInv
<1>2. Idle \in Removals /\ Idle.stage = "idle" /\ "idle" \notin PastGate
  BY NoneTypes DEF Idle, PastGate
<1>3. run' = [run EXCEPT ![w] = Idle] /\ lease' = [lease EXCEPT ![w] = "none"]
  BY DEF End
<1> HIDE DEF Idle
<1> QED
  BY <1>1, <1>2, <1>3, RemovalKeeps

\* Up to the second analysis.
LEMMA GateStep ==
    ASSUME RemovalInv, NEW w \in Worktrees,
           \/ StartRemoval(w) \/ Analyze(w) \/ StopProcesses(w) \/ VerifyProcesses(w)
           \/ CleanupResources(w) \/ Reanalyze(w)
    PROVE  RemovalInv'
<1>0. TypeOK
  BY DEF RemovalInv
<1>1. /\ start[w] \in Starts /\ start \in [Worktrees -> Starts] /\ NoStart \in Starts
      /\ run[w] \in Removals /\ run \in [Worktrees -> Removals] /\ Idle \in Removals
      /\ resource \in [Worktrees -> BOOLEAN] /\ head[w] \in Nat /\ events \in Nat
      /\ lease \in [Worktrees -> {"none", "held", "stale"}]
  BY <1>0, TypeParts, NoneTypes
<1>2. UNCHANGED <<git, work, head, row, settings, endpoint, listed, lost, deserted>>
  BY DEF StartRemoval, Analyze, StopProcesses, VerifyProcesses, CleanupResources, Reanalyze,
         user, store, history
<1>3. run[w].stage # "idle" => lease[w] = "held"
  BY DEF RemovalInv, LeaseHeld
<1>4. /\ Pending(w) /\ ~run[w].early => start[w].pc # "reserved"
      /\ Verified(w) /\ ~run[w].early => start[w].pc \notin {"STARTING", "RUNNING"}
  BY DEF RemovalInv, StartsOK
<1>5. ASSUME /\ LeaseHeld' /\ GateOK' /\ StartsOK' /\ WorkSurvives'
             /\ run' \in [Worktrees -> Removals] /\ start' \in [Worktrees -> Starts]
             /\ lease' \in [Worktrees -> {"none", "held", "stale"}],
             resource' \in [Worktrees -> BOOLEAN], events' \in Nat
      PROVE  RemovalInv'
  <2>1. TypeOK'
    BY <1>0, <1>2, <1>5 DEF TypeOK, Starts, Removals
  <2> QED
    BY <1>5, <2>1 DEF RemovalInv
\* Giving up.
<1>6. ASSUME End(w), UNCHANGED start, resource' \in [Worktrees -> BOOLEAN], events' \in Nat
      PROVE  RemovalInv'
  BY <1>2, <1>5, <1>6, EndKeeps
\* Going on.
<1>7. ASSUME NEW r \in Removals, NEW s \in Starts,
             run' = [run EXCEPT ![w] = r], lease' = [lease EXCEPT ![w] = "held"],
             start' = [start EXCEPT ![w] = s],
             r.stage \in PastGate => work[w] = {} /\ head[w] = r.head,
             s.pc \in {"STARTING", "RUNNING"} => start[w].pc \in {"STARTING", "RUNNING"},
             ~r.early => s.pc # "reserved",
             r.stage \in {"cleanup-resources", "reanalyze"} \cup PastGate /\ ~r.early =>
                 s.pc \notin {"STARTING", "RUNNING"},
             resource' \in [Worktrees -> BOOLEAN], events' \in Nat
      PROVE  RemovalInv'
  BY <1>2, <1>5, <1>7, RemovalKeeps
<1>8. /\ lease[w] = "held" => lease = [lease EXCEPT ![w] = "held"]
      /\ start = [start EXCEPT ![w] = start[w]]
  BY <1>1
<1>9. CASE StartRemoval(w)
  <2> DEFINE r == [Idle EXCEPT !.stage = "analyze", !.early = start[w].pc = "reserved"]
  <2>1. r \in Removals /\ r.stage = "analyze" /\ (~r.early => start[w].pc # "reserved")
    BY <1>1 DEF Removals, Stages, Idle
  <2>2. /\ run' = [run EXCEPT ![w] = r] /\ lease' = [lease EXCEPT ![w] = "held"]
        /\ start' = [start EXCEPT ![w] = start[w]]
        /\ resource' = resource /\ events' \in Nat
    BY <1>1, <1>8, <1>9 DEF StartRemoval, Event, user
  <2> HIDE DEF r
  <2> QED
    BY <1>1, <1>7, <2>1, <2>2 DEF PastGate
<1>10. CASE Analyze(w)
  <2>1. CASE End(w)
    BY <1>1, <1>6, <1>10, <2>1 DEF Analyze, user
  <2>2. CASE run' = [run EXCEPT ![w].stage = "stop-processes", ![w].head = head[w]] /\ UNCHANGED lease
    <3> DEFINE r == [run[w] EXCEPT !.stage = "stop-processes", !.head = head[w]]
    <3>1. r \in Removals /\ r.stage = "stop-processes" /\ r.early = run[w].early
      BY <1>1 DEF Removals, Stages
    <3>2. run' = [run EXCEPT ![w] = r] /\ UNCHANGED <<start, resource, events>>
          /\ run[w].stage = "analyze"
      BY <1>10, <2>2 DEF Analyze, user
    <3>3. ~r.early => start[w].pc # "reserved"
      BY <1>4, <3>1, <3>2 DEF Pending
    <3> HIDE DEF r
    <3> QED
      BY <1>1, <1>3, <1>7, <1>8, <2>2, <3>1, <3>2, <3>3 DEF PastGate
  <2> QED
    BY <1>10, <2>1, <2>2 DEF Analyze
<1>11. CASE StopProcesses(w)
  <2>1. CASE End(w) /\ UNCHANGED start
    BY <1>1, <1>6, <1>11, <2>1 DEF StopProcesses, user
  <2>2. ASSUME NEW s \in Starts, start' = [start EXCEPT ![w] = s], s.pc \in {"none", "owed", start[w].pc},
               Goto(w, "verify-processes"), UNCHANGED lease
        PROVE  RemovalInv'
    <3> DEFINE r == [run[w] EXCEPT !.stage = "verify-processes"]
    <3>1. r \in Removals /\ r.stage = "verify-processes" /\ r.early = run[w].early
      BY <1>1 DEF Removals, Stages
    <3>2. run' = [run EXCEPT ![w] = r] /\ UNCHANGED <<resource, events>>
          /\ run[w].stage = "stop-processes"
      BY <1>11, <2>2 DEF StopProcesses, Goto, user
    <3>3. ~r.early => s.pc # "reserved"
      BY <1>4, <2>2, <3>1, <3>2 DEF Pending
    <3>4. s.pc \in {"STARTING", "RUNNING"} => start[w].pc \in {"STARTING", "RUNNING"}
      BY <2>2
    <3> HIDE DEF r
    <3> QED
      BY <1>1, <1>3, <1>7, <1>8, <2>2, <3>1, <3>2, <3>3, <3>4 DEF PastGate
  <2>3. ASSUME NEW pc \in {"none", "owed"}, Goto(w, "verify-processes"), UNCHANGED lease,
               start' = [start EXCEPT ![w] = IF pc = "none" THEN NoStart ELSE [@ EXCEPT !.pc = pc]]
        PROVE  RemovalInv'
    <3> DEFINE s == IF pc = "none" THEN NoStart ELSE [start[w] EXCEPT !.pc = pc]
    <3>1. s \in Starts /\ s.pc = pc
      BY <1>1 DEF Starts, StartStates, NoStart
    <3>2. start' = [start EXCEPT ![w] = s]
      BY <2>3
    <3> HIDE DEF s
    <3> QED
      BY <2>2, <2>3, <3>1, <3>2
  <2>4. CASE Goto(w, "verify-processes") /\ UNCHANGED <<lease, start>>
    BY <1>1, <1>8, <2>2, <2>4
  <2> QED
    BY <1>11, <2>1, <2>3, <2>4 DEF StopProcesses
<1>12. CASE VerifyProcesses(w)
  <2>1. CASE End(w)
    BY <1>1, <1>6, <1>12, <2>1 DEF VerifyProcesses, user
  <2>2. CASE ~Residue(w) /\ Goto(w, "cleanup-resources") /\ UNCHANGED lease
    <3> DEFINE r == [run[w] EXCEPT !.stage = "cleanup-resources"]
    <3>1. r \in Removals /\ r.stage = "cleanup-resources" /\ r.early = run[w].early
      BY <1>1 DEF Removals, Stages
    <3>2. run' = [run EXCEPT ![w] = r] /\ UNCHANGED <<start, resource, events>>
          /\ run[w].stage = "verify-processes"
      BY <1>12, <2>2 DEF VerifyProcesses, Goto, user
    <3>3. ~r.early => start[w].pc # "reserved"
      BY <1>4, <3>1, <3>2 DEF Pending
    <3>4. start[w].pc \notin {"STARTING", "RUNNING"}
      BY <2>2 DEF Residue
    <3> HIDE DEF r
    <3> QED
      BY <1>1, <1>3, <1>7, <1>8, <2>2, <3>1, <3>2, <3>3, <3>4 DEF PastGate
  <2> QED
    BY <1>12, <2>1, <2>2 DEF VerifyProcesses
<1>13. CASE CleanupResources(w)
  <2>0. resource' \in [Worktrees -> BOOLEAN] /\ UNCHANGED <<start, events>>
    BY <1>1, <1>13 DEF CleanupResources, End
  <2>1. CASE End(w)
    BY <1>1, <1>6, <2>0, <2>1
  <2>2. CASE Goto(w, "reanalyze") /\ UNCHANGED lease
    <3> DEFINE r == [run[w] EXCEPT !.stage = "reanalyze"]
    <3>1. r \in Removals /\ r.stage = "reanalyze" /\ r.early = run[w].early
      BY <1>1 DEF Removals, Stages
    <3>2. run' = [run EXCEPT ![w] = r] /\ run[w].stage = "cleanup-resources"
      BY <1>13, <2>2 DEF CleanupResources, Goto
    <3>3. ~r.early => start[w].pc # "reserved" /\ start[w].pc \notin {"STARTING", "RUNNING"}
      BY <1>4, <3>1, <3>2 DEF Pending, Verified
    <3> HIDE DEF r
    <3> QED
      BY <1>1, <1>3, <1>7, <1>8, <2>0, <2>2, <3>1, <3>2, <3>3 DEF PastGate
  <2> QED
    BY <1>13, <2>1, <2>2 DEF CleanupResources
<1>14. CASE Reanalyze(w)
  <2>1. CASE End(w)
    BY <1>1, <1>6, <1>14, <2>1 DEF Reanalyze, user
  <2>2. CASE Removable(w) /\ head[w] = run[w].head /\ Goto(w, "release-endpoints") /\ UNCHANGED lease
    <3> DEFINE r == [run[w] EXCEPT !.stage = "release-endpoints"]
    <3>1. r \in Removals /\ r.stage = "release-endpoints" /\ r.early = run[w].early
          /\ r.head = head[w]
      BY <1>1, <2>2 DEF Removals, Stages
    <3>2. run' = [run EXCEPT ![w] = r] /\ UNCHANGED <<start, resource, events>>
          /\ run[w].stage = "reanalyze"
      BY <1>14, <2>2 DEF Reanalyze, Goto, user
    <3>3. ~r.early => start[w].pc # "reserved" /\ start[w].pc \notin {"STARTING", "RUNNING"}
      BY <1>4, <3>1, <3>2 DEF Pending, Verified
    <3>4. work[w] = {}
      BY <2>2 DEF Removable
    <3> HIDE DEF r
    <3> QED
      BY <1>1, <1>3, <1>7, <1>8, <2>2, <3>1, <3>2, <3>3, <3>4
  <2> QED
    BY <1>14, <2>1, <2>2 DEF Reanalyze
<1> QED
  BY <1>9, <1>10, <1>11, <1>12, <1>13, <1>14

\* From the release of the endpoints on, and the death of the removal.
LEMMA AfterGateStep ==
    ASSUME RemovalInv, NEW w \in Worktrees,
           \/ MarkCleaning(w) \/ FindSibling(w) \/ Reassign(w) \/ Release(w)
           \/ ListAfterwards(w) \/ ReconcileAfterwards(w) \/ Crash(w)
    PROVE  RemovalInv'
<1>0. TypeOK
  BY DEF RemovalInv
<1>1. /\ start[w] \in Starts /\ start \in [Worktrees -> Starts]
      /\ run[w] \in Removals /\ run \in [Worktrees -> Removals] /\ Idle \in Removals
      /\ endpoint \in [Worktrees -> Endpoints] /\ settings \in [Worktrees -> BOOLEAN]
      /\ row \in [Worktrees -> {"DISCOVERED", "CLEANING", "ORPHANED"}]
      /\ git[w] \in {"none", "there", "prunable", "gone"} /\ events \in Nat
      /\ lease \in [Worktrees -> {"none", "held", "stale"}]
  BY <1>0, TypeParts, NoneTypes
<1>a. start[w] \in Starts /\ Idle \in Removals
  BY <1>1
<1>b. UNCHANGED <<git, work, head, lost, deserted>>
  BY DEF MarkCleaning, FindSibling, Reassign, Release, ListAfterwards, ReconcileAfterwards,
         Crash, user, history
<1>2. UNCHANGED <<git, work, resource, head, start, listed, lost, deserted>>
  BY DEF MarkCleaning, FindSibling, Reassign, Release, ListAfterwards, ReconcileAfterwards,
         Crash, user, history
<1>3. run[w].stage # "idle" => lease[w] = "held"
  BY DEF RemovalInv, LeaseHeld
<1>4. /\ Pending(w) /\ ~run[w].early => start[w].pc # "reserved"
      /\ Verified(w) /\ ~run[w].early => start[w].pc \notin {"STARTING", "RUNNING"}
  BY DEF RemovalInv, StartsOK
<1>5. ASSUME /\ LeaseHeld' /\ GateOK' /\ StartsOK' /\ WorkSurvives'
             /\ run' \in [Worktrees -> Removals] /\ start' \in [Worktrees -> Starts]
             /\ lease' \in [Worktrees -> {"none", "held", "stale"}],
             row' \in [Worktrees -> {"DISCOVERED", "CLEANING", "ORPHANED"}],
             settings' \in [Worktrees -> BOOLEAN],
             endpoint' \in [Worktrees -> Endpoints], events' \in Nat
      PROVE  RemovalInv'
  <2>1. TypeOK'
    BY <1>0, <1>2, <1>5 DEF TypeOK, Starts, Removals, Endpoints
  <2> QED
    BY <1>5, <2>1 DEF RemovalInv
\* Going on to another stage behind the gate, or to the reading of the list.
<1>6. ASSUME NEW r \in Removals, run' = [run EXCEPT ![w] = r], UNCHANGED lease,
             run[w].stage # "idle", r.late = run[w].late, r.head = run[w].head, r.early = run[w].early,
             \/ run[w].stage \in PastGate /\ r.stage \in PastGate
             \/ run[w].stage \in {"reconcile", "apply"} /\ r.stage \in {"reconcile", "apply"}
      PROVE  /\ LeaseHeld' /\ GateOK' /\ StartsOK' /\ WorkSurvives'
             /\ run' \in [Worktrees -> Removals] /\ start' \in [Worktrees -> Starts]
             /\ lease' \in [Worktrees -> {"none", "held", "stale"}]
  <2>1. lease' = [lease EXCEPT ![w] = "held"] /\ start' = [start EXCEPT ![w] = start[w]]
    BY <1>1, <1>2, <1>3, <1>6
  <2>2. /\ r.stage \notin {"idle", "reconcile", "apply"} /\ ~r.early => start[w].pc # "reserved"
        /\ r.stage \in {"cleanup-resources", "reanalyze"} \cup PastGate /\ ~r.early =>
             start[w].pc \notin {"STARTING", "RUNNING"}
    BY <1>4, <1>6 DEF Pending, Verified, PastGate
  <2>3. r.stage \in PastGate => run[w].stage \in PastGate
    BY <1>6 DEF PastGate
  <2> QED
    BY <1>a, <1>b, <1>6, <2>1, <2>2, <2>3, RemovalKeeps
<1>7. CASE MarkCleaning(w)
  <2> DEFINE r == [run[w] EXCEPT !.stage = "find-sibling"]
  <2>1. /\ r \in Removals /\ r.stage = "find-sibling" /\ r.late = run[w].late
        /\ r.head = run[w].head /\ r.early = run[w].early
    BY <1>1 DEF Removals, Stages
  <2>2. /\ run' = [run EXCEPT ![w] = r] /\ UNCHANGED <<lease, endpoint, events>>
        /\ row' = [row EXCEPT ![w] = "CLEANING"] /\ settings' = [settings EXCEPT ![w] = FALSE]
        /\ run[w].stage = "release-endpoints"
    BY <1>7 DEF MarkCleaning, Goto
  <2> HIDE DEF r
  <2> QED
    BY <1>1, <1>5, <1>6, <2>1, <2>2 DEF PastGate
<1>8. CASE FindSibling(w)
  <2> DEFINE r == [run[w] EXCEPT !.stage = "reassign", !.sibling = Sibling(w)]
  <2>1. /\ r \in Removals /\ r.stage = "reassign" /\ r.late = run[w].late
        /\ r.head = run[w].head /\ r.early = run[w].early
    BY <1>1, MembersAre DEF Removals, Stages
  <2>2. /\ run' = [run EXCEPT ![w] = r] /\ UNCHANGED <<lease, row, settings, endpoint, events>>
        /\ run[w].stage = "find-sibling"
    BY <1>8 DEF FindSibling, store
  <2> HIDE DEF r
  <2> QED
    BY <1>1, <1>5, <1>6, <2>1, <2>2 DEF PastGate
<1>9. CASE Reassign(w)
  <2> DEFINE r == [run[w] EXCEPT !.stage = "release", !.sibling = None]
  <2>1. /\ r \in Removals /\ r.stage = "release" /\ r.late = run[w].late
        /\ r.head = run[w].head /\ r.early = run[w].early
    BY <1>1 DEF Removals, Stages
  <2>2. /\ run' = [run EXCEPT ![w] = r] /\ UNCHANGED <<lease, row, settings, events>>
        /\ run[w].stage = "reassign"
    BY <1>9 DEF Reassign
  <2>3. endpoint' \in [Worktrees -> Endpoints]
    <3>1. run[w].sibling \in Worktrees \cup {None}
      BY <1>1 DEF Removals
    <3>2. CASE run[w].sibling = None
      BY <1>1, <1>9, <3>2 DEF Reassign
    <3>3. CASE run[w].sibling # None
      <4>1. endpoint' = Reassigned(endpoint, w, run[w].sibling) /\ run[w].sibling \in Worktrees
        BY <1>9, <3>1, <3>3 DEF Reassign
      <4> QED
        BY <1>1, <4>1, EndpointTypes
    <3> QED
      BY <3>2, <3>3
  <2> HIDE DEF r
  <2> QED
    BY <1>1, <1>5, <1>6, <2>1, <2>2, <2>3 DEF PastGate
<1>10. CASE Release(w)
  <2> DEFINE r == [run[w] EXCEPT !.stage = "git-remove"]
  <2>1. /\ r \in Removals /\ r.stage = "git-remove" /\ r.late = run[w].late
        /\ r.head = run[w].head /\ r.early = run[w].early
    BY <1>1 DEF Removals, Stages
  <2>2. /\ run' = [run EXCEPT ![w] = r] /\ UNCHANGED <<lease, row, settings, events>>
        /\ run[w].stage = "release" /\ endpoint' = Released(endpoint, w)
    BY <1>10 DEF Release, Goto
  <2>3. endpoint' \in [Worktrees -> Endpoints]
    BY <1>1, <2>2, EndpointTypes
  <2> HIDE DEF r
  <2> QED
    BY <1>1, <1>5, <1>6, <2>1, <2>2, <2>3 DEF PastGate
<1>11. CASE ListAfterwards(w)
  <2> DEFINE r == [run[w] EXCEPT !.stage = "apply", !.snapshot = git[w]]
  <2>1. /\ r \in Removals /\ r.stage = "apply" /\ r.late = run[w].late
        /\ r.head = run[w].head /\ r.early = run[w].early
    BY <1>1 DEF Removals, Stages
  <2>2. /\ run' = [run EXCEPT ![w] = r] /\ UNCHANGED <<lease, row, settings, endpoint, events>>
        /\ run[w].stage = "reconcile"
    BY <1>11 DEF ListAfterwards, store
  <2> HIDE DEF r
  <2> QED
    BY <1>1, <1>5, <1>6, <2>1, <2>2 DEF PastGate
<1>12. CASE ReconcileAfterwards(w)
  <2>1. End(w) /\ UNCHANGED settings
    BY <1>12 DEF ReconcileAfterwards
  <2>2. /\ endpoint' \in [Worktrees -> Endpoints] /\ events' \in Nat
        /\ row' \in [Worktrees -> {"DISCOVERED", "CLEANING", "ORPHANED"}]
    <3>1. CASE Reconcile(w, run[w].snapshot) /\ UNCHANGED events
      BY <1>1, <3>1, ReconcileTypes
    <3>2. CASE Event /\ UNCHANGED <<row, endpoint>>
      BY <1>1, <3>2 DEF Event
    <3> QED
      BY <1>12, <3>1, <3>2 DEF ReconcileAfterwards
  <2> QED
    BY <1>1, <1>2, <1>5, <2>1, <2>2, EndKeeps
<1>13. CASE Crash(w)
  <2>1. /\ run' = [run EXCEPT ![w] = Idle] /\ lease' = [lease EXCEPT ![w] = "stale"]
        /\ UNCHANGED <<row, settings, endpoint>> /\ events' \in Nat
        /\ start' = [start EXCEPT ![w] = start[w]]
    BY <1>1, <1>2, <1>13 DEF Crash, Event, store
  <2>2. Idle.stage = "idle" /\ "idle" \notin PastGate
    BY DEF Idle, PastGate
  <2> HIDE DEF Idle
  <2>3. /\ LeaseHeld' /\ GateOK' /\ StartsOK' /\ WorkSurvives'
        /\ run' \in [Worktrees -> Removals] /\ start' \in [Worktrees -> Starts]
        /\ lease' \in [Worktrees -> {"none", "held", "stale"}]
    BY <1>a, <1>b, <2>1, <2>2, RemovalKeeps
  <2> QED
    BY <1>1, <1>5, <2>1, <2>3
<1> QED
  BY <1>7, <1>8, <1>9, <1>10, <1>11, <1>12, <1>13

\* Git deletes the worktree, or refuses.
LEMMA GitRemoveStep ==
    ASSUME RemovalInv, NEW w \in Worktrees, GitRemove(w)
    PROVE  RemovalInv'
<1>0. TypeOK
  BY DEF RemovalInv
<1>1. /\ start \in [Worktrees -> Starts] /\ run \in [Worktrees -> Removals] /\ Idle \in Removals
      /\ git \in [Worktrees -> {"there", "prunable", "gone"}]
      /\ work \in [Worktrees -> SUBSET Blockers] /\ resource \in [Worktrees -> BOOLEAN]
      /\ lease \in [Worktrees -> {"none", "held", "stale"}]
      /\ lost \in [Worktrees -> SUBSET (Blockers \cup {"identity"})]
      /\ deserted \in [Worktrees -> BOOLEAN] /\ run[w] \in Removals
  BY <1>0, TypeParts, NoneTypes
<1>2. run[w].stage = "git-remove"
      /\ UNCHANGED <<head, row, settings, endpoint, start, listed, events>>
  BY DEF GitRemove, store
<1>3. CASE End(w) /\ UNCHANGED <<git, work, resource, lost, deserted>>
  <2>1. /\ LeaseHeld' /\ GateOK' /\ StartsOK' /\ WorkSurvives'
        /\ run' \in [Worktrees -> Removals] /\ start' \in [Worktrees -> Starts]
        /\ lease' \in [Worktrees -> {"none", "held", "stale"}]
    BY <1>2, <1>3, EndKeeps
  <2>2. TypeOK'
    BY <1>0, <1>2, <1>3, <2>1 DEF TypeOK, Starts, Removals
  <2> QED
    BY <2>1, <2>2 DEF RemovalInv
<1>4. ASSUME git' = [git EXCEPT ![w] = "gone"],
             lost' = [lost EXCEPT ![w] = @ \cup (work[w] \ run[w].late)
                        \cup IF head[w] # run[w].head /\ "commit" \notin run[w].late
                             THEN {"identity"} ELSE {}],
             work' = [work EXCEPT ![w] = {}],
             resource' = [resource EXCEPT ![w] = FALSE],
             deserted' = [deserted EXCEPT ![w] = ~run[w].early],
             run' = [run EXCEPT ![w] = [Idle EXCEPT !.stage = "reconcile"]],
             UNCHANGED lease
      PROVE  RemovalInv'
  \* What is lost came after the second analysis.
  <2>1. work[w] \subseteq run[w].late /\ (head[w] # run[w].head => "commit" \in run[w].late)
    BY <1>2 DEF RemovalInv, GateOK, PastGate
  <2>2. lost[w] = {} /\ \A v \in Worktrees : lost[v] = {}
    BY DEF RemovalInv, WorkSurvives
  <2>3. lost' = lost
    <3>1. lost' = [lost EXCEPT ![w] = {}]
      BY <1>4, <2>1, <2>2
    <3> QED
      BY <1>1, <2>2, <3>1
  <2> DEFINE r == [Idle EXCEPT !.stage = "reconcile"]
  <2>4. r \in Removals /\ r.stage = "reconcile"
    BY <1>1 DEF Removals, Stages, Idle
  <2>5. run' = [run EXCEPT ![w] = r]
    BY <1>4
  <2> HIDE DEF r
  <2>6. /\ run'[w] = r /\ git'[w] = "gone" /\ work'[w] = {} /\ deserted'[w] = ~run[w].early
        /\ \A v \in Worktrees \ {w} : /\ run'[v] = run[v] /\ git'[v] = git[v]
                                      /\ work'[v] = work[v] /\ deserted'[v] = deserted[v]
        /\ run' \in [Worktrees -> Removals]
    BY <1>1, <1>4, <2>4, <2>5
  <2>7. LeaseHeld' /\ WorkSurvives'
    BY <1>2, <1>4, <2>2, <2>3, <2>6 DEF RemovalInv, LeaseHeld, WorkSurvives
  <2>8. GateOK'
    BY <1>2, <2>4, <2>6 DEF RemovalInv, GateOK, PastGate
  <2>9. StartsOK'
    <3>1. ~run[w].early => start[w].pc \notin {"STARTING", "RUNNING"}
      BY <1>2 DEF RemovalInv, StartsOK, Verified, PastGate
    <3>2. \A v \in Worktrees \ {w} : (Pending(v)' <=> Pending(v)) /\ (Verified(v)' <=> Verified(v))
      BY <2>6 DEF Pending, Verified
    <3>3. ~Pending(w)' /\ ~Verified(w)'
      BY <2>4, <2>6 DEF Pending, Verified, PastGate
    <3> QED
      BY <1>2, <2>6, <3>1, <3>2, <3>3 DEF RemovalInv, StartsOK
  <2>10. TypeOK'
    BY <1>0, <1>1, <1>2, <1>4, <2>3, <2>6 DEF TypeOK, Removals
  <2> QED
    BY <2>7, <2>8, <2>9, <2>10 DEF RemovalInv
<1> QED
  BY <1>3, <1>4 DEF GitRemove, history

-----------------------------------------------------------------------------
\* The rest of the world.

LEMMA WorldStep ==
    ASSUME RemovalInv, NEW w \in Worktrees,
           \/ Reconciling(w) \/ Vanish(w) \/ Prune(w) \/ Return(w)
           \/ \E k \in Written : Write(w, k) \/ Settle(w, k)
    PROVE  RemovalInv'
<1>0. TypeOK /\ LeaseHeld /\ GateOK /\ StartsOK /\ WorkSurvives
  BY DEF RemovalInv
<1>1. /\ git \in [Worktrees -> {"there", "prunable", "gone"}]
      /\ work \in [Worktrees -> SUBSET Blockers] /\ resource \in [Worktrees -> BOOLEAN]
      /\ head \in [Worktrees -> Nat] /\ run \in [Worktrees -> Removals]
      /\ endpoint \in [Worktrees -> Endpoints]
      /\ row \in [Worktrees -> {"DISCOVERED", "CLEANING", "ORPHANED"}]
      /\ deserted \in [Worktrees -> BOOLEAN] /\ events \in Nat
      /\ listed \in [Worktrees -> {"none", "there", "prunable", "gone"}]
  BY <1>0, TypeParts
<1>2. UNCHANGED <<lease, start, settings, lost>>
  BY DEF Reconciling, DaemonLists, DaemonReconciles, Vanish, Prune, Return, Write, Settle,
         store, history
\* The daemon's passes.
<1>3. CASE Reconciling(w)
  <2>1. UNCHANGED <<git, work, resource, head, run, deserted, events>>
    BY <1>3 DEF Reconciling, DaemonLists, DaemonReconciles, user, history
  <2>2. /\ endpoint' \in [Worktrees -> Endpoints]
        /\ row' \in [Worktrees -> {"DISCOVERED", "CLEANING", "ORPHANED"}]
        /\ listed' \in [Worktrees -> {"none", "there", "prunable", "gone"}]
    <3>1. CASE DaemonLists(w)
      BY <1>1, <3>1 DEF DaemonLists, store
    <3>2. CASE DaemonReconciles(w)
      BY <1>1, <3>2, ReconcileTypes DEF DaemonReconciles
    <3> QED
      BY <1>3, <3>1, <3>2 DEF Reconciling
  <2>3. LeaseHeld' /\ GateOK' /\ StartsOK' /\ WorkSurvives'
    BY <1>0, <1>2, <2>1 DEF LeaseHeld, GateOK, StartsOK, WorkSurvives, Pending, Verified
  <2>4. TypeOK'
    BY <1>0, <1>2, <2>1, <2>2 DEF TypeOK, Endpoints
  <2> QED
    BY <2>3, <2>4 DEF RemovalInv
\* What is written behind the gate is written late.
<1>4. ASSUME NEW k \in Written, Write(w, k)
      PROVE  RemovalInv'
  <2>1. k \in Blockers
    BY WrittenAssumption DEF Blockers
  <2>2. UNCHANGED <<git, resource, row, endpoint, listed, deserted>> /\ events' \in Nat
    BY <1>1, <1>4 DEF Write, Event, store, history
  <2>3. /\ work' = [work EXCEPT ![w] = work[w] \cup {k}]
        /\ head' = IF k = "commit" THEN [head EXCEPT ![w] = head[w] + 1] ELSE head
        /\ run' = IF run[w].stage \in PastGate THEN [run EXCEPT ![w].late = run[w].late \cup {k}]
                  ELSE run
    BY <1>4 DEF Write
  <2> DEFINE r == IF run[w].stage \in PastGate THEN [run[w] EXCEPT !.late = run[w].late \cup {k}]
                  ELSE run[w]
  <2>4. /\ r \in Removals /\ r.stage = run[w].stage /\ r.head = run[w].head
        /\ r.early = run[w].early
        /\ run[w].stage \in PastGate => r.late = run[w].late \cup {k}
    BY <1>1, <2>1 DEF Removals
  <2>5. run' = [run EXCEPT ![w] = r]
    BY <1>1, <2>3
  <2> HIDE DEF r
  <2>6. /\ run'[w] = r /\ work'[w] = work[w] \cup {k} /\ (k # "commit" => head'[w] = head[w])
        /\ \A v \in Worktrees \ {w} : run'[v] = run[v] /\ work'[v] = work[v] /\ head'[v] = head[v]
        /\ run' \in [Worktrees -> Removals] /\ work' \in [Worktrees -> SUBSET Blockers]
        /\ head' \in [Worktrees -> Nat]
    <3>1. /\ run'[w] = r /\ run' \in [Worktrees -> Removals]
          /\ \A v \in Worktrees \ {w} : run'[v] = run[v]
      BY <1>1, <2>4, <2>5
    <3>2. /\ work'[w] = work[w] \cup {k} /\ \A v \in Worktrees \ {w} : work'[v] = work[v]
          /\ work' \in [Worktrees -> SUBSET Blockers]
      BY <1>1, <2>1, <2>3
    <3>3. head[w] + 1 \in Nat
      BY <1>1
    <3>4. /\ (k # "commit" => head'[w] = head[w]) /\ \A v \in Worktrees \ {w} : head'[v] = head[v]
          /\ head' \in [Worktrees -> Nat]
      BY <1>1, <2>3, <3>3
    <3> QED
      BY <3>1, <3>2, <3>4
  <2>7. LeaseHeld' /\ WorkSurvives' /\ StartsOK'
    BY <1>0, <1>2, <2>2, <2>4, <2>6 DEF LeaseHeld, WorkSurvives, StartsOK, Pending, Verified
  <2>8. GateOK'
    <3> SUFFICES ASSUME NEW v \in Worktrees, run'[v].stage \in PastGate
                 PROVE  /\ work'[v] \subseteq run'[v].late
                        /\ head'[v] # run'[v].head => "commit" \in run'[v].late
      BY DEF GateOK
    <3>1. CASE v = w
      BY <1>0, <2>4, <2>6, <3>1 DEF GateOK
    <3>2. CASE v # w
      BY <1>0, <2>6, <3>2 DEF GateOK
    <3> QED
      BY <3>1, <3>2
  <2>9. TypeOK'
    BY <1>0, <1>2, <2>2, <2>6 DEF TypeOK, Removals
  <2> QED
    BY <2>7, <2>8, <2>9 DEF RemovalInv
<1>5. ASSUME NEW k \in Written, Settle(w, k)
      PROVE  RemovalInv'
  <2>1. UNCHANGED <<git, resource, row, endpoint, listed, deserted, head, run, events>>
        /\ work' = [work EXCEPT ![w] = work[w] \ {k}]
    BY <1>5 DEF Settle, store, history
  <2>2. work' \in [Worktrees -> SUBSET Blockers] /\ \A v \in Worktrees : work'[v] \subseteq work[v]
    BY <1>1, <2>1
  <2>3. LeaseHeld' /\ WorkSurvives' /\ StartsOK'
    BY <1>0, <1>2, <2>1 DEF LeaseHeld, WorkSurvives, StartsOK, Pending, Verified
  <2>4. GateOK'
    BY <1>0, <2>1, <2>2 DEF GateOK
  <2>5. TypeOK'
    BY <1>0, <1>2, <2>1, <2>2 DEF TypeOK
  <2> QED
    BY <2>3, <2>4, <2>5 DEF RemovalInv
\* A worktree disappears.
<1>6. CASE Vanish(w) \/ Prune(w)
  <2>1. UNCHANGED <<row, endpoint, listed, head, run, deserted>>
    BY <1>6 DEF Vanish, Prune, user, store, history
  <2>2. /\ git' \in [Worktrees -> {"there", "prunable", "gone"}]
        /\ \A v \in Worktrees : git'[v] = "there" => git[v] = "there"
    BY <1>1, <1>6 DEF Vanish, Prune
  <2>3. /\ work' \in [Worktrees -> SUBSET Blockers] /\ resource' \in [Worktrees -> BOOLEAN]
        /\ \A v \in Worktrees : work'[v] \subseteq work[v]
        /\ events' \in Nat
    <3>1. CASE Vanish(w)
      <4>1. /\ work' = [work EXCEPT ![w] = {}] /\ resource' = [resource EXCEPT ![w] = FALSE]
            /\ events' = events + 1
        BY <3>1 DEF Vanish, Event
      <4> QED
        BY <1>1, <4>1
    <3>2. CASE Prune(w)
      BY <1>1, <3>2 DEF Prune, user
    <3> QED
      BY <1>6, <3>1, <3>2
  <2>4. LeaseHeld' /\ WorkSurvives' /\ StartsOK'
    BY <1>0, <1>2, <2>1, <2>2 DEF LeaseHeld, WorkSurvives, StartsOK, Pending, Verified
  <2>5. GateOK'
    BY <1>0, <2>1, <2>3 DEF GateOK
  <2>6. TypeOK'
    BY <1>0, <1>2, <2>1, <2>2, <2>3 DEF TypeOK
  <2> QED
    BY <2>4, <2>5, <2>6 DEF RemovalInv
\* And is checked out again.
<1>7. CASE Return(w)
  <2>1. /\ UNCHANGED <<work, resource, head, row, endpoint, listed, run>> /\ events' \in Nat
        /\ git' = [git EXCEPT ![w] = "there"] /\ deserted' = [deserted EXCEPT ![w] = FALSE]
    BY <1>1, <1>7 DEF Return, Event, user, store
  <2>2. LeaseHeld' /\ WorkSurvives' /\ GateOK'
    BY <1>0, <1>2, <2>1 DEF LeaseHeld, WorkSurvives, GateOK
  <2>3. /\ deserted'[w] = FALSE
        /\ \A v \in Worktrees \ {w} : deserted'[v] = deserted[v] /\ git'[v] = git[v]
        /\ git' \in [Worktrees -> {"there", "prunable", "gone"}]
        /\ deserted' \in [Worktrees -> BOOLEAN]
    BY <1>1, <2>1
  <2>4. StartsOK'
    BY <1>0, <1>2, <2>1, <2>3 DEF StartsOK, Pending, Verified
  <2>5. TypeOK'
    BY <1>0, <1>2, <2>1, <2>3 DEF TypeOK
  <2> QED
    BY <2>2, <2>4, <2>5 DEF RemovalInv
<1> QED
  BY <1>3, <1>4, <1>5, <1>6, <1>7

-----------------------------------------------------------------------------
LEMMA RemovalInvInit == Init => RemovalInv
<1> SUFFICES ASSUME Init
             PROVE  RemovalInv
  OBVIOUS
<1>1. LeaseHeld /\ GateOK
  BY DEF Init, LeaseHeld, GateOK, Idle, PastGate
<1>2. StartsOK /\ WorkSurvives
  BY DEF Init, StartsOK, WorkSurvives, Pending, Verified, Idle, NoStart, PastGate
<1>3. TypeOK
  <2>1. NoEndpoint \in Endpoints
    BY DEF Endpoints
  <2>2. /\ endpoint \in [Worktrees -> Endpoints] /\ start \in [Worktrees -> Starts]
        /\ run \in [Worktrees -> Removals]
    BY <2>1, NoneTypes DEF Init
  <2> QED
    BY <2>2, TypeParts DEF Init
<1> QED
  BY <1>1, <1>2, <1>3 DEF RemovalInv

LEMMA RemovalInvStep == RemovalInv /\ [Next]_vars => RemovalInv'
<1> SUFFICES ASSUME RemovalInv, [Next]_vars
             PROVE  RemovalInv'
  OBVIOUS
<1>1. ASSUME NEW w \in Worktrees, StartRequest(w) \/ Starting(w) \/ TaskEnds(w)
      PROVE  RemovalInv'
  BY <1>1, StartingStep
<1>2. ASSUME NEW w \in Worktrees, StartRemoval(w) \/ Removing(w) \/ Crash(w)
      PROVE  RemovalInv'
  BY <1>2, GateStep, AfterGateStep, GitRemoveStep DEF Removing
<1>3. ASSUME NEW w \in Worktrees,
             \/ Reconciling(w) \/ Vanish(w) \/ Prune(w) \/ Return(w)
             \/ \E k \in Written : Write(w, k) \/ Settle(w, k)
      PROVE  RemovalInv'
  BY <1>3, WorldStep
<1>4. CASE UNCHANGED vars
  BY <1>4 DEF RemovalInv, TypeOK, LeaseHeld, GateOK, StartsOK, WorkSurvives, Pending, Verified,
              vars, user, store, history
<1> QED
  BY <1>1, <1>2, <1>3, <1>4 DEF Next

\* A removal holds its lease to its end; what stands in a worktree behind the gate came after
\* it; a start the lease met no reservation of is not recorded until the lease is given back
\* (executeRemoval, reserveManagedProcessStart).
THEOREM RemovalInvHolds == Spec => []RemovalInv
<1> QED
  BY RemovalInvInit, RemovalInvStep, PTL DEF Spec

\* Every row and local keeps its shape.
THEOREM TypeOKHolds == Spec => []TypeOK
<1>1. RemovalInv => TypeOK
  BY DEF RemovalInv
<1> QED
  BY <1>1, RemovalInvHolds, PTL

\* Nothing the user had in the worktree when the second analysis looked is deleted with it,
\* and what is deleted is the commit the first analysis saw: assertRemovable and
\* assertIdentityUnchanged, for any number of worktrees, writers and deaths.
THEOREM WorkSurvivesHolds == Spec => []WorkSurvives
<1>1. RemovalInv => WorkSurvives
  BY DEF RemovalInv
<1> QED
  BY <1>1, RemovalInvHolds, PTL

\* A task in a worktree a removal deleted had its start reserved before the removal took its
\* lease: reserveManagedProcessStart refuses under it, verifyManagedProcessesStopped reads
\* the records of the rest.
THEOREM NoStartUnderLeaseHolds == Spec => []NoStartUnderLease
<1>1. RemovalInv => NoStartUnderLease
  BY DEF RemovalInv, StartsOK, NoStartUnderLease
<1> QED
  BY <1>1, RemovalInvHolds, PTL
=============================================================================

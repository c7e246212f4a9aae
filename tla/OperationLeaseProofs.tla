------------------------ MODULE OperationLeaseProofs ------------------------
(***************************************************************************)
(* Proofs about the repository-operation lease, for any number of runs,    *)
(* repositories, hosts and PIDs and any bounds.                            *)
(***************************************************************************)
EXTENDS OperationLease, TLAPS

\* What a run without a session remembers is a session value.
LEMMA NoSessionType == NoSession \in Sessions
BY DEF NoSession, Sessions, Operations

\* Dropping the locals of an attempt leaves a well-formed session.
LEMMA EndAttemptType ==
    ASSUME TypeOK, NEW p \in Procs
    PROVE  EndAttempt(p) \in Sessions
BY DEF TypeOK, EndAttempt, Sessions

\* What one granted acquisition inserts is a row.
LEMMA NewRowType ==
    ASSUME TypeOK, NEW p \in Procs, NEW r \in Repos
    PROVE  NewRow(p, r) \in Rows
<1>1. session[p] \in Sessions
  BY DEF TypeOK
<1>2. InheritedStage(p, r) \in Nat
  <2>1. CASE \E row \in RowsOf(p, r) : row.op = session[p].op
    <3>1. PICK row \in RowsOf(p, r) : 
             row = CHOOSE x \in RowsOf(p, r) : x.op = session[p].op
      BY <2>1
    <3>2. row \in Rows
      BY <3>1 DEF RowsOf, TypeOK
    <3> QED
      BY <2>1, <3>1, <3>2 DEF InheritedStage, Rows
  <2>2. CASE ~ \E row \in RowsOf(p, r) : row.op = session[p].op
    BY <2>2 DEF InheritedStage
  <2> QED
    BY <2>1, <2>2
<1> QED
  BY <1>1, <1>2, BoundsAssumption DEF NewRow, Rows, Sessions

-----------------------------------------------------------------------------
\* The program starts with well-formed tables and no run.
LEMMA InitType == Init => TypeOK
BY NoSessionType DEF Init, TypeOK, Phases

\* Each step of a run, of the clock and of the other users of the store keeps the types.
LEMMA StepType == TypeOK /\ [Next]_vars => TypeOK'
<1> SUFFICES ASSUME TypeOK, [Next]_vars PROVE TypeOK'
  OBVIOUS
<1> USE NoSessionType, EndAttemptType
<1>1. ASSUME NEW p \in Procs, Start(p) PROVE TypeOK'
  <2>1. PICK op \in Operations, adopt \in BOOLEAN, want \in SUBSET Repos :
           session' = [session EXCEPT ![p] = [NoSession EXCEPT
                           !.op = op, !.adopt = adopt, !.want = want, !.ids = registration]]
    BY <1>1 DEF Start
  <2>2. [NoSession EXCEPT !.op = op, !.adopt = adopt, !.want = want, !.ids = registration] \in Sessions
    BY DEF TypeOK, Sessions
  <2> QED
    BY <1>1, <2>1, <2>2 DEF Start, TypeOK, Phases
<1>2. ASSUME NEW p \in Procs, List(p) PROVE TypeOK'
  <2>1. PICK r \in Repos :
           session' = [session EXCEPT
                          ![p].now = clock,
                          ![p].observed = {row \in RowsOf(p, r) : Expired(row, clock)},
                          ![p].measured = {}]
    BY <1>2 DEF List
  <2>2. {row \in RowsOf(p, r) : Expired(row, clock)} \subseteq Rows
    BY DEF RowsOf, TypeOK
  <2>3. session'[p] \in Sessions
    BY <2>1, <2>2 DEF TypeOK, Sessions
  <2> QED
    BY <1>2, <2>1, <2>3 DEF List, TypeOK, Phases
<1>3. ASSUME NEW p \in Procs, Measure(p) PROVE TypeOK'
  <2>1. PICK row \in session[p].observed :
         session' = [session EXCEPT
                       ![p].observed = @ \ {row},
                       ![p].measured = @ \cup {<<row, LivenessOf(p, row.owner)>>}]
    BY <1>3 DEF Measure
  <2>2. LivenessOf(p, row.owner) \in Verdicts
    BY DEF LivenessOf, Verdicts
  <2>3. row \in Rows
    BY DEF TypeOK, Sessions
  <2> DEFINE obs == session[p].observed \ {row}
             mea == session[p].measured \cup {<<row, LivenessOf(p, row.owner)>>}
  <2>4. obs \in SUBSET Rows /\ mea \in SUBSET (Rows \X Verdicts)
    BY <2>2, <2>3 DEF TypeOK, Sessions
  <2>5. session' = [session EXCEPT ![p] = [session[p] EXCEPT !.observed = obs, !.measured = mea]]
    BY <2>1 DEF TypeOK, Sessions
  <2> HIDE DEF obs, mea
  <2>6. session' \in [Procs -> Sessions]
    BY <2>4, <2>5 DEF TypeOK, Sessions
  <2> QED
    BY <1>3, <2>6 DEF Measure, TypeOK
<1>4. ASSUME NEW p \in Procs, MeasureFails(p) PROVE TypeOK'
  BY <1>4 DEF MeasureFails, TypeOK, Phases
<1>5. ASSUME NEW p \in Procs, NEW r \in Repos, AcquireGranted(p, r) PROVE TypeOK'
  <2>1. [EndAttempt(p) EXCEPT !.held = @ \cup {r}, !.attempt = 0] \in Sessions
    BY DEF Sessions
  <2>2. leases' \subseteq Rows
    BY <1>5, NewRowType DEF AcquireGranted, TypeOK
  <2> QED
    BY <1>5, <2>1, <2>2 DEF AcquireGranted, TypeOK, Phases
<1>6. ASSUME NEW p \in Procs, NEW r \in Repos, AcquireRetry(p, r) PROVE TypeOK'
  <2>1. [EndAttempt(p) EXCEPT !.attempt = @ + 1] \in Sessions
    BY DEF Sessions
  <2> QED
    BY <1>6, <2>1 DEF AcquireRetry, TypeOK, Phases
<1>7. ASSUME NEW p \in Procs, NEW r \in Repos, AcquireRefused(p, r) PROVE TypeOK'
  BY <1>7 DEF AcquireRefused, TypeOK, Phases
<1>8. ASSUME NEW p \in Procs, Advance(p) PROVE TypeOK'
  <2>1. PICK r \in session[p].held :
         IF HasRow(p, r)
         THEN /\ leases' = {IF IsOwnRow(row, p, r)
                            THEN [row EXCEPT !.stage = session[p].stage + 1] ELSE row
                              : row \in leases}
              /\ session' = [session EXCEPT ![p].stage = @ + 1]
              /\ UNCHANGED phase
         ELSE /\ phase' = [phase EXCEPT ![p] = "unwind"]
              /\ UNCHANGED <<leases, session>>
    BY <1>8 DEF Advance
  <2>0. session[p].stage + 1 \in Nat
    BY DEF TypeOK, Sessions
  <2>2. \A row \in leases : [row EXCEPT !.stage = session[p].stage + 1] \in Rows
    BY <2>0 DEF TypeOK, Rows
  <2>3. CASE HasRow(p, r)
    <3>1. leases' \subseteq Rows
      BY <2>1, <2>2, <2>3 DEF TypeOK
    <3> DEFINE next == session[p].stage + 1
    <3>a. session' = [session EXCEPT ![p] = [session[p] EXCEPT !.stage = next]]
      BY <2>1, <2>3
    <3>b. next \in Nat
      BY <2>0
    <3> HIDE DEF next
    <3>c. [session[p] EXCEPT !.stage = next] \in Sessions
      BY <3>b DEF TypeOK, Sessions
    <3>2. session' \in [Procs -> Sessions]
      BY <3>a, <3>c DEF TypeOK
    <3> QED
      BY <1>8, <2>1, <2>3, <3>1, <3>2 DEF Advance, TypeOK
  <2>4. CASE ~HasRow(p, r)
    BY <1>8, <2>1, <2>4 DEF Advance, TypeOK, Phases
  <2> QED
    BY <2>3, <2>4
<1>9. ASSUME NEW p \in Procs, RenewAll(p) PROVE TypeOK'
  <2>1. \A row \in leases : [row EXCEPT !.expires = clock + TTL] \in Rows
    BY BoundsAssumption DEF TypeOK, Rows
  <2>2. leases' \subseteq Rows
    BY <1>9, <2>1 DEF RenewAll, TypeOK
  <2> QED
    BY <1>9, <2>2 DEF RenewAll, TypeOK, Phases
<1>10. ASSUME NEW p \in Procs, Finish(p) PROVE TypeOK'
  BY <1>10 DEF Finish, TypeOK, Phases
<1>11. ASSUME NEW p \in Procs, Release(p) PROVE TypeOK'
  <2>1. PICK r \in session[p].held :
         /\ leases' = {row \in leases : ~IsOwnRow(row, p, r)}
         /\ session' = [session EXCEPT ![p].held = @ \ {r}]
    BY <1>11 DEF Release
  <2>2. session' \in [Procs -> Sessions]
    BY <2>1 DEF TypeOK, Sessions
  <2> QED
    BY <1>11, <2>1, <2>2 DEF Release, TypeOK
<1>12. ASSUME NEW p \in Procs, Exit(p) \/ Crash(p) PROVE TypeOK'
  BY <1>12 DEF Exit, Crash, TypeOK, Phases
<1>13. ASSUME Tick PROVE TypeOK'
  BY <1>13 DEF Tick, TypeOK
<1>14. ASSUME NEW r \in Repos, Forget(r) \/ Register(r) PROVE TypeOK'
  <2>1. CASE Forget(r)
    BY <2>1 DEF Forget, TypeOK
  <2>2. CASE Register(r)
    <3>1. registration[r] + 1 \in Nat
      BY DEF TypeOK
    <3> QED
      BY <2>2, <3>1 DEF Register, TypeOK
  <2> QED
    BY <1>14, <2>1, <2>2
<1>15. ASSUME NEW r \in Repos, EnqueueHeavyJob(r) \/ HeavyJobsDrained(r) PROVE TypeOK'
  BY <1>15 DEF EnqueueHeavyJob, HeavyJobsDrained, TypeOK
<1>16. CASE UNCHANGED vars
  BY <1>16 DEF vars, TypeOK
<1> QED
  BY <1>1, <1>2, <1>3, <1>4, <1>5, <1>6, <1>7, <1>8, <1>9, <1>10, <1>11, <1>12, <1>13,
     <1>14, <1>15, <1>16 DEF Next, Step

\* Every row, session and clock value keeps its shape along every behaviour of the
\* lease protocol (acquireRepositoryOperationLease, withRepositoryOperationLease).
THEOREM TypeCorrect == Spec => []TypeOK
BY InitType, StepType, PTL DEF Spec

-----------------------------------------------------------------------------
\* What mutual exclusion rests on in a row; its expiry and its journal do not matter.
SameHold(a, b) == a.repo = b.repo /\ a.reg = b.reg /\ a.op = b.op /\ a.owner = b.owner

SameHolds ==
    /\ \A row \in leases' : \E old \in leases : SameHold(row, old)
    /\ \A old \in leases : \E row \in leases' : SameHold(row, old)

\* A step that leaves the holds and the registrations alone, starts runs without any lease
\* and keeps what the others hold preserves the invariant.
LEMMA Frame ==
    ASSUME LeaseInv, TypeOK', SameHolds,
           UNCHANGED <<registration, registered, heavyJobs>>,
           \A q \in Procs : phase[q] = "dead" => phase'[q] = "dead",
           \A q \in Procs : phase[q] # "unborn" => phase'[q] # "unborn",
           \A q \in Procs : Live(q)' =>
               \/ phase[q] = "unborn" /\ session'[q].held = {}
               \/ /\ Live(q)
                  /\ session'[q].held = session[q].held
                  /\ session'[q].ids = session[q].ids
                  /\ session'[q].op = session[q].op,
           GoneIsDead', IdsArePast'
    PROVE  LeaseInv'
<1>1. RowsAreCurrent'
  BY DEF LeaseInv, RowsAreCurrent, SameHolds, SameHold, TypeOK, Rows
<1>2. RowsAreOwned'
  <2> SUFFICES ASSUME NEW row \in leases'
               PROVE  /\ phase'[row.owner] # "unborn"
                      /\ Live(row.owner)' => /\ row.op = session'[row.owner].op
                                             /\ row.reg = session'[row.owner].ids[row.repo]
                                             /\ row.repo \in session'[row.owner].held
    BY DEF RowsAreOwned
  <2>1. PICK old \in leases : SameHold(row, old)
    BY DEF SameHolds
  <2>2. old.owner \in Procs /\ row.owner = old.owner
    BY <2>1 DEF SameHold, LeaseInv, TypeOK, Rows
  <2>3. phase[old.owner] # "unborn"
    BY DEF LeaseInv, RowsAreOwned
  <2> QED
    BY <2>1, <2>2, <2>3 DEF SameHold, LeaseInv, RowsAreOwned
<1>3. HoldersHaveRows'
  <2> SUFFICES ASSUME NEW p \in Procs, NEW r \in Repos,
                      Inside(p, r, registration[r])', registered'[r]
               PROVE  HasRow(p, r)'
    BY DEF HoldersHaveRows
  <2>1. Live(p) /\ session'[p].held = session[p].held /\ session'[p].ids = session[p].ids
        /\ session'[p].op = session[p].op
    BY DEF Inside
  <2>2. HasRow(p, r)
    BY <2>1 DEF Inside, LeaseInv, HoldersHaveRows
  <2> QED
    BY <2>1, <2>2 DEF HasRow, IsOwnRow, SameHolds, SameHold
<1>4. MutualExclusion'
  BY DEF LeaseInv, MutualExclusion, Inside
<1>5. JobsExcludeDestruction'
  BY DEF LeaseInv, JobsExcludeDestruction, Inside
<1> QED
  BY <1>1, <1>2, <1>3, <1>4, <1>5 DEF LeaseInv

\* Journalling a stage and renewing a lease change neither who holds nor what.
LEMMA JournalKeepsHolds ==
    ASSUME leases \subseteq Rows, NEW p \in Procs, Advance(p) \/ RenewAll(p)
    PROVE  SameHolds
<1>1. CASE leases' = leases
  BY <1>1 DEF SameHolds, SameHold
<1>2. ASSUME NEW r, leases' = {IF IsOwnRow(row, p, r)
                        THEN [row EXCEPT !.stage = session[p].stage + 1] ELSE row
                          : row \in leases}
      PROVE  SameHolds
  <2>1. \A row \in leases : SameHold(IF IsOwnRow(row, p, r)
            THEN [row EXCEPT !.stage = session[p].stage + 1] ELSE row, row)
    BY DEF SameHold, Rows
  <2> QED
    BY <1>2, <2>1 DEF SameHolds
<1>3. ASSUME NEW S, leases' = {IF \E r \in S : IsOwnRow(row, p, r)
                  THEN [row EXCEPT !.expires = clock + TTL] ELSE row : row \in leases}
      PROVE  SameHolds
  <2>1. \A row \in leases : SameHold(IF \E r \in S : IsOwnRow(row, p, r)
            THEN [row EXCEPT !.expires = clock + TTL] ELSE row, row)
    BY DEF SameHold, Rows
  <2> QED
    BY <1>3, <2>1 DEF SameHolds
<1>4. CASE Advance(p)
  BY <1>1, <1>2, <1>4 DEF Advance
<1>5. CASE RenewAll(p)
  BY <1>3, <1>5 DEF RenewAll
<1> QED
  BY <1>4, <1>5

\* The heart of it: a grant finds no live run inside, because every row it replaces was
\* measured gone and a run inside has its row among them.
LEMMA GrantFindsNobody ==
    ASSUME LeaseInv, NEW p \in Procs, NEW r \in Repos, AcquireGranted(p, r),
           NEW q \in Procs, Inside(q, r, registration[r])
    PROVE  FALSE
<1>1. registered[r] /\ registration[r] = session[p].ids[r]
  BY DEF AcquireGranted, Registered
<1>2. PICK row \in leases : IsOwnRow(row, q, r)
  BY <1>1 DEF LeaseInv, HoldersHaveRows, HasRow
<1>3. row \in RowsOf(p, r)
  BY <1>1, <1>2 DEF RowsOf, IsOwnRow, Inside
<1>4. Reclaimable(p, row)
  BY <1>3 DEF AcquireGranted, Blocked
<1>5. PICK m \in session[p].measured : m[1].owner = row.owner /\ m[2] = "gone"
  BY <1>4 DEF Reclaimable, MeasuredGone, IsSameHolder
<1>6. phase[q] = "dead"
  BY <1>2, <1>5 DEF LeaseInv, GoneIsDead, IsOwnRow
<1> QED
  BY <1>6 DEF Inside, Live

\* A granted acquisition (the INSERT of acquireRepositoryOperationLease) preserves the
\* invariant: the rows it deletes belong to the dead and the new one to nobody else.
LEMMA GrantPreserves ==
    ASSUME LeaseInv, TypeOK', NEW p \in Procs, NEW r \in Repos, AcquireGranted(p, r)
    PROVE  LeaseInv'
<1> DEFINE S == session[p]
<1>0. S \in Sessions /\ session \in [Procs -> Sessions] /\ phase \in [Procs -> Phases]
  BY DEF LeaseInv, TypeOK
<1>1. /\ session' = [session EXCEPT ![p] = [EndAttempt(p) EXCEPT !.held = @ \cup {r}, !.attempt = 0]]
      /\ leases' = (leases \ RowsOf(p, r)) \cup {NewRow(p, r)}
      /\ UNCHANGED <<registration, registered, heavyJobs>>
      /\ registered[r] /\ registration[r] = S.ids[r]
      /\ phase[p] = "measure" /\ phase' = [phase EXCEPT ![p] =
                   IF session[p].want = session[p].held \cup {r} THEN "body" ELSE "list"]
      /\ S.op # "create" => ~heavyJobs[r]
  BY DEF AcquireGranted, Registered, Transacting, HeavyJobGuard
<1>2. /\ session'[p].held = S.held \cup {r} /\ session'[p].ids = S.ids /\ session'[p].op = S.op
      /\ session'[p].observed = {} /\ session'[p].measured = {}
  BY <1>0, <1>1 DEF EndAttempt, Sessions
<1>3. \A q \in Procs : q # p => session'[q] = session[q] /\ phase'[q] = phase[q]
  BY <1>0, <1>1
<1>4. phase'[p] \in {"body", "list"}
  BY <1>0, <1>1
<1>5. \A q \in Procs : Live(q)' <=> Live(q)
  BY <1>1, <1>3, <1>4 DEF Live
<1>6. /\ NewRow(p, r).repo = r /\ NewRow(p, r).reg = S.ids[r]
      /\ NewRow(p, r).op = S.op /\ NewRow(p, r).owner = p
  BY DEF NewRow
<1>7. RowsAreCurrent'
  BY <1>1, <1>6 DEF LeaseInv, RowsAreCurrent
<1>8. RowsAreOwned'
  <2>1. ASSUME NEW row \in leases, row \notin RowsOf(p, r)
        PROVE  /\ phase'[row.owner] # "unborn"
               /\ Live(row.owner)' => /\ row.op = session'[row.owner].op
                                      /\ row.reg = session'[row.owner].ids[row.repo]
                                      /\ row.repo \in session'[row.owner].held
    <3>1. row.owner \in Procs
      BY DEF LeaseInv, TypeOK, Rows
    <3> QED
      BY <2>1, <3>1, <1>2, <1>3, <1>4, <1>5 DEF LeaseInv, RowsAreOwned
  <2>2. /\ phase'[p] # "unborn"
        /\ S.op = session'[p].op /\ S.ids[r] = session'[p].ids[r] /\ r \in session'[p].held
    BY <1>2, <1>4
  <2> QED
    BY <1>1, <1>6, <2>1, <2>2 DEF RowsAreOwned
<1>9. GoneIsDead'
  <2>1. \A q \in Procs : phase[q] = "dead" => phase'[q] = "dead"
    BY <1>1, <1>3
  <2>2. \A q \in Procs : phase[q] # "unborn" => phase'[q] # "unborn"
    BY <1>3, <1>4
  <2> SUFFICES ASSUME NEW q \in Procs, q # p
               PROVE  /\ \A row \in session'[q].observed : phase'[row.owner] # "unborn"
                      /\ \A m \in session'[q].measured : m[2] = "gone" => phase'[m[1].owner] = "dead"
    BY <1>2 DEF GoneIsDead
  <2>3. session[q].observed \subseteq Rows /\ session[q].measured \subseteq Rows \X Verdicts
    BY <1>0 DEF Sessions
  <2>4. \A row \in session[q].observed : row.owner \in Procs
    BY <2>3 DEF Rows
  <2>5. \A m \in session[q].measured : m[1].owner \in Procs
    BY <2>3 DEF Rows
  <2> QED
    BY <1>3, <2>1, <2>2, <2>4, <2>5 DEF LeaseInv, GoneIsDead
<1>10. IdsArePast'
  BY <1>1, <1>2, <1>3 DEF LeaseInv, IdsArePast
<1>11. ASSUME NEW q \in Procs, NEW s \in Repos, Inside(q, s, registration[s])',
              q # p \/ s # r
       PROVE  Inside(q, s, registration[s])
  BY <1>11, <1>1, <1>2, <1>3, <1>5 DEF Inside
<1>12. HoldersHaveRows'
  <2> SUFFICES ASSUME NEW q \in Procs, NEW s \in Repos,
                      Inside(q, s, registration[s])', registered'[s]
               PROVE  HasRow(q, s)'
    BY DEF HoldersHaveRows
  <2>1. CASE q = p /\ s = r
    BY <2>1, <1>1, <1>2, <1>6 DEF HasRow, IsOwnRow
  <2>2. CASE s # r
    <3>1. PICK row \in leases : IsOwnRow(row, q, s)
      BY <2>2, <1>1, <1>11 DEF LeaseInv, HoldersHaveRows, HasRow
    <3>2. row \in leases'
      BY <1>1, <2>2, <3>1 DEF RowsOf, IsOwnRow
    <3>3. session'[q].ids = session[q].ids /\ session'[q].op = session[q].op
      BY <1>2, <1>3
    <3> QED
      BY <3>1, <3>2, <3>3 DEF HasRow, IsOwnRow
  <2>3. CASE q # p /\ s = r
    BY <2>3, <1>11, GrantFindsNobody
  <2> QED
    BY <2>1, <2>2, <2>3
<1>13. MutualExclusion'
  <2> SUFFICES ASSUME NEW q1 \in Procs, NEW q2 \in Procs, NEW s \in Repos,
                      Inside(q1, s, session[q1].ids[s])', Inside(q2, s, session[q1].ids[s])',
                      q1 # q2
               PROVE  FALSE
    BY DEF MutualExclusion
  <2>1. session'[q1].ids = session[q1].ids /\ session'[q2].ids = session[q2].ids
    BY <1>2, <1>3
  <2>2. CASE s = r /\ q1 = p
    <3>1. Inside(q2, r, registration[r])
      BY <2>1, <2>2, <1>1, <1>3, <1>5 DEF Inside
    <3> QED
      BY <3>1, GrantFindsNobody
  <2>3. CASE s = r /\ q2 = p
    <3>1. Inside(q1, r, registration[r])
      BY <2>1, <2>3, <1>1, <1>3, <1>5 DEF Inside
    <3> QED
      BY <3>1, GrantFindsNobody
  <2>4. CASE s # r \/ (q1 # p /\ q2 # p)
    <3>1. s \in session[q1].held /\ s \in session[q2].held
      BY <2>4, <1>2, <1>3 DEF Inside
    <3> QED
      BY <2>1, <3>1, <1>5 DEF LeaseInv, MutualExclusion, Inside
  <2> QED
    BY <2>2, <2>3, <2>4
<1>14. JobsExcludeDestruction'
  <2> SUFFICES ASSUME NEW s \in Repos, NEW q \in Procs,
                      heavyJobs'[s], Inside(q, s, registration[s])'
               PROVE  session'[q].op = "create"
    BY DEF JobsExcludeDestruction
  <2>1. CASE q = p /\ s = r
    BY <2>1, <1>1, <1>2
  <2>2. CASE q # p \/ s # r
    BY <2>2, <1>1, <1>2, <1>3, <1>11 DEF LeaseInv, JobsExcludeDestruction
  <2> QED
    BY <2>1, <2>2
<1> QED
  BY <1>7, <1>8, <1>9, <1>10, <1>12, <1>13, <1>14 DEF LeaseInv

\* A finally block that deletes its row by token takes away nobody else's.
LEMMA ReleasePreserves ==
    ASSUME LeaseInv, TypeOK', NEW p \in Procs, Release(p)
    PROVE  LeaseInv'
<1>1. PICK r \in session[p].held :
         /\ leases' = {row \in leases : ~IsOwnRow(row, p, r)}
         /\ session' = [session EXCEPT ![p].held = @ \ {r}]
  BY DEF Release
<1>2. /\ phase' = phase /\ UNCHANGED <<registration, registered, heavyJobs>>
  BY DEF Release
<1>3. /\ session'[p].held = session[p].held \ {r}
      /\ \A q \in Procs : /\ q # p => session'[q] = session[q]
                          /\ session'[q].ids = session[q].ids
                          /\ session'[q].op = session[q].op
                          /\ session'[q].observed = session[q].observed
                          /\ session'[q].measured = session[q].measured
                          /\ session'[q].held \subseteq session[q].held
  BY <1>1 DEF LeaseInv, TypeOK, Sessions
<1>4. \A q \in Procs : Live(q)' <=> Live(q)
  BY <1>2 DEF Live
<1>5. RowsAreCurrent'
  BY <1>1, <1>2 DEF LeaseInv, RowsAreCurrent
<1>6. RowsAreOwned'
  <2> SUFFICES ASSUME NEW row \in leases'
               PROVE  /\ phase'[row.owner] # "unborn"
                      /\ Live(row.owner)' => /\ row.op = session'[row.owner].op
                                             /\ row.reg = session'[row.owner].ids[row.repo]
                                             /\ row.repo \in session'[row.owner].held
    BY DEF RowsAreOwned
  <2>1. row \in leases /\ ~IsOwnRow(row, p, r) /\ row.owner \in Procs
    BY <1>1 DEF LeaseInv, TypeOK, Rows
  <2>2. /\ phase[row.owner] # "unborn"
        /\ Live(row.owner) => /\ row.op = session[row.owner].op
                              /\ row.reg = session[row.owner].ids[row.repo]
                              /\ row.repo \in session[row.owner].held
    BY <2>1 DEF LeaseInv, RowsAreOwned
  <2>3. CASE row.owner = p
    BY <1>2, <1>3, <1>4, <2>1, <2>2, <2>3 DEF IsOwnRow
  <2>4. CASE row.owner # p
    BY <1>2, <1>3, <1>4, <2>1, <2>2, <2>4
  <2> QED
    BY <2>3, <2>4
<1>7. GoneIsDead'
  BY <1>2, <1>3 DEF LeaseInv, GoneIsDead
<1>8. IdsArePast'
  BY <1>2, <1>3 DEF LeaseInv, IdsArePast
<1>9. HoldersHaveRows'
  <2> SUFFICES ASSUME NEW q \in Procs, NEW s \in Repos,
                      Inside(q, s, registration[s])', registered'[s]
               PROVE  HasRow(q, s)'
    BY DEF HoldersHaveRows
  <2>1. Inside(q, s, registration[s]) /\ (q = p => s # r)
    BY <1>2, <1>3, <1>4 DEF Inside
  <2>2. PICK row \in leases : IsOwnRow(row, q, s)
    BY <1>2, <2>1 DEF LeaseInv, HoldersHaveRows, HasRow
  <2>3. row \in leases'
    BY <1>1, <2>1, <2>2 DEF IsOwnRow
  <2> QED
    BY <1>3, <2>2, <2>3 DEF HasRow, IsOwnRow
<1>10. MutualExclusion'
  BY <1>3, <1>4 DEF LeaseInv, MutualExclusion, Inside
<1>11. JobsExcludeDestruction'
  BY <1>2, <1>3, <1>4 DEF LeaseInv, JobsExcludeDestruction, Inside
<1> QED
  BY <1>5, <1>6, <1>7, <1>8, <1>9, <1>10, <1>11 DEF LeaseInv

\* Forgetting a repository and registering it again preserve the invariant: ids are not
\* used twice, so whoever was inside the old registration is not inside the new one.
LEMMA RegistrationPreserves ==
    ASSUME LeaseInv, TypeOK', NEW r \in Repos, Forget(r) \/ Register(r)
    PROVE  LeaseInv'
<1>1. UNCHANGED <<phase, session, heavyJobs>>
  BY DEF Forget, Register
<1>2. \A q \in Procs : Live(q)' <=> Live(q)
  BY <1>1 DEF Live
<1>3. GoneIsDead' /\ MutualExclusion'
  BY <1>1, <1>2 DEF LeaseInv, GoneIsDead, MutualExclusion, Inside
<1>4. CASE Forget(r)
  <2>1. /\ leases' = {row \in leases : row.repo # r}
        /\ registered' = [registered EXCEPT ![r] = FALSE]
        /\ registration' = registration
    BY <1>4 DEF Forget
  <2>2. RowsAreCurrent' /\ RowsAreOwned'
    BY <1>1, <1>2, <2>1 DEF LeaseInv, RowsAreCurrent, RowsAreOwned, TypeOK, Rows, Live
  <2>3. IdsArePast' /\ JobsExcludeDestruction'
    BY <1>1, <1>2, <2>1 DEF LeaseInv, IdsArePast, JobsExcludeDestruction, Inside
  <2>4. HoldersHaveRows'
    <3> SUFFICES ASSUME NEW q \in Procs, NEW s \in Repos,
                        Inside(q, s, registration[s])', registered'[s]
                 PROVE  HasRow(q, s)'
      BY DEF HoldersHaveRows
    <3>1. s # r /\ registered[s] /\ Inside(q, s, registration[s])
      BY <1>1, <1>2, <2>1 DEF LeaseInv, TypeOK, Inside
    <3> QED
      BY <1>1, <2>1, <3>1 DEF LeaseInv, HoldersHaveRows, HasRow, IsOwnRow
  <2> QED
    BY <1>3, <2>2, <2>3, <2>4 DEF LeaseInv
<1>5. CASE Register(r)
  <2>1. /\ ~registered[r] /\ leases' = leases
        /\ registration' = [registration EXCEPT ![r] = @ + 1]
        /\ registered' = [registered EXCEPT ![r] = TRUE]
    BY <1>5 DEF Register
  <2>2. registration'[r] = registration[r] + 1 /\ registration[r] \in Nat
    BY <2>1 DEF LeaseInv, TypeOK
  <2>3. \A s \in Repos : s # r => registration'[s] = registration[s] /\ registered'[s] = registered[s]
    BY <2>1 DEF LeaseInv, TypeOK
  <2>4. \A q \in Procs : session[q].ids \in [Repos -> Nat]
    BY DEF LeaseInv, TypeOK, Sessions
  <2>5. ASSUME NEW q \in Procs, NEW s \in Repos, Inside(q, s, registration[s])'
        PROVE  s # r /\ Inside(q, s, registration[s])
    <3>1. session[q].ids[r] <= registration[r]
      BY DEF LeaseInv, IdsArePast
    <3>2. session[q].ids[s] = registration'[s]
      BY <1>1, <2>5 DEF Inside
    <3>3. s # r
      BY <2>2, <2>4, <3>1, <3>2
    <3> QED
      BY <1>1, <1>2, <2>3, <2>5, <3>3 DEF Inside
  <2>6. RowsAreCurrent'
    BY <2>1, <2>3 DEF LeaseInv, RowsAreCurrent, TypeOK, Rows
  <2>7. RowsAreOwned'
    BY <1>1, <2>1 DEF LeaseInv, RowsAreOwned, Live
  <2>8. IdsArePast'
    BY <1>1, <2>2, <2>3, <2>4 DEF LeaseInv, IdsArePast
  <2>9. HoldersHaveRows'
    BY <1>1, <2>1, <2>3, <2>5 DEF LeaseInv, HoldersHaveRows, HasRow, IsOwnRow
  <2>10. JobsExcludeDestruction'
    BY <1>1, <2>5 DEF LeaseInv, JobsExcludeDestruction
  <2> QED
    BY <1>3, <2>6, <2>7, <2>8, <2>9, <2>10 DEF LeaseInv
<1> QED
  BY <1>4, <1>5

\* Admitting a heavy job finds no row, hence nobody inside; draining one only helps.
LEMMA JobsPreserve ==
    ASSUME LeaseInv, TypeOK', NEW r \in Repos, EnqueueHeavyJob(r) \/ HeavyJobsDrained(r)
    PROVE  LeaseInv'
<1>1. UNCHANGED <<leases, registration, registered, phase, session>>
  BY DEF EnqueueHeavyJob, HeavyJobsDrained
<1>2. /\ RowsAreCurrent' /\ RowsAreOwned' /\ GoneIsDead' /\ IdsArePast'
      /\ HoldersHaveRows' /\ MutualExclusion'
  BY <1>1 DEF LeaseInv, RowsAreCurrent, RowsAreOwned, GoneIsDead, IdsArePast, HoldersHaveRows,
              MutualExclusion, Inside, HasRow, IsOwnRow, Live
<1>3. JobsExcludeDestruction'
  <2> SUFFICES ASSUME NEW s \in Repos, NEW p \in Procs,
                      heavyJobs'[s], Inside(p, s, registration[s])'
               PROVE  session'[p].op = "create"
    BY DEF JobsExcludeDestruction
  <2>1. Inside(p, s, registration[s])
    BY <1>1 DEF Inside, Live
  <2>2. CASE heavyJobs[s]
    BY <1>1, <2>1, <2>2 DEF LeaseInv, JobsExcludeDestruction
  <2>3. CASE ~heavyJobs[s]
    <3>1. s = r /\ JobAdmissible(r)
      BY <2>3 DEF EnqueueHeavyJob, HeavyJobsDrained, LeaseInv, TypeOK
    <3>2. HasRow(p, r)
      BY <2>1, <3>1 DEF JobAdmissible, LeaseInv, HoldersHaveRows
    <3> QED
      BY <3>1, <3>2 DEF JobAdmissible, HasRow, IsOwnRow
  <2> QED
    BY <2>2, <2>3
<1> QED
  BY <1>2, <1>3 DEF LeaseInv

\* Without rows, runs and jobs every part of the invariant holds.
LEMMA LeaseInvInit == Init => LeaseInv
<1> SUFFICES ASSUME Init PROVE LeaseInv
  OBVIOUS
<1>1. TypeOK
  BY InitType
<1>2. \A p \in Procs : /\ phase[p] = "unborn" /\ ~Live(p)
                       /\ session[p].observed = {} /\ session[p].measured = {}
                       /\ \A r \in Repos : session[p].ids[r] = 0 /\ registration[r] = 1
  BY DEF Init, NoSession, Live
<1> QED
  BY <1>1, <1>2 DEF Init, LeaseInv, RowsAreCurrent, RowsAreOwned, GoneIsDead, IdsArePast,
                    HoldersHaveRows, MutualExclusion, JobsExcludeDestruction, Inside

\* The invariant is inductive: one case per action.
LEMMA LeaseInvStep == LeaseInv /\ [Next]_vars => LeaseInv'
<1> SUFFICES ASSUME LeaseInv, [Next]_vars PROVE LeaseInv'
  OBVIOUS
<1>1. TypeOK'
  BY StepType DEF LeaseInv
<1>2. /\ session \in [Procs -> Sessions] /\ phase \in [Procs -> Phases]
      /\ leases \subseteq Rows /\ registration \in [Repos -> Nat]
  BY DEF LeaseInv, TypeOK
<1>3. leases' = leases => SameHolds
  BY DEF SameHolds, SameHold
<1>4. \A q \in Procs : /\ \A row \in session[q].observed : row.owner \in Procs
                       /\ \A m \in session[q].measured : m[1].owner \in Procs
  <2>1. \A row \in Rows : row.owner \in Procs
    BY DEF Rows
  <2> QED
    BY <1>2, <2>1 DEF Sessions
<1>5. ASSUME NEW p \in Procs, Start(p) PROVE LeaseInv'
  <2>1. PICK op \in Operations, adopt \in BOOLEAN, want \in SUBSET Repos :
           session' = [session EXCEPT ![p] = [NoSession EXCEPT
                           !.op = op, !.adopt = adopt, !.want = want, !.ids = registration]]
    BY <1>5 DEF Start
  <2>2. /\ session'[p].held = {} /\ session'[p].ids = registration
        /\ session'[p].observed = {} /\ session'[p].measured = {}
    BY <1>2, <2>1 DEF NoSession
  <2>3. /\ phase[p] = "unborn" /\ phase' = [phase EXCEPT ![p] = "list"]
        /\ UNCHANGED <<leases, registration, registered, heavyJobs>>
    BY <1>5 DEF Start
  <2>4. \A q \in Procs : q # p => session'[q] = session[q] /\ phase'[q] = phase[q]
    BY <1>2, <2>1, <2>3
  <2>5. phase'[p] = "list"
    BY <1>2, <2>3
  <2>6. GoneIsDead'
    BY <1>4, <2>2, <2>3, <2>4, <2>5 DEF LeaseInv, GoneIsDead
  <2>7. IdsArePast'
    BY <1>2, <2>2, <2>3, <2>4 DEF LeaseInv, IdsArePast
  <2>8. \A q \in Procs : q # p => (Live(q)' <=> Live(q))
    BY <2>4 DEF Live
  <2> QED
    BY <1>1, <1>3, <2>2, <2>3, <2>4, <2>5, <2>6, <2>7, <2>8, Frame DEF Live
<1>6. ASSUME NEW p \in Procs,
             List(p) \/ MeasureFails(p)
             \/ \E r \in Repos : AcquireRetry(p, r) \/ AcquireRefused(p, r)
      PROVE  LeaseInv'
  <2>1. /\ UNCHANGED <<leases, registration, registered, heavyJobs>>
        /\ phase[p] \in {"list", "measure"}
        /\ \/ phase' = [phase EXCEPT ![p] = "measure"]
           \/ phase' = [phase EXCEPT ![p] = "list"]
           \/ phase' = [phase EXCEPT ![p] = "unwind"]
    BY <1>6 DEF List, MeasureFails, AcquireRetry, AcquireRefused, Transacting
  <2> DEFINE Locals(t, O, a) == /\ O \subseteq leases
                    /\ session' = [session EXCEPT ![p] = [session[p] EXCEPT
                          !.now = t, !.observed = O, !.measured = {}, !.attempt = a]]
  <2>2. \E t, O, a : Locals(t, O, a)
    <3>1. CASE List(p)
      <4>1. PICK r \in Repos : session' = [session EXCEPT
                          ![p].now = clock,
                          ![p].observed = {row \in RowsOf(p, r) : Expired(row, clock)},
                          ![p].measured = {}]
        BY <3>1 DEF List
      <4> DEFINE O == {row \in RowsOf(p, r) : Expired(row, clock)}
      <4>2. O \subseteq leases
        BY DEF RowsOf
      <4> HIDE DEF O
      <4>3. Locals(clock, O, session[p].attempt)
        BY <1>2, <4>1, <4>2 DEF O, Sessions
      <4> QED
        BY <4>3
    <3>2. ASSUME session' = [session EXCEPT ![p] = EndAttempt(p)]
          PROVE  Locals(0, {}, session[p].attempt)
      BY <1>2, <3>2 DEF EndAttempt, Sessions
    <3>3. ASSUME session' = [session EXCEPT ![p] = [EndAttempt(p) EXCEPT !.attempt = @ + 1]]
          PROVE  Locals(0, {}, session[p].attempt + 1)
      BY <1>2, <3>3 DEF EndAttempt, Sessions
    <3>4. \/ List(p)
          \/ session' = [session EXCEPT ![p] = EndAttempt(p)]
          \/ session' = [session EXCEPT ![p] = [EndAttempt(p) EXCEPT !.attempt = @ + 1]]
      BY <1>6 DEF MeasureFails, AcquireRetry, AcquireRefused
    <3> HIDE DEF Locals
    <3> QED
      BY <3>1, <3>2, <3>3, <3>4
  <2>3. /\ session' = [session EXCEPT ![p] = session'[p]]
        /\ session'[p].held = session[p].held /\ session'[p].ids = session[p].ids
        /\ session'[p].op = session[p].op
        /\ session'[p].observed \subseteq leases /\ session'[p].measured = {}
    BY <1>2, <2>2 DEF Sessions
  <2>4. /\ phase'[p] \in {"measure", "list", "unwind"}
        /\ \A q \in Procs : q # p => session'[q] = session[q] /\ phase'[q] = phase[q]
    BY <1>2, <2>1, <2>3
  <2>5. \A q \in Procs : Live(q)' <=> Live(q)
    BY <2>1, <2>4 DEF Live
  <2>6. \A row \in leases : row.owner \in Procs /\ phase[row.owner] # "unborn"
    BY <1>2 DEF LeaseInv, RowsAreOwned, Rows
  <2>7. GoneIsDead'
    BY <1>4, <2>1, <2>3, <2>4, <2>6 DEF LeaseInv, GoneIsDead
  <2>8. IdsArePast'
    BY <2>1, <2>3, <2>4 DEF LeaseInv, IdsArePast
  <2> QED
    BY <1>1, <1>3, <2>1, <2>3, <2>4, <2>5, <2>7, <2>8, Frame
<1>7. ASSUME NEW p \in Procs, Measure(p) PROVE LeaseInv'
  <2>1. PICK row \in session[p].observed :
         session' = [session EXCEPT
                       ![p].observed = @ \ {row},
                       ![p].measured = @ \cup {<<row, LivenessOf(p, row.owner)>>}]
    BY <1>7 DEF Measure
  <2>2. UNCHANGED <<leases, registration, registered, heavyJobs, phase>>
    BY <1>7 DEF Measure
  <2>3. /\ session'[p].held = session[p].held /\ session'[p].ids = session[p].ids
        /\ session'[p].op = session[p].op
        /\ session'[p].observed = session[p].observed \ {row}
        /\ session'[p].measured = session[p].measured \cup {<<row, LivenessOf(p, row.owner)>>}
        /\ \A q \in Procs : q # p => session'[q] = session[q]
    BY <1>2, <2>1 DEF Sessions
  <2>4. LivenessOf(p, row.owner) = "gone" => phase[row.owner] = "dead"
    <3>1. row.owner \in Procs /\ phase[row.owner] # "unborn"
      BY <1>4 DEF LeaseInv, GoneIsDead
    <3> QED
      BY <3>1 DEF LivenessOf, Live
  <2>5. GoneIsDead'
    BY <2>2, <2>3, <2>4 DEF LeaseInv, GoneIsDead
  <2>6. IdsArePast'
    BY <2>2, <2>3 DEF LeaseInv, IdsArePast
  <2>7. \A q \in Procs : Live(q)' <=> Live(q)
    BY <2>2 DEF Live
  <2> QED
    BY <1>1, <1>3, <2>2, <2>3, <2>5, <2>6, <2>7, Frame
<1>8. ASSUME NEW p \in Procs, Exit(p) \/ Crash(p) PROVE LeaseInv'
  <2>1. /\ UNCHANGED <<leases, registration, registered, heavyJobs>>
        /\ phase' = [phase EXCEPT ![p] = "dead"]
        /\ session' = [session EXCEPT ![p] = NoSession]
    BY <1>8 DEF Exit, Crash
  <2>2. /\ phase'[p] = "dead" /\ session'[p] = NoSession
        /\ \A q \in Procs : q # p => session'[q] = session[q] /\ phase'[q] = phase[q]
    BY <1>2, <2>1
  <2>3. GoneIsDead'
    BY <1>4, <2>2 DEF LeaseInv, GoneIsDead, NoSession
  <2>4. IdsArePast'
    BY <1>2, <2>1, <2>2 DEF LeaseInv, IdsArePast, NoSession
  <2>5. \A q \in Procs : Live(q)' => Live(q) /\ q # p
    BY <2>2 DEF Live
  <2> QED
    BY <1>1, <1>3, <2>1, <2>2, <2>3, <2>4, <2>5, Frame
<1>9. ASSUME NEW p \in Procs, Advance(p) \/ RenewAll(p) \/ Finish(p) PROVE LeaseInv'
  <2>1. /\ UNCHANGED <<registration, registered, heavyJobs>>
        /\ phase[p] = "body"
        /\ phase' = phase \/ phase' = [phase EXCEPT ![p] = "unwind"]
    BY <1>9 DEF Advance, RenewAll, Finish
  <2>2. \A q \in Procs : /\ session'[q].held = session[q].held /\ session'[q].ids = session[q].ids
                         /\ session'[q].op = session[q].op
                         /\ session'[q].observed = session[q].observed
                         /\ session'[q].measured = session[q].measured
    <3>1. session' = session \/ session' = [session EXCEPT ![p].stage = @ + 1]
      BY <1>9 DEF Advance, RenewAll, Finish
    <3> QED
      BY <1>2, <3>1 DEF Sessions
  <2>3. \A q \in Procs : phase'[q] = phase[q] \/ (q = p /\ phase'[q] = "unwind")
    BY <1>2, <2>1
  <2>4. \A q \in Procs : Live(q)' <=> Live(q)
    BY <2>1, <2>3 DEF Live
  <2>5. SameHolds
    <3>1. CASE Advance(p) \/ RenewAll(p)
      BY <1>2, <3>1, JournalKeepsHolds
    <3>2. CASE Finish(p)
      BY <1>3, <3>2 DEF Finish
    <3> QED
      BY <1>9, <3>1, <3>2
  <2>6. GoneIsDead'
    BY <1>4, <2>1, <2>2, <2>3 DEF LeaseInv, GoneIsDead
  <2>7. IdsArePast'
    BY <2>1, <2>2 DEF LeaseInv, IdsArePast
  <2> QED
    BY <1>1, <2>1, <2>2, <2>3, <2>4, <2>5, <2>6, <2>7, Frame
<1>10. ASSUME UNCHANGED <<leases, registration, registered, heavyJobs, phase, session>>
       PROVE  LeaseInv'
  BY <1>1, <1>10 DEF LeaseInv, RowsAreCurrent, RowsAreOwned, GoneIsDead, IdsArePast,
         HoldersHaveRows, MutualExclusion, JobsExcludeDestruction, Inside, HasRow, IsOwnRow, Live
<1> QED
  BY <1>1, <1>5, <1>6, <1>7, <1>8, <1>9, <1>10, GrantPreserves, ReleasePreserves,
     RegistrationPreserves, JobsPreserve DEF Next, Step, Tick, vars

\* The invariant holds along every behaviour of the lease protocol.
THEOREM LeaseInvHolds == Spec => []LeaseInv
BY LeaseInvInit, LeaseInvStep, PTL DEF Spec

\* Whatever expires, crashes, is recycled or is measured late, at most one live run is
\* inside one registration of a repository (acquireRepositoryOperationLease).
THEOREM MutualExclusionHolds == Spec => []MutualExclusion
<1>1. LeaseInv => MutualExclusion
  BY DEF LeaseInv
<1> QED
  BY <1>1, LeaseInvHolds, PTL

\* A heavy job and a live removal or collection never share a repository
\* (assertNoHeavyJobs against assertRegistered).
THEOREM JobsExcludeDestructionHolds == Spec => []JobsExcludeDestruction
<1>1. LeaseInv => JobsExcludeDestruction
  BY DEF LeaseInv
<1> QED
  BY <1>1, LeaseInvHolds, PTL

\* A live run's rows are those its finally blocks will delete, in particular after a
\* refusal part-way through several repositories (withRepositoryOperationLeases).
THEOREM NothingLeftBehindHolds == Spec => []NothingLeftBehind
<1>1. LeaseInv => NothingLeftBehind
  BY DEF LeaseInv, RowsAreOwned, NothingLeftBehind
<1> QED
  BY <1>1, LeaseInvHolds, PTL

-----------------------------------------------------------------------------
\* Why a journal is its run's own.  A session leases nothing it did not ask for, a removal
\* asks for one repository, and stages are only journalled under the complete set of leases.
SessionShape ==
    \A p \in Procs :
        /\ session[p].held \subseteq session[p].want
        /\ session[p].op = "remove" => \A r, s \in session[p].want : r = s
        /\ session[p].stage > 0 => phase[p] \in {"body", "unwind"}

JournalInv == LeaseInv /\ SessionShape /\ JournalIsOwn

\* What the steps of a run do to the part of its session the shape speaks of.
LEMMA ShapeStep ==
    ASSUME TypeOK, SessionShape, Next
    PROVE  SessionShape'
<1>1. /\ session \in [Procs -> Sessions] /\ phase \in [Procs -> Phases]
  BY DEF TypeOK
<1>2. ASSUME NEW p \in Procs,
             \A q \in Procs : q # p => session'[q] = session[q] /\ phase'[q] = phase[q],
             session'[p].held \subseteq session'[p].want,
             session'[p].op = "remove" => \A r, s \in session'[p].want : r = s,
             session'[p].stage > 0 => phase'[p] \in {"body", "unwind"}
      PROVE  SessionShape'
  BY <1>2 DEF SessionShape
<1>3. ASSUME NEW p \in Procs, Start(p) PROVE SessionShape'
  <2>1. PICK op \in Operations, adopt \in BOOLEAN, want \in SUBSET Repos :
           /\ op = "remove" => \E r \in want : want = {r}
           /\ session' = [session EXCEPT ![p] = [NoSession EXCEPT
                           !.op = op, !.adopt = adopt, !.want = want, !.ids = registration]]
    BY <1>3 DEF Start
  <2>2. /\ session'[p].held = {} /\ session'[p].want = want /\ session'[p].op = op
        /\ session'[p].stage = 0
    BY <1>1, <2>1 DEF NoSession
  <2> QED
    BY <1>1, <1>2, <1>3, <2>1, <2>2 DEF Start
<1>4. ASSUME NEW p \in Procs,
             List(p) \/ Measure(p) \/ MeasureFails(p)
             \/ \E r \in Repos : AcquireRetry(p, r) \/ AcquireRefused(p, r)
      PROVE  SessionShape'
  <2>1. /\ session'[p].held = session[p].held /\ session'[p].want = session[p].want
        /\ session'[p].op = session[p].op /\ session'[p].stage = session[p].stage
        /\ \A q \in Procs : q # p => session'[q] = session[q]
    <3>1. CASE List(p)
      <4>1. PICK r \in Repos : session' = [session EXCEPT
                          ![p].now = clock,
                          ![p].observed = {row \in RowsOf(p, r) : Expired(row, clock)},
                          ![p].measured = {}]
        BY <3>1 DEF List
      <4> QED
        BY <1>1, <4>1 DEF Sessions
    <3>2. CASE Measure(p)
      <4>1. PICK row \in session[p].observed : session' = [session EXCEPT
                       ![p].observed = @ \ {row},
                       ![p].measured = @ \cup {<<row, LivenessOf(p, row.owner)>>}]
        BY <3>2 DEF Measure
      <4> QED
        BY <1>1, <4>1 DEF Sessions
    <3>3. CASE \/ MeasureFails(p)
               \/ \E r \in Repos : AcquireRetry(p, r) \/ AcquireRefused(p, r)
      <4>1. \/ session' = [session EXCEPT ![p] = EndAttempt(p)]
            \/ session' = [session EXCEPT ![p] = [EndAttempt(p) EXCEPT !.attempt = @ + 1]]
        BY <3>3 DEF MeasureFails, AcquireRetry, AcquireRefused
      <4> QED
        BY <1>1, <4>1 DEF EndAttempt, Sessions
    <3> QED
      BY <1>4, <3>1, <3>2, <3>3
  <2>2. /\ phase[p] \in {"list", "measure"}
        /\ \A q \in Procs : q # p => phase'[q] = phase[q]
    BY <1>1, <1>4 DEF List, Measure, MeasureFails, AcquireRetry, AcquireRefused, Transacting
  <2>3. ~(session[p].stage > 0)
    BY <2>2 DEF SessionShape
  <2> QED
    BY <1>2, <2>1, <2>2, <2>3 DEF SessionShape
<1>5. ASSUME NEW p \in Procs, NEW r \in Repos, AcquireGranted(p, r) PROVE SessionShape'
  <2>1. /\ session'[p].held = session[p].held \cup {r} /\ session'[p].want = session[p].want
        /\ session'[p].op = session[p].op /\ session'[p].stage = session[p].stage
        /\ \A q \in Procs : q # p => session'[q] = session[q] /\ phase'[q] = phase[q]
    BY <1>1, <1>5 DEF AcquireGranted, EndAttempt, Sessions
  <2>2. phase[p] = "measure" /\ r \in session[p].want
    BY <1>5 DEF AcquireGranted, Transacting, IsTarget
  <2>3. ~(session[p].stage > 0)
    BY <2>2 DEF SessionShape
  <2> QED
    BY <1>2, <2>1, <2>2, <2>3 DEF SessionShape
<1>6. ASSUME NEW p \in Procs, Advance(p) \/ RenewAll(p) \/ Finish(p) PROVE SessionShape'
  <2>1. /\ session'[p].held = session[p].held /\ session'[p].want = session[p].want
        /\ session'[p].op = session[p].op
        /\ \A q \in Procs : q # p => session'[q] = session[q] /\ phase'[q] = phase[q]
        /\ phase'[p] \in {"body", "unwind"}
    BY <1>1, <1>6 DEF Advance, RenewAll, Finish, Sessions
  <2> QED
    BY <1>2, <2>1 DEF SessionShape
<1>7. ASSUME NEW p \in Procs, Release(p) PROVE SessionShape'
  <2>1. PICK r \in session[p].held : session' = [session EXCEPT ![p].held = @ \ {r}]
    BY <1>7 DEF Release
  <2>2. /\ session'[p].held = session[p].held \ {r} /\ session'[p].want = session[p].want
        /\ session'[p].op = session[p].op /\ session'[p].stage = session[p].stage
        /\ \A q \in Procs : q # p => session'[q] = session[q]
        /\ phase' = phase
    BY <1>1, <1>7, <2>1 DEF Release, Sessions
  <2> QED
    BY <1>2, <2>2 DEF SessionShape
<1>8. ASSUME NEW p \in Procs, Exit(p) \/ Crash(p) PROVE SessionShape'
  <2>1. /\ session'[p] = NoSession
        /\ \A q \in Procs : q # p => session'[q] = session[q] /\ phase'[q] = phase[q]
    BY <1>1, <1>8 DEF Exit, Crash
  <2>2. NoSession.held = {} /\ NoSession.op = "gc" /\ NoSession.stage = 0
    BY DEF NoSession
  <2> QED
    BY <1>2, <2>1, <2>2
<1>9. ASSUME UNCHANGED <<phase, session>> PROVE SessionShape'
  BY <1>9 DEF SessionShape
<1> QED
  BY <1>3, <1>4, <1>5, <1>6, <1>7, <1>8, <1>9
     DEF Next, Step, Tick, Forget, Register, EnqueueHeavyJob, HeavyJobsDrained

\* The row a grant inserts inherits a stage from a row of its own operation only.
LEMMA InheritsOwnKind ==
    ASSUME TypeOK, JournalIsOwn, NEW p \in Procs, NEW r \in Repos, session[p].op # "remove"
    PROVE  InheritedStage(p, r) = 0
<1>1. CASE \E row \in RowsOf(p, r) : row.op = session[p].op
  <2>1. PICK row \in RowsOf(p, r) :
           row.op = session[p].op /\ InheritedStage(p, r) = row.stage
    BY <1>1 DEF InheritedStage
  <2> QED
    BY <2>1 DEF JournalIsOwn, RowsOf
<1>2. CASE ~ \E row \in RowsOf(p, r) : row.op = session[p].op
  BY <1>2 DEF InheritedStage
<1> QED
  BY <1>1, <1>2

\* The journal of a live run stays its own, one case per action that touches a row, a
\* stage or a run's life.
LEMMA JournalStep ==
    ASSUME JournalInv, LeaseInv', Next
    PROVE  JournalIsOwn'
<1>1. /\ session \in [Procs -> Sessions] /\ phase \in [Procs -> Phases]
      /\ leases \subseteq Rows /\ leases' \subseteq Rows
      /\ \A row \in Rows : row.owner \in Procs
  BY DEF JournalInv, LeaseInv, TypeOK, Rows
\* Rows that stay, of runs that live on with the stage they had.
<1>2. ASSUME NEW row \in leases,
             Live(row.owner)' => \/ session'[row.owner].stage = 0
                                 \/ /\ Live(row.owner)
                                    /\ session'[row.owner].stage = session[row.owner].stage
      PROVE  /\ row.op # "remove" => row.stage = 0
             /\ Live(row.owner)' /\ session'[row.owner].stage > 0
                  => row.stage = session'[row.owner].stage
  BY <1>2 DEF JournalInv, JournalIsOwn
<1>3. ASSUME NEW p \in Procs, Start(p) PROVE JournalIsOwn'
  <2>1. /\ session'[p].stage = 0 /\ leases' = leases
        /\ \A q \in Procs : q # p => session'[q] = session[q] /\ phase'[q] = phase[q]
    BY <1>1, <1>3 DEF Start, NoSession
  <2>2. \A q \in Procs : Live(q)' => session'[q].stage = 0 \/ (Live(q) /\ session'[q] = session[q])
    BY <2>1 DEF Live
  <2> QED
    BY <1>1, <1>2, <2>1, <2>2 DEF JournalIsOwn
<1>4. ASSUME NEW p \in Procs,
             \/ List(p) \/ Measure(p) \/ MeasureFails(p) \/ Finish(p) \/ Release(p)
             \/ Exit(p) \/ Crash(p)
             \/ \E r \in Repos : AcquireRetry(p, r) \/ AcquireRefused(p, r)
      PROVE  JournalIsOwn'
  <2>1. leases' \subseteq leases
    BY <1>4 DEF List, Measure, MeasureFails, Finish, Release, Exit, Crash, AcquireRetry, AcquireRefused
  <2>2. \A q \in Procs : session'[q].stage = session[q].stage \/ session'[q].stage = 0
    <3>1. CASE List(p)
      <4>1. PICK r \in Repos : session' = [session EXCEPT
                          ![p].now = clock,
                          ![p].observed = {row \in RowsOf(p, r) : Expired(row, clock)},
                          ![p].measured = {}]
        BY <3>1 DEF List
      <4> QED
        BY <1>1, <4>1 DEF Sessions
    <3>2. CASE Measure(p)
      BY <1>1, <3>2 DEF Measure, Sessions
    <3>3. CASE Release(p)
      BY <1>1, <3>3 DEF Release, Sessions
    <3>4. CASE \/ MeasureFails(p) \/ Finish(p) \/ Exit(p) \/ Crash(p)
               \/ \E r \in Repos : AcquireRetry(p, r) \/ AcquireRefused(p, r)
      <4>1. \/ session' = session
            \/ session' = [session EXCEPT ![p] = NoSession]
            \/ session' = [session EXCEPT ![p] = EndAttempt(p)]
            \/ session' = [session EXCEPT ![p] = [EndAttempt(p) EXCEPT !.attempt = @ + 1]]
        BY <3>4 DEF MeasureFails, Finish, Exit, Crash, AcquireRetry, AcquireRefused
      <4>2. /\ NoSession.stage = 0 /\ EndAttempt(p).stage = session[p].stage
            /\ [EndAttempt(p) EXCEPT !.attempt = @ + 1].stage = session[p].stage
        BY <1>1 DEF EndAttempt, NoSession, Sessions
      <4> QED
        BY <1>1, <4>1, <4>2
    <3> QED
      BY <1>4, <3>1, <3>2, <3>3, <3>4
  <2>3. \A q \in Procs : Live(q)' => Live(q)
    BY <1>1, <1>4 DEF Live, List, Measure, MeasureFails, Finish, Release, Exit, Crash,
         AcquireRetry, AcquireRefused, Transacting
  <2> QED
    BY <1>1, <1>2, <2>1, <2>2, <2>3 DEF JournalIsOwn
<1>5. ASSUME NEW p \in Procs, NEW r \in Repos, AcquireGranted(p, r) PROVE JournalIsOwn'
  <2>1. /\ leases' = (leases \ RowsOf(p, r)) \cup {NewRow(p, r)}
        /\ phase[p] = "measure"
        /\ \A q \in Procs : session'[q].stage = session[q].stage
        /\ \A q \in Procs : Live(q)' => Live(q)
    BY <1>1, <1>5 DEF AcquireGranted, Transacting, EndAttempt, Live, Sessions
  <2>2. session'[p].stage = 0
    BY <1>1, <2>1 DEF JournalInv, SessionShape, Sessions
  <2>3. session[p].op # "remove" => NewRow(p, r).stage = 0
    BY InheritsOwnKind DEF JournalInv, LeaseInv, NewRow
  <2>4. NewRow(p, r).op = session[p].op /\ NewRow(p, r).owner = p
    BY DEF NewRow
  <2>5. \A row \in leases' : row \in leases \/ row = NewRow(p, r)
    BY <2>1
  <2> QED
    BY <1>1, <1>2, <2>1, <2>2, <2>3, <2>4, <2>5 DEF JournalIsOwn
<1>6. ASSUME NEW p \in Procs, Advance(p) PROVE JournalIsOwn'
  <2>1. PICK r \in session[p].held :
         IF HasRow(p, r)
         THEN /\ leases' = {IF IsOwnRow(row, p, r)
                            THEN [row EXCEPT !.stage = session[p].stage + 1] ELSE row
                              : row \in leases}
              /\ session' = [session EXCEPT ![p].stage = @ + 1]
              /\ UNCHANGED phase
         ELSE /\ phase' = [phase EXCEPT ![p] = "unwind"]
              /\ UNCHANGED <<leases, session>>
    BY <1>6 DEF Advance
  <2>2. session[p].op = "remove" /\ phase[p] = "body"
    BY <1>6 DEF Advance
  <2>3. CASE HasRow(p, r)
    <3>1. /\ session'[p].stage = session[p].stage + 1 /\ phase' = phase
          /\ \A q \in Procs : q # p => session'[q] = session[q]
      BY <1>1, <2>1, <2>3 DEF Sessions
    \* Every row of p is the one it journals through.
    <3>2. ASSUME NEW row \in leases, row.owner = p PROVE IsOwnRow(row, p, r)
      <4>1. /\ row.op = session[p].op /\ row.reg = session[p].ids[row.repo]
            /\ row.repo \in session[p].held
        BY <2>2, <3>2 DEF JournalInv, LeaseInv, RowsAreOwned, Live
      <4>2. row.repo = r
        BY <2>2, <4>1 DEF JournalInv, SessionShape
      <4> QED
        BY <3>2, <4>1, <4>2 DEF IsOwnRow
    <3> SUFFICES ASSUME NEW new \in leases'
                 PROVE  /\ new.op # "remove" => new.stage = 0
                        /\ Live(new.owner)' /\ session'[new.owner].stage > 0
                             => new.stage = session'[new.owner].stage
      BY DEF JournalIsOwn
    <3>3. PICK row \in leases : new = IF IsOwnRow(row, p, r)
                            THEN [row EXCEPT !.stage = session[p].stage + 1] ELSE row
      BY <2>1, <2>3
    <3>4. CASE IsOwnRow(row, p, r)
      <4>1. new.op = "remove" /\ new.owner = p /\ new.stage = session[p].stage + 1
        BY <1>1, <2>2, <3>3, <3>4 DEF IsOwnRow, Rows
      <4> QED
        BY <3>1, <4>1
    <3>5. CASE ~IsOwnRow(row, p, r)
      <4>1. new = row /\ row.owner # p
        BY <3>2, <3>3, <3>5
      <4>2. Live(row.owner)' <=> Live(row.owner)
        BY <3>1 DEF Live
      <4> QED
        BY <1>1, <1>2, <3>1, <4>1, <4>2
    <3> QED
      BY <3>4, <3>5
  <2>4. CASE ~HasRow(p, r)
    <3>1. leases' = leases /\ session' = session /\ \A q \in Procs : Live(q)' => Live(q)
      BY <1>1, <2>1, <2>2, <2>4 DEF Live
    <3> QED
      BY <1>1, <1>2, <3>1 DEF JournalIsOwn
  <2> QED
    BY <2>3, <2>4
<1>7. ASSUME NEW p \in Procs, RenewAll(p) PROVE JournalIsOwn'
  <2>1. session' = session /\ \A q \in Procs : Live(q)' => Live(q)
    BY <1>1, <1>7 DEF RenewAll, Live
  <2> SUFFICES ASSUME NEW new \in leases'
               PROVE  /\ new.op # "remove" => new.stage = 0
                      /\ Live(new.owner)' /\ session'[new.owner].stage > 0
                           => new.stage = session'[new.owner].stage
    BY DEF JournalIsOwn
  <2>2. PICK row \in leases : new = row \/ new = [row EXCEPT !.expires = clock + TTL]
    BY <1>7 DEF RenewAll
  <2>3. new.op = row.op /\ new.owner = row.owner /\ new.stage = row.stage
    BY <1>1, <2>2 DEF Rows
  <2> QED
    BY <1>1, <1>2, <2>1, <2>3
<1>8. ASSUME leases' \subseteq leases, UNCHANGED <<phase, session>> PROVE JournalIsOwn'
  BY <1>1, <1>2, <1>8 DEF JournalIsOwn, Live
<1>9. ASSUME NEW r \in Repos, Forget(r) PROVE JournalIsOwn'
  BY <1>8, <1>9 DEF Forget
<1> QED
  BY <1>3, <1>4, <1>5, <1>6, <1>7, <1>8, <1>9
     DEF Next, Step, Tick, Register, EnqueueHeavyJob, HeavyJobsDrained

\* What a run journals through its row is read back as its own, and a reclaimed row hands a
\* stage on to the same operation only (advanceRepositoryOperationStage, and the stage the
\* INSERT of acquireRepositoryOperationLease takes over).
THEOREM JournalIsOwnHolds == Spec => []JournalIsOwn
<1>1. Init => JournalInv
  BY LeaseInvInit DEF Init, JournalInv, SessionShape, JournalIsOwn, NoSession
<1>2. JournalInv /\ [Next]_vars => JournalInv'
  <2> SUFFICES ASSUME JournalInv, [Next]_vars PROVE JournalInv'
    OBVIOUS
  <2>1. LeaseInv'
    BY LeaseInvStep DEF JournalInv
  <2>2. CASE Next
    BY <2>1, <2>2, ShapeStep, JournalStep DEF JournalInv, LeaseInv
  <2>3. CASE UNCHANGED vars
    BY <2>1, <2>3 DEF JournalInv, SessionShape, JournalIsOwn, Live, vars
  <2> QED
    BY <2>2, <2>3
<1>3. JournalInv => JournalIsOwn
  BY DEF JournalInv
<1> QED
  BY <1>1, <1>2, <1>3, PTL DEF Spec

-----------------------------------------------------------------------------
\* Refinement.  A step that keeps the holds and ends no run is a stutter of the mutex.
LEMMA Stutter ==
    ASSUME leases \subseteq Rows, (leases \subseteq Rows)', SameHolds, UNCHANGED Ended
    PROVE  UNCHANGED Mutex!vars
<1>1. \A r \in Repos : Holders(r)' = Holders(r)
  BY DEF Holders, SameHolds, SameHold
<1> QED
  BY <1>1 DEF Mutex!vars

\* No row, no holder.
LEMMA MutexInit == Init => Mutex!Init
BY DEF Init, Mutex!Init, Holders, Ended

\* Every step of the lease protocol is a step of the mutex or leaves it alone.
LEMMA MutexStep ==
    ASSUME LeaseInv, LeaseInv', [Next]_vars
    PROVE  [Mutex!Next]_(Mutex!vars)
<1>1. /\ phase \in [Procs -> Phases] /\ session \in [Procs -> Sessions]
      /\ leases \subseteq Rows /\ (leases \subseteq Rows)'
  BY DEF LeaseInv, TypeOK
<1>2. \A row \in Rows : row.repo \in Repos /\ row.owner \in Procs
  BY DEF Rows
<1>3. leases' = leases => SameHolds
  BY DEF SameHolds, SameHold
<1>4. ASSUME NEW p \in Procs, NEW r \in Repos, AcquireGranted(p, r) PROVE Mutex!Grant(p, r)
  <2>1. /\ leases' = (leases \ RowsOf(p, r)) \cup {NewRow(p, r)}
        /\ registered[r] /\ registration[r] = session[p].ids[r]
        /\ phase[p] = "measure"
        /\ phase' = [phase EXCEPT ![p] =
                   IF session[p].want = session[p].held \cup {r} THEN "body" ELSE "list"]
    BY <1>4 DEF AcquireGranted, Registered, Transacting
  <2>2. Ended' = Ended /\ p \notin Ended
    BY <1>1, <2>1 DEF Ended
  <2>3. {row \in leases : row.repo = r} = RowsOf(p, r)
    BY <2>1 DEF LeaseInv, RowsAreCurrent, RowsOf
  <2>4. Holders(r) \subseteq Ended
    <3> SUFFICES ASSUME NEW row \in RowsOf(p, r) PROVE row.owner \in Ended
      BY <2>3 DEF Holders
    <3>1. Reclaimable(p, row)
      BY <1>4 DEF AcquireGranted, Blocked
    <3>2. PICK m \in session[p].measured : m[1].owner = row.owner /\ m[2] = "gone"
      BY <3>1 DEF Reclaimable, MeasuredGone, IsSameHolder
    <3>3. phase[row.owner] = "dead"
      BY <3>2 DEF LeaseInv, GoneIsDead
    <3> QED
      BY <1>1, <1>2, <3>3 DEF Ended, RowsOf
  <2>5. NewRow(p, r).repo = r /\ NewRow(p, r).owner = p
    BY DEF NewRow
  <2>6. Holders(r)' = {p}
    BY <2>1, <2>3, <2>5 DEF Holders
  <2>7. \A s \in Repos : s # r => Holders(s)' = Holders(s)
    BY <2>1, <2>3, <2>5 DEF Holders
  <2> QED
    BY <2>2, <2>4, <2>6, <2>7 DEF Mutex!Grant
<1>5. ASSUME NEW p \in Procs, Release(p) PROVE \E r \in Repos : Mutex!GiveBack(p, r)
  <2>1. PICK r \in session[p].held : leases' = {row \in leases : ~IsOwnRow(row, p, r)}
    BY <1>5 DEF Release
  <2>2. r \in Repos
    BY <1>1 DEF Sessions
  <2>3. phase' = phase /\ Live(p) /\ p \notin Ended
    BY <1>5 DEF Release, Live, Ended
  <2>4. \A row \in leases : row.owner = p /\ row.repo = r => IsOwnRow(row, p, r)
    BY <2>3 DEF LeaseInv, RowsAreOwned, IsOwnRow
  <2>5. Holders(r)' = Holders(r) \ {p}
    BY <2>1, <2>4 DEF Holders, IsOwnRow
  <2>6. \A s \in Repos : s # r => Holders(s)' = Holders(s)
    BY <2>1 DEF Holders, IsOwnRow
  <2> QED
    BY <2>2, <2>3, <2>5, <2>6 DEF Mutex!GiveBack, Ended
<1>6. ASSUME NEW r \in Repos, Forget(r) PROVE Mutex!Retire(r)
  <2>1. leases' = {row \in leases : row.repo # r} /\ phase' = phase
    BY <1>6 DEF Forget
  <2>2. Holders(r)' = {} /\ \A s \in Repos : s # r => Holders(s)' = Holders(s)
    BY <2>1 DEF Holders
  <2> QED
    BY <2>1, <2>2 DEF Mutex!Retire, Ended
<1>7. ASSUME NEW p \in Procs, Exit(p) \/ Crash(p) PROVE Mutex!End(p)
  <2>1. leases' = leases /\ phase' = [phase EXCEPT ![p] = "dead"]
    BY <1>7 DEF Exit, Crash
  <2> QED
    BY <1>1, <2>1 DEF Mutex!End, Ended, Holders
<1>8. ASSUME NEW p \in Procs,
             \/ Start(p) \/ List(p) \/ Measure(p) \/ MeasureFails(p)
             \/ \E r \in Repos : AcquireRetry(p, r) \/ AcquireRefused(p, r)
             \/ Advance(p) \/ RenewAll(p) \/ Finish(p)
      PROVE  UNCHANGED Mutex!vars
  <2>1. SameHolds
    <3>1. CASE Advance(p) \/ RenewAll(p)
      BY <1>1, <3>1, JournalKeepsHolds
    <3>2. CASE ~(Advance(p) \/ RenewAll(p))
      BY <1>3, <1>8, <3>2 DEF Start, List, Measure, MeasureFails, AcquireRetry, AcquireRefused,
                              Finish
    <3> QED
      BY <3>1, <3>2
  <2>2. /\ phase[p] # "dead"
        /\ \/ phase' = phase
           \/ phase' = [phase EXCEPT ![p] = "list"]
           \/ phase' = [phase EXCEPT ![p] = "measure"]
           \/ phase' = [phase EXCEPT ![p] = "unwind"]
    BY <1>8 DEF Start, List, Measure, MeasureFails, AcquireRetry, AcquireRefused, Transacting,
                Advance, RenewAll, Finish
  <2>3. Ended' = Ended
    BY <1>1, <2>2 DEF Ended
  <2> QED
    BY <1>1, <2>1, <2>3, Stutter
<1>9. ASSUME UNCHANGED <<leases, phase>> PROVE UNCHANGED Mutex!vars
  BY <1>9 DEF Mutex!vars, Holders, Ended
<1>10. CASE \E p \in Procs : \/ Start(p) \/ Step(p) \/ Crash(p)
                             \/ Advance(p) \/ RenewAll(p) \/ Finish(p)
  BY <1>4, <1>5, <1>7, <1>8, <1>10 DEF Step, Mutex!Next
<1>11. CASE Tick \/ \E r \in Repos : Register(r) \/ EnqueueHeavyJob(r) \/ HeavyJobsDrained(r)
  BY <1>9, <1>11 DEF Tick, Register, EnqueueHeavyJob, HeavyJobsDrained
<1>12. CASE \E r \in Repos : Forget(r)
  BY <1>6, <1>12 DEF Mutex!Next
<1>13. CASE UNCHANGED vars
  BY <1>9, <1>13 DEF vars
<1> QED
  BY <1>10, <1>11, <1>12, <1>13 DEF Next

\* The lease table implements the abstract mutex: a repository passes on only when it was
\* handed back, its holder has ended, or its registration was retired.
THEOREM LeaseImplementsMutex == Spec => MutexSpec
<1>1. LeaseInv /\ LeaseInv' /\ [Next]_vars => [Mutex!Next]_(Mutex!vars)
  BY MutexStep
<1> QED
  BY <1>1, MutexInit, LeaseInvHolds, PTL DEF Spec, MutexSpec, Mutex!Spec
=============================================================================

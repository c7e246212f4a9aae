------------------------ MODULE ManagedRuntimeProofs ------------------------
(***************************************************************************)
(* Proofs about the interactive runtime, for any number of requests, tasks *)
(* and faults and for any budget.                                          *)
(***************************************************************************)
EXTENDS ManagedRuntime, FiniteSetTheorems, SequenceTheorems, TLAPS

(* Where the head of a queue is on its way to a new run. *)
Launching == {"go", "ack", "rollback"}

Places(t) == 1 .. Len(lock[t])

IsRequest(t, i) == lock[t][i][1] = "request"

(* A request that waits or works is queued once, at the task it asked for. *)
QueuesOK ==
    /\ \A t \in Tasks : \A i \in Places(t) : IsRequest(t, i) =>
        phase[lock[t][i][2]] = "inside" /\ task[lock[t][i][2]] = t
    /\ \A t \in Tasks : \A i, j \in Places(t) :
        IsRequest(t, i) /\ IsRequest(t, j) /\ lock[t][i][2] = lock[t][j][2] => i = j

(* Only a request spawns, and what an operation of the daemon itself does is to stop. *)
HeadsOK ==
    \A t \in Tasks : at[t] # "begin" =>
        \/ Op(t) = "request"
        \/ Op(t) = "idle" /\ at[t] \in {"stop", "term", "kill", "dead"}

(* Nothing is known of a request before it is made, and a settled reservation is an answer. *)
UnaskedOK ==
    \A q \in Requests :
        /\ phase[q] = "new" => anchor[q] = "none" /\ ~Active(q) /\ admit[q] = "no"
        /\ admit[q] = "counted" => phase[q] = "done"

(* A request whose anchor exists is at the head of its queue, past its spawn, until it returns. *)
LaunchesOK ==
    \A q \in Requests : phase[q] = "inside" /\ anchor[q] # "none" =>
        task[q] \in Tasks /\ Op(task[q]) = "request" /\ Subject(task[q]) = q /\ at[task[q]] \in Launching

(* One active row for each task, and none while its next run is on its way to a row. *)
RowsOK ==
    /\ \A q, r \in Requests : Active(q) /\ Active(r) /\ task[q] = task[r] => q = r
    /\ \A t \in Tasks : at[t] = "spawn" => Current(t) = {}

(* An anchor that lives, launched or not, is answered for. *)
Owned == \A q \in Requests : Matches(q) => Active(q) \/ rec[q].dirty

(* A stranger has a pid only after its anchor. *)
StrangersOK == \A q \in Requests : other[q] # "none" => anchor[q] = "gone"

(* What counts against the budget: the admitted runs and the starts still to be settled. *)
Charged == {q \in Requests : (Active(q) /\ admit[q] # "no") \/ admit[q] = "pending"}

BudgetOK == Cardinality(Charged) <= MaxProcesses

IInv ==
    /\ TypeOK /\ QueuesOK /\ HeadsOK /\ UnaskedOK /\ LaunchesOK /\ RowsOK
    /\ Owned /\ StrangersOK /\ StrangersAreSpared /\ BudgetOK

-----------------------------------------------------------------------------
(* What a step may do to the queues. *)
Asks(q, t) ==
    /\ phase[q] = "new"
    /\ phase' = [phase EXCEPT ![q] = "inside"]
    /\ task' = [task EXCEPT ![q] = t]
    /\ Enqueue(t, "request", q)
    /\ at' = at

Refused(q, t) ==
    /\ phase[q] = "new"
    /\ phase' = [phase EXCEPT ![q] = "done"]
    /\ task' = [task EXCEPT ![q] = t]
    /\ UNCHANGED <<lock, at>>

Answered(q) ==
    /\ phase[q] \in {"ran", "failed"}
    /\ phase' = [phase EXCEPT ![q] = "done"]
    /\ UNCHANGED <<task, lock, at>>

Joins(q, what) ==
    /\ what \in {"exit", "idle"}
    /\ Enqueue(task[q], what, q)
    /\ UNCHANGED <<phase, task, at>>

Returns(t) ==
    /\ lock[t] # <<>> /\ Op(t) = "request"
    /\ \E result \in {"ran", "failed"} : Return(t, result)
    /\ UNCHANGED task

Drops(t) ==
    /\ lock[t] # <<>> /\ Op(t) # "request"
    /\ at[t] \notin Launching \cup {"spawn"}
    /\ Unlock(t)
    /\ UNCHANGED <<phase, task>>

(* What leaves no row of the task active: there is none, or the operation settles its own. *)
Clears(t) ==
    \/ Current(t) = {}
    \/ \E s \in TerminalStates, d \in BOOLEAN \cup {rec[Target(t)].dirty} : SetRow(Target(t), s, d)

Moves(t, l) ==
    /\ lock[t] # <<>>
    /\ l = "spawn" => Clears(t)
    /\ \/ l \in {"begin", "spawn"} /\ Op(t) = "request" /\ at[t] \notin Launching
       \/ l \in {"stop", "term", "kill", "dead"} /\ Op(t) \in {"request", "idle"}
            /\ at[t] \notin Launching \cup {"spawn"}
       \/ l \in Launching /\ at[t] \in Launching \cup {"spawn"}
    /\ Goto(t, l)
    /\ UNCHANGED <<phase, task, lock>>

Forgets ==
    /\ phase' = [q \in Requests |-> IF phase[q] = "new" THEN "new" ELSE "done"]
    /\ lock' = [t \in Tasks |-> <<>>]
    /\ at' = [t \in Tasks |-> "begin"]
    /\ task' = task

QueueStep ==
    \/ \E q \in Requests, t \in Tasks : Asks(q, t) \/ Refused(q, t)
    \/ \E q \in Requests : Answered(q)
    \/ \E q \in Requests, what \in {"exit", "idle"} : Joins(q, what)
    \/ \E t \in Tasks : Returns(t) \/ Drops(t) \/ \E l \in {"begin", "spawn", "stop", "term", "kill", "dead"} \cup Launching : Moves(t, l)
    \/ Forgets
    \/ UNCHANGED <<phase, task, lock, at>>

\* Where a stop that ends sends its operation.
LEMMA AfterStopQueue ==
    ASSUME TypeOK, HeadsOK, NEW t \in Tasks, at[t] \in {"term", "kill", "dead"}, AfterStop(t), Clears(t), task' = task
    PROVE  QueueStep
<1>1. lock[t] # <<>> /\ at[t] \notin Launching \cup {"spawn"}
  BY DEF TypeOK, Launching
<1>2. Op(t) \in {"request", "idle"}
  BY DEF HeadsOK
<1>3. CASE Op(t) = "idle"
  <2>1. Drops(t)
    BY <1>1, <1>3 DEF AfterStop, SweepEnds, Drops
  <2> QED
    BY <2>1 DEF QueueStep
<1>4. CASE Op(t) = "request"
  <2>1. \/ Return(t, "failed")
        \/ Goto(t, "spawn") /\ UNCHANGED <<lock, phase>>
        \/ Goto(t, "begin") /\ UNCHANGED <<lock, phase>>
    BY <1>4 DEF AfterStop
  <2>2. CASE Return(t, "failed")
    BY <1>1, <1>4, <2>2 DEF Returns, QueueStep
  <2>3. ASSUME NEW l \in {"begin", "spawn"}, Goto(t, l), UNCHANGED <<lock, phase>> PROVE QueueStep
    <3>1. Moves(t, l)
      BY <1>1, <1>4, <2>3 DEF Moves
    <3> QED
      BY <3>1 DEF QueueStep
  <2> QED
    BY <2>1, <2>2, <2>3
<1> QED
  BY <1>2, <1>3, <1>4

\* So does one that fails.
LEMMA StopFailsQueue ==
    ASSUME TypeOK, HeadsOK, NEW t \in Tasks, at[t] \in {"term", "kill", "dead"}, StopFails(t), task' = task
    PROVE  QueueStep
<1>1. lock[t] # <<>> /\ at[t] \notin Launching \cup {"spawn"}
  BY DEF TypeOK, Launching
<1>2. CASE Op(t) = "idle"
  <2>1. Drops(t)
    BY <1>1, <1>2 DEF StopFails, Drops
  <2> QED
    BY <2>1 DEF QueueStep
<1>3. CASE Op(t) # "idle"
  <2>1. Op(t) = "request" /\ Return(t, "failed")
    BY <1>3 DEF StopFails, HeadsOK, Return
  <2> QED
    BY <1>1, <2>1 DEF Returns, QueueStep
<1> QED
  BY <1>2, <1>3

\* And a look at the run, however it ends.
LEMMA LookQueue ==
    ASSUME TypeOK, HeadsOK, NEW t \in Tasks, at[t] \in {"term", "kill", "dead"}, Look(t), task' = task
    PROVE  QueueStep
<1>1. Gone(t) \/ Stale(t) => AfterStop(t) /\ Clears(t)
  BY DEF Gone, Stale, Clears, TerminalStates
<1> QED
  BY <1>1, AfterStopQueue, StopFailsQueue DEF Look

\* Every step of the runtime does one of these things to the queues.
LEMMA QueueSteps ==
    ASSUME TypeOK, HeadsOK, [Next]_vars PROVE QueueStep
<1>1. ASSUME NEW q \in Requests, Submit(q) \/ SubmitStop(q) PROVE QueueStep
  <2>1. \E t \in Tasks : Asks(q, t) \/ Refused(q, t)
    BY <1>1 DEF Submit, SubmitStop, Asks, Refused
  <2> QED
    BY <2>1 DEF QueueStep
<1>2. ASSUME NEW q \in Requests, Answer(q) PROVE QueueStep
  BY <1>2 DEF Answer, sup, Answered, QueueStep
<1>3. ASSUME NEW t \in Tasks, StartReserves(t) \/ CreateRecord(t) \/ SendGo(t) \/ LaunchFails(t) \/ MarkStopping(t)
      PROVE QueueStep
  <2>1. lock[t] # <<>>
    BY <1>3 DEF TypeOK, StartReserves, Starting, Doing, CreateRecord, SendGo, LaunchFails, MarkStopping
  <2>2. CASE StartReserves(t)
    <3>1. Moves(t, "spawn")
      BY <2>1, <2>2 DEF StartReserves, Starting, Doing, ctrl, Moves, Launching, Clears
    <3> QED
      BY <3>1 DEF QueueStep
  <2>3. CASE CreateRecord(t)
    <3>1. Moves(t, "go")
      BY <2>1, <2>3 DEF CreateRecord, ctrl, Moves, Launching
    <3> QED
      BY <3>1 DEF QueueStep, Launching
  <2>4. CASE SendGo(t)
    <3>1. Moves(t, "ack")
      BY <2>1, <2>4 DEF SendGo, ctrl, Moves, Launching
    <3> QED
      BY <3>1 DEF QueueStep, Launching
  <2>5. CASE LaunchFails(t)
    <3>1. Moves(t, "rollback")
      BY <2>1, <2>5 DEF LaunchFails, ctrl, Moves, Launching
    <3> QED
      BY <3>1 DEF QueueStep, Launching
  <2>6. CASE MarkStopping(t)
    <3>1. Moves(t, "term")
      BY <2>1, <2>6 DEF MarkStopping, Doing, ctrl, Moves, Launching, HeadsOK
    <3> QED
      BY <3>1 DEF QueueStep
  <2> QED
    BY <1>3, <2>2, <2>3, <2>4, <2>5, <2>6
<1>4. ASSUME NEW t \in Tasks, StartFindsReservation(t) PROVE QueueStep
  <2>1. Returns(t)
    BY <1>4 DEF StartFindsReservation, Starting, Doing, Returns, Return
  <2> QED
    BY <2>1 DEF QueueStep
<1>5. ASSUME NEW t \in Tasks, StartFindsActive(t) PROVE QueueStep
  <2>1. /\ lock[t] # <<>> /\ Op(t) = "request" /\ at[t] = "begin" /\ task' = task
        /\ \/ \E result \in {"ran", "failed"} : Return(t, result)
           \/ Goto(t, "stop") /\ UNCHANGED <<lock, phase>>
           \/ UNCHANGED <<at, lock, phase>>
    BY <1>5 DEF StartFindsActive, Starting, Doing
  <2>2. Returns(t) \/ Moves(t, "stop") \/ UNCHANGED <<phase, task, lock, at>>
    BY <2>1 DEF Returns, Moves, Launching
  <2> QED
    BY <2>2 DEF QueueStep
<1>6. ASSUME NEW t \in Tasks, RestartReserves(t) PROVE QueueStep
  <2>1. /\ lock[t] # <<>> /\ Op(t) = "request" /\ at[t] = "begin" /\ task' = task
        /\ \/ Return(t, "failed")
           \/ \E l \in {"spawn", "stop"} : Goto(t, l) /\ (l = "spawn" => Current(t) = {}) /\ UNCHANGED <<lock, phase>>
    BY <1>6 DEF RestartReserves, Doing
  <2>2. Returns(t) \/ Moves(t, "spawn") \/ Moves(t, "stop")
    BY <2>1 DEF Returns, Moves, Launching, Clears
  <2> QED
    BY <2>2 DEF QueueStep
<1>7. ASSUME NEW t \in Tasks, SpawnFails(t) \/ Launched(t) \/ Rollback(t) \/ StopFindsNothing(t) PROVE QueueStep
  <2>1. lock[t] # <<>> /\ Op(t) = "request"
    BY <1>7 DEF TypeOK, HeadsOK, SpawnFails, Launched, Rollback, StopFindsNothing, Doing
  <2>2. Returns(t)
    BY <1>7, <2>1 DEF SpawnFails, Launched, Rollback, StopFindsNothing, Returns
  <2> QED
    BY <2>2 DEF QueueStep
<1>8. ASSUME NEW t \in Tasks, IdleStopBegins(t) PROVE QueueStep
  <2>1. /\ lock[t] # <<>> /\ Op(t) = "idle" /\ at[t] = "begin" /\ task' = task
        /\ \/ Goto(t, "stop") /\ UNCHANGED <<lock, phase>>
           \/ Unlock(t) /\ phase' = phase
    BY <1>8 DEF IdleStopBegins, Doing, SweepEnds
  <2>2. Moves(t, "stop") \/ Drops(t)
    BY <2>1 DEF Moves, Drops, Launching
  <2> QED
    BY <2>2 DEF QueueStep
<1>9. ASSUME NEW t \in Tasks, Term(t) \/ Kill(t) \/ AwaitDeath(t) PROVE QueueStep
  <2>1. /\ at[t] \in {"term", "kill", "dead"} /\ task' = task
        /\ \/ Look(t) \/ Gone(t) \/ StopFails(t)
           \/ \E l \in {"kill", "dead"} : Goto(t, l) /\ UNCHANGED <<phase, lock>>
    BY <1>9 DEF Term, Kill, AwaitDeath
  <2>2. ASSUME NEW l \in {"kill", "dead"}, Goto(t, l), UNCHANGED <<phase, lock>> PROVE QueueStep
    <3>1. lock[t] # <<>> /\ Op(t) \in {"request", "idle"}
      BY <2>1 DEF TypeOK, HeadsOK
    <3>2. Moves(t, l)
      BY <2>1, <2>2, <3>1 DEF Moves, Launching
    <3> QED
      BY <3>2 DEF QueueStep
  <2> QED
    <3>1. Gone(t) => AfterStop(t) /\ Clears(t)
      BY DEF Gone, Clears, TerminalStates
    <3> QED
      BY <2>1, <2>2, <3>1, AfterStopQueue, StopFailsQueue, LookQueue
<1>10. ASSUME NEW q \in Requests, HearExit(q) PROVE QueueStep
  <2>1. Joins(q, "exit")
    BY <1>10 DEF HearExit, Joins, ctrl
  <2> QED
    BY <2>1 DEF QueueStep
<1>11. ASSUME NEW t \in Tasks, RecordExit(t) PROVE QueueStep
  <2>1. Drops(t)
    BY <1>11 DEF RecordExit, Doing, Drops, ctrl, Launching
  <2> QED
    BY <2>1 DEF QueueStep
<1>12. CASE SweepRechecks
  <2>1. CASE lock' = lock
    BY <1>12, <2>1 DEF SweepRechecks, ctrl, QueueStep
  <2>2. CASE lock' # lock
    <3>1. sweep.run \in Requests
      BY <1>12 DEF TypeOK, SweepRechecks
    <3>2. Joins(sweep.run, "idle")
      BY <1>12, <2>2 DEF SweepRechecks, Joins, ctrl
    <3> QED
      BY <3>1, <3>2 DEF QueueStep
  <2> QED
    BY <2>1, <2>2
<1>13. CASE Crash
  BY <1>13 DEF Crash, Forgets, QueueStep
<1>14. ASSUME NEW q \in Requests,
              \/ SweepDecides(q) \/ AnchorLaunches(q) \/ LaunchAcknowledged(q) \/ AnchorLeaves(q)
              \/ TaskEnds(q) \/ AnchorEnds(q) \/ AnchorKilled(q) \/ PidReused(q) \/ Recover(q)
       PROVE QueueStep
  BY <1>14 DEF SweepDecides, AnchorLaunches, LaunchAcknowledged, AnchorLeaves, TaskEnds, AnchorEnds,
               AnchorKilled, PidReused, Recover, ctrl, sup, QueueStep
<1>15. ASSUME NEW t \in Tasks, Observe(t) \/ WindowPasses(t) \/ ReservationExpires(t) PROVE QueueStep
  BY <1>15 DEF Observe, WindowPasses, ReservationExpires, ctrl, sup, QueueStep
<1>16. CASE Boot \/ Serve \/ UNCHANGED vars
  BY <1>16 DEF Boot, Serve, vars, ctrl, sup, QueueStep
<1> QED
  BY <1>1, <1>2, <1>3, <1>4, <1>5, <1>6, <1>7, <1>8, <1>9, <1>10, <1>11, <1>12, <1>13, <1>14, <1>15, <1>16 DEF Next

-----------------------------------------------------------------------------
(* The part of TypeOK that is about the queues. *)
QueuesTyped ==
    /\ phase \in [Requests -> {"new", "inside", "ran", "failed", "done"}]
    /\ task \in [Requests -> Tasks \cup {None}]
    /\ lock \in [Tasks -> Seq({"request", "exit", "idle"} \X Requests)]
    /\ at \in [Tasks -> {"begin", "spawn", "go", "ack", "rollback", "stop", "term", "kill", "dead"}]
    /\ \A t \in Tasks : at[t] # "begin" => lock[t] # <<>>

\* The queues stay queues of operations.
LEMMA QueueTypes ==
    ASSUME TypeOK, QueueStep PROVE QueuesTyped'
<1> DEFINE Entries == {"request", "exit", "idle"} \X Requests
<1> DEFINE QueueTyped == lock' \in [Tasks -> Seq(Entries)] /\ \A t \in Tasks : at'[t] # "begin" => lock'[t] # <<>>
<1>1. ASSUME NEW what \in {"request", "exit", "idle"}, NEW q \in Requests, NEW t, Enqueue(t, what, q), at' = at
      PROVE  QueueTyped
  <2>1. <<what, q>> \in Entries
    OBVIOUS
  <2>2. ASSUME NEW u \in Tasks
        PROVE  Append(lock[u], <<what, q>>) \in Seq(Entries) /\ Append(lock[u], <<what, q>>) # <<>>
    <3>1. lock[u] \in Seq(Entries)
      BY DEF TypeOK
    <3> HIDE DEF Entries
    <3> QED
      BY <2>1, <3>1, AppendProperties
  <2> QED
    BY <1>1, <2>2 DEF Enqueue, TypeOK, QueuesTyped
<1>2. ASSUME NEW t \in Tasks, lock[t] # <<>>, Unlock(t)
      PROVE  QueueTyped
  <2>1. Tail(lock[t]) \in Seq(Entries)
    BY <1>2, HeadTailProperties DEF TypeOK, QueuesTyped
  <2> QED
    BY <1>2, <2>1 DEF Unlock, Goto, TypeOK, QueuesTyped
<1>3. ASSUME NEW q \in Requests, NEW t \in Tasks, Asks(q, t) PROVE QueuesTyped'
  <2>1. QueueTyped
    BY <1>1, <1>3 DEF Asks
  <2> QED
    BY <1>3, <2>1 DEF Asks, TypeOK, QueuesTyped
<1>10. ASSUME NEW q \in Requests, NEW t \in Tasks, Refused(q, t) PROVE QueuesTyped'
  BY <1>10 DEF Refused, TypeOK, QueuesTyped
<1>4. CASE \E q \in Requests : Answered(q)
  BY <1>4 DEF Answered, TypeOK, QueuesTyped
<1>5. CASE \E q \in Requests, what \in {"exit", "idle"} : Joins(q, what)
  BY <1>1, <1>5 DEF Joins, TypeOK, QueuesTyped
<1>6. ASSUME NEW t \in Tasks, Returns(t) \/ Drops(t) PROVE QueuesTyped'
  <2>1. lock[t] # <<>> /\ Unlock(t)
    BY <1>6 DEF Returns, Drops, Return
  <2>2. QueueTyped
    BY <1>2, <2>1
  <2>3. at' = [at EXCEPT ![t] = "begin"] /\ task' = task
    BY <1>6, <2>1 DEF Unlock, Goto, Returns, Drops
  <2>4. phase' \in [Requests -> {"new", "inside", "ran", "failed", "done"}]
    BY <1>6 DEF Returns, Drops, Return, TypeOK
  <2> QED
    BY <2>2, <2>3, <2>4 DEF TypeOK, QueuesTyped
<1>7. ASSUME NEW t \in Tasks, NEW l \in {"begin", "spawn", "stop", "term", "kill", "dead"} \cup Launching, Moves(t, l)
      PROVE  QueuesTyped'
  BY <1>7 DEF Moves, Goto, Launching, TypeOK, QueuesTyped
<1>8. CASE Forgets
  BY <1>8, EmptySeq DEF Forgets, TypeOK, QueuesTyped
<1>9. CASE UNCHANGED <<phase, task, lock, at>>
  BY <1>9 DEF TypeOK, QueuesTyped
<1> QED
  BY <1>3, <1>4, <1>5, <1>6, <1>7, <1>8, <1>9, <1>10 DEF QueueStep

\* The head of a queue is an operation of a request.
LEMMA HeadType ==
    ASSUME TypeOK, NEW t \in Tasks, lock[t] # <<>>
    PROVE  /\ 1 \in Places(t)
           /\ Head(lock[t]) = lock[t][1]
           /\ Op(t) \in {"request", "exit", "idle"}
           /\ Subject(t) \in Requests
<1>1. /\ Head(lock[t]) \in {"request", "exit", "idle"} \X Requests
      /\ Len(lock[t]) \in Nat \ {0}
  BY HeadTailProperties, EmptySeq DEF TypeOK
<1>2. Head(lock[t]) = lock[t][1]
  BY DEF TypeOK
<1> QED
  BY <1>1, <1>2 DEF Places, Op, Subject

(* The anchors and strangers of all but a run that begins only grow older. *)
Older(q) ==
    /\ Matches(q)' => Matches(q)
    /\ anchor'[q] # "none" => anchor[q] # "none"
    /\ anchor[q] = "gone" => anchor'[q] = "gone"
    /\ other'[q] = "dead" => other[q] = "dead"
    /\ other'[q] # "none" => other[q] # "none" \/ anchor'[q] = "gone"

ProcTypes ==
    /\ anchor' \in [Requests -> {"none", "waiting", "sent", "up", "gone"}]
    /\ other' \in [Requests -> {"none", "alive", "dead"}]

ProcsAge == ProcTypes /\ \A q \in Requests : Older(q)

\* A group is killed after a look that found its own anchor: no stranger has its pid.
LEMMA KilledOwn ==
    ASSUME TypeOK, StrangersOK, NEW q, Matches(q), Killed(q)
    PROVE  /\ ProcsAge
           /\ q \in Requests => ~Matches(q)'
BY DEF TypeOK, StrangersOK, Matches, Killed, ProcsAge, ProcTypes, Older

\* What the termination of a group does, and that it is gone where it is said to be.
LEMMA TerminatedOwn ==
    ASSUME TypeOK, StrangersOK, NEW q \in Requests, NEW done \in BOOLEAN, Terminated(q, done)
    PROVE  /\ ProcsAge
           /\ done => ~Matches(q)'
<1>1. CASE Matches(q) /\ Killed(q)
  BY <1>1, KilledOwn
<1>2. CASE UNCHANGED <<anchor, work, other>> /\ (done => ~Matches(q))
  BY <1>2 DEF TypeOK, Matches, ProcsAge, ProcTypes, Older
<1> QED
  BY <1>1, <1>2 DEF Terminated, Absent, Mismatches, Matches

\* Every step but the record of a new run lets the processes grow older.
LEMMA ProcSteps ==
    ASSUME TypeOK, StrangersOK, [Next]_vars, ~\E t \in Tasks : CreateRecord(t)
    PROVE  ProcsAge
<1>1. CASE UNCHANGED <<anchor, other>>
  BY <1>1 DEF TypeOK, ProcsAge, ProcTypes, Older, Matches
<1>2. ASSUME NEW t \in Tasks, SendGo(t) PROVE ProcsAge
  BY <1>2 DEF SendGo, TypeOK, ProcsAge, ProcTypes, Older, Matches
<1>3. ASSUME NEW t \in Tasks, Rollback(t) PROVE ProcsAge
  BY <1>1, <1>3, KilledOwn DEF Rollback
<1>4. ASSUME NEW t \in Tasks, Kill(t) PROVE ProcsAge
  BY <1>1, <1>4, KilledOwn DEF Kill, Verified
<1>5. ASSUME NEW t \in Tasks, IdleStopBegins(t) PROVE ProcsAge
  <2>1. Subject(t) \in Requests
    BY <1>5, HeadType DEF IdleStopBegins, Doing
  <2> QED
    BY <1>1, <1>5, <2>1, TerminatedOwn DEF IdleStopBegins
<1>6. ASSUME NEW q \in Requests, Recover(q) PROVE ProcsAge
  BY <1>1, <1>6, TerminatedOwn DEF Recover
<1>7. ASSUME NEW q \in Requests,
             AnchorLaunches(q) \/ AnchorLeaves(q) \/ AnchorEnds(q) \/ AnchorKilled(q) \/ PidReused(q)
      PROVE ProcsAge
  <2>1. CASE PidReused(q)
    BY <2>1 DEF PidReused, TypeOK, ProcsAge, ProcTypes, Older, Matches
  <2>2. CASE ~PidReused(q)
    <3>1. other' = other /\ Matches(q) /\ \E a \in {"up", "gone"} : anchor' = [anchor EXCEPT ![q] = a]
      BY <1>7, <2>2 DEF AnchorLaunches, AnchorLeaves, AnchorEnds, AnchorKilled, Matches
    <3> QED
      BY <3>1 DEF TypeOK, ProcsAge, ProcTypes, Older, Matches
  <2> QED
    BY <2>1, <2>2
<1>8. ASSUME NEW q \in Requests, \/ Submit(q) \/ SubmitStop(q) \/ Answer(q) \/ HearExit(q) \/ SweepDecides(q)
                                  \/ LaunchAcknowledged(q) \/ TaskEnds(q)
      PROVE UNCHANGED <<anchor, other>>
  BY <1>8 DEF Submit, SubmitStop, Answer, HearExit, SweepDecides, LaunchAcknowledged, TaskEnds, procs
<1>9. ASSUME NEW t \in Tasks, \/ Observe(t) \/ StartReserves(t) \/ StartFindsReservation(t) \/ StartFindsActive(t)
                               \/ RestartReserves(t) \/ SpawnFails(t) \/ Launched(t) \/ LaunchFails(t)
                               \/ StopFindsNothing(t) \/ MarkStopping(t) \/ Term(t) \/ AwaitDeath(t)
                               \/ RecordExit(t) \/ WindowPasses(t) \/ ReservationExpires(t)
      PROVE UNCHANGED <<anchor, other>>
  BY <1>9 DEF Observe, StartReserves, StartFindsReservation, StartFindsActive, RestartReserves, SpawnFails, Launched,
              LaunchFails, StopFindsNothing, MarkStopping, Term, AwaitDeath, RecordExit, WindowPasses,
              ReservationExpires, procs
<1>10. CASE SweepRechecks \/ Crash \/ Boot \/ Serve \/ UNCHANGED vars
  BY <1>1, <1>10 DEF SweepRechecks, Crash, Boot, Serve, vars, procs
<1> QED
  BY <1>1, <1>2, <1>3, <1>4, <1>5, <1>6, <1>7, <1>8, <1>9, <1>10 DEF Next

-----------------------------------------------------------------------------
States == ActiveStates \cup TerminalStates \cup {"none"}

(* A row becomes active only when it is created, and stays answerable for an anchor that lives. *)
Settles(q) ==
    /\ Active(q)' => Active(q)
    /\ Matches(q)' /\ (Active(q) \/ rec[q].dirty) => Active(q)' \/ rec'[q].dirty

RowsSettle ==
    /\ rec' \in [Requests -> [state : States, dirty : BOOLEAN]]
    /\ \A q \in Requests : Settles(q)

\* What the write of one row must keep to.
LEMMA SetRowSettles ==
    ASSUME TypeOK, NEW q, NEW s \in States, NEW d, SetRow(q, s, d),
           q \in Requests => d \in BOOLEAN /\ (s \in ActiveStates => Active(q))
                               /\ (Matches(q)' => s \in ActiveStates \/ d)
    PROVE  RowsSettle
<1>1. rec' = [rec EXCEPT ![q] = Row(s, d)] /\ rec \in [Requests -> [state : States, dirty : BOOLEAN]]
  BY DEF SetRow, TypeOK, States
<1>2. q \in Requests => Row(s, d) \in [state : States, dirty : BOOLEAN]
  BY DEF Row
<1>3. rec' \in [Requests -> [state : States, dirty : BOOLEAN]]
  BY <1>1, <1>2
<1>4. ASSUME NEW r \in Requests PROVE Settles(r)
  <2>1. CASE r = q
    <3>1. rec'[r] = Row(s, d) /\ rec'[r].state = s /\ rec'[r].dirty = d
      BY <1>1, <2>1 DEF Row
    <3> QED
      BY <2>1, <3>1 DEF Settles, Active
  <2>2. CASE r # q
    BY <1>1, <2>2 DEF Settles, Active
  <2> QED
    BY <2>1, <2>2
<1> QED
  BY <1>3, <1>4 DEF RowsSettle

\* A stop leaves no anchor without an answer, whether it succeeds or fails.
LEMMA StopSettles ==
    ASSUME TypeOK, NEW t \in Tasks, NEW q, q = Target(t),
           \/ StopFails(t)
           \/ (Gone(t) \/ Stale(t)) /\ ~Matches(q)'
    PROVE  RowsSettle
<1>1. CASE StopFails(t)
  <2>1. SetRow(q, "FAILED", TRUE)
    BY <1>1 DEF StopFails
  <2> QED
    BY <2>1, SetRowSettles DEF States, TerminalStates, ActiveStates
<1>2. CASE (Gone(t) \/ Stale(t)) /\ ~Matches(q)'
  <2>1. PICK s \in {"STOPPED", "FAILED", "STALE_IDENTITY"} : SetRow(q, s, rec[q].dirty)
    BY <1>2 DEF Gone, Stale
  <2>2. s \in States /\ s \notin ActiveStates
    BY DEF States, TerminalStates, ActiveStates
  <2>3. q \in Requests => rec[q].dirty \in BOOLEAN
    BY DEF TypeOK
  <2> QED
    BY <1>2, <2>1, <2>2, <2>3, SetRowSettles
<1> QED
  BY <1>1, <1>2

\* What a look finds before a signal.
LEMMA LookSettles ==
    ASSUME TypeOK, NEW t \in Tasks, Look(t), UNCHANGED <<anchor, other>>
    PROVE  RowsSettle
<1>1. PICK q : q = Target(t)
  OBVIOUS
<1>2. Absent(q) \/ Mismatches(q) => ~Matches(q)'
  BY DEF Absent, Mismatches, Matches
<1> QED
  BY <1>1, <1>2, StopSettles DEF Look

\* What recovery makes of a row.
LEMMA RecoverSettles ==
    ASSUME TypeOK, StrangersOK, NEW q \in Requests, Recover(q)
    PROVE  RowsSettle
<1>1. CASE rec' = rec /\ UNCHANGED anchor
  BY <1>1 DEF TypeOK, RowsSettle, Settles, Active, States, Matches
<1>2. CASE ~(rec' = rec /\ UNCHANGED anchor)
  <2>1. PICK seen \in BOOLEAN, done \in BOOLEAN, s \in {"STOPPED", "FAILED"} :
           LET row == Recovered(q, seen, done, s)
               kill == seen /\ Matches(q) /\ row.state # "RUNNING" IN
           /\ Allowed(rec[q].state, row.state)
           /\ rec' = [rec EXCEPT ![q] = row]
           /\ IF kill THEN Terminated(q, done) ELSE UNCHANGED <<anchor, work, other>>
    BY <1>2 DEF Recover
  <2> DEFINE row == Recovered(q, seen, done, s)
  <2>2. rec[q] \in [state : States, dirty : BOOLEAN]
    BY DEF TypeOK, States
  <2>3. /\ row \in [state : States, dirty : BOOLEAN]
        /\ Matches(q) => row.state = "RUNNING" \/ row.dirty \/ (seen /\ done /\ row.state # "RUNNING")
    BY <2>2 DEF Recovered, Row, States, ActiveStates, TerminalStates
  <2>4. row = Row(row.state, row.dirty)
    BY <2>3 DEF Row
  <2> HIDE DEF row
  <2>5. SetRow(q, row.state, row.dirty)
    BY <2>1, <2>4 DEF SetRow, row
  <2>6. row.state \in ActiveStates => Active(q)
    BY <2>1 DEF Allowed, Active, ActiveStates, TerminalStates, row
  <2>7. Matches(q)' => Matches(q)
    BY <2>1, TerminatedOwn DEF Matches, ProcsAge, Older, row
  <2>8. Matches(q)' => row.state = "RUNNING" \/ row.dirty
    BY <2>1, <2>3, <2>7, TerminatedOwn DEF row
  <2> QED
    BY <2>3, <2>5, <2>6, <2>8, SetRowSettles DEF ActiveStates
<1> QED
  BY <1>1, <1>2

\* Every step but the record of a new run leaves the rows settled.
LEMMA RowSteps ==
    ASSUME TypeOK, StrangersOK, [Next]_vars, ~\E t \in Tasks : CreateRecord(t)
    PROVE  RowsSettle
<1>1. CASE rec' = rec
  BY <1>1 DEF TypeOK, RowsSettle, Settles, Active, States
<1>2. ASSUME NEW t \in Tasks, StartFindsActive(t) PROVE RowsSettle
  <2>1. CASE rec' # rec
    <3>1. PICK q \in Current(t) : \E s \in {"RUNNING", "STALE_IDENTITY", "STOPPED", "FAILED"} :
                SetRow(q, s, rec[q].dirty) /\ (s = "RUNNING" \/ ~Matches(q))
      BY <1>2, <2>1 DEF StartFindsActive
    <3>2. anchor' = anchor
      BY <1>2 DEF StartFindsActive, procs
    <3>3. PICK s \in {"RUNNING", "STALE_IDENTITY", "STOPPED", "FAILED"} :
                SetRow(q, s, rec[q].dirty) /\ (s = "RUNNING" \/ ~Matches(q))
      BY <3>1
    <3>4. s \in States /\ (s = "RUNNING" \/ s \notin ActiveStates)
      BY DEF States, ActiveStates, TerminalStates
    <3>5. q \in Requests /\ Active(q) /\ rec[q].dirty \in BOOLEAN
      BY <3>1 DEF Current, TypeOK
    <3>6. Matches(q)' => Matches(q)
      BY <3>2 DEF Matches
    <3> QED
      BY <3>3, <3>4, <3>5, <3>6, SetRowSettles DEF ActiveStates
  <2> QED
    BY <1>1, <2>1
<1>3. ASSUME NEW t \in Tasks, Launched(t) PROVE RowsSettle
  <2>1. SetRow(Subject(t), "RUNNING", FALSE) /\ rec[Subject(t)].state = "STARTING"
    BY <1>3 DEF Launched
  <2>2. Active(Subject(t)) /\ "RUNNING" \in States /\ "RUNNING" \in ActiveStates
    BY <2>1 DEF Active, ActiveStates, States
  <2> QED
    BY <2>1, <2>2, SetRowSettles
<1>4. ASSUME NEW t \in Tasks, Rollback(t) PROVE RowsSettle
  <2>1. PICK q : q = Subject(t)
    OBVIOUS
  <2>2. PICK confirmed \in BOOLEAN :
           /\ \/ Matches(q) /\ Killed(q)
              \/ confirmed = (anchor[q] = "gone") /\ anchor' = anchor
           /\ SetRow(q, "FAILED", ~confirmed)
    BY <1>4, <2>1 DEF Rollback
  <2>3. q \in Requests /\ Matches(q)' => ~confirmed
    <3>1. CASE Matches(q) /\ Killed(q)
      BY <3>1, KilledOwn
    <3>2. CASE confirmed = (anchor[q] = "gone") /\ anchor' = anchor
      BY <3>2 DEF Matches
    <3> QED
      BY <2>2, <3>1, <3>2
  <2> QED
    BY <2>2, <2>3, SetRowSettles DEF States, ActiveStates, TerminalStates
<1>5. ASSUME NEW t \in Tasks, IdleStopBegins(t) PROVE RowsSettle
  <2>1. PICK q \in Requests : q = Subject(t)
    BY <1>5, HeadType DEF IdleStopBegins, Doing
  <2>2. CASE rec' # rec
    <3>1. PICK done \in BOOLEAN :
             /\ rec' = [rec EXCEPT ![q].dirty = @ /\ ~done]
             /\ rec[q].dirty /\ Terminated(q, done)
             /\ ~Active(q)
      <4>1. PICK done \in {d \in BOOLEAN : d => rec[q].dirty} :
               /\ rec' = [rec EXCEPT ![q].dirty = @ /\ ~done]
               /\ IF rec[q].dirty THEN Terminated(q, done) ELSE UNCHANGED <<anchor, work, other>>
               /\ ~Active(q)
        BY <1>5, <2>1, <2>2 DEF IdleStopBegins
      <4>2. CASE ~rec[q].dirty
        <5>1. rec[q] \in [state : States, dirty : BOOLEAN] /\ rec \in [Requests -> [state : States, dirty : BOOLEAN]]
          BY <2>1 DEF TypeOK, States
        <5>2. [rec[q] EXCEPT !.dirty = @ /\ ~done] = rec[q]
          BY <4>2, <5>1
        <5> QED
          BY <2>2, <4>1, <5>1, <5>2
      <4> QED
        BY <4>1, <4>2
    <3>2. rec[q] \in [state : States, dirty : BOOLEAN]
      BY <2>1 DEF TypeOK, States
    <3>3. [rec[q] EXCEPT !.dirty = @ /\ ~done] = Row(rec[q].state, ~done)
      BY <3>1, <3>2 DEF Row
    <3>4. SetRow(q, rec[q].state, ~done)
      BY <3>1, <3>3 DEF SetRow
    <3>5. Matches(q)' => ~done
      BY <2>1, <3>1, TerminatedOwn
    <3>6. rec[q].state \in States /\ (rec[q].state \in ActiveStates => Active(q))
      BY <3>2 DEF Active
    <3> QED
      BY <3>4, <3>5, <3>6, SetRowSettles
  <2> QED
    BY <1>1, <2>2
<1>6. ASSUME NEW t \in Tasks, MarkStopping(t) PROVE RowsSettle
  <2>1. SetRow(Target(t), "STOPPING", rec[Target(t)].dirty) /\ Active(Target(t))
    BY <1>6 DEF MarkStopping
  <2>2. Target(t) \in Requests => rec[Target(t)].dirty \in BOOLEAN
    BY DEF TypeOK
  <2> QED
    BY <2>1, <2>2, SetRowSettles DEF States, ActiveStates
<1>7. ASSUME NEW t \in Tasks, Term(t) PROVE RowsSettle
  <2>1. PICK q : q = Target(t)
    OBVIOUS
  <2>2. UNCHANGED <<anchor, other>> /\ (Mismatches(q) => ~Matches(q)')
    BY <1>7 DEF Term, procs, Mismatches, Matches
  <2> QED
    BY <1>1, <1>7, <2>1, <2>2, LookSettles, StopSettles DEF Term
<1>8. ASSUME NEW t \in Tasks, Kill(t) PROVE RowsSettle
  BY <1>1, <1>8, LookSettles DEF Kill
<1>9. ASSUME NEW t \in Tasks, AwaitDeath(t) PROVE RowsSettle
  <2>1. PICK q : q = Target(t)
    OBVIOUS
  <2>2. GroupEmpty(q) => ~Matches(q)'
    BY <1>9 DEF AwaitDeath, procs, GroupEmpty, Matches
  <2> QED
    BY <1>9, <2>1, <2>2, StopSettles DEF AwaitDeath
<1>10. ASSUME NEW t \in Tasks, RecordExit(t) PROVE RowsSettle
  <2>1. CASE rec' # rec
    <3>1. PICK q : q = Subject(t)
      OBVIOUS
    <3>2. PICK s \in {"STOPPED", "FAILED"}, d \in BOOLEAN : SetRow(q, s, d) /\ (d \/ GroupEmpty(q))
      BY <1>10, <2>1, <3>1 DEF RecordExit
    <3>3. GroupEmpty(q) => ~Matches(q)'
      BY <1>10 DEF RecordExit, procs, GroupEmpty, Matches
    <3> QED
      BY <3>2, <3>3, SetRowSettles DEF States, ActiveStates, TerminalStates
  <2> QED
    BY <1>1, <2>1
<1>11. ASSUME NEW q \in Requests, Recover(q) PROVE RowsSettle
  BY <1>11, RecoverSettles
<1>12. ASSUME NEW q \in Requests, \/ Submit(q) \/ SubmitStop(q) \/ Answer(q) \/ HearExit(q) \/ SweepDecides(q)
                                   \/ AnchorLaunches(q) \/ LaunchAcknowledged(q) \/ AnchorLeaves(q) \/ TaskEnds(q)
                                   \/ AnchorEnds(q) \/ AnchorKilled(q) \/ PidReused(q)
       PROVE rec' = rec
  BY <1>12 DEF Submit, SubmitStop, Answer, HearExit, SweepDecides, AnchorLaunches, LaunchAcknowledged, AnchorLeaves,
               TaskEnds, AnchorEnds, AnchorKilled, PidReused, sup
<1>13. ASSUME NEW t \in Tasks, \/ Observe(t) \/ StartReserves(t) \/ StartFindsReservation(t) \/ RestartReserves(t)
                                \/ SpawnFails(t) \/ SendGo(t) \/ LaunchFails(t) \/ StopFindsNothing(t)
                                \/ WindowPasses(t) \/ ReservationExpires(t)
       PROVE rec' = rec
  BY <1>13 DEF Observe, StartReserves, StartFindsReservation, RestartReserves, SpawnFails, SendGo, LaunchFails,
               StopFindsNothing, WindowPasses, ReservationExpires, sup
<1>14. CASE SweepRechecks \/ Crash \/ Boot \/ Serve \/ UNCHANGED vars
  BY <1>1, <1>14 DEF SweepRechecks, Crash, Boot, Serve, vars, sup
<1> QED
  BY <1>1, <1>2, <1>3, <1>4, <1>5, <1>6, <1>7, <1>8, <1>9, <1>10, <1>11, <1>12, <1>13, <1>14 DEF Next

\* A new run's row and anchor are those of the request that spawns it.
LEMMA CreateFacts ==
    ASSUME TypeOK, HeadsOK, NEW t \in Tasks, CreateRecord(t)
    PROVE  \E q \in Requests :
             /\ lock[t] # <<>> /\ Op(t) = "request" /\ Subject(t) = q /\ at[t] = "spawn"
             /\ rec' = [rec EXCEPT ![q] = Row("STARTING", TRUE)]
             /\ anchor' = [anchor EXCEPT ![q] = "waiting"]
             /\ at' = [at EXCEPT ![t] = "go"]
             /\ ear' = ear \cup {q}
             /\ UNCHANGED <<other, lock, phase, task, admit>>
<1>1. at[t] = "spawn" /\ lock[t] # <<>> /\ Op(t) = "request"
  BY DEF CreateRecord, TypeOK, HeadsOK
<1>2. PICK q \in Requests : q = Subject(t)
  BY <1>1, HeadType
<1> QED
  BY <1>1, <1>2 DEF CreateRecord, SetRow, Goto, ctrl

Tokens == [by : Requests \cup {None}, old : Requests \cup {None}, late : BOOLEAN]

(* The part of TypeOK that neither the queues nor the runs have. *)
RestTyped ==
    /\ up \in {"down", "booting", "serving"}
    /\ admit \in [Requests -> {"no", "pending", "counted"}]
    /\ held \in [Tasks -> Tokens]
    /\ ear \subseteq Requests
    /\ sweep.step # "off" => sweep.run \in Requests

\* No reservation is a value of one.
LEMMA NoTokenType == NoToken \in Tokens
BY DEF NoToken, Tokens

\* A reservation is given back, or stays what it was.
LEMMA ReleaseType ==
    ASSUME TypeOK, NEW t \in Tasks, ReleaseOwn(t) \/ held' = held
    PROVE  held' \in [Tasks -> Tokens]
<1>1. held \in [Tasks -> Tokens]
  BY DEF TypeOK, Tokens
<1> QED
  BY <1>1, NoTokenType DEF ReleaseOwn

\* What is left of the types.
LEMMA RestTypes ==
    ASSUME TypeOK, [Next]_vars PROVE RestTyped'
<1> DEFINE Same == UNCHANGED <<up, admit, held, ear, sweep>>
<1> DEFINE SweepTyped == sweep.step # "off" => sweep.run \in Requests
<1>1. Same => RestTyped'
  BY DEF TypeOK, RestTyped, Tokens
<1>2. RestTyped
  BY DEF TypeOK, RestTyped, Tokens
<1>3. ASSUME NEW q \in Requests, Submit(q) PROVE RestTyped'
  BY <1>2, <1>3 DEF Submit, idle, RestTyped
<1>4. ASSUME NEW q \in Requests, Answer(q) PROVE RestTyped'
  BY <1>2, <1>4 DEF Answer, sup, RestTyped
<1>5. ASSUME NEW t \in Tasks, StartReserves(t) PROVE RestTyped'
  <2>1. Subject(t) \in Requests
    BY <1>5, HeadType DEF StartReserves, Starting, Doing
  <2>2. [NoToken EXCEPT !.by = Subject(t)] \in Tokens
    BY <2>1 DEF NoToken, Tokens
  <2> QED
    BY <1>2, <1>5, <2>2 DEF StartReserves, ctrl, idle, RestTyped
<1>6. ASSUME NEW t \in Tasks, StartFindsReservation(t) PROVE RestTyped'
  <2>1. held' = held \/ held' = [held EXCEPT ![t] = NoToken]
    BY <1>6 DEF StartFindsReservation
  <2> QED
    BY <1>2, <1>6, <2>1, NoTokenType DEF StartFindsReservation, idle, RestTyped
<1>7. ASSUME NEW t \in Tasks, RestartReserves(t) PROVE RestTyped'
  <2>1. Subject(t) \in Requests /\ Op(t) = "request"
    BY <1>7, HeadType DEF RestartReserves, Doing
  <2>2. Current(t) # {} => Target(t) \in Requests
    BY <2>1 DEF Target, Current
  <2>3. [NoToken EXCEPT !.by = Subject(t), !.old = IF Current(t) = {} THEN None ELSE Target(t)] \in Tokens
    BY <2>1, <2>2 DEF NoToken, Tokens
  <2>4. held' = held \/ held' = [held EXCEPT ![t] = [NoToken EXCEPT !.by = Subject(t),
                                   !.old = IF Current(t) = {} THEN None ELSE Target(t)]]
    BY <1>7 DEF RestartReserves
  <2> QED
    BY <1>2, <1>7, <2>3, <2>4 DEF RestartReserves, idle, RestTyped
<1>8. ASSUME NEW t \in Tasks, SpawnFails(t) \/ Launched(t) \/ Rollback(t) PROVE RestTyped'
  BY <1>2, <1>8, ReleaseType DEF SpawnFails, Launched, Rollback, idle, RestTyped
<1>9. ASSUME NEW t \in Tasks, CreateRecord(t) PROVE RestTyped'
  <2>1. Subject(t) \in Requests
    BY <1>9, HeadType DEF CreateRecord, TypeOK
  <2> QED
    BY <1>2, <1>9, <2>1 DEF CreateRecord, ctrl, RestTyped
<1>10. ASSUME NEW t \in Tasks, LaunchFails(t) PROVE RestTyped'
  BY <1>2, <1>10 DEF LaunchFails, ctrl, idle, RestTyped
<1>11. ASSUME NEW t \in Tasks, AfterStop(t) \/ StopFails(t) PROVE SweepTyped'
  <2>1. sweep' = [step |-> "off", run |-> None] \/ sweep' = sweep
    BY <1>11 DEF AfterStop, SweepEnds, StopFails
  <2> QED
    BY <1>2, <2>1 DEF RestTyped
<1>12. ASSUME NEW t \in Tasks, Term(t) \/ Kill(t) \/ AwaitDeath(t) PROVE RestTyped'
  <2>1. UNCHANGED <<up, admit, ear>>
    BY <1>12 DEF Term, Kill, AwaitDeath
  <2>2. \/ Look(t) \/ Gone(t) \/ StopFails(t)
        \/ UNCHANGED <<held, sweep>>
    BY <1>12 DEF Term, Kill, AwaitDeath
  <2>3. \/ AfterStop(t) /\ held' = held
        \/ StopFails(t) /\ (held' = held \/ ReleaseOwn(t))
        \/ UNCHANGED <<held, sweep>>
    BY <2>2 DEF Look, Gone, Stale, StopFails
  <2>4. SweepTyped'
    BY <1>2, <1>11, <2>3 DEF RestTyped
  <2>5. held' \in [Tasks -> Tokens]
    BY <2>3, ReleaseType
  <2> QED
    BY <1>2, <2>1, <2>4, <2>5 DEF RestTyped
<1>13. ASSUME NEW t \in Tasks, IdleStopBegins(t) PROVE RestTyped'
  <2>1. sweep' = [step |-> "off", run |-> None] \/ sweep' = sweep
    BY <1>13 DEF IdleStopBegins, SweepEnds
  <2> QED
    BY <1>2, <1>13, <2>1 DEF IdleStopBegins, RestTyped
<1>14. ASSUME NEW q \in Requests, HearExit(q) \/ SweepDecides(q) PROVE RestTyped'
  BY <1>2, <1>14 DEF HearExit, SweepDecides, ctrl, sup, idle, RestTyped
<1>15. CASE SweepRechecks
  <2>1. sweep' = [step |-> "off", run |-> None] \/ sweep' = [sweep EXCEPT !.step = "stopping"]
    BY <1>15 DEF SweepRechecks
  <2>2. sweep.run \in Requests
    BY <1>15 DEF SweepRechecks, TypeOK
  <2>3. SweepTyped'
    <3>1. CASE sweep' = [sweep EXCEPT !.step = "stopping"]
      BY <2>2, <3>1
    <3>2. CASE sweep' = [step |-> "off", run |-> None]
      BY <3>2
    <3> QED
      BY <2>1, <3>1, <3>2
  <2> QED
    BY <1>2, <1>15, <2>3 DEF SweepRechecks, ctrl, RestTyped
<1>16. CASE Crash
  <2>1. admit' \in [Requests -> {"no", "pending", "counted"}]
    BY <1>2, <1>16 DEF Crash, RestTyped
  <2> QED
    BY <1>2, <1>16, <2>1 DEF Crash, RestTyped
<1>17. ASSUME NEW t \in Tasks, ReservationExpires(t) PROVE RestTyped'
  <2>1. [held[t] EXCEPT !.late = TRUE] \in Tokens
    BY <1>2 DEF RestTyped, Tokens
  <2>2. held' = [held EXCEPT ![t] = [held[t] EXCEPT !.late = TRUE]]
    BY <1>17 DEF ReservationExpires
  <2> QED
    BY <1>2, <1>17, <2>1, <2>2 DEF ReservationExpires, ctrl, idle, RestTyped
<1>18. CASE Boot
  <2>1. held' \in [Tasks -> Tokens]
    BY <1>2, <1>18, NoTokenType DEF Boot, RestTyped
  <2> QED
    BY <1>2, <1>18, <2>1 DEF Boot, idle, RestTyped
<1>19. ASSUME NEW q \in Requests, Recover(q) PROVE RestTyped'
  <2>1. held' = held \/ \E t : held' = [held EXCEPT ![t] = NoToken]
    BY <1>19 DEF Recover, RecoveryReleases
  <2>2. held' \in [Tasks -> Tokens]
    BY <1>2, <2>1, NoTokenType DEF RestTyped
  <2> QED
    BY <1>2, <1>19, <2>2 DEF Recover, idle, RestTyped
<1>20. CASE Serve
  BY <1>2, <1>20 DEF Serve, sup, idle, RestTyped
<1>21. ASSUME NEW q \in Requests, \/ SubmitStop(q) \/ AnchorLaunches(q) \/ LaunchAcknowledged(q) \/ AnchorLeaves(q)
                                   \/ TaskEnds(q) \/ AnchorEnds(q) \/ AnchorKilled(q) \/ PidReused(q)
       PROVE Same
  BY <1>21 DEF SubmitStop, AnchorLaunches, LaunchAcknowledged, AnchorLeaves, TaskEnds, AnchorEnds, AnchorKilled,
               PidReused, ctrl, sup, idle
<1>22. ASSUME NEW t \in Tasks, \/ Observe(t) \/ StartFindsActive(t) \/ SendGo(t) \/ StopFindsNothing(t)
                                \/ MarkStopping(t) \/ RecordExit(t) \/ WindowPasses(t)
       PROVE Same
  BY <1>22 DEF Observe, StartFindsActive, SendGo, StopFindsNothing, MarkStopping, RecordExit, WindowPasses,
               ctrl, sup, idle
<1>23. CASE UNCHANGED vars
  BY <1>1, <1>23 DEF vars, ctrl, sup, idle
<1> QED
  BY <1>1, <1>3, <1>4, <1>5, <1>6, <1>7, <1>8, <1>9, <1>10, <1>12, <1>13, <1>14, <1>15, <1>16, <1>17, <1>18, <1>19,
     <1>20, <1>21, <1>22, <1>23 DEF Next

\* Every step keeps the types.
LEMMA StepType ==
    ASSUME TypeOK, HeadsOK, StrangersOK, [Next]_vars PROVE TypeOK'
<1>1. QueuesTyped' /\ RestTyped'
  BY QueueSteps, QueueTypes, RestTypes
<1> DEFINE RunsTyped == rec \in [Requests -> [state : States, dirty : BOOLEAN]]
<1>2. RunsTyped' /\ ProcTypes
  <2>1. ASSUME NEW t \in Tasks, CreateRecord(t) PROVE RunsTyped' /\ ProcTypes
    <3>1. PICK q \in Requests : /\ rec' = [rec EXCEPT ![q] = Row("STARTING", TRUE)]
                                 /\ anchor' = [anchor EXCEPT ![q] = "waiting"]
                                 /\ other' = other
      BY <2>1, CreateFacts
    <3>2. Row("STARTING", TRUE) \in [state : States, dirty : BOOLEAN]
      BY DEF Row, States, ActiveStates
    <3> QED
      BY <3>1, <3>2 DEF TypeOK, States, ProcTypes
  <2> QED
    BY <2>1, ProcSteps, RowSteps DEF ProcsAge, RowsSettle
<1> QED
  BY <1>1, <1>2 DEF TypeOK, QueuesTyped, RestTyped, Tokens, ProcTypes, States

-----------------------------------------------------------------------------
\* An operation that leaves its queue leaves the others where they were.
LEMMA PopFacts ==
    ASSUME TypeOK, NEW t \in Tasks, lock[t] # <<>>, lock' = [lock EXCEPT ![t] = Tail(@)]
    PROVE  /\ \A u \in Tasks \ {t} : lock'[u] = lock[u]
           /\ Len(lock[t]) \in Nat
           /\ Len(lock'[t]) = Len(lock[t]) - 1
           /\ \A i \in 1 .. Len(lock'[t]) : i + 1 \in Places(t) /\ lock'[t][i] = lock[t][i + 1]
<1>1. lock[t] \in Seq({"request", "exit", "idle"} \X Requests) /\ lock'[t] = Tail(lock[t])
  BY DEF TypeOK
<1>2. /\ Len(lock[t]) \in Nat \ {0}
      /\ Len(Tail(lock[t])) = Len(lock[t]) - 1
      /\ \A i \in 1 .. Len(Tail(lock[t])) : Tail(lock[t])[i] = lock[t][i + 1]
  BY <1>1, HeadTailProperties, EmptySeq
<1>3. \A i \in 1 .. Len(lock'[t]) : i + 1 \in 1 .. Len(lock[t])
  <2>1. PICK n \in Nat \ {0} : n = Len(lock[t]) /\ Len(lock'[t]) = n - 1
    BY <1>1, <1>2
  <2>2. \A i \in 1 .. (n - 1) : i + 1 \in 1 .. n
    OBVIOUS
  <2> QED
    BY <2>1, <2>2
<1> QED
  BY <1>1, <1>2, <1>3 DEF TypeOK, Places

\* An operation that joins a queue is its last.
LEMMA PushFacts ==
    ASSUME TypeOK, NEW t \in Tasks, NEW what \in {"request", "exit", "idle"}, NEW q \in Requests, Enqueue(t, what, q)
    PROVE  /\ \A u \in Tasks \ {t} : lock'[u] = lock[u]
           /\ Len(lock[t]) \in Nat
           /\ Len(lock'[t]) = Len(lock[t]) + 1
           /\ \A i \in Places(t) : lock'[t][i] = lock[t][i]
           /\ lock'[t][Len(lock[t]) + 1] = <<what, q>>
           /\ lock[t] # <<>> => Head(lock'[t]) = Head(lock[t])
<1> DEFINE Entries == {"request", "exit", "idle"} \X Requests
<1>1. lock[t] \in Seq(Entries) /\ lock'[t] = Append(lock[t], <<what, q>>) /\ <<what, q>> \in Entries
  BY DEF TypeOK, Enqueue
<1>2. Len(lock[t]) \in Nat
  BY <1>1, LenProperties
<1> HIDE DEF Entries
<1> QED
  BY <1>1, <1>2, AppendProperties, HeadTailAppend DEF TypeOK, Enqueue, Places

\* What is queued is of a request.
LEMMA EntryType ==
    ASSUME TypeOK, NEW t \in Tasks, NEW i \in Places(t)
    PROVE  lock[t][i][2] \in Requests
<1>1. lock[t] \in Seq({"request", "exit", "idle"} \X Requests)
  BY DEF TypeOK
<1>2. lock[t][i] \in {"request", "exit", "idle"} \X Requests
  BY <1>1, ElementOfSeq DEF Places
<1> QED
  BY <1>2

\* A request is queued once, at its task, as long as it is inside.
LEMMA StepQueues ==
    ASSUME TypeOK, QueuesOK, HeadsOK, QueueStep PROVE QueuesOK'
<1>1. ASSUME NEW t \in Tasks, NEW q \in Requests, NEW what \in {"request", "exit", "idle"}, Enqueue(t, what, q),
             what = "request" => /\ phase[q] = "new"
                                 /\ phase' = [phase EXCEPT ![q] = "inside"]
                                 /\ task' = [task EXCEPT ![q] = t],
             what # "request" => UNCHANGED <<phase, task>>
      PROVE  QueuesOK'
  <2>1. ASSUME NEW u \in Tasks, NEW i \in Places(u)', IsRequest(u, i)'
        PROVE  \/ /\ i \in Places(u) /\ IsRequest(u, i) /\ lock'[u][i] = lock[u][i]
                  /\ lock'[u][i][2] # q \/ what # "request"
               \/ u = t /\ what = "request" /\ i = Len(lock[t]) + 1 /\ lock'[u][i][2] = q
    <3>1. CASE u # t \/ i \in Places(t)
      <4>1. i \in Places(u) /\ lock'[u][i] = lock[u][i]
        BY <1>1, <2>1, <3>1, PushFacts DEF Places
      <4>2. IsRequest(u, i) /\ phase[lock[u][i][2]] = "inside"
        BY <2>1, <4>1 DEF QueuesOK, IsRequest
      <4> QED
        BY <1>1, <4>1, <4>2
    <3>2. CASE u = t /\ i \notin Places(t)
      <4>1. i = Len(lock[t]) + 1 /\ lock'[t][i] = <<what, q>>
        BY <1>1, <3>2, PushFacts DEF Places
      <4> QED
        BY <2>1, <3>2, <4>1 DEF IsRequest
    <3> QED
      BY <3>1, <3>2
  <2>2. ASSUME NEW u \in Tasks, NEW i \in Places(u)', IsRequest(u, i)'
        PROVE  phase'[lock'[u][i][2]] = "inside" /\ task'[lock'[u][i][2]] = u
    <3>1. CASE u = t /\ what = "request" /\ lock'[u][i][2] = q
      BY <1>1, <3>1 DEF TypeOK
    <3>2. CASE /\ i \in Places(u) /\ IsRequest(u, i) /\ lock'[u][i] = lock[u][i]
               /\ lock'[u][i][2] # q \/ what # "request"
      <4>1. PICK r \in Requests : r = lock[u][i][2]
        BY <3>2, EntryType
      <4>2. phase[r] = "inside" /\ task[r] = u
        BY <3>2, <4>1 DEF QueuesOK
      <4>3. phase'[r] = phase[r] /\ task'[r] = task[r]
        BY <1>1, <3>2, <4>1 DEF TypeOK
      <4> QED
        BY <3>2, <4>1, <4>2, <4>3
    <3> QED
      BY <2>1, <2>2, <3>1, <3>2
  <2>3. ASSUME NEW u \in Tasks, NEW i \in Places(u)', NEW j \in Places(u)', IsRequest(u, i)', IsRequest(u, j)',
               lock'[u][i][2] = lock'[u][j][2]
        PROVE  i = j
    BY <1>1, <2>1, <2>3 DEF QueuesOK
  <2> QED
    BY <2>2, <2>3 DEF QueuesOK
<1>2. ASSUME NEW t \in Tasks, lock[t] # <<>>, Unlock(t), task' = task,
             \/ phase' = phase
             \/ Op(t) = "request" /\ \E result \in {"ran", "failed"} : phase' = [phase EXCEPT ![Subject(t)] = result]
      PROVE  QueuesOK'
  <2>1. PICK q \in Requests : q = Subject(t) /\ 1 \in Places(t) /\ q = lock[t][1][2] /\ Op(t) = lock[t][1][1]
    BY <1>2, HeadType DEF Subject, Op
  <2>2. ASSUME NEW u \in Tasks, NEW i \in Places(u)', IsRequest(u, i)'
        PROVE  \E j \in Places(u) : /\ IsRequest(u, j) /\ lock'[u][i] = lock[u][j]
                                    /\ j = IF u = t THEN i + 1 ELSE i
    BY <1>2, <2>2, PopFacts DEF Unlock, Places, IsRequest
  <2>3. ASSUME NEW u \in Tasks, NEW j \in Places(u), IsRequest(u, j), u = t => j # 1
        PROVE  phase'[lock[u][j][2]] = "inside"
    <3>1. PICK r \in Requests : r = lock[u][j][2] /\ phase[r] = "inside" /\ task[r] = u
      BY <2>3, EntryType DEF QueuesOK
    <3>2. CASE Op(t) = "request" /\ r = q
      <4>1. IsRequest(t, 1)
        BY <2>1, <3>2 DEF IsRequest
      <4>2. task[q] = t
        BY <2>1, <4>1 DEF QueuesOK
      <4>3. u = t
        BY <3>1, <3>2, <4>2
      <4>4. j = 1
        <5>1. j \in Places(t) /\ IsRequest(t, j) /\ lock[t][j][2] = lock[t][1][2]
          BY <2>1, <2>3, <3>1, <3>2, <4>3
        <5> QED
          BY <2>1, <4>1, <5>1 DEF QueuesOK
      <4> QED
        BY <2>3, <4>3, <4>4
    <3>3. CASE ~(Op(t) = "request" /\ r = q)
      <4>1. phase'[r] = phase[r]
        BY <1>2, <2>1, <3>3 DEF TypeOK
      <4> QED
        BY <3>1, <4>1
    <3> QED
      BY <3>2, <3>3
  <2>4. ASSUME NEW u \in Tasks, NEW i \in Places(u)', IsRequest(u, i)'
        PROVE  phase'[lock'[u][i][2]] = "inside" /\ task'[lock'[u][i][2]] = u
    <3>1. PICK j \in Places(u) : IsRequest(u, j) /\ lock'[u][i] = lock[u][j] /\ j = IF u = t THEN i + 1 ELSE i
      BY <2>2, <2>4
    <3>2. u = t => j # 1
      BY <3>1, <1>2, PopFacts DEF Places, Unlock
    <3> QED
      BY <1>2, <2>3, <3>1, <3>2 DEF QueuesOK
  <2>5. ASSUME NEW u \in Tasks, NEW i \in Places(u)', NEW j \in Places(u)', IsRequest(u, i)', IsRequest(u, j)',
               lock'[u][i][2] = lock'[u][j][2]
        PROVE  i = j
    <3>1. PICK k \in Places(u) : IsRequest(u, k) /\ lock'[u][i] = lock[u][k] /\ k = IF u = t THEN i + 1 ELSE i
      BY <2>2, <2>5
    <3>2. PICK m \in Places(u) : IsRequest(u, m) /\ lock'[u][j] = lock[u][m] /\ m = IF u = t THEN j + 1 ELSE j
      BY <2>2, <2>5
    <3>3. k = m
      BY <2>5, <3>1, <3>2 DEF QueuesOK
    <3>4. i \in Int /\ j \in Int
      BY DEF Places
    <3> QED
      BY <3>1, <3>2, <3>3, <3>4
  <2> QED
    BY <2>4, <2>5 DEF QueuesOK
<1>3. ASSUME NEW q \in Requests, NEW t \in Tasks, Refused(q, t) \/ Answered(q) PROVE QueuesOK'
  <2>2. phase[q] # "inside" /\ lock' = lock
    BY <1>3 DEF Refused, Answered
  <2>3. ASSUME NEW u \in Tasks, NEW i \in Places(u), IsRequest(u, i)
        PROVE  phase'[lock[u][i][2]] = "inside" /\ task'[lock[u][i][2]] = u
    <3>1. PICK r \in Requests : r = lock[u][i][2] /\ phase[r] = "inside" /\ task[r] = u
      BY <2>3, EntryType DEF QueuesOK
    <3>2. phase'[r] = phase[r] /\ task'[r] = task[r]
      BY <1>3, <2>2, <3>1 DEF Refused, Answered, TypeOK
    <3> QED
      BY <3>1, <3>2
  <2> QED
    BY <2>2, <2>3 DEF QueuesOK, Places, IsRequest
<1>4. ASSUME NEW q \in Requests, NEW t \in Tasks, Asks(q, t) PROVE QueuesOK'
  BY <1>1, <1>4 DEF Asks
<1>5. ASSUME NEW q \in Requests, NEW what \in {"exit", "idle"}, Joins(q, what) PROVE QueuesOK'
  <2>1. CASE task[q] \in Tasks
    BY <1>1, <1>5, <2>1 DEF Joins
  <2>2. CASE task[q] \notin Tasks
    <3>1. lock' = lock
      BY <1>5, <2>2 DEF Joins, Enqueue, TypeOK
    <3> QED
      BY <1>5, <3>1 DEF Joins, QueuesOK, Places, IsRequest
  <2> QED
    BY <2>1, <2>2
<1>6. ASSUME NEW t \in Tasks, Returns(t) \/ Drops(t) PROVE QueuesOK'
  BY <1>2, <1>6 DEF Returns, Drops, Return
<1>7. CASE Forgets
  <2>1. \A u \in Tasks : lock'[u] = <<>> /\ Len(lock'[u]) = 0
    BY <1>7, EmptySeq DEF Forgets
  <2>2. \A u \in Tasks : 1 .. Len(lock'[u]) = {}
    BY <2>1
  <2> QED
    BY <2>2 DEF QueuesOK, Places
<1>8. CASE UNCHANGED <<phase, task, lock>>
  BY <1>8 DEF QueuesOK, Places, IsRequest
<1>9. CASE \E q \in Requests : Answered(q)
  <2>1. CASE Tasks = {}
    BY <2>1 DEF QueuesOK
  <2> QED
    BY <1>3, <1>9, <2>1
<1>10. CASE \E t \in Tasks, l \in {"begin", "spawn", "stop", "term", "kill", "dead"} \cup Launching : Moves(t, l)
  BY <1>8, <1>10 DEF Moves
<1> QED
  BY <1>3, <1>4, <1>5, <1>6, <1>7, <1>8, <1>9, <1>10 DEF QueueStep

\* A step that only adds to the queues leaves their heads.
LEMMA HeadKept ==
    ASSUME TypeOK, NEW t, NEW what \in {"request", "exit", "idle"}, NEW q \in Requests, Enqueue(t, what, q),
           NEW u \in Tasks, lock[u] # <<>>
    PROVE  Head(lock'[u]) = Head(lock[u])
<1>1. CASE t \in Tasks
  BY <1>1, PushFacts
<1>2. CASE t \notin Tasks
  BY <1>2 DEF Enqueue, TypeOK
<1> QED
  BY <1>1, <1>2

\* Heads stay what they are, or leave.
LEMMA StepHeads ==
    ASSUME TypeOK, HeadsOK, QueueStep PROVE HeadsOK'
<1> SUFFICES ASSUME NEW u \in Tasks, at'[u] # "begin"
             PROVE  \/ Head(lock'[u])[1] = "request"
                    \/ Head(lock'[u])[1] = "idle" /\ at'[u] \in {"stop", "term", "kill", "dead"}
  BY DEF HeadsOK, Op
<1> DEFINE Goal == \/ Head(lock'[u])[1] = "request"
                   \/ Head(lock'[u])[1] = "idle" /\ at'[u] \in {"stop", "term", "kill", "dead"}
<1>1. ASSUME at'[u] = at[u], lock[u] # <<>> => Head(lock'[u]) = Head(lock[u]) PROVE Goal
  BY <1>1 DEF HeadsOK, Op, TypeOK
<1>2. ASSUME NEW t, NEW what \in {"request", "exit", "idle"}, NEW q \in Requests, Enqueue(t, what, q), at' = at
      PROVE  Goal
  BY <1>1, <1>2, HeadKept
<1>3. ASSUME NEW t \in Tasks, Returns(t) \/ Drops(t) PROVE Goal
  <2>1. Unlock(t)
    BY <1>3 DEF Returns, Drops, Return
  <2>2. u # t
    BY <2>1 DEF Unlock, Goto, TypeOK
  <2>3. lock'[u] = lock[u] /\ at'[u] = at[u]
    BY <2>1, <2>2 DEF Unlock, Goto, TypeOK
  <2> QED
    BY <1>1, <2>3
<1>4. ASSUME NEW t \in Tasks, NEW l \in {"begin", "spawn", "stop", "term", "kill", "dead"} \cup Launching, Moves(t, l)
      PROVE  Goal
  <2>1. CASE u # t
    BY <1>1, <1>4, <2>1 DEF Moves, Goto, TypeOK
  <2>2. CASE u = t
    <3>1. at'[u] = l /\ lock' = lock
      BY <1>4, <2>2 DEF Moves, Goto, TypeOK
    <3>2. CASE l \in Launching
      <4>1. Op(u) = "request"
        BY <1>4, <2>2, <3>2 DEF Moves, HeadsOK, Launching
      <4> QED
        BY <3>1, <4>1 DEF Op
    <3>3. CASE l \notin Launching
      <4>1. \/ Op(u) = "request"
            \/ Op(u) = "idle" /\ l \in {"stop", "term", "kill", "dead"}
        BY <1>4, <2>2, <3>3 DEF Moves
      <4> QED
        BY <3>1, <4>1 DEF Op
    <3> QED
      BY <3>2, <3>3
  <2> QED
    BY <2>1, <2>2
<1>5. CASE Forgets
  BY <1>5 DEF Forgets
<1>6. CASE UNCHANGED <<lock, at>>
  BY <1>1, <1>6
<1> QED
  BY <1>2, <1>3, <1>4, <1>5, <1>6 DEF QueueStep, Asks, Refused, Answered, Joins

(* A request goes through its phases in their order. *)
Proceeds(q) ==
    /\ phase'[q] = "new" => phase[q] = "new"
    /\ phase[q] = "done" => phase'[q] = "done"
    /\ phase'[q] = "inside" => phase[q] \in {"new", "inside"}
    /\ phase[q] # "new" => task'[q] = task[q]

\* The request at the head of a queue is inside, and of that task.
LEMMA HeadInside ==
    ASSUME TypeOK, QueuesOK, NEW t \in Tasks, lock[t] # <<>>, Op(t) = "request"
    PROVE  phase[Subject(t)] = "inside" /\ task[Subject(t)] = t
<1>1. 1 \in Places(t) /\ Op(t) = lock[t][1][1] /\ Subject(t) = lock[t][1][2]
  BY HeadType DEF Op, Subject
<1>2. IsRequest(t, 1)
  BY <1>1 DEF IsRequest
<1> QED
  BY <1>1, <1>2 DEF QueuesOK

\* No step takes a request back.
LEMMA StepProceeds ==
    ASSUME TypeOK, QueuesOK, QueueStep, NEW q \in Requests
    PROVE  Proceeds(q)
<1>1. ASSUME NEW r \in Requests, NEW t \in Tasks, Asks(r, t) \/ Refused(r, t) PROVE Proceeds(q)
  BY <1>1 DEF Asks, Refused, TypeOK, Proceeds
<1>2. ASSUME NEW r \in Requests, Answered(r) PROVE Proceeds(q)
  BY <1>2 DEF Answered, TypeOK, Proceeds
<1>3. ASSUME NEW t \in Tasks, Returns(t) PROVE Proceeds(q)
  <2>1. phase[Subject(t)] = "inside"
    BY <1>3, HeadInside DEF Returns
  <2> QED
    BY <1>3, <2>1 DEF Returns, Return, TypeOK, Proceeds
<1>4. CASE Forgets
  BY <1>4 DEF Forgets, TypeOK, Proceeds
<1>5. CASE UNCHANGED <<phase, task>>
  BY <1>5 DEF Proceeds
<1> QED
  BY <1>1, <1>2, <1>3, <1>4, <1>5 DEF QueueStep, Joins, Drops, Moves

(* What a step may do to the reserved starts. *)
Admits(q) ==
    /\ up = "serving" /\ phase[q] = "new" /\ Managed < MaxProcesses
    /\ \A r \in Requests : r # q => admit'[r] = admit[r]
    /\ admit'[q] = "pending" /\ phase'[q] = "inside" /\ rec' = rec

\* A start is reserved within the budget, and settled with its answer.
LEMMA AdmitSteps ==
    ASSUME TypeOK, UnaskedOK, QueuesOK, [Next]_vars
    PROVE  \/ \E q \in Requests : Admits(q)
           \/ \A q \in Requests :
                /\ admit'[q] = "pending" => admit[q] = "pending"
                /\ admit'[q] # "no" => admit[q] # "no"
                /\ admit'[q] = "counted" => admit[q] = "counted" \/ phase'[q] = "done"
<1> DEFINE Settled == \A q \in Requests :
                /\ admit'[q] = "pending" => admit[q] = "pending"
                /\ admit'[q] # "no" => admit[q] # "no"
                /\ admit'[q] = "counted" => admit[q] = "counted" \/ phase'[q] = "done"
<1>1. ASSUME NEW q \in Requests, Submit(q) PROVE Admits(q) \/ Settled
  BY <1>1 DEF Submit, sup, TypeOK, Admits
<1>2. ASSUME NEW q \in Requests, Answer(q) PROVE Settled
  BY <1>2 DEF Answer, TypeOK
<1>3. CASE Crash
  BY <1>3 DEF Crash, TypeOK, UnaskedOK
<1>4. CASE admit' = admit
  BY <1>4
<1>5. ASSUME NEW q \in Requests, \/ SubmitStop(q) \/ HearExit(q) \/ SweepDecides(q) \/ AnchorLaunches(q)
                                  \/ LaunchAcknowledged(q) \/ AnchorLeaves(q) \/ TaskEnds(q) \/ AnchorEnds(q)
                                  \/ AnchorKilled(q) \/ PidReused(q) \/ Recover(q)
      PROVE admit' = admit
  BY <1>5 DEF SubmitStop, HearExit, SweepDecides, AnchorLaunches, LaunchAcknowledged, AnchorLeaves, TaskEnds,
              AnchorEnds, AnchorKilled, PidReused, Recover, ctrl
<1>6. ASSUME NEW t \in Tasks, \/ Observe(t) \/ StartReserves(t) \/ StartFindsReservation(t) \/ StartFindsActive(t)
                               \/ RestartReserves(t) \/ SpawnFails(t) \/ CreateRecord(t) \/ SendGo(t) \/ Launched(t)
                               \/ LaunchFails(t) \/ Rollback(t) \/ StopFindsNothing(t) \/ IdleStopBegins(t)
                               \/ MarkStopping(t) \/ Term(t) \/ Kill(t) \/ AwaitDeath(t) \/ RecordExit(t)
                               \/ WindowPasses(t) \/ ReservationExpires(t)
      PROVE admit' = admit
  BY <1>6 DEF Observe, StartReserves, StartFindsReservation, StartFindsActive, RestartReserves, SpawnFails,
              CreateRecord, SendGo, Launched, LaunchFails, Rollback, StopFindsNothing, IdleStopBegins, MarkStopping,
              Term, Kill, AwaitDeath, RecordExit, WindowPasses, ReservationExpires, ctrl
<1>7. CASE SweepRechecks \/ Boot \/ Serve \/ UNCHANGED vars
  BY <1>4, <1>7 DEF SweepRechecks, Boot, Serve, vars, ctrl
<1> QED
  BY <1>1, <1>2, <1>3, <1>4, <1>5, <1>6, <1>7 DEF Next

-----------------------------------------------------------------------------
\* The program starts with nothing asked for.
LEMMA InitInv == Init => IInv
<1> SUFFICES ASSUME Init PROVE IInv
  OBVIOUS
<1>1. TypeOK
  <2>1. /\ NoRow \in [state : ActiveStates \cup TerminalStates \cup {"none"}, dirty : BOOLEAN]
        /\ lock \in [Tasks -> Seq({"request", "exit", "idle"} \X Requests)]
        /\ held \in [Tasks -> [by : Requests \cup {None}, old : Requests \cup {None}, late : BOOLEAN]]
    BY EmptySeq DEF Init, NoRow, NoToken
  <2> QED
    BY <2>1 DEF Init, TypeOK
<1>2. QueuesOK
  <2>1. \A t \in Tasks : Places(t) = {}
    <3>1. \A t \in Tasks : Len(lock[t]) = 0
      BY EmptySeq DEF Init
    <3> QED
      BY <3>1 DEF Places
  <2> QED
    BY <2>1 DEF QueuesOK
<1>3. \A q \in Requests : ~Active(q) /\ anchor[q] = "none" /\ other[q] = "none" /\ admit[q] = "no" /\ phase[q] = "new"
  BY DEF Init, Active, NoRow, ActiveStates
<1>4. HeadsOK /\ UnaskedOK /\ LaunchesOK /\ RowsOK /\ Owned /\ StrangersOK /\ StrangersAreSpared
  BY <1>3 DEF Init, HeadsOK, UnaskedOK, LaunchesOK, RowsOK, Owned, StrangersOK, StrangersAreSpared, Matches
<1>5. BudgetOK
  <2>1. Charged = {}
    BY <1>3 DEF Charged
  <2> QED
    BY <2>1, FS_EmptySet, RuntimeAssumption DEF BudgetOK
<1> QED
  BY <1>1, <1>2, <1>4, <1>5 DEF IInv

(* A run that begins is of a request nothing ran for, of a task without an active row. *)
Begins(t, q) ==
    /\ phase[q] = "inside" /\ task[q] = t /\ Current(t) = {} /\ Op(t) = "request" /\ Subject(t) = q
    /\ anchor[q] = "none" /\ other[q] = "none" /\ admit[q] # "counted" /\ at[t] = "spawn"
    /\ rec' = [rec EXCEPT ![q] = Row("STARTING", TRUE)]
    /\ anchor' = [anchor EXCEPT ![q] = "waiting"]
    /\ at' = [at EXCEPT ![t] = "go"]
    /\ UNCHANGED <<other, lock, phase, task, admit>>

\* A record is only created for such a run.
LEMMA CreateFresh ==
    ASSUME IInv, NEW t \in Tasks, CreateRecord(t)
    PROVE  \E q \in Requests : Begins(t, q)
<1>1. PICK q \in Requests :
             /\ lock[t] # <<>> /\ Op(t) = "request" /\ Subject(t) = q /\ at[t] = "spawn"
             /\ rec' = [rec EXCEPT ![q] = Row("STARTING", TRUE)]
             /\ anchor' = [anchor EXCEPT ![q] = "waiting"]
             /\ at' = [at EXCEPT ![t] = "go"]
             /\ UNCHANGED <<other, lock, phase, task, admit>>
  BY CreateFacts DEF IInv
<1>2. phase[q] = "inside" /\ task[q] = t
  BY <1>1, HeadInside DEF IInv
<1>3. anchor[q] = "none"
  BY <1>1, <1>2 DEF IInv, LaunchesOK, Launching
<1>4. other[q] = "none" /\ admit[q] # "counted" /\ Current(t) = {}
  BY <1>1, <1>2, <1>3 DEF IInv, StrangersOK, UnaskedOK, RowsOK
<1> QED
  BY <1>1, <1>2, <1>3, <1>4 DEF Begins

\* A row becomes active only with the run that begins.
LEMMA ActiveSteps ==
    ASSUME IInv, [Next]_vars, NEW q \in Requests, Active(q)', ~Active(q)
    PROVE  \E t \in Tasks : CreateRecord(t) /\ task[q] = t /\ Current(t) = {} /\ phase[q] = "inside"
<1>1. PICK t \in Tasks : CreateRecord(t)
  BY RowSteps DEF IInv, RowsSettle, Settles
<1>2. PICK r \in Requests : Begins(t, r)
  BY <1>1, CreateFresh
<1>3. q = r
  BY <1>2 DEF Begins, Active, IInv, TypeOK
<1> QED
  BY <1>1, <1>2, <1>3 DEF Begins

\* Nothing is known of a request that is not made.
LEMMA StepUnasked == IInv /\ [Next]_vars => UnaskedOK'
<1> SUFFICES ASSUME IInv, [Next]_vars, NEW q \in Requests
             PROVE  /\ phase'[q] = "new" => anchor'[q] = "none" /\ ~Active(q)' /\ admit'[q] = "no"
                    /\ admit'[q] = "counted" => phase'[q] = "done"
  BY DEF UnaskedOK
<1>1. Proceeds(q)
  BY QueueSteps, StepProceeds DEF IInv
<1>2. ASSUME phase'[q] = "new" PROVE anchor'[q] = "none" /\ ~Active(q)'
  <2>1. phase[q] = "new" /\ anchor[q] = "none" /\ ~Active(q)
    BY <1>1, <1>2 DEF Proceeds, IInv, UnaskedOK
  <2>2. ~Active(q)'
    BY <2>1, ActiveSteps
  <2>3. ASSUME NEW t \in Tasks, CreateRecord(t) PROVE anchor'[q] = "none"
    <3>1. PICK r \in Requests : Begins(t, r)
      BY <2>3, CreateFresh
    <3>2. q # r
      BY <2>1, <3>1 DEF Begins
    <3> QED
      BY <2>1, <3>1, <3>2 DEF Begins, IInv, TypeOK
  <2>4. CASE ~\E t \in Tasks : CreateRecord(t)
    BY <2>1, <2>2, <2>4, ProcSteps DEF IInv, ProcsAge, Older
  <2> QED
    BY <2>2, <2>3, <2>4
<1>3. TypeOK'
  BY StepType DEF IInv
<1>4. phase'[q] = "new" => admit'[q] = "no"
  <2>1. phase'[q] = "new" => admit[q] = "no"
    BY <1>1 DEF Proceeds, IInv, UnaskedOK
  <2> QED
    BY <2>1, <1>3, AdmitSteps DEF IInv, Admits
<1>5. admit'[q] = "counted" => phase'[q] = "done"
  BY <1>1, AdmitSteps DEF Proceeds, IInv, UnaskedOK, Admits
<1> QED
  BY <1>2, <1>4, <1>5

\* An anchor exists only while its request is past its spawn, or when it has returned.
LEMMA StepLaunches == IInv /\ [Next]_vars => LaunchesOK'
<1> SUFFICES ASSUME IInv, [Next]_vars, NEW q \in Requests, phase'[q] = "inside", anchor'[q] # "none"
             PROVE  \E t \in Tasks : /\ task'[q] = t /\ Head(lock'[t])[1] = "request" /\ Head(lock'[t])[2] = q
                                    /\ at'[t] \in Launching
  BY DEF LaunchesOK, Op, Subject
<1> DEFINE Goal(t) == /\ task'[q] = t /\ Head(lock'[t])[1] = "request" /\ Head(lock'[t])[2] = q
                      /\ at'[t] \in Launching
<1>1. Proceeds(q) /\ QueueStep
  BY QueueSteps, StepProceeds DEF IInv
<1>2. ASSUME NEW t \in Tasks, CreateRecord(t), Begins(t, q) PROVE Goal(t)
  BY <1>2 DEF Begins, IInv, TypeOK, Op, Subject, Launching
<1>3. ASSUME NEW t \in Tasks, CreateRecord(t), NEW r \in Requests, Begins(t, r), r # q PROVE \E u \in Tasks : Goal(u)
  <2>1. anchor[q] # "none" /\ phase[q] = "inside"
    BY <1>3 DEF Begins, IInv, TypeOK
  <2>2. PICK u \in Tasks : u = task[q] /\ Op(u) = "request" /\ Subject(u) = q /\ at[u] \in Launching
    BY <2>1 DEF IInv, LaunchesOK
  <2>3. u # t
    BY <1>3, <2>2 DEF Begins, Launching
  <2>4. Goal(u)
    BY <1>3, <2>2, <2>3 DEF Begins, Op, Subject, IInv, TypeOK
  <2> QED
    BY <2>4
<1>4. ASSUME ~\E t \in Tasks : CreateRecord(t) PROVE \E u \in Tasks : Goal(u)
  <2>1. anchor[q] # "none"
    BY <1>4, ProcSteps DEF IInv, ProcsAge, Older
  <2>2. phase[q] = "inside"
    BY <1>1, <2>1 DEF Proceeds, IInv, UnaskedOK
  <2>3. PICK u \in Tasks : u = task[q] /\ Op(u) = "request" /\ Subject(u) = q /\ at[u] \in Launching
    BY <2>2, <2>1 DEF IInv, LaunchesOK
  <2>4. task'[q] = u /\ lock[u] # <<>>
    BY <1>1, <2>2, <2>3 DEF Proceeds, IInv, TypeOK, Launching
  <2>5. CASE at'[u] \in Launching /\ Head(lock'[u]) = Head(lock[u])
    BY <2>3, <2>4, <2>5 DEF Op, Subject
  <2>6. ASSUME NEW t, NEW what \in {"request", "exit", "idle"}, NEW r \in Requests, Enqueue(t, what, r), at' = at
        PROVE  at'[u] \in Launching /\ Head(lock'[u]) = Head(lock[u])
    BY <2>3, <2>4, <2>6, HeadKept DEF IInv
  <2>7. ASSUME NEW t \in Tasks, Returns(t) PROVE at'[u] \in Launching /\ Head(lock'[u]) = Head(lock[u])
    <3>1. t # u
      BY <2>2, <2>3, <2>7 DEF Returns, Return, IInv, TypeOK
    <3> QED
      BY <2>3, <2>7, <3>1 DEF Returns, Return, Unlock, Goto, IInv, TypeOK
  <2>8. ASSUME NEW t \in Tasks, Drops(t) PROVE at'[u] \in Launching /\ Head(lock'[u]) = Head(lock[u])
    <3>1. t # u
      BY <2>3, <2>8 DEF Drops
    <3> QED
      BY <2>3, <2>8, <3>1 DEF Drops, Unlock, Goto, IInv, TypeOK
  <2>9. ASSUME NEW t \in Tasks, NEW l \in {"begin", "spawn", "stop", "term", "kill", "dead"} \cup Launching, Moves(t, l)
        PROVE  at'[u] \in Launching /\ Head(lock'[u]) = Head(lock[u])
    <3>1. t = u => l \in Launching
      BY <2>3, <2>9 DEF Moves
    <3> QED
      BY <2>3, <2>9, <3>1 DEF Moves, Goto, IInv, TypeOK
  <2>10. CASE Forgets
    BY <2>10 DEF Forgets
  <2>11. CASE UNCHANGED <<lock, at>>
    BY <2>3, <2>5, <2>11
  <2> QED
    BY <1>1, <2>5, <2>6, <2>7, <2>8, <2>9, <2>10, <2>11 DEF QueueStep, Asks, Refused, Answered, Joins
<1>5. \A t \in Tasks : CreateRecord(t) => \E r \in Requests : Begins(t, r)
  BY CreateFresh
<1> QED
  BY <1>2, <1>3, <1>4, <1>5

\* A task never gets a second active row.
LEMMA StepRows == IInv /\ [Next]_vars => RowsOK'
<1> SUFFICES ASSUME IInv, [Next]_vars PROVE RowsOK'
  OBVIOUS
<1>1. ASSUME NEW q \in Requests, Active(q) PROVE task'[q] = task[q]
  BY <1>1, QueueSteps, StepProceeds DEF IInv, UnaskedOK, Proceeds
<1>2. ASSUME NEW t \in Tasks, NEW r \in Requests, Begins(t, r) PROVE RowsOK'
  <2>1. ASSUME NEW q \in Requests, Active(q)', q # r PROVE Active(q) /\ task[q] # t
    <3>1. rec'[q] = rec[q]
      BY <1>2, <2>1 DEF Begins, IInv, TypeOK
    <3>2. Active(q)
      BY <2>1, <3>1 DEF Active
    <3> QED
      BY <1>2, <3>2 DEF Begins, Current
  <2>2. \A p, q \in Requests : Active(p)' /\ Active(q)' /\ task'[p] = task'[q] => p = q
    BY <1>2, <2>1 DEF Begins, IInv, RowsOK
  <2>3. ASSUME NEW u \in Tasks, at'[u] = "spawn", NEW q \in Requests, task'[q] = u, Active(q)' PROVE FALSE
    <3>1. u # t /\ at[u] = "spawn"
      BY <1>2, <2>3 DEF Begins, IInv, TypeOK
    <3>2. q # r
      BY <1>2, <2>3, <3>1 DEF Begins
    <3> QED
      BY <1>2, <2>1, <2>3, <3>1, <3>2 DEF Begins, IInv, RowsOK, Current
  <2> QED
    BY <2>2, <2>3 DEF RowsOK, Current
<1>3. ASSUME ~\E t \in Tasks : CreateRecord(t) PROVE RowsOK'
  <2>1. \A q \in Requests : Active(q)' => Active(q)
    BY <1>3, RowSteps DEF IInv, RowsSettle, Settles
  <2>2. \A p, q \in Requests : Active(p)' /\ Active(q)' /\ task'[p] = task'[q] => p = q
    BY <1>1, <2>1 DEF IInv, RowsOK
  <2>3. ASSUME NEW u \in Tasks, at'[u] = "spawn", NEW q \in Requests, task'[q] = u, Active(q)' PROVE FALSE
    <3>1. Active(q) /\ task[q] = u /\ q \in Current(u)
      BY <1>1, <2>1, <2>3 DEF Current
    <3>2. at[u] # "spawn"
      BY <3>1 DEF IInv, RowsOK
    <3>3. Moves(u, "spawn")
      BY <2>3, <3>2, QueueSteps DEF IInv, TypeOK, QueueStep, Asks, Refused, Answered, Joins, Returns, Return, Drops,
                                    Unlock, Moves, Goto, Forgets
    <3>4. /\ Op(u) = "request"
          /\ \E s \in TerminalStates, d \in BOOLEAN \cup {rec[Target(u)].dirty} : SetRow(Target(u), s, d)
      BY <3>1, <3>3 DEF Moves, Clears, Launching
    <3>5. Target(u) = q
      <4>1. \A r \in Current(u) : r = q
        BY <3>1 DEF IInv, RowsOK, Current
      <4> QED
        BY <3>1, <3>4, <4>1 DEF Target
    <3>6. rec'[q].state \in TerminalStates
      BY <3>4, <3>5 DEF SetRow, Row, IInv, TypeOK
    <3> QED
      BY <2>3, <3>6 DEF Active, ActiveStates, TerminalStates
  <2> QED
    BY <2>2, <2>3 DEF RowsOK, Current
<1> QED
  BY <1>2, <1>3, CreateFresh

\* No step loses an anchor that lives, or kills a stranger.
LEMMA StepOwned == IInv /\ [Next]_vars => Owned' /\ StrangersOK' /\ StrangersAreSpared'
<1> SUFFICES ASSUME IInv, [Next]_vars, NEW q \in Requests
             PROVE  /\ Matches(q)' => Active(q)' \/ rec'[q].dirty
                    /\ other'[q] # "none" => anchor'[q] = "gone"
                    /\ other'[q] # "dead"
  BY DEF Owned, StrangersOK, StrangersAreSpared
<1>1. ASSUME NEW t \in Tasks, NEW r \in Requests, Begins(t, r)
      PROVE  /\ Matches(q)' => Active(q)' \/ rec'[q].dirty
             /\ other'[q] # "none" => anchor'[q] = "gone"
             /\ other'[q] # "dead"
  <2>1. CASE q = r
    <3>1. rec'[q] = Row("STARTING", TRUE) /\ other'[q] = "none"
      BY <1>1, <2>1 DEF Begins, IInv, TypeOK
    <3> QED
      BY <3>1 DEF Row
  <2>2. CASE q # r
    <3>1. rec'[q] = rec[q] /\ anchor'[q] = anchor[q] /\ other'[q] = other[q]
      BY <1>1, <2>2 DEF Begins, IInv, TypeOK
    <3> QED
      BY <3>1 DEF IInv, Owned, StrangersOK, StrangersAreSpared, Matches, Active
  <2> QED
    BY <2>1, <2>2
<1>2. ASSUME ~\E t \in Tasks : CreateRecord(t)
      PROVE  /\ Matches(q)' => Active(q)' \/ rec'[q].dirty
             /\ other'[q] # "none" => anchor'[q] = "gone"
             /\ other'[q] # "dead"
  BY <1>2, ProcSteps, RowSteps DEF IInv, ProcsAge, Older, RowsSettle, Settles, Owned, StrangersOK, StrangersAreSpared
<1> QED
  BY <1>1, <1>2, CreateFresh

\* What is charged is at most what the budget check counts.
LEMMA ChargedManaged ==
    /\ IsFiniteSet(Charged) /\ Cardinality(Charged) \in Nat
    /\ Managed \in Nat /\ Cardinality(Charged) <= Managed
<1> DEFINE Live == {q \in Requests : Active(q)}
<1> DEFINE Reserved == {q \in Requests : admit[q] = "pending"}
<1>1. /\ IsFiniteSet(Live) /\ IsFiniteSet(Reserved) /\ IsFiniteSet(Charged)
  BY RuntimeAssumption, FS_Subset DEF RuntimeAssumption, Charged
<1>2. /\ Cardinality(Live) \in Nat /\ Cardinality(Reserved) \in Nat /\ Cardinality(Charged) \in Nat
  BY <1>1, FS_CardinalityType
<1>3. /\ IsFiniteSet(Live \cup Reserved)
      /\ Cardinality(Live \cup Reserved) = Cardinality(Live) + Cardinality(Reserved) - Cardinality(Live \cap Reserved)
  BY <1>1, FS_Union
<1>4. IsFiniteSet(Live \cap Reserved) /\ Cardinality(Live \cap Reserved) \in Nat
  BY <1>1, FS_Intersection, FS_CardinalityType
<1>5. Charged \subseteq Live \cup Reserved
  BY DEF Charged
<1>6. Cardinality(Charged) <= Cardinality(Live \cup Reserved)
  BY <1>3, <1>5, FS_Subset
<1>7. Cardinality(Live \cup Reserved) \in Nat
  BY <1>3, FS_CardinalityType
<1>8. Managed = Cardinality(Live) + Cardinality(Reserved)
  BY DEF Managed
<1> HIDE DEF Live, Reserved
<1> QED
  BY <1>1, <1>2, <1>3, <1>4, <1>6, <1>7, <1>8

\* A start is admitted within the budget, and nothing else adds to what is charged.
LEMMA StepBudget == IInv /\ [Next]_vars => BudgetOK'
<1> SUFFICES ASSUME IInv, [Next]_vars PROVE BudgetOK'
  OBVIOUS
<1>1. MaxProcesses \in Nat
  BY RuntimeAssumption DEF RuntimeAssumption
<1>2. ASSUME NEW q \in Requests, Admits(q) PROVE BudgetOK'
  <2>1. \A r \in Requests : r # q => (r \in Charged' <=> r \in Charged)
    BY <1>2 DEF Admits, Charged, Active
  <2>2. Charged' \subseteq Charged \cup {q}
    BY <2>1 DEF Charged
  <2>3. IsFiniteSet(Charged \cup {q}) /\ Cardinality(Charged \cup {q}) <= Cardinality(Charged) + 1
    BY ChargedManaged, FS_AddElement
  <2>4. Cardinality(Charged') <= Cardinality(Charged \cup {q}) /\ IsFiniteSet(Charged')
    BY <2>2, <2>3, FS_Subset
  <2>5. Cardinality(Charged') \in Nat /\ Cardinality(Charged \cup {q}) \in Nat
    BY <2>3, <2>4, FS_CardinalityType
  <2>6. Managed < MaxProcesses
    BY <1>2 DEF Admits
  <2> QED
    BY <1>1, <2>3, <2>4, <2>5, <2>6, ChargedManaged DEF BudgetOK
<1>3. ASSUME \A q \in Requests : /\ admit'[q] = "pending" => admit[q] = "pending"
                                 /\ admit'[q] # "no" => admit[q] # "no"
                                 /\ admit'[q] = "counted" => admit[q] = "counted" \/ phase'[q] = "done"
      PROVE  BudgetOK'
  <2>1. ASSUME NEW q \in Charged' PROVE q \in Charged
    <3>1. q \in Requests
      BY <2>1 DEF Charged
    <3>2. CASE ~Active(q)' \/ Active(q)
      BY <1>3, <2>1, <3>1, <3>2 DEF Charged
    <3>3. CASE Active(q)' /\ ~Active(q)
      <4>1. PICK t \in Tasks : CreateRecord(t) /\ phase[q] = "inside"
        BY <3>1, <3>3, ActiveSteps
      <4>2. admit' = admit
        BY <4>1 DEF CreateRecord, ctrl
      <4>3. admit[q] \in {"no", "pending", "counted"} /\ admit[q] # "counted"
        BY <3>1, <4>1 DEF IInv, TypeOK, UnaskedOK
      <4>4. admit[q] = "pending"
        BY <2>1, <4>2, <4>3 DEF Charged
      <4> QED
        BY <3>1, <4>4 DEF Charged
    <3> QED
      BY <3>2, <3>3
  <2>2. Charged' \subseteq Charged
    BY <2>1
  <2>3. Cardinality(Charged') <= Cardinality(Charged) /\ Cardinality(Charged') \in Nat
    BY <2>2, ChargedManaged, FS_Subset, FS_CardinalityType
  <2> QED
    BY <1>1, <2>3, ChargedManaged DEF IInv, BudgetOK
<1> QED
  BY <1>2, <1>3, AdmitSteps DEF IInv

\* The invariant is inductive.
LEMMA StepInv == IInv /\ [Next]_vars => IInv'
<1> SUFFICES ASSUME IInv, [Next]_vars PROVE IInv'
  OBVIOUS
<1>1. TypeOK' /\ QueueStep
  BY StepType, QueueSteps DEF IInv
<1>2. QueuesOK' /\ HeadsOK'
  BY <1>1, StepQueues, StepHeads DEF IInv
<1> QED
  BY <1>1, <1>2, StepUnasked, StepLaunches, StepRows, StepOwned, StepBudget DEF IInv

-----------------------------------------------------------------------------
\* The rows, the queues and the reservations of the runtime are always well formed.
THEOREM RuntimeInv == Spec => []IInv
BY InitInv, StepInv, PTL DEF Spec

\* process-budgets.ts: whatever the starts, restarts, stops, sweeps, crashes and boots in flight, the live
\* runs that the budget admitted are never more than it allows.
THEOREM AdmittedWithinBudgetHolds == Spec => []AdmittedWithinBudget
<1>1. IInv => AdmittedWithinBudget
  <2> SUFFICES ASSUME IInv PROVE AdmittedWithinBudget
    OBVIOUS
  <2> DEFINE Admitted == {q \in Requests : Active(q) /\ admit[q] # "no"}
  <2>1. Admitted \subseteq Charged
    BY DEF Charged
  <2>2. Cardinality(Admitted) <= Cardinality(Charged) /\ Cardinality(Admitted) \in Nat
    BY <2>1, ChargedManaged, FS_Subset, FS_CardinalityType
  <2>3. MaxProcesses \in Nat /\ Cardinality(Charged) \in Nat /\ Cardinality(Charged) <= MaxProcesses
    BY RuntimeAssumption, ChargedManaged DEF RuntimeAssumption, IInv, BudgetOK
  <2>4. Cardinality(Admitted) <= MaxProcesses
    BY <2>2, <2>3
  <2> QED
    BY <2>4 DEF AdmittedWithinBudget
<1> QED
  BY <1>1, RuntimeInv, PTL

\* process-supervisor.ts: the process group of an anchor that lives is always answered for by a row, through
\* every crash of a launch, a rollback, a stop and a recovery.
THEOREM LaunchedIsOwnedHolds == Spec => []LaunchedIsOwned
<1>1. IInv => LaunchedIsOwned
  BY DEF IInv, Owned, Matches, LaunchedIsOwned
<1> QED
  BY <1>1, RuntimeInv, PTL

\* process-supervisor.ts: one task never has two runs up, unless the row of one owes its cleanup.
THEOREM OneLiveRunHolds == Spec => []OneLiveRun
<1>1. IInv => OneLiveRun
  BY DEF IInv, Owned, Matches, RowsOK, OneLiveRun
<1> QED
  BY <1>1, RuntimeInv, PTL

\* process-supervisor.ts: no signal of a stop, a rollback or a recovery reaches a process that took the pid
\* of an anchor that is dead.
THEOREM StrangersAreSparedHolds == Spec => []StrangersAreSpared
<1>1. IInv => StrangersAreSpared
  BY DEF IInv
<1> QED
  BY <1>1, RuntimeInv, PTL
=============================================================================

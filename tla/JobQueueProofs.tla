--------------------------- MODULE JobQueueProofs ---------------------------
(***************************************************************************)
(* Proofs about the heavy-job queue, for any jobs, worktrees and limits and *)
(* any number of mishaps.                                                   *)
(***************************************************************************)
EXTENDS JobQueue, FiniteSetTheorems, TLAPS

(* Nothing was ever started or recorded for j. *)
Unspawned(j) ==
    /\ ~job[j].process /\ ~job[j].anchor
    /\ group[j] = "none" /\ record[j] = "none" /\ marker[j] = "none" /\ starts[j] = 0

(* What j's row tells: the slot goes with RUNNING, a job that never ran is untouched, and an
   outcome is the one that was asked for, or the real one. *)
RowSound(j) ==
    /\ job[j].slot <=> job[j].state = "RUNNING"
    /\ job[j].state \in {"absent", "QUEUED"} => Unspawned(j) /\ job[j].stop = "none"
    /\ job[j].state \in Terminal /\ job[j].stop # "none" => job[j].state = job[j].stop
    /\ job[j].state = "SUCCEEDED" => outcome[j] = "ok"

(* What j's process group, its record and its marker tell of each other. *)
GroupSound(j) ==
    /\ starts[j] <= 1
    /\ group[j] \in {"none", "anchor"} => starts[j] = 0
    /\ Running(j) => job[j].slot /\ job[j].process /\ record[j] # "none"
    /\ marker[j] # "none" => group[j] \in {"closing", "absent"}
    /\ marker[j] = "ok" => outcome[j] = "ok"
    /\ exits[j] # "none" => job[j].slot
    /\ exits[j] = "ok" => marker[j] = "ok"

Sound(j) == RowSound(j) /\ GroupSound(j)

Reconciling == {"anchor", "read", "group", "stop", "regroup", "confirm", "finish"}
Starting == {"launch", "reserve", "spawned", "handshake", "bind", "go", "ack"}

(* What the flush under way may rely on after its awaits. *)
FlushOK ==
    /\ daemon = "down" => op = NoOp
    /\ op.todo \subseteq Held
    /\ op.pc \in Reconciling \cup Starting => op.job \in Held
    /\ op.pc \in {"launch", "reserve"} => Unspawned(op.job)
    /\ op.pc \in {"bind", "go", "ack"} => record[op.job] # "none"
    /\ op.pc \in {"go", "ack"} => job[op.job].process
    /\ op.pc \in {"group", "stop", "regroup", "confirm"} /\ op.done = "ok" => marker[op.job] = "ok"
    /\ op.pc = "finish" => ~Running(op.job)
    /\ op.pc = "finish" /\ op.state = "SUCCEEDED" => outcome[op.job] = "ok" /\ ~Present(op.job)

(* A removal and a job keep each other out. *)
LeaseOK == "destroy" \in rows => NoHeavyJobs

(* The jobs that hold a slot are within the limits. *)
LimitOK ==
    /\ Cardinality(Held) <= MaxConcurrent
    /\ \A i, j \in Held : i # j => WorktreeOf[i] # WorktreeOf[j]

SoundOK == \A j \in Jobs : Sound(j)

IInv == TypeOK /\ SoundOK /\ FlushOK /\ LeaseOK /\ LimitOK

-----------------------------------------------------------------------------
\* Rows.

States == {"absent", "QUEUED", "RUNNING", "pruned"} \cup Terminal
Errors == {"none", "unconfirmed", "unreadable", "other"}

(* Only j's row differs, and not in what it holds: a note is made on it. *)
Noted(old, new, j) ==
    /\ new \in [Jobs -> Rows]
    /\ \A i \in Jobs : i # j => new[i] = old[i]
    /\ new[j].state = old[j].state /\ new[j].slot = old[j].slot
    /\ old[j].process => new[j].process

\* One column is written.
LEMMA SetColumn ==
    ASSUME NEW table \in [Jobs -> Rows], NEW j \in Jobs
    PROVE  /\ Noted(table, table, j)
           /\ \A x \in States : [table EXCEPT ![j].state = x] \in [Jobs -> Rows]
           /\ \A x \in BOOLEAN : [table EXCEPT ![j].slot = x] \in [Jobs -> Rows]
           /\ \A x \in StopReasons : Noted(table, [table EXCEPT ![j].stop = x], j)
           /\ \A x \in Errors : Noted(table, [table EXCEPT ![j].error = x], j)
           /\ Noted(table, [table EXCEPT ![j].anchor = TRUE], j)
           /\ Noted(table, [table EXCEPT ![j].process = TRUE], j)
BY DEF Rows, States, Errors, Noted

\* Notes add up.
LEMMA NotesAdd ==
    ASSUME NEW a, NEW b, NEW c, NEW j, Noted(a, b, j), Noted(b, c, j)
    PROVE  Noted(a, c, j)
BY DEF Noted

\* A request to stop is a note on every job but a queued one.
LEMMA RequestNotes ==
    ASSUME NEW table \in [Jobs -> Rows], NEW j \in Jobs, NEW reason \in StopReasons \ {"none"}
    PROVE  /\ Requested(table, j, reason) \in [Jobs -> Rows]
           /\ table[j].state # "QUEUED" => Noted(table, Requested(table, j, reason), j)
<1> DEFINE ended == [table EXCEPT ![j].state = reason]
<1>1. Noted(table, [table EXCEPT ![j].stop = reason], j) /\ Noted(table, table, j)
  BY SetColumn
<1>2. [table EXCEPT ![j].state = reason, ![j].stop = reason] \in [Jobs -> Rows]
  <2>1. ended \in [Jobs -> Rows]
    BY SetColumn DEF States, StopReasons, Terminal
  <2>2. [table EXCEPT ![j].state = reason, ![j].stop = reason] = [ended EXCEPT ![j].stop = reason]
    OBVIOUS
  <2> QED
    BY <2>1, <2>2, SetColumn DEF Noted
<1> QED
  BY <1>1, <1>2 DEF Requested, Noted

\* So is a failed start.
LEMMA FailNotes ==
    ASSUME TypeOK, NEW j \in Jobs, NEW reason \in StopReasons \ {"none"}, NEW error \in Errors,
           job[j].state # "QUEUED"
    PROVE  Noted(job, Failed(j, reason, error), j)
<1>1. Noted(job, Requested(job, j, reason), j) /\ Requested(job, j, reason) \in [Jobs -> Rows]
  BY RequestNotes DEF TypeOK
<1>2. Noted(Requested(job, j, reason), Failed(j, reason, error), j)
  BY <1>1, SetColumn DEF Failed
<1> QED
  BY <1>1, <1>2, NotesAdd

\* So is what a read of the completion leaves on the row.
LEMMA ReadNotes ==
    ASSUME NEW table \in [Jobs -> Rows], NEW j \in Jobs, NEW read, NEW done
    PROVE  Noted(table, WithTimeout(WithReadError(table, j, read), j, done), j)
<1> DEFINE mid == WithReadError(table, j, read)
<1>1. Noted(table, mid, j)
  <2>1. Noted(table, [table EXCEPT ![j].error = "unreadable"], j) /\ Noted(table, table, j)
    BY SetColumn DEF Errors
  <2> QED
    BY <2>1 DEF WithReadError
<1>2. mid \in [Jobs -> Rows]
  BY <1>1 DEF Noted
<1>3. Noted(mid, WithTimeout(mid, j, done), j)
  <2> HIDE DEF mid
  <2>1. Noted(mid, [mid EXCEPT ![j].stop = "TIMED_OUT"], j) /\ Noted(mid, mid, j)
    BY <1>2, SetColumn DEF StopReasons
  <2> QED
    BY <2>1 DEF WithTimeout
<1> QED
  BY <1>1, <1>3, NotesAdd

\* A row has the columns of the table.
LEMMA Columns ==
    ASSUME TypeOK, NEW j \in Jobs
    PROVE  /\ job[j].state \in States /\ job[j].slot \in BOOLEAN /\ job[j].stop \in StopReasons
           /\ job[j].error \in Errors /\ job[j].anchor \in BOOLEAN /\ job[j].process \in BOOLEAN
BY DEF TypeOK, Rows, States, Errors

\* What the steps of the flush leave in its locals.
LEMMA Locals ==
    ASSUME TypeOK
    PROVE  /\ NoOp \in Ops
           /\ \A pc \in PCs : Goto(pc) => op' \in Ops
           /\ NextJob => op' \in Ops
           /\ NextClaim => op' \in Ops
           /\ \A state \in Terminal, ret \in {"scan", "claim"} : Finishing(state, ret) => op' \in Ops
<1>1. NoOp \in Ops
  BY DEF NoOp, Ops, PCs, StopReasons, Markers, Terminal
<1>2. op \in Ops
  BY DEF TypeOK
<1>3. \A pc \in PCs : Goto(pc) => op' \in Ops
  BY <1>2 DEF Goto, Ops
<1>4. \A state \in Terminal, ret \in {"scan", "claim"} : Finishing(state, ret) => op' \in Ops
  BY <1>2 DEF Finishing, Ops, PCs
<1>5. NextJob => op' \in Ops
  <2>1. op.todo \ {op.job} \in SUBSET Jobs
    BY <1>2 DEF Ops
  <2> QED
    BY <2>1, <1>1 DEF NextJob, Ops, PCs
<1>6. NextClaim => op' \in Ops
  <2>1. op.count + 1 \in Nat
    BY <1>2 DEF Ops
  <2> QED
    BY <2>1, <1>1 DEF NextClaim, Ops, PCs
<1> QED
  BY <1>1, <1>3, <1>4, <1>5, <1>6

\* Whatever is armed is a delay.
LEMMA Delays ==
    ASSUME TypeOK
    PROVE  /\ NoTimer \in Now..NoTimer /\ Now \in Now..NoTimer
           /\ Armed(Now) \in Now..NoTimer /\ Armed(Poll) \in Now..NoTimer /\ Armed(Idle) \in Now..NoTimer
BY DEF TypeOK, Armed, Now, Poll, Idle, NoTimer

-----------------------------------------------------------------------------
\* What a step leaves alone.

(* Nothing of i changes. *)
Kept(i) ==
    /\ job'[i] = job[i] /\ group'[i] = group[i] /\ record'[i] = record[i]
    /\ marker'[i] = marker[i] /\ outcome'[i] = outcome[i] /\ starts'[i] = starts[i]
    /\ exits'[i] = exits[i]

(* What the flush relies on of j is not taken back. *)
Onward(j) ==
    /\ Unspawned(j) => Unspawned(j)'
    /\ record[j] # "none" => record'[j] # "none"
    /\ job[j].process => job'[j].process
    /\ marker[j] = "ok" => marker'[j] = "ok"
    /\ ~Running(j) => ~Running(j)'
    /\ ~Present(j) /\ outcome[j] = "ok" => ~Present(j)' /\ outcome'[j] = "ok"

\* A job of which nothing changes stays sound.
LEMMA KeptSound ==
    ASSUME NEW i, Sound(i), Kept(i)
    PROVE  Sound(i)' /\ Onward(i)
BY DEF Sound, RowSound, GroupSound, Kept, Onward, Unspawned, Running, Present

\* So all are where one changes, soundly.
LEMMA SoundButOne ==
    ASSUME SoundOK, NEW j \in Jobs, Sound(j)', \A i \in Jobs : i # j => Kept(i)
    PROVE  SoundOK'
BY KeptSound DEF SoundOK

\* The flush goes on where it was.
LEMMA FlushKept ==
    ASSUME FlushOK, op' = op, daemon' = "down" => daemon = "down",
           Held \subseteq Held', \A i \in Held : Onward(i)
    PROVE  FlushOK'
<1>1. CASE op.pc \in Reconciling \cup Starting
  <2>1. op.job \in Held
    BY <1>1 DEF FlushOK
  <2>2. Onward(op.job)
    BY <2>1
  <2> QED
    BY <1>1, <2>1, <2>2 DEF FlushOK, Onward
<1>2. CASE op.pc \notin Reconciling \cup Starting
  BY <1>2 DEF FlushOK, Reconciling, Starting
<1> QED
  BY <1>1, <1>2

\* The slots are what they were, and so is what depends on them.
SlotsKept == \A j \in Jobs : job'[j].state = job[j].state /\ job'[j].slot = job[j].slot

LEMMA SlotsKeptOK ==
    ASSUME LeaseOK, LimitOK, SlotsKept
    PROVE  Held' = Held /\ (rows' \subseteq rows => LeaseOK') /\ LimitOK'
<1>1. Held' = Held /\ (NoHeavyJobs => NoHeavyJobs')
  BY DEF SlotsKept, Held, NoHeavyJobs, Active
<1> QED
  BY <1>1 DEF LeaseOK, LimitOK

\* A note on a held job is no risk to its row.
LEMMA NoteSound ==
    ASSUME IInv, NEW j \in Held, Noted(job, job', j), rows' = rows,
           GroupSound(j)', \A i \in Jobs : i # j => (job'[i] = job[i] => Kept(i))
    PROVE  /\ SoundOK' /\ LeaseOK' /\ LimitOK' /\ Held' = Held
           /\ \A i \in Jobs : i # j => Onward(i)
<1>1. SlotsKept
  BY DEF SlotsKept, Noted
<1>2. \A i \in Jobs : i # j => Kept(i)
  BY DEF Noted
<1>3. Sound(j)
  BY DEF IInv, SoundOK, Held
<1>4. Sound(j)'
  BY <1>3 DEF Sound, RowSound, Noted, Held, Terminal
<1> QED
  BY <1>1, <1>2, <1>3, <1>4, SoundButOne, KeptSound, SlotsKeptOK DEF IInv, Held, SoundOK

\* A step of the process group of one job.
LEMMA WorldSound ==
    ASSUME IInv, NEW j \in Jobs, job' = job, rows' = rows, Sound(j)', Onward(j),
           \A i \in Jobs : i # j => Kept(i)
    PROVE  /\ SoundOK' /\ LeaseOK' /\ LimitOK' /\ Held' = Held
           /\ \A i \in Held : Onward(i)
BY SoundButOne, KeptSound, SlotsKeptOK DEF IInv, Held, SoundOK, SlotsKept

\* A step that concerns no job.
LEMMA StillSound ==
    ASSUME IInv, job' = job, \A i \in Jobs : Kept(i)
    PROVE  /\ SoundOK' /\ (rows' \subseteq rows => LeaseOK') /\ LimitOK' /\ Held' = Held
           /\ \A i \in Held : Onward(i)
BY KeptSound, SlotsKeptOK DEF IInv, Held, SoundOK, SlotsKept

-----------------------------------------------------------------------------
\* Steps that concern no job.

\* The initial state is one of them.
LEMMA InitIInv == Init => IInv
<1> SUFFICES ASSUME Init PROVE IInv
  OBVIOUS
<1>1. TypeOK
  <2>1. NoRow \in Rows
    BY DEF NoRow, Rows, StopReasons
  <2>2. NoOp \in Ops
    BY DEF NoOp, Ops, PCs, StopReasons, Markers, Terminal
  <2>3. job \in [Jobs -> Rows] /\ op \in Ops /\ mishaps \in Nat
    BY <2>1, <2>2 DEF Init
  <2>4. /\ group \in [Jobs -> Groups] /\ record \in [Jobs -> Records] /\ marker \in [Jobs -> Markers]
        /\ exits \in [Jobs -> {"none", "ok", "bad"}]
    BY DEF Init, Groups, Records, Markers
  <2>5. late \in [Jobs -> BOOLEAN] /\ outcome \in [Jobs -> {"none", "ok", "fail"}] /\ starts \in [Jobs -> Nat]
    BY DEF Init
  <2>6. timer \in Now..NoTimer
    BY DEF Init, Now, NoTimer
  <2>7. /\ rows \subseteq Operations /\ vanished \subseteq {WorktreeOf[j] : j \in Jobs}
        /\ daemon \in {"down", "up", "closing"} /\ pending \in BOOLEAN
        /\ recovering \subseteq Jobs /\ owned \subseteq Jobs
    BY DEF Init
  <2> QED
    BY <2>3, <2>4, <2>5, <2>6, <2>7 DEF TypeOK
<1>2. SoundOK
  BY DEF Init, SoundOK, Sound, RowSound, GroupSound, Unspawned, Running, NoRow, Terminal
<1>3. FlushOK
  BY DEF Init, FlushOK, NoOp, Reconciling, Starting
<1>4. LeaseOK
  BY DEF Init, LeaseOK
<1>5. LimitOK
  <2>1. Held = {}
    BY DEF Init, Held, NoRow
  <2> QED
    BY <2>1, FS_EmptySet, LimitsAssumption DEF LimitOK
<1> QED
  BY <1>1, <1>2, <1>3, <1>4, <1>5 DEF IInv

\* Requests, timers, leases and worktrees leave jobs and flush alone.
LEMMA OutsideStep ==
    ASSUME IInv,
           \/ \E j \in Jobs : EnqueueAgain(j) \/ DeadlinePasses(j)
           \/ TimerFires \/ Close \/ LeaseReleased
           \/ \E o \in Operations : LeaseTaken(o)
           \/ \E j \in Jobs : WorktreeVanishes(WorktreeOf[j]) \/ WorktreeReturns(WorktreeOf[j])
    PROVE  IInv'
<1>1. TypeOK'
  <2>0. TypeOK /\ NoTimer \in Now..NoTimer /\ Armed(Now) \in Now..NoTimer
    BY Delays DEF IInv
  <2>1. ASSUME NEW j \in Jobs, EnqueueAgain(j) PROVE TypeOK'
    BY <2>0, <2>1 DEF TypeOK, store, world, memory, EnqueueAgain, Mishap
  <2>2. ASSUME NEW j \in Jobs, DeadlinePasses(j) PROVE TypeOK'
    BY <2>0, <2>2 DEF TypeOK, store, world, memory, DeadlinePasses, Mishap
  <2>3. CASE TimerFires
    BY <2>0, <2>3 DEF TypeOK, store, world, memory, TimerFires
  <2>4. CASE Close
    BY <2>0, <2>4 DEF TypeOK, store, world, memory, Close, Mishap
  <2>5. CASE LeaseReleased
    BY <2>0, <2>5 DEF TypeOK, store, world, memory, LeaseReleased
  <2>6. ASSUME NEW o \in Operations, LeaseTaken(o) PROVE TypeOK'
    BY <2>0, <2>6 DEF TypeOK, store, world, memory, LeaseTaken, Mishap
  <2>7. ASSUME NEW j \in Jobs, WorktreeVanishes(WorktreeOf[j]) \/ WorktreeReturns(WorktreeOf[j]) PROVE TypeOK'
    BY <2>0, <2>7 DEF TypeOK, store, world, memory, WorktreeVanishes, WorktreeReturns, Mishap
  <2> QED
    BY <2>1, <2>2, <2>3, <2>4, <2>5, <2>6, <2>7
<1>2. job' = job /\ op' = op /\ (daemon' = "down" => daemon = "down") /\ \A i \in Jobs : Kept(i)
  BY DEF store, world, memory, EnqueueAgain, DeadlinePasses, TimerFires, Close,
         LeaseReleased, LeaseTaken, WorktreeVanishes, WorktreeReturns, Kept
<1>3. LeaseOK'
  <2>1. rows' \subseteq rows \/ \E o \in Operations : LeaseTaken(o)
    BY DEF store, EnqueueAgain, DeadlinePasses, TimerFires, Close, LeaseReleased,
           WorktreeVanishes, WorktreeReturns
  <2>2. ASSUME NEW o \in Operations, LeaseTaken(o) PROVE LeaseOK'
    BY <2>2, <1>2 DEF LeaseTaken, LeaseOK, NoHeavyJobs, Active
  <2> QED
    BY <2>1, <2>2, <1>2, StillSound
<1> QED
  BY <1>1, <1>2, <1>3, StillSound, FlushKept DEF IInv

\* A step of the flush from one await to the next, which leaves all jobs alone.
LEMMA PassingStep ==
    ASSUME IInv,
           \/ FlushStarts \/ ScanEnds \/ FlushFails \/ ClaimNothing
           \/ LaunchRejected \/ LaunchStopped \/ LaunchGoes \/ NotStarted
    PROVE  IInv'
<1>1. job' = job /\ rows' = rows /\ daemon' = daemon /\ \A i \in Jobs : Kept(i)
  BY DEF store, world, memory, FlushStarts, ScanEnds, FlushFails, ClaimNothing, LaunchRejected,
         LaunchStopped, LaunchGoes, NotStarted, Kept
<1>2. SoundOK' /\ LeaseOK' /\ LimitOK' /\ Held' = Held
  BY <1>1, StillSound
<1>3. /\ UNCHANGED <<job, rows, vanished, group, record, marker, late, outcome, starts, daemon, recovering, exits, owned>>
      /\ timer' \in Now..NoTimer /\ pending' \in BOOLEAN
      /\ mishaps' \in Nat
  <2>0. TypeOK
    BY DEF IInv
  <2>1. UNCHANGED <<job, rows, vanished, group, record, marker, late, outcome, starts, daemon, recovering, exits, owned>>
    BY DEF store, world, memory, FlushStarts, ScanEnds, FlushFails, ClaimNothing, LaunchRejected,
           LaunchStopped, LaunchGoes, NotStarted
  <2>2. timer' \in Now..NoTimer
    BY <2>0, Delays DEF store, world, memory, FlushStarts, ScanEnds, FlushFails, ClaimNothing, LaunchRejected,
         LaunchStopped, LaunchGoes, NotStarted, TypeOK
  <2>3. pending' \in BOOLEAN
    BY <2>0 DEF store, world, memory, FlushStarts, ScanEnds, FlushFails, ClaimNothing, LaunchRejected,
         LaunchStopped, LaunchGoes, NotStarted, TypeOK
  <2>4. mishaps' \in Nat
    BY <2>0 DEF store, world, memory, FlushStarts, ScanEnds, FlushFails, ClaimNothing, LaunchRejected,
         LaunchStopped, LaunchGoes, NotStarted, TypeOK, Mishap
  <2> QED
    BY <2>1, <2>2, <2>3, <2>4
<1>4. op' \in Ops /\ FlushOK'
  <2>0. TypeOK /\ FlushOK /\ op \in Ops
    BY DEF IInv, TypeOK
  <2>1. CASE FlushStarts
    <3>1. Held \subseteq Jobs
      BY DEF Held
    <3>2. op' \in Ops
      BY <2>1, <3>1, Locals, <2>0 DEF FlushStarts, Ops, PCs
    <3> QED
      BY <2>1, <2>0, <3>2, <1>1, <1>2 DEF FlushStarts, FlushOK, NoOp, Reconciling, Starting
  <2>2. CASE ScanEnds \/ ClaimNothing
    <3>1. \E pc \in {"claim", "prune"} : Goto(pc) /\ op'.pc = pc /\ op'.todo = op.todo /\ daemon # "down"
      BY <2>2, <2>0 DEF ScanEnds, ClaimNothing, Goto, At, Ops
    <3> QED
      BY <3>1, <2>0, <1>1, <1>2, Locals DEF FlushOK, Reconciling, Starting, PCs
  <2>3. CASE FlushFails
    BY <2>3, <2>0, Locals, <1>1 DEF FlushFails, FlushOK, NoOp, Reconciling, Starting
  <2>4. CASE LaunchRejected \/ LaunchStopped \/ NotStarted
    <3>1. op.pc \in {"launch", "reserve"} /\ daemon # "down"
      BY <2>4 DEF LaunchRejected, LaunchStopped, NotStarted, At
    <3>2. \E state \in Terminal \ {"SUCCEEDED"} : Finishing(state, "claim")
      <4>1. job[op.job].stop \in StopReasons
        BY <3>1, <2>0, Columns DEF FlushOK, Starting, Held
      <4> QED
        BY <4>1, <2>4 DEF LaunchRejected, LaunchStopped, NotStarted, Reason, Terminal, StopReasons
    <3>3. PICK state \in Terminal \ {"SUCCEEDED"} : Finishing(state, "claim")
      BY <3>2
    <3>4. op' = [op EXCEPT !.pc = "finish", !.state = state, !.ret = "claim"]
      BY <3>3 DEF Finishing
    <3>5. op'.pc = "finish" /\ op'.state = state /\ op'.job = op.job /\ op'.todo = op.todo
      BY <3>4, <2>0 DEF Ops
    <3>6. op.job \in Held /\ ~Running(op.job) /\ op.todo \subseteq Held
      BY <3>1, <2>0 DEF FlushOK, Starting, Unspawned, Running
    <3>7. ~Running(op.job)'
      BY <3>5, <3>6, <1>3 DEF Running
    <3> QED
      BY <3>1, <3>3, <3>5, <3>6, <3>7, <2>0, <1>1, <1>2, Locals DEF FlushOK, Reconciling, Starting
  <2>5. CASE LaunchGoes
    <3>1. op' = [op EXCEPT !.pc = "reserve"] /\ op.pc = "launch" /\ daemon # "down"
      BY <2>5 DEF LaunchGoes, Goto, At
    <3>2. op'.pc = "reserve" /\ op'.job = op.job /\ op'.todo = op.todo /\ op' \in Ops
      BY <3>1, <2>0 DEF Ops, PCs
    <3>3. Unspawned(op.job) /\ Unspawned(op.job)'
      BY <3>1, <3>2, <2>0, <1>3 DEF FlushOK, Unspawned
    <3> QED
      BY <3>1, <3>2, <3>3, <2>0, <1>1, <1>2 DEF FlushOK, Reconciling, Starting
  <2> QED
    BY <2>1, <2>2, <2>3, <2>4, <2>5
<1>5. TypeOK'
  BY <1>3, <1>4 DEF IInv, TypeOK
<1> QED
  BY <1>2, <1>4, <1>5 DEF IInv

-----------------------------------------------------------------------------
\* Process groups.

\* A task ends, a deadline strikes, an anchor leaves or is killed, an orphan ends.
LEMMA GroupActs ==
    ASSUME IInv, NEW j \in Jobs,
           TaskEnds(j) \/ AnchorDeadline(j) \/ AnchorLeaves(j) \/ AnchorKilled(j) \/ OrphanEnds(j)
    PROVE  IInv'
<1>0. TypeOK /\ Sound(j)
  BY DEF IInv, SoundOK
<1>1. TypeOK'
  <2>1. CASE TaskEnds(j)
    BY <1>0, <2>1 DEF TaskEnds, TypeOK, store, memory, Groups, Markers, MishapIf, Mishap
  <2>2. CASE AnchorDeadline(j)
    BY <1>0, <2>2 DEF AnchorDeadline, TypeOK, store, memory, Groups, Markers, MishapIf, Mishap
  <2>3. CASE AnchorLeaves(j)
    BY <1>0, <2>3 DEF AnchorLeaves, TypeOK, store, memory, Groups
  <2>4. CASE AnchorKilled(j)
    BY <1>0, <2>4 DEF AnchorKilled, TypeOK, store, memory, Groups, Mishap
  <2>5. CASE OrphanEnds(j)
    BY <1>0, <2>5 DEF OrphanEnds, TypeOK, store, memory, Groups
  <2> QED
    BY <2>1, <2>2, <2>3, <2>4, <2>5
<1>2. /\ UNCHANGED <<job, rows, daemon, op, exits, record, starts>>
      /\ \A i \in Jobs : i # j => Kept(i)
  BY <1>0 DEF TaskEnds, AnchorDeadline, AnchorLeaves, AnchorKilled, OrphanEnds, store, memory, Kept, TypeOK
<1>3. Sound(j)' /\ Onward(j)
  <2>1. CASE TaskEnds(j)
    BY <1>0, <1>2, <2>1 DEF TaskEnds, TypeOK, Sound, RowSound, GroupSound, Onward, Unspawned, Running, Present
  <2>2. CASE AnchorDeadline(j)
    BY <1>0, <1>2, <2>2 DEF AnchorDeadline, TypeOK, Sound, RowSound, GroupSound, Onward, Unspawned, Running, Present
  <2>3. CASE AnchorLeaves(j)
    BY <1>0, <1>2, <2>3 DEF AnchorLeaves, TypeOK, Sound, RowSound, GroupSound, Onward, Unspawned, Running, Present
  <2>4. CASE AnchorKilled(j)
    BY <1>0, <1>2, <2>4 DEF AnchorKilled, TypeOK, Sound, RowSound, GroupSound, Onward, Unspawned, Running, Present
  <2>5. CASE OrphanEnds(j)
    BY <1>0, <1>2, <2>5 DEF OrphanEnds, TypeOK, Sound, RowSound, GroupSound, Onward, Unspawned, Running, Present
  <2> QED
    BY <2>1, <2>2, <2>3, <2>4, <2>5
<1>4. SoundOK' /\ LeaseOK' /\ LimitOK' /\ Held' = Held /\ \A i \in Held : Onward(i)
  BY <1>2, <1>3, WorldSound
<1> QED
  BY <1>1, <1>2, <1>4, FlushKept DEF IInv

\* The daemon learns that an anchor is gone.
LEMMA ObserveExitStep ==
    ASSUME IInv, NEW j \in Jobs, ObserveExit(j)
    PROVE  IInv'
<1>0. TypeOK /\ Sound(j)
  BY DEF IInv, SoundOK
<1>1. TypeOK'
  <2>1. /\ record' \in [Jobs -> Records] /\ owned' \subseteq Jobs
        /\ UNCHANGED <<store, group, marker, late, outcome, starts, pending, recovering, daemon, op, mishaps>>
    BY <1>0 DEF ObserveExit, TypeOK, Records
  <2>2. exits' \in [Jobs -> {"none", "ok", "bad"}]
    BY <1>0 DEF ObserveExit, TypeOK
  <2>3. timer' \in Now..NoTimer
    BY <1>0, Delays DEF ObserveExit, TypeOK
  <2> QED
    BY <1>0, <2>1, <2>2, <2>3 DEF TypeOK, store
<1>2. /\ UNCHANGED <<job, rows, daemon, op, group, marker, outcome, starts>>
      /\ \A i \in Jobs : i # j => Kept(i)
  BY <1>0 DEF ObserveExit, store, Kept, TypeOK
<1>3. record'[j] = IF group[j] = "absent" /\ record[j] # "none" THEN "closed" ELSE record[j]
  BY <1>0 DEF ObserveExit, TypeOK
<1>4. \/ exits'[j] = exits[j]
      \/ job[j].slot /\ exits'[j] = IF marker[j] = "ok" THEN "ok" ELSE "bad"
  BY <1>0 DEF ObserveExit, TypeOK
<1>5. group[j] \in {"absent", "orphan"}
  BY DEF ObserveExit
<1>6. Sound(j)' /\ Onward(j)
  BY <1>0, <1>2, <1>3, <1>4, <1>5 DEF Sound, RowSound, GroupSound, Onward, Unspawned, Running, Present
<1>7. SoundOK' /\ LeaseOK' /\ LimitOK' /\ Held' = Held /\ \A i \in Held : Onward(i)
  BY <1>2, <1>6, WorldSound
<1> QED
  BY <1>1, <1>2, <1>7, FlushKept DEF IInv

-----------------------------------------------------------------------------
\* The daemon's life.

\* A daemon that is gone keeps nothing in memory.
LEMMA DiesStep ==
    ASSUME IInv, Crash \/ Closed
    PROVE  IInv'
<1>0. TypeOK
  BY DEF IInv
<1>1. /\ UNCHANGED <<store, world>> /\ daemon' = "down" /\ op' = NoOp
      /\ timer' = NoTimer /\ pending' = FALSE /\ recovering' = {} /\ owned' = {}
      /\ exits' = [j \in Jobs |-> "none"] /\ mishaps' \in Nat
  BY <1>0 DEF Crash, Closed, Dies, Mishap, TypeOK
<1>2. UNCHANGED <<job, rows, vanished, group, record, marker, late, outcome, starts>>
  BY <1>1 DEF store, world
<1>3. TypeOK'
  BY <1>0, <1>1, <1>2, Locals, Delays DEF TypeOK
<1>4. SoundOK'
  BY <1>1, <1>2 DEF IInv, SoundOK, Sound, RowSound, GroupSound, Unspawned, Running
<1>5. FlushOK'
  BY <1>1 DEF FlushOK, NoOp, Reconciling, Starting
<1>6. LeaseOK' /\ LimitOK'
  BY <1>2, SlotsKeptOK DEF IInv, SlotsKept
<1> QED
  BY <1>3, <1>4, <1>5, <1>6 DEF IInv

\* A daemon that starts settles what it can prove, and starts nothing.
LEMMA BootStep ==
    ASSUME IInv, Boot
    PROVE  IInv'
<1>0. TypeOK /\ SoundOK /\ FlushOK
  BY DEF IInv
<1>1. PICK settled \in SUBSET {j \in Jobs : CanSettle(j)} :
         /\ record' = [j \in Jobs |-> IF j \in settled THEN "closed"
                                      ELSE IF Unsettled(j) THEN "open" ELSE record[j]]
         /\ group' = [j \in Jobs |-> IF j \in settled THEN "absent" ELSE group[j]]
         /\ outcome' = [j \in Jobs |-> IF j \in settled /\ group[j] = "task" THEN "fail"
                                       ELSE outcome[j]]
  BY DEF Boot
<1>2. /\ UNCHANGED <<store, marker, late, starts, pending, exits, owned, op, mishaps>>
      /\ daemon' = "up" /\ recovering' = Held /\ timer' = Now
  BY DEF Boot
<1>3. TypeOK'
  <2>1. record' \in [Jobs -> Records]
    BY <1>0, <1>1 DEF TypeOK, Records
  <2>2. group' \in [Jobs -> Groups]
    BY <1>0, <1>1 DEF TypeOK, Groups
  <2>3. outcome' \in [Jobs -> {"none", "ok", "fail"}]
    BY <1>0, <1>1 DEF TypeOK
  <2>4. Held \subseteq Jobs
    BY DEF Held
  <2> QED
    BY <1>0, <1>2, <2>1, <2>2, <2>3, <2>4, Delays DEF TypeOK, store
<1>4. ASSUME NEW j \in Jobs PROVE Sound(j)'
  <2>1. Sound(j) /\ job' = job /\ marker' = marker /\ starts' = starts /\ exits' = exits
    BY <1>0, <1>2 DEF SoundOK, store
  <2>2. CASE j \in settled
    <3>1. record'[j] = "closed" /\ group'[j] = "absent" /\ Unsettled(j)
          /\ outcome'[j] = IF group[j] = "task" THEN "fail" ELSE outcome[j]
      BY <1>1, <2>2 DEF CanSettle
    <3> QED
      BY <2>1, <3>1 DEF Unsettled, Sound, RowSound, GroupSound, Unspawned, Running
  <2>3. CASE j \notin settled
    <3>1. record'[j] = (IF Unsettled(j) THEN "open" ELSE record[j]) /\ group'[j] = group[j] /\ outcome'[j] = outcome[j]
      BY <1>1, <2>3
    <3> QED
      BY <2>1, <3>1 DEF Unsettled, Sound, RowSound, GroupSound, Unspawned, Running
  <2> QED
    BY <2>2, <2>3
<1>5. SoundOK'
  BY <1>4 DEF SoundOK
<1>6. FlushOK'
  <2>1. op' = NoOp
    BY <1>0, <1>2 DEF FlushOK, Boot
  <2> QED
    BY <2>1 DEF FlushOK, NoOp, Reconciling, Starting
<1>7. LeaseOK' /\ LimitOK'
  BY <1>2, SlotsKeptOK DEF IInv, SlotsKept, store
<1> QED
  BY <1>3, <1>5, <1>6, <1>7 DEF IInv

-----------------------------------------------------------------------------
\* Reconciling a job.

\* A note on a held job, and nothing else.
LEMMA NoteAlone ==
    ASSUME IInv, NEW j \in Held, Noted(job, job', j),
           UNCHANGED <<rows, group, record, marker, outcome, starts, exits>>
    PROVE  SoundOK' /\ LeaseOK' /\ LimitOK' /\ Held' = Held
<1>1. GroupSound(j)
  BY DEF IInv, SoundOK, Sound, Held
<1>2. GroupSound(j)'
  BY <1>1 DEF GroupSound, Noted, Running
<1> QED
  BY <1>2, NoteSound DEF Kept

\* The flush leaves a job behind.
LEMMA FlushLeaves ==
    ASSUME FlushOK, NextJob \/ NextClaim, Held' = Held, daemon # "down", daemon' = daemon
    PROVE  FlushOK'
<1>1. op'.pc \in {"scan", "claim"} /\ op'.todo \subseteq op.todo
  BY DEF NextJob, NextClaim, NoOp
<1> QED
  BY <1>1 DEF FlushOK, Reconciling, Starting

\* The flush has decided how a job ends.
LEMMA FlushFinishes ==
    ASSUME TypeOK, FlushOK, op.pc \in Reconciling \cup Starting, Held' = Held,
           daemon # "down", UNCHANGED <<daemon, group, outcome>>, NEW state, NEW ret, Finishing(state, ret),
           ~Running(op.job), state = "SUCCEEDED" => outcome[op.job] = "ok" /\ ~Present(op.job)
    PROVE  FlushOK'
<1>1. op'.pc = "finish" /\ op'.job = op.job /\ op'.todo = op.todo /\ op'.state = state
  BY DEF Finishing, TypeOK, Ops
<1> QED
  BY <1>1 DEF FlushOK, Reconciling, Starting, Running, Present

\* The flush goes on to another await about the same job.
LEMMA FlushAsks ==
    ASSUME FlushOK, op.pc \in Reconciling, Held' = Held, daemon # "down", daemon' = daemon,
           op'.pc \in {"anchor", "read", "group", "stop", "regroup", "confirm"},
           op'.job = op.job, op'.todo = op.todo,
           op'.pc \in {"group", "stop", "regroup", "confirm"} /\ op'.done = "ok" => marker'[op.job] = "ok"
    PROVE  FlushOK'
BY DEF FlushOK, Reconciling, Starting

\* The record of a job is looked up.
LEMMA ReconcileLookupStep ==
    ASSUME IInv, NEW j \in Jobs, ReconcileLookup(j)
    PROVE  IInv'
<1>0. TypeOK /\ FlushOK /\ op \in Ops /\ job \in [Jobs -> Rows]
  BY DEF IInv, TypeOK
<1>1. j \in Held /\ op.pc = "scan" /\ daemon # "down"
  BY <1>0 DEF ReconcileLookup, IsHead, FlushOK, At
<1>2. Noted(job, job', j)
  <2>1. Noted(job, [job EXCEPT ![j].process = TRUE], j) /\ Noted(job, job, j)
    BY <1>0, SetColumn
  <2> QED
    BY <2>1 DEF ReconcileLookup
<1>3. UNCHANGED <<rows, vanished, world, memory, daemon, mishaps>>
  BY DEF ReconcileLookup
<1>4. SoundOK' /\ LeaseOK' /\ LimitOK' /\ Held' = Held
  BY <1>1, <1>2, <1>3, NoteAlone DEF world, memory
<1>5. /\ op' \in Ops /\ op'.todo \subseteq op.todo
      /\ op'.pc = "scan" \/ (op'.pc \in {"anchor", "read"} /\ op'.job = j)
  <2>1. job[j].stop \in StopReasons
    BY <1>0, Columns
  <2>2. CASE op' = [op EXCEPT !.pc = "read", !.job = j, !.stop = job[j].stop]
    BY <1>0, <2>1, <2>2 DEF Ops, PCs
  <2>3. CASE op' = [op EXCEPT !.todo = @ \ {j}]
    <3>1. op.todo \ {j} \in SUBSET Jobs
      BY <1>0 DEF Ops
    <3>2. op' \in Ops
      BY <1>0, <2>3, <3>1 DEF Ops
    <3>3. op'.todo = op.todo \ {j}
      BY <1>0, <2>3 DEF Ops
    <3>4. op'.pc = op.pc
      BY <1>0, <2>3 DEF Ops
    <3> QED
      BY <1>1, <3>2, <3>3, <3>4
  <2>4. CASE op' = [op EXCEPT !.pc = "anchor", !.job = j, !.stop = job[j].stop]
    BY <1>0, <2>1, <2>4 DEF Ops, PCs
  <2> QED
    BY <2>2, <2>3, <2>4 DEF ReconcileLookup
<1>6. FlushOK'
  BY <1>0, <1>1, <1>3, <1>4, <1>5 DEF FlushOK, Reconciling, Starting
<1>7. TypeOK'
  BY <1>0, <1>2, <1>3, <1>5 DEF TypeOK, world, memory, Noted
<1> QED
  BY <1>4, <1>6, <1>7 DEF IInv

\* A missing record is judged by what was bound.
LEMMA ReconcileAnchorStep ==
    ASSUME IInv, ReconcileAnchor
    PROVE  IInv'
<1>0. TypeOK /\ FlushOK /\ op \in Ops /\ job \in [Jobs -> Rows]
  BY DEF IInv, TypeOK
<1>1. op.job \in Held /\ op.job \in Jobs /\ op.pc = "anchor" /\ daemon # "down"
  BY <1>0 DEF ReconcileAnchor, FlushOK, At, Reconciling, Held
<1>2. Noted(job, job', op.job)
  <2>1. Noted(job, [job EXCEPT ![op.job].error = "other"], op.job) /\ Noted(job, job, op.job)
    BY <1>0, <1>1, SetColumn DEF Errors
  <2> QED
    BY <2>1 DEF ReconcileAnchor
<1>3. UNCHANGED <<rows, vanished, world, memory, daemon>>
  BY DEF ReconcileAnchor
<1>4. SoundOK' /\ LeaseOK' /\ LimitOK' /\ Held' = Held
  BY <1>1, <1>2, <1>3, NoteAlone DEF world, memory
<1>5. \/ NextJob
      \/ ~job[op.job].process /\ Finishing(Reason(op.stop), "scan")
  BY DEF ReconcileAnchor
<1>6. Reason(op.stop) \in Terminal \ {"SUCCEEDED"}
  BY <1>0 DEF Reason, Ops, StopReasons, Terminal
<1>7. ~job[op.job].process => ~Running(op.job)
  BY <1>1 DEF IInv, SoundOK, Sound, GroupSound
<1>8. op' \in Ops /\ FlushOK'
  BY <1>0, <1>1, <1>3, <1>4, <1>5, <1>6, <1>7, Locals, FlushLeaves, FlushFinishes DEF Reconciling, world
<1>9. mishaps' \in Nat
  BY <1>0 DEF ReconcileAnchor, MishapIf, Mishap, TypeOK
<1>10. TypeOK'
  BY <1>0, <1>2, <1>3, <1>8, <1>9 DEF TypeOK, world, memory, Noted
<1> QED
  BY <1>4, <1>8, <1>10 DEF IInv

\* The completion is read, and stopping is decided.
LEMMA ReconcileReadStep ==
    ASSUME IInv, ReconcileRead
    PROVE  IInv'
<1>0. TypeOK /\ FlushOK /\ op \in Ops /\ job \in [Jobs -> Rows]
  BY DEF IInv, TypeOK
<1>1. op.job \in Held /\ op.job \in Jobs /\ op.pc = "read" /\ daemon # "down"
  BY <1>0 DEF ReconcileRead, FlushOK, At, Reconciling, Held
<1> DEFINE j == op.job
           First(r) == WithTimeout(WithReadError(job, j, r), j, r)
           Known(r) == IF r = "timedout" THEN First(r)[j].stop ELSE op.stop
           Why(r, l) == IF l THEN "TIMED_OUT"
                        ELSE IF j \in recovering /\ Completion(r) = "none" THEN "INTERRUPTED"
                        ELSE "none"
           Asks(r, l) == Known(r) = "none" /\ Why(r, l) # "none"
           Second(r, l) == IF Asks(r, l) THEN Requested(First(r), j, Why(r, l)) ELSE First(r)
           Stop(r, l) == IF Asks(r, l) THEN Second(r, l)[j].stop ELSE Known(r)
           Unread(r) == Unreadable(r, job[j].error = "unreadable")
<1>2. PICK read \in Reads(j) : \E l \in JudgedLate(j, read) :
        /\ job' = Second(read, l) /\ MishapIf(read = "unreadable")
        /\ IF Completion(read) = "none" /\ exits[j] = "none" /\ Stop(read, l) = "none" /\ ~Unread(read)
           THEN NextJob
           ELSE op' = [op EXCEPT !.pc = "group", !.stop = Stop(read, l),
                                 !.done = Completion(read), !.unread = Unread(read)]
  BY DEF ReconcileRead
<1>21. PICK isLate \in JudgedLate(j, read) :
        /\ job' = Second(read, isLate) /\ MishapIf(read = "unreadable")
        /\ IF Completion(read) = "none" /\ exits[j] = "none" /\ Stop(read, isLate) = "none" /\ ~Unread(read)
           THEN NextJob
           ELSE op' = [op EXCEPT !.pc = "group", !.stop = Stop(read, isLate),
                                 !.done = Completion(read), !.unread = Unread(read)]
  BY <1>2
<1>3. Noted(job, First(read), j) /\ First(read) \in [Jobs -> Rows]
  BY <1>0, <1>1, ReadNotes DEF Noted
<1>4. Noted(job, Second(read, isLate), j)
  <2>1. First(read)[j].state # "QUEUED"
    BY <1>1, <1>3 DEF Noted, IInv, SoundOK, Sound, RowSound, Held
  <2>2. Why(read, isLate) = "none" \/ Why(read, isLate) \in StopReasons \ {"none"}
    BY DEF StopReasons
  <2> HIDE DEF First, Known, Why
  <2>3. Why(read, isLate) # "none" => Noted(First(read), Requested(First(read), j, Why(read, isLate)), j)
    BY <1>1, <1>3, <2>1, <2>2, RequestNotes
  <2> QED
    BY <1>3, <2>3, NotesAdd
<1> HIDE DEF First, Why
<1>5. Stop(read, isLate) \in StopReasons
  <2> HIDE DEF Second
  <2>1. First(read)[j].stop \in StopReasons /\ Second(read, isLate)[j].stop \in StopReasons /\ op.stop \in StopReasons
    BY <1>0, <1>1, <1>3, <1>4 DEF Rows, Ops, Noted
  <2> HIDE DEF Asks
  <2> QED
    BY <2>1
<1> HIDE DEF Second, Stop
<1>6. /\ job' = Second(read, isLate) /\ MishapIf(read = "unreadable")
      /\ \/ NextJob
         \/ op' = [op EXCEPT !.pc = "group", !.stop = Stop(read, isLate), !.done = Completion(read),
                             !.unread = Unread(read)]
  BY <1>21
<1>7. UNCHANGED <<rows, vanished, world, memory, daemon>>
  BY DEF ReconcileRead
<1>8. SoundOK' /\ LeaseOK' /\ LimitOK' /\ Held' = Held
  BY <1>1, <1>4, <1>6, <1>7, NoteAlone DEF world, memory
<1>9. Completion(read) \in Markers /\ (Completion(read) = "ok" => marker[j] = "ok") /\ Unread(read) \in BOOLEAN
  BY <1>0, <1>1 DEF Completion, Reads, TypeOK, Markers, Unreadable
<1>10. op' \in Ops /\ FlushOK'
  <2>1. CASE NextJob
    BY <2>1, <1>0, <1>1, <1>7, <1>8, Locals, FlushLeaves
  <2>2. CASE op' = [op EXCEPT !.pc = "group", !.stop = Stop(read, isLate), !.done = Completion(read),
                           !.unread = Unread(read)]
    <3> HIDE DEF Unread
    <3>1. /\ op' \in Ops /\ op'.pc = "group" /\ op'.job = op.job /\ op'.todo = op.todo
          /\ op'.done = Completion(read)
      BY <2>2, <1>0, <1>5, <1>9 DEF Ops, PCs
    <3>2. op'.done = "ok" => marker'[op.job] = "ok"
      BY <3>1, <1>7, <1>9 DEF world
    <3> QED
      BY <3>1, <3>2, <1>0, <1>1, <1>7, <1>8, FlushAsks DEF Reconciling
  <2> QED
    BY <1>6, <2>1, <2>2
<1>11. mishaps' \in Nat
  BY <1>0, <1>6 DEF MishapIf, Mishap, TypeOK
<1>12. TypeOK'
  BY <1>0, <1>4, <1>6, <1>7, <1>10, <1>11 DEF TypeOK, world, memory, Noted
<1> QED
  BY <1>8, <1>10, <1>12 DEF IInv

\* The process group is inspected, before a stop and after it.
LEMMA ReconcileGroupStep ==
    ASSUME IInv, ReconcileGroup \/ ReconcileRegroup
    PROVE  IInv'
<1>0. TypeOK /\ FlushOK /\ op \in Ops /\ job \in [Jobs -> Rows]
  BY DEF IInv, TypeOK
<1>1. op.job \in Held /\ op.job \in Jobs /\ op.pc \in {"group", "regroup"} /\ daemon # "down"
  BY <1>0 DEF ReconcileGroup, ReconcileRegroup, FlushOK, At, Reconciling, Held
<1>2. Noted(job, job', op.job)
  <2>1. /\ Noted(job, [job EXCEPT ![op.job].error = "other"], op.job)
        /\ Noted(job, [job EXCEPT ![op.job].error = "unreadable"], op.job)
        /\ Noted(job, job, op.job)
    BY <1>0, <1>1, SetColumn DEF Errors
  <2> QED
    BY <2>1 DEF ReconcileGroup, ReconcileRegroup, StillThere
<1>3. UNCHANGED <<rows, vanished, world, memory, daemon>>
  BY DEF ReconcileGroup, ReconcileRegroup
<1>4. SoundOK' /\ LeaseOK' /\ LimitOK' /\ Held' = Held
  BY <1>1, <1>2, <1>3, NoteAlone DEF world, memory
<1>5. NextJob \/ \E pc \in {"confirm", "stop"} : Goto(pc)
  BY DEF ReconcileGroup, ReconcileRegroup, StillThere
<1>6. op' \in Ops /\ FlushOK'
  <2>1. CASE NextJob
    BY <2>1, <1>0, <1>1, <1>3, <1>4, Locals, FlushLeaves
  <2>2. ASSUME NEW pc \in {"confirm", "stop"}, Goto(pc) PROVE op' \in Ops /\ FlushOK'
    <3>1. op'.pc = pc /\ op'.job = op.job /\ op'.todo = op.todo /\ op'.done = op.done
      BY <2>2, <1>0 DEF Goto, Ops
    <3>2. op.done = "ok" => marker'[op.job] = "ok"
      BY <1>0, <1>1, <1>3 DEF FlushOK, world
    <3> QED
      BY <2>2, <3>1, <3>2, <1>0, <1>1, <1>3, <1>4, Locals, FlushAsks DEF Reconciling, PCs
  <2> QED
    BY <1>5, <2>1, <2>2
<1>7. mishaps' \in Nat
  BY <1>0 DEF ReconcileGroup, ReconcileRegroup, StillThere, MishapIf, Mishap, TypeOK
<1>8. TypeOK'
  BY <1>0, <1>2, <1>3, <1>6, <1>7 DEF TypeOK, world, memory, Noted
<1> QED
  BY <1>4, <1>6, <1>8 DEF IInv

\* A group is stopped, by the record of it.
LEMMA ReconcileStopStep ==
    ASSUME IInv, ReconcileStop
    PROVE  IInv'
<1>0. TypeOK /\ FlushOK /\ op \in Ops /\ job \in [Jobs -> Rows] /\ LeaseOK
  BY DEF IInv, TypeOK
<1>1. PICK j \in Held : j = op.job /\ j \in Jobs /\ op.pc = "stop" /\ daemon # "down"
  BY <1>0 DEF ReconcileStop, FlushOK, At, Reconciling, Held
<1>2. Noted(job, job', j)
  <2>1. Noted(job, [job EXCEPT ![j].error = "other"], j) /\ Noted(job, job, j)
    BY <1>0, <1>1, SetColumn DEF Errors
  <2> QED
    BY <2>1, <1>1 DEF ReconcileStop
<1>3. UNCHANGED <<rows, vanished, marker, late, starts, memory, daemon>> /\ Goto("regroup")
  BY DEF ReconcileStop
<1>4. Sound(j)
  BY <1>1 DEF IInv, SoundOK
<1>5. /\ \A i \in Jobs : i # j => group'[i] = group[i] /\ record'[i] = record[i] /\ outcome'[i] = outcome[i]
      /\ \/ record'[j] = "closed" /\ group'[j] = "absent" /\ Unsettled(j)
            /\ outcome'[j] = IF group[j] = "task" THEN "fail" ELSE outcome[j]
         \/ record'[j] = record[j] /\ group'[j] = group[j] /\ outcome'[j] = outcome[j]
         \/ record'[j] = "open" /\ Unsettled(j) /\ group'[j] = group[j] /\ outcome'[j] = outcome[j]
  BY <1>0, <1>1 DEF ReconcileStop, TypeOK
<1>6. GroupSound(j)'
  <2>1. GroupSound(j)
    BY <1>4 DEF Sound
  <2> QED
    BY <2>1, <1>2, <1>3, <1>5 DEF GroupSound, Running, Noted, memory, Unsettled
<1>7. SoundOK' /\ LeaseOK' /\ LimitOK' /\ Held' = Held
  <2>1. rows' = rows /\ \A i \in Jobs : i # j => (job'[i] = job[i] => Kept(i))
    BY <1>3, <1>5 DEF Kept, memory
  <2> QED
    BY <2>1, <1>1, <1>2, <1>6, NoteSound
<1>8. op' \in Ops /\ FlushOK'
  <2>1. op'.pc = "regroup" /\ op'.job = op.job /\ op'.todo = op.todo /\ op'.done = op.done
    BY <1>0, <1>3 DEF Goto, Ops
  <2>2. op.done = "ok" => marker'[op.job] = "ok"
    BY <1>0, <1>1, <1>3 DEF FlushOK
  <2> QED
    BY <2>1, <2>2, <1>0, <1>1, <1>3, <1>7, Locals, FlushAsks DEF Reconciling, PCs
<1>9. TypeOK'
  <2>1. record' \in [Jobs -> Records] /\ group' \in [Jobs -> Groups]
    BY <1>0, <1>1 DEF ReconcileStop, TypeOK, Records, Groups
  <2>2. outcome' \in [Jobs -> {"none", "ok", "fail"}]
    BY <1>0, <1>1 DEF ReconcileStop, TypeOK
  <2>3. mishaps' \in Nat
    BY <1>0 DEF ReconcileStop, MishapIf, Mishap, TypeOK
  <2> QED
    BY <1>0, <1>2, <1>3, <1>8, <2>1, <2>2, <2>3 DEF TypeOK, memory, Noted
<1> QED
  BY <1>7, <1>8, <1>9 DEF IInv

\* Absence is confirmed and the outcome chosen: success is what the marker tells, or an
\* exit that was observed with the marker there.
LEMMA ReconcileConfirmStep ==
    ASSUME IInv, ReconcileConfirm
    PROVE  IInv'
<1>0. TypeOK /\ FlushOK /\ op \in Ops /\ job \in [Jobs -> Rows]
  BY DEF IInv, TypeOK
<1>1. PICK j \in Held : j = op.job /\ j \in Jobs /\ op.pc = "confirm" /\ daemon # "down"
  BY <1>0 DEF ReconcileConfirm, FlushOK, At, Reconciling, Held
<1> DEFINE Done(r) == IF Completion(r) = "none" THEN op.done ELSE r
           Table(r) == WithTimeout(WithReadError(job, j, r), j, Done(r))
           Stop(r) == IF Done(r) = "timedout" THEN Table(r)[j].stop ELSE op.stop
           Chosen(r) == ChosenState(Stop(r), Done(r), Unreadable(r, op.unread), exits[j])
<1>2. PICK read \in Reads(j) :
        job' = Table(read) /\ MishapIf(read = "unreadable") /\ Finishing(Chosen(read), "scan")
  BY <1>1 DEF ReconcileConfirm
<1>3. Noted(job, Table(read), j)
  BY <1>0, <1>1, ReadNotes
<1>4. /\ UNCHANGED <<rows, vanished, group, marker, late, outcome, starts, memory, daemon>>
      /\ record' = [record EXCEPT ![j] = "closed"] /\ ~Present(j)
  BY <1>1 DEF ReconcileConfirm
<1>5. Done(read) = "ok" => marker[j] = "ok"
  BY <1>0, <1>1 DEF Completion, Reads, FlushOK
<1>6. Chosen(read) \in Terminal
  <2>1. Table(read)[j].stop \in StopReasons /\ op.stop \in StopReasons
    BY <1>0, <1>1, <1>3 DEF Noted, Rows, Ops
  <2> HIDE DEF Table
  <2> QED
    BY <2>1 DEF ChosenState, StopReasons, Terminal
<1>7. Chosen(read) = "SUCCEEDED" => outcome[j] = "ok"
  <2>1. Table(read)[j].stop \in StopReasons /\ op.stop \in StopReasons
    BY <1>0, <1>1, <1>3 DEF Noted, Rows, Ops
  <2>2. Chosen(read) = "SUCCEEDED" => Done(read) = "ok" \/ exits[j] = "ok"
    <3> HIDE DEF Table, Done
    <3> QED
      BY <2>1 DEF ChosenState, StopReasons
  <2> QED
    BY <2>2, <1>1, <1>5 DEF IInv, SoundOK, Sound, GroupSound
<1> HIDE DEF Table, Chosen
<1>8. /\ record'[j] = "closed" /\ \A i \in Jobs : i # j => record'[i] = record[i]
      /\ record' \in [Jobs -> Records]
  BY <1>0, <1>1, <1>4 DEF TypeOK, Records
<1>9. SoundOK' /\ LeaseOK' /\ LimitOK' /\ Held' = Held
  <2>1. GroupSound(j)
    BY <1>1 DEF IInv, SoundOK, Sound
  <2>2. GroupSound(j)'
    BY <2>1, <1>2, <1>3, <1>4, <1>8 DEF GroupSound, Running, Noted, memory
  <2>3. rows' = rows /\ \A i \in Jobs : i # j => (job'[i] = job[i] => Kept(i))
    BY <1>4, <1>8 DEF Kept, memory
  <2> QED
    BY <2>2, <2>3, <1>1, <1>2, <1>3, NoteSound
<1>10. op' \in Ops /\ FlushOK'
  <2>1. ~Running(op.job)
    BY <1>1, <1>4 DEF Present, Running
  <2> QED
    BY <2>1, <1>0, <1>1, <1>2, <1>4, <1>6, <1>7, <1>9, Locals, FlushFinishes DEF Reconciling
<1>11. mishaps' \in Nat
  BY <1>0, <1>2 DEF MishapIf, Mishap, TypeOK
<1>12. TypeOK'
  BY <1>0, <1>2, <1>3, <1>4, <1>8, <1>10, <1>11 DEF TypeOK, memory, Noted
<1> QED
  BY <1>9, <1>10, <1>12 DEF IInv

\* The slot is given up, and the stop reason decides once more.
LEMMA FinishJobStep ==
    ASSUME IInv, FinishJob
    PROVE  IInv'
<1>0. TypeOK /\ FlushOK /\ op \in Ops /\ job \in [Jobs -> Rows] /\ LeaseOK /\ LimitOK
  BY DEF IInv, TypeOK
<1>1. PICK j \in Held : j = op.job /\ j \in Jobs /\ op.pc = "finish" /\ daemon # "down"
  BY <1>0 DEF FinishJob, FlushOK, At, Reconciling, Held
<1>2. FinalState(j, op.state) \in Terminal
  <2>1. job[j].stop \in StopReasons /\ op.state \in Terminal
    BY <1>0, <1>1, Columns DEF Ops
  <2> QED
    BY <2>1 DEF FinalState, StopReasons, Terminal
<1>3. job' = [job EXCEPT ![j].state = FinalState(j, op.state), ![j].slot = FALSE]
  BY <1>1 DEF FinishJob, Active, Held
<1>4. /\ UNCHANGED <<rows, vanished, world, timer, pending, owned, daemon, mishaps>>
      /\ recovering' = recovering \ {j} /\ exits' = [exits EXCEPT ![j] = "none"]
      /\ NextJob \/ NextClaim
  BY <1>1 DEF FinishJob
<1>5. job' \in [Jobs -> Rows]
  <2> DEFINE ended == [job EXCEPT ![j].state = FinalState(j, op.state)]
  <2>1. ended \in [Jobs -> Rows]
    BY <1>0, <1>1, <1>2, SetColumn DEF States
  <2>2. job' = [ended EXCEPT ![j].slot = FALSE]
    BY <1>3
  <2> HIDE DEF ended
  <2> QED
    BY <2>1, <2>2, <1>1, SetColumn
<1>6. /\ job'[j].state = FinalState(j, op.state) /\ job'[j].slot = FALSE /\ job'[j].stop = job[j].stop
      /\ exits'[j] = "none" /\ \A i \in Jobs : i # j => job'[i] = job[i] /\ exits'[i] = exits[i]
  BY <1>0, <1>1, <1>3, <1>4 DEF TypeOK, Rows
<1>7. ~Running(j) /\ (op.state = "SUCCEEDED" => outcome[j] = "ok")
  BY <1>0, <1>1 DEF FlushOK
<1>8. Sound(j)'
  <2>1. Sound(j) /\ UNCHANGED <<group, record, marker, outcome, starts>>
    BY <1>1, <1>4 DEF IInv, SoundOK, world
  <2>2. RowSound(j)'
    <3>1. job[j].stop \in StopReasons
      BY <1>0, <1>1, Columns
    <3> QED
      BY <3>1, <2>1, <1>2, <1>6, <1>7 DEF RowSound, FinalState, Terminal, StopReasons
  <2>3. GroupSound(j)'
    BY <2>1, <1>6, <1>7 DEF Sound, GroupSound, Running
  <2> QED
    BY <2>2, <2>3 DEF Sound
<1>9. SoundOK'
  BY <1>1, <1>4, <1>6, <1>8, SoundButOne DEF IInv, Kept, world
<1>10. Held' = Held \ {j}
  BY <1>1, <1>6 DEF Held
<1>11. LeaseOK'
  BY <1>0, <1>4, <1>6, <1>1, <1>2 DEF LeaseOK, NoHeavyJobs, Active, Held, Terminal
<1>12. LimitOK'
  <2>1. Held' \subseteq Held
    BY <1>10
  <2>2. IsFiniteSet(Held)
    BY JobsAssumption, FS_Subset DEF Held
  <2>3. Cardinality(Held') <= Cardinality(Held)
    BY <2>1, <2>2, FS_Subset
  <2>4. IsFiniteSet(Held') /\ Cardinality(Held) \in Nat /\ Cardinality(Held') \in Nat
    BY <2>1, <2>2, FS_Subset, FS_CardinalityType
  <2> QED
    BY <2>1, <2>3, <2>4, <1>0, LimitsAssumption DEF LimitOK
<1>13. op' \in Ops /\ FlushOK'
  <2>1. op'.pc \in {"scan", "claim"} /\ op'.todo \subseteq op.todo \ {j}
    BY <1>1, <1>4 DEF NextJob, NextClaim, NoOp
  <2> QED
    BY <2>1, <1>0, <1>1, <1>4, <1>10, Locals DEF FlushOK, Reconciling, Starting
<1>14. TypeOK'
  <2>1. exits' \in [Jobs -> {"none", "ok", "bad"}]
    BY <1>0, <1>4 DEF TypeOK
  <2> QED
    BY <2>1, <1>0, <1>4, <1>5, <1>13 DEF TypeOK, world
<1> QED
  BY <1>9, <1>11, <1>12, <1>13, <1>14 DEF IInv

-----------------------------------------------------------------------------
\* Claiming and launching.

\* The head of the queue takes a slot.
LEMMA ClaimGrantedStep ==
    ASSUME IInv, NEW j \in Jobs, ClaimGranted(j)
    PROVE  IInv'
<1>0. TypeOK /\ FlushOK /\ op \in Ops /\ job \in [Jobs -> Rows] /\ LeaseOK /\ LimitOK
  BY DEF IInv, TypeOK
<1>1. /\ op.pc = "claim" /\ daemon # "down" /\ job[j].state = "QUEUED" /\ rows = {}
      /\ Cardinality(Held) < MaxConcurrent /\ \A i \in Held : WorktreeOf[i] # WorktreeOf[j]
      /\ job' = [job EXCEPT ![j].state = "RUNNING", ![j].slot = TRUE]
      /\ op' = [op EXCEPT !.pc = "launch", !.job = j]
      /\ UNCHANGED <<rows, vanished, world, memory, daemon, mishaps>>
  BY DEF ClaimGranted, At, MayClaim, Dispatchable, Head, Registered
<1>2. Sound(j) /\ Unspawned(j) /\ job[j].stop = "none" /\ ~job[j].slot
  BY <1>1 DEF IInv, SoundOK, Sound, RowSound
<1>3. job' \in [Jobs -> Rows]
  <2> DEFINE started == [job EXCEPT ![j].state = "RUNNING"]
  <2>1. started \in [Jobs -> Rows]
    BY <1>0, SetColumn DEF States
  <2>2. job' = [started EXCEPT ![j].slot = TRUE]
    BY <1>1
  <2> HIDE DEF started
  <2> QED
    BY <2>1, <2>2, SetColumn
<1>4. /\ job'[j].state = "RUNNING" /\ job'[j].slot = TRUE
      /\ job'[j].process = job[j].process /\ job'[j].anchor = job[j].anchor
      /\ \A i \in Jobs : i # j => job'[i] = job[i]
  BY <1>0, <1>1 DEF Rows
<1>5. Sound(j)' /\ Unspawned(j)'
  BY <1>1, <1>2, <1>4 DEF Sound, RowSound, GroupSound, Unspawned, Running, Terminal, world, memory
<1>6. SoundOK'
  BY <1>1, <1>4, <1>5, SoundButOne DEF IInv, Kept, world, memory
<1>7. Held' = Held \cup {j} /\ j \notin Held
  BY <1>2, <1>4 DEF Held
<1>8. LeaseOK'
  BY <1>1 DEF LeaseOK
<1>9. LimitOK'
  <2>1. IsFiniteSet(Held) /\ Cardinality(Held) \in Nat
    BY JobsAssumption, FS_Subset, FS_CardinalityType DEF Held
  <2>2. Cardinality(Held') = Cardinality(Held) + 1
    BY <2>1, <1>7, FS_AddElement
  <2>3. Cardinality(Held') <= MaxConcurrent
    BY <2>1, <2>2, <1>1, LimitsAssumption
  <2> QED
    BY <2>3, <1>0, <1>1, <1>7 DEF LimitOK
<1>10. op' \in Ops /\ op'.pc = "launch" /\ op'.job = j /\ op'.todo = op.todo
  BY <1>0, <1>1 DEF Ops, PCs
<1>11. FlushOK'
  <2>1. Unspawned(op.job)'
    BY <1>5, <1>10 DEF Unspawned
  <2> QED
    BY <2>1, <1>0, <1>1, <1>7, <1>10 DEF FlushOK, Reconciling, Starting
<1>12. TypeOK'
  BY <1>0, <1>1, <1>3, <1>10 DEF TypeOK, world, memory
<1> QED
  BY <1>6, <1>8, <1>9, <1>11, <1>12 DEF IInv

\* A queued job ends without having been started.
LEMMA Unstarted ==
    ASSUME IInv, NEW j \in Jobs, job[j].state = "QUEUED", job' \in [Jobs -> Rows],
           \A i \in Jobs : i # j => job'[i] = job[i],
           job'[j].state \in Terminal \ {"SUCCEEDED"}, job'[j].stop \in {"none", job'[j].state},
           job'[j].slot = job[j].slot, job'[j].process = job[j].process, job'[j].anchor = job[j].anchor,
           UNCHANGED <<rows, group, record, marker, outcome, starts, exits>>
    PROVE  SoundOK' /\ LeaseOK' /\ LimitOK' /\ Held' = Held /\ \A i \in Held : Onward(i)
<1>1. Sound(j) /\ ~job[j].slot /\ Unspawned(j)
  BY DEF IInv, SoundOK, Sound, RowSound
<1>2. Sound(j)'
  BY <1>1 DEF Sound, RowSound, GroupSound, Unspawned, Running, Terminal
<1>3. SoundOK'
  BY <1>2, SoundButOne DEF IInv, Kept
<1>4. Held' = Held /\ LeaseOK'
  BY <1>1 DEF Held, IInv, LeaseOK, NoHeavyJobs, Active, Terminal
<1>5. LimitOK'
  BY <1>4 DEF IInv, LimitOK
<1>6. \A i \in Held : Kept(i) /\ Sound(i)
  BY <1>1 DEF Held, Kept, IInv, SoundOK
<1> QED
  BY <1>3, <1>4, <1>5, <1>6, KeptSound

\* The head of the queue has no worktree to run in.
LEMMA ClaimUnavailableStep ==
    ASSUME IInv, NEW j \in Jobs, ClaimUnavailable(j)
    PROVE  IInv'
<1>0. TypeOK /\ FlushOK /\ op \in Ops /\ job \in [Jobs -> Rows]
  BY DEF IInv, TypeOK
<1>1. /\ op.pc = "claim" /\ daemon # "down" /\ job[j].state = "QUEUED"
      /\ job' = [job EXCEPT ![j].state = "INTERRUPTED"] /\ Goto("prune")
      /\ UNCHANGED <<rows, vanished, world, memory, daemon, mishaps>>
  BY DEF ClaimUnavailable, At, Dispatchable, Head
<1>2. job[j].stop = "none"
  BY <1>1 DEF IInv, SoundOK, Sound, RowSound
<1>3. job' \in [Jobs -> Rows]
  BY <1>0, <1>1, SetColumn DEF States, Terminal
<1>4. /\ job'[j].state = "INTERRUPTED" /\ job'[j].stop = job[j].stop /\ job'[j].slot = job[j].slot
      /\ job'[j].process = job[j].process /\ job'[j].anchor = job[j].anchor
      /\ \A i \in Jobs : i # j => job'[i] = job[i]
  BY <1>0, <1>1 DEF Rows
<1>5. SoundOK' /\ LeaseOK' /\ LimitOK' /\ Held' = Held
  BY <1>1, <1>2, <1>3, <1>4, Unstarted DEF world, memory, Terminal
<1>6. op' \in Ops /\ op'.pc = "prune" /\ op'.todo = op.todo
  BY <1>0, <1>1 DEF Goto, Ops, PCs
<1>7. FlushOK'
  BY <1>0, <1>1, <1>5, <1>6 DEF FlushOK, Reconciling, Starting
<1>8. TypeOK'
  BY <1>0, <1>1, <1>3, <1>6 DEF TypeOK, world, memory
<1> QED
  BY <1>5, <1>7, <1>8 DEF IInv

\* The deadline passed before the start.
LEMMA LaunchTooLateStep ==
    ASSUME IInv, LaunchTooLate
    PROVE  IInv'
<1>0. TypeOK /\ FlushOK /\ op \in Ops /\ job \in [Jobs -> Rows]
  BY DEF IInv, TypeOK
<1>1. PICK j \in Held : j = op.job /\ j \in Jobs /\ op.pc = "launch" /\ daemon # "down" /\ Unspawned(j)
  BY <1>0 DEF LaunchTooLate, FlushOK, At, Starting, Held
<1>2. /\ job' = Requested(job, j, "TIMED_OUT") /\ Finishing("TIMED_OUT", "claim")
      /\ UNCHANGED <<rows, vanished, world, memory, daemon, mishaps>>
  BY <1>1 DEF LaunchTooLate
<1>3. Noted(job, job', j)
  <2>1. job[j].state # "QUEUED"
    BY <1>1 DEF IInv, SoundOK, Sound, RowSound, Held
  <2> QED
    BY <2>1, <1>0, <1>1, <1>2, RequestNotes DEF StopReasons
<1>4. SoundOK' /\ LeaseOK' /\ LimitOK' /\ Held' = Held
  BY <1>1, <1>2, <1>3, NoteAlone DEF world, memory
<1>5. op' \in Ops /\ FlushOK'
  BY <1>0, <1>1, <1>2, <1>4, Locals, FlushFinishes DEF Starting, Terminal, world, Unspawned, Running
<1>6. TypeOK'
  BY <1>0, <1>2, <1>3, <1>5 DEF TypeOK, world, memory, Noted
<1> QED
  BY <1>4, <1>5, <1>6 DEF IInv

\* A start is refused under a lease.
LEMMA StartConflictStep ==
    ASSUME IInv, StartConflict
    PROVE  IInv'
<1>0. TypeOK /\ FlushOK /\ op \in Ops /\ job \in [Jobs -> Rows]
  BY DEF IInv, TypeOK
<1>1. PICK j \in Held : j = op.job /\ j \in Jobs /\ daemon # "down"
  BY <1>0 DEF StartConflict, FlushOK, At, Starting, Held
<1>2. /\ job' = Failed(j, "INTERRUPTED", "unconfirmed") /\ NextClaim
      /\ UNCHANGED <<rows, vanished, world, memory, daemon, mishaps>>
  BY <1>1 DEF StartConflict
<1>3. Noted(job, job', j)
  <2>1. job[j].state # "QUEUED"
    BY <1>1 DEF IInv, SoundOK, Sound, RowSound, Held
  <2> QED
    BY <2>1, <1>0, <1>1, <1>2, FailNotes DEF StopReasons, Errors
<1>4. SoundOK' /\ LeaseOK' /\ LimitOK' /\ Held' = Held
  BY <1>1, <1>2, <1>3, NoteAlone DEF world, memory
<1>5. op' \in Ops /\ FlushOK'
  BY <1>0, <1>1, <1>2, <1>4, Locals, FlushLeaves
<1>6. TypeOK'
  BY <1>0, <1>2, <1>3, <1>5 DEF TypeOK, world, memory, Noted
<1> QED
  BY <1>4, <1>5, <1>6 DEF IInv

\* The launch goes on to another await about the same job.
LEMMA FlushLaunches ==
    ASSUME TypeOK, FlushOK, op.pc \in Starting, Held' = Held, daemon # "down", daemon' = daemon,
           NEW pc \in {"spawned", "handshake", "bind", "go", "ack"}, Goto(pc),
           pc \in {"bind", "go", "ack"} => record'[op.job] # "none",
           pc \in {"go", "ack"} => job'[op.job].process
    PROVE  op' \in Ops /\ FlushOK'
<1>1. op' \in Ops /\ op'.pc = pc /\ op'.job = op.job /\ op'.todo = op.todo
  BY Locals DEF Goto, TypeOK, Ops, PCs
<1> QED
  BY <1>1 DEF FlushOK, Reconciling, Starting

\* The anchor is spawned.
LEMMA SpawnStep ==
    ASSUME IInv, Spawn
    PROVE  IInv'
<1>0. TypeOK /\ FlushOK /\ op \in Ops
  BY DEF IInv, TypeOK
<1>1. PICK j \in Held : j = op.job /\ j \in Jobs /\ op.pc = "reserve" /\ daemon # "down" /\ Unspawned(j)
  BY <1>0 DEF Spawn, FlushOK, At, Starting, Held
<1>2. /\ group' = [group EXCEPT ![j] = "anchor"] /\ Goto("spawned")
      /\ UNCHANGED <<store, record, marker, late, outcome, starts, memory, daemon, mishaps>>
  BY <1>1 DEF Spawn
<1>3. group'[j] = "anchor" /\ group' \in [Jobs -> Groups] /\ \A i \in Jobs : i # j => group'[i] = group[i]
  BY <1>0, <1>1, <1>2 DEF TypeOK, Groups
<1>4. Sound(j)'
  <2>1. Sound(j) /\ job[j].slot
    BY <1>1 DEF IInv, SoundOK, Held
  <2> QED
    BY <2>1, <1>1, <1>2, <1>3 DEF Sound, RowSound, GroupSound, Unspawned, Running, store, memory
<1>5. SoundOK'
  BY <1>1, <1>2, <1>3, <1>4, SoundButOne DEF IInv, Kept, store, memory
<1>6. LeaseOK' /\ LimitOK' /\ Held' = Held
  BY <1>2, SlotsKeptOK DEF IInv, SlotsKept, store
<1>7. op' \in Ops /\ FlushOK'
  BY <1>0, <1>1, <1>2, <1>6, FlushLaunches DEF Starting
<1>8. TypeOK'
  BY <1>0, <1>2, <1>3, <1>7 DEF TypeOK, store, memory
<1> QED
  BY <1>5, <1>6, <1>7, <1>8 DEF IInv

\* The anchor, then the process, are bound to the row.
LEMMA BindStep ==
    ASSUME IInv, BindAnchor \/ BindProcess
    PROVE  IInv'
<1>0. TypeOK /\ FlushOK /\ op \in Ops /\ job \in [Jobs -> Rows]
  BY DEF IInv, TypeOK
<1>1. PICK j \in Held : j = op.job /\ j \in Jobs /\ op.pc \in {"spawned", "bind"} /\ daemon # "down"
  BY <1>0 DEF BindAnchor, BindProcess, FlushOK, At, Starting, Held
<1>2. Noted(job, job', j)
  <2>1. Noted(job, [job EXCEPT ![j].anchor = TRUE], j) /\ Noted(job, [job EXCEPT ![j].process = TRUE], j)
    BY <1>0, <1>1, SetColumn
  <2> QED
    BY <2>1, <1>1 DEF BindAnchor, BindProcess
<1>3. UNCHANGED <<rows, vanished, world, memory, daemon, mishaps>>
  BY DEF BindAnchor, BindProcess
<1>4. SoundOK' /\ LeaseOK' /\ LimitOK' /\ Held' = Held
  BY <1>1, <1>2, <1>3, NoteAlone DEF world, memory
<1>5. op' \in Ops /\ FlushOK'
  <2>1. CASE BindAnchor
    BY <2>1, <1>0, <1>1, <1>3, <1>4, FlushLaunches DEF BindAnchor, Starting
  <2>2. CASE BindProcess
    <3>1. record[j] # "none"
      BY <2>2, <1>0, <1>1 DEF BindProcess, At, FlushOK
    <3>2. job'[j].process
      BY <2>2, <1>0, <1>1 DEF BindProcess, Rows
    <3> QED
      BY <2>2, <3>1, <3>2, <1>0, <1>1, <1>3, <1>4, FlushLaunches DEF BindProcess, Starting, world
  <2> QED
    BY <2>1, <2>2
<1>6. TypeOK'
  BY <1>0, <1>2, <1>3, <1>5 DEF TypeOK, world, memory, Noted
<1> QED
  BY <1>4, <1>5, <1>6 DEF IInv

\* The record of the process is created.
LEMMA CreateRecordStep ==
    ASSUME IInv, CreateRecord
    PROVE  IInv'
<1>0. TypeOK /\ FlushOK /\ op \in Ops
  BY DEF IInv, TypeOK
<1>1. PICK j \in Held : j = op.job /\ j \in Jobs /\ op.pc = "handshake" /\ daemon # "down"
  BY <1>0 DEF CreateRecord, FlushOK, At, Starting, Held
<1>2. /\ record' = [record EXCEPT ![j] = "starting"] /\ Goto("bind")
      /\ UNCHANGED <<store, group, marker, late, outcome, starts, memory, daemon, mishaps>>
  BY <1>1 DEF CreateRecord
<1>3. record'[j] = "starting" /\ record' \in [Jobs -> Records] /\ \A i \in Jobs : i # j => record'[i] = record[i]
  BY <1>0, <1>1, <1>2 DEF TypeOK, Records
<1>4. Sound(j)'
  <2>1. Sound(j) /\ job[j].slot
    BY <1>1 DEF IInv, SoundOK, Held
  <2> QED
    BY <2>1, <1>2, <1>3 DEF Sound, RowSound, GroupSound, Running, store, memory, Terminal
<1>5. SoundOK'
  BY <1>1, <1>2, <1>3, <1>4, SoundButOne DEF IInv, Kept, store, memory
<1>6. LeaseOK' /\ LimitOK' /\ Held' = Held
  BY <1>2, SlotsKeptOK DEF IInv, SlotsKept, store
<1>7. op' \in Ops /\ FlushOK'
  BY <1>0, <1>1, <1>2, <1>3, <1>6, FlushLaunches DEF Starting
<1>8. TypeOK'
  BY <1>0, <1>2, <1>3, <1>7 DEF TypeOK, store, memory
<1> QED
  BY <1>5, <1>6, <1>7, <1>8 DEF IInv

\* GO: the command starts, or its deadline has passed.
LEMMA SendGoStep ==
    ASSUME IInv, SendGo
    PROVE  IInv'
<1>0. TypeOK /\ FlushOK /\ op \in Ops
  BY DEF IInv, TypeOK
<1>1. PICK j \in Held : /\ j = op.job /\ j \in Jobs /\ op.pc = "go" /\ daemon # "down"
                       /\ record[j] # "none" /\ job[j].process
  BY <1>0 DEF SendGo, MayGo, FlushOK, Starting, Held
<1>2. /\ UNCHANGED <<store, record, late, outcome, memory, daemon>> /\ Goto("ack") /\ group[j] = "anchor"
      /\ \A i \in Jobs : i # j => group'[i] = group[i] /\ starts'[i] = starts[i] /\ marker'[i] = marker[i]
      /\ \/ group'[j] = "task" /\ starts'[j] = starts[j] + 1 /\ marker'[j] = marker[j]
         \/ group'[j] = "closing" /\ starts'[j] = starts[j] /\ marker'[j] \in {marker[j], "timedout"}
  BY <1>0, <1>1 DEF SendGo, TypeOK
<1>3. Sound(j)'
  <2>1. Sound(j) /\ job[j].slot
    BY <1>1 DEF IInv, SoundOK, Held
  <2>2. starts[j] = 0 /\ marker[j] = "none"
    BY <2>1, <1>2 DEF Sound, GroupSound
  <2>3. RowSound(j)'
    BY <2>1, <2>2, <1>2 DEF Sound, RowSound, store, memory, Terminal
  <2>4. GroupSound(j)'
    <3>1. CASE group'[j] = "task" /\ starts'[j] = starts[j] + 1 /\ marker'[j] = marker[j]
      BY <3>1, <2>1, <2>2, <1>1, <1>2 DEF Sound, GroupSound, Running, store, memory
    <3>2. CASE group'[j] = "closing" /\ starts'[j] = starts[j] /\ marker'[j] \in {marker[j], "timedout"}
      BY <3>2, <2>1, <2>2, <1>1, <1>2 DEF Sound, GroupSound, Running, store, memory
    <3> QED
      BY <3>1, <3>2, <1>2
  <2> QED
    BY <2>3, <2>4 DEF Sound
<1>4. SoundOK'
  BY <1>1, <1>2, <1>3, SoundButOne DEF IInv, Kept, store, memory
<1>5. LeaseOK' /\ LimitOK' /\ Held' = Held
  BY <1>2, SlotsKeptOK DEF IInv, SlotsKept, store
<1>6. op' \in Ops /\ FlushOK'
  BY <1>0, <1>1, <1>2, <1>5, FlushLaunches DEF Starting, store
<1>7. TypeOK'
  <2>1. group' \in [Jobs -> Groups] /\ marker' \in [Jobs -> Markers]
    BY <1>0, <1>1 DEF SendGo, TypeOK, Groups, Markers
  <2>2. starts' \in [Jobs -> Nat]
    BY <1>0, <1>1 DEF SendGo, TypeOK
  <2>3. mishaps' \in Nat
    BY <1>0 DEF SendGo, MishapIf, Mishap, TypeOK
  <2> QED
    BY <1>0, <1>2, <1>6, <2>1, <2>2, <2>3 DEF TypeOK, store, memory
<1> QED
  BY <1>4, <1>5, <1>6, <1>7 DEF IInv

\* The start returns.
LEMMA LaunchedStep ==
    ASSUME IInv, Launched
    PROVE  IInv'
<1>0. TypeOK /\ FlushOK /\ op \in Ops
  BY DEF IInv, TypeOK
<1>1. PICK j \in Held : j = op.job /\ j \in Jobs /\ daemon # "down"
  BY <1>0 DEF Launched, FlushOK, At, Starting, Held
<1>2. /\ record' = [record EXCEPT ![j] = "open"] /\ owned' = owned \cup {j} /\ NextClaim
      /\ UNCHANGED <<store, group, marker, late, outcome, starts, timer, pending, recovering,
                     exits, daemon, mishaps>>
  BY <1>1 DEF Launched
<1>3. record'[j] = "open" /\ record' \in [Jobs -> Records] /\ \A i \in Jobs : i # j => record'[i] = record[i]
  BY <1>0, <1>1, <1>2 DEF TypeOK, Records
<1>4. Sound(j)'
  <2>1. Sound(j) /\ job[j].slot
    BY <1>1 DEF IInv, SoundOK, Held
  <2> QED
    BY <2>1, <1>2, <1>3 DEF Sound, RowSound, GroupSound, Running, store, Terminal
<1>5. SoundOK'
  BY <1>1, <1>2, <1>3, <1>4, SoundButOne DEF IInv, Kept, store
<1>6. LeaseOK' /\ LimitOK' /\ Held' = Held
  BY <1>2, SlotsKeptOK DEF IInv, SlotsKept, store
<1>7. op' \in Ops /\ FlushOK'
  BY <1>0, <1>1, <1>2, <1>6, Locals, FlushLeaves
<1>8. TypeOK'
  BY <1>0, <1>1, <1>2, <1>3, <1>7 DEF TypeOK, store
<1> QED
  BY <1>5, <1>6, <1>7, <1>8 DEF IInv

\* A start fails between the spawn and its acknowledgement, and is rolled back or not.
LEMMA StartFailsStep ==
    ASSUME IInv, StartFails
    PROVE  IInv'
<1>0. TypeOK /\ FlushOK /\ op \in Ops /\ job \in [Jobs -> Rows]
  BY DEF IInv, TypeOK
<1>1. PICK j \in Held : j = op.job /\ j \in Jobs /\ daemon # "down"
  BY <1>0 DEF StartFails, FlushOK, Starting, Held
<1>2. /\ UNCHANGED <<rows, vanished, marker, late, starts, memory, daemon>> /\ NextClaim
      /\ \A i \in Jobs : i # j => group'[i] = group[i] /\ record'[i] = record[i] /\ outcome'[i] = outcome[i]
      /\ \/ /\ group'[j] = (IF group[j] = "orphan" THEN "orphan" ELSE "absent")
            /\ record'[j] = (IF record[j] = "none" THEN "none" ELSE "closed")
            /\ outcome'[j] = (IF group[j] = "task" THEN "fail" ELSE outcome[j])
         \/ /\ record'[j] = (IF record[j] = "none" THEN "none" ELSE "open")
            /\ group'[j] = group[j] /\ outcome'[j] = outcome[j]
  BY <1>0, <1>1 DEF StartFails, TypeOK
<1>3. Noted(job, job', j)
  <2>1. job[j].state # "QUEUED"
    BY <1>1 DEF IInv, SoundOK, Sound, RowSound, Held
  <2>2. PICK reason \in {"INTERRUPTED", "TIMED_OUT"} : job' = Failed(j, reason, "other")
    BY <1>1 DEF StartFails
  <2> QED
    BY <2>1, <2>2, <1>0, <1>1, FailNotes DEF StopReasons, Errors
<1>4. GroupSound(j)'
  <2>1. GroupSound(j) /\ job[j].slot
    BY <1>1 DEF IInv, SoundOK, Sound, Held
  <2> QED
    BY <2>1, <1>2, <1>3 DEF GroupSound, Running, Noted, memory
<1>5. SoundOK' /\ LeaseOK' /\ LimitOK' /\ Held' = Held
  <2>1. rows' = rows /\ \A i \in Jobs : i # j => (job'[i] = job[i] => Kept(i))
    BY <1>2 DEF Kept, memory
  <2> QED
    BY <2>1, <1>1, <1>3, <1>4, NoteSound
<1>6. op' \in Ops /\ FlushOK'
  BY <1>0, <1>1, <1>2, <1>5, Locals, FlushLeaves
<1>7. TypeOK'
  <2>1. group' \in [Jobs -> Groups] /\ record' \in [Jobs -> Records]
    BY <1>0, <1>1 DEF StartFails, TypeOK, Groups, Records
  <2>2. outcome' \in [Jobs -> {"none", "ok", "fail"}]
    BY <1>0, <1>1 DEF StartFails, TypeOK
  <2>3. mishaps' \in Nat
    BY <1>0 DEF StartFails, MishapIf, Mishap, TypeOK
  <2> QED
    BY <1>0, <1>2, <1>3, <1>6, <2>1, <2>2, <2>3 DEF TypeOK, memory, Noted
<1> QED
  BY <1>5, <1>6, <1>7 DEF IInv

-----------------------------------------------------------------------------
\* Requests, and pruning.

(* What is left of a job that was pruned. *)
PrunedRow == [NoRow EXCEPT !.state = "pruned"]

Pruned(i) ==
    /\ job'[i] = PrunedRow /\ record'[i] = "none" /\ marker'[i] = "none"
    /\ group'[i] = group[i] /\ outcome'[i] = outcome[i] /\ starts'[i] = starts[i] /\ exits'[i] = exits[i]

\* It is sound.
LEMMA PrunedSound ==
    ASSUME NEW i, Sound(i), ~job[i].slot, Pruned(i)
    PROVE  Sound(i)'
BY DEF Sound, RowSound, GroupSound, Pruned, PrunedRow, NoRow, Unspawned, Running, Terminal

\* A table without some jobs is a table.
LEMMA WithoutType ==
    ASSUME TypeOK, NEW S \in SUBSET Jobs
    PROVE  WithoutJobs(S) \in [Jobs -> Rows]
<1>1. PrunedRow \in Rows /\ job \in [Jobs -> Rows]
  BY DEF PrunedRow, NoRow, Rows, StopReasons, TypeOK
<1> QED
  BY <1>1 DEF WithoutJobs, PrunedRow

\* Records and markers go with the rows.
LEMMA PruneType ==
    ASSUME TypeOK, NEW S \in SUBSET Jobs, NEW table, Prune(S, table)
    PROVE  /\ job' = table /\ record' \in [Jobs -> Records] /\ marker' \in [Jobs -> Markers]
           /\ \A i \in Jobs : /\ record'[i] = IF i \in S THEN "none" ELSE record[i]
                             /\ marker'[i] = IF i \in S THEN "none" ELSE marker[i]
BY DEF Prune, Without, TypeOK, Records, Markers

\* The flush ends, and prunes.
LEMMA FlushEndsStep ==
    ASSUME IInv, FlushEnds
    PROVE  IInv'
<1>0. TypeOK /\ SoundOK
  BY DEF IInv
<1>1. PICK S \in SUBSET {j \in Jobs : daemon = "up" /\ Prunable(j)} : Prune(S, WithoutJobs(S))
  BY DEF FlushEnds
<1>2. S \in SUBSET Jobs /\ \A i \in S : job[i].state \in Terminal /\ ~job[i].slot
  BY <1>1 DEF Prunable
<1>3. /\ UNCHANGED <<rows, vanished, group, late, outcome, starts, pending, recovering,
                     exits, owned, daemon, mishaps>>
      /\ op' = NoOp /\ timer' \in Now..NoTimer
  BY <1>0, Delays DEF FlushEnds
<1>4. /\ \A i \in S : Pruned(i)
      /\ \A i \in Jobs \ S : Kept(i)
  BY <1>0, <1>1, <1>2, <1>3, PruneType DEF WithoutJobs, Pruned, PrunedRow, Kept
<1>5. SoundOK'
  <2>1. ASSUME NEW i \in Jobs PROVE Sound(i)'
    <3>1. Sound(i)
      BY <1>0 DEF SoundOK
    <3>2. CASE i \in S
      BY <3>1, <3>2, <1>2, <1>4, PrunedSound
    <3>3. CASE i \notin S
      BY <3>1, <3>3, <1>4, KeptSound
    <3> QED
      BY <3>2, <3>3
  <2> QED
    BY <2>1 DEF SoundOK
<1>6. \A i \in Jobs : job'[i].slot = job[i].slot /\ (job'[i].state = "QUEUED" => job[i].state = "QUEUED")
  <2>1. PrunedRow.slot = FALSE /\ PrunedRow.state = "pruned"
    BY DEF PrunedRow, NoRow
  <2>2. ASSUME NEW i \in S PROVE job'[i].slot = job[i].slot /\ job'[i].state # "QUEUED"
    <3>1. job[i].slot = FALSE
      BY <1>0, <1>2, Columns
    <3> QED
      BY <2>1, <3>1, <1>4 DEF Pruned
  <2>3. ASSUME NEW i \in Jobs \ S PROVE job'[i] = job[i]
    BY <1>4 DEF Kept
  <2> QED
    BY <2>2, <2>3, <1>2
<1>7. LeaseOK' /\ LimitOK'
  <2>1. Held' = Held /\ (NoHeavyJobs => NoHeavyJobs')
    BY <1>6 DEF Held, NoHeavyJobs, Active
  <2> QED
    BY <2>1, <1>3 DEF IInv, LeaseOK, LimitOK
<1>8. FlushOK'
  BY <1>3 DEF FlushOK, NoOp, Reconciling, Starting
<1>9. TypeOK'
  <2>1. /\ job' \in [Jobs -> Rows] /\ record' \in [Jobs -> Records] /\ marker' \in [Jobs -> Markers]
        /\ op' \in Ops
    BY <1>0, <1>1, <1>2, <1>3, PruneType, WithoutType, Locals
  <2> QED
    BY <2>1, <1>0, <1>3 DEF TypeOK
<1> QED
  BY <1>5, <1>7, <1>8, <1>9 DEF IInv

\* A job is admitted, and others are pruned.
LEMMA EnqueueStep ==
    ASSUME IInv, NEW j \in Jobs, Enqueue(j)
    PROVE  IInv'
<1>0. TypeOK /\ SoundOK /\ FlushOK /\ job \in [Jobs -> Rows]
  BY DEF IInv, TypeOK
<1>1. PICK S \in SUBSET {i \in Jobs : Prunable(i)} : Prune(S, [WithoutJobs(S) EXCEPT ![j].state = "QUEUED"])
  BY DEF Enqueue
<1>2. /\ job[j].state = "absent" /\ daemon # "down" /\ rows = {} /\ timer' = Armed(Now)
      /\ UNCHANGED <<rows, vanished, group, late, outcome, starts, pending, recovering,
                     exits, owned, daemon, op, mishaps>>
  BY DEF Enqueue, Registered
<1>3. S \in SUBSET Jobs /\ j \notin S /\ \A i \in S : job[i].state \in Terminal /\ ~job[i].slot
  BY <1>1, <1>2 DEF Prunable, Terminal
<1>4. Sound(j) /\ Unspawned(j) /\ job[j].stop = "none" /\ ~job[j].slot
  BY <1>0, <1>2 DEF SoundOK, Sound, RowSound
<1>5. WithoutJobs(S) \in [Jobs -> Rows] /\ WithoutJobs(S)[j] = job[j]
  BY <1>0, <1>3, WithoutType DEF WithoutJobs
<1>6. /\ job' \in [Jobs -> Rows] /\ job'[j] = [job[j] EXCEPT !.state = "QUEUED"]
      /\ \A i \in Jobs : i # j => job'[i] = WithoutJobs(S)[i]
  <2>1. job' = [WithoutJobs(S) EXCEPT ![j].state = "QUEUED"]
    BY <1>1 DEF Prune
  <2> QED
    BY <2>1, <1>5, SetColumn DEF States
<1>7. /\ \A i \in S : Pruned(i)
      /\ \A i \in Jobs \ S : i # j => Kept(i)
  BY <1>0, <1>1, <1>2, <1>3, <1>6, PruneType DEF WithoutJobs, Pruned, PrunedRow, Kept
<1>8. Sound(j)' /\ ~job'[j].slot
  <2>1. /\ job'[j].state = "QUEUED" /\ job'[j].slot = job[j].slot /\ job'[j].stop = job[j].stop
        /\ job'[j].anchor = job[j].anchor /\ job'[j].process = job[j].process
    BY <1>0, <1>6 DEF Rows
  <2>2. record'[j] = record[j] /\ marker'[j] = marker[j]
    BY <1>0, <1>1, <1>3, PruneType
  <2> QED
    BY <2>1, <2>2, <1>2, <1>4 DEF Sound, RowSound, GroupSound, Unspawned, Running, Terminal
<1>9. SoundOK'
  <2>1. ASSUME NEW i \in Jobs PROVE Sound(i)'
    <3>1. Sound(i)
      BY <1>0 DEF SoundOK
    <3>2. CASE i \in S
      BY <3>1, <3>2, <1>3, <1>7, PrunedSound
    <3>3. CASE i \notin S /\ i # j
      BY <3>1, <3>3, <1>7, KeptSound
    <3> QED
      BY <3>2, <3>3, <1>8
  <2> QED
    BY <2>1 DEF SoundOK
<1>10. Held' = Held
  <2>1. \A i \in Jobs : job'[i].slot = job[i].slot
    <3>1. PrunedRow.slot = FALSE /\ job'[j].slot = job[j].slot
      BY <1>0, <1>6 DEF PrunedRow, NoRow, Rows
    <3>2. ASSUME NEW i \in S PROVE job'[i].slot = job[i].slot
      <4>1. job[i].slot = FALSE
        BY <1>0, <1>3, Columns
      <4> QED
        BY <3>1, <4>1, <1>7 DEF Pruned
    <3>3. ASSUME NEW i \in Jobs \ S, i # j PROVE job'[i] = job[i]
      BY <3>3, <1>7 DEF Kept
    <3> QED
      BY <3>1, <3>2, <3>3
  <2> QED
    BY <2>1 DEF Held
<1>11. LeaseOK' /\ LimitOK'
  BY <1>2, <1>10 DEF IInv, LeaseOK, LimitOK
<1>12. FlushOK'
  <2>1. \A i \in Held : i \in Jobs \ S /\ i # j /\ Sound(i)
    BY <1>0, <1>3, <1>4 DEF Held, SoundOK
  <2> QED
    BY <2>1, <1>0, <1>2, <1>7, <1>10, KeptSound, FlushKept
<1>13. TypeOK'
  BY <1>0, <1>1, <1>2, <1>3, <1>6, PruneType, Delays DEF TypeOK
<1> QED
  BY <1>9, <1>11, <1>12, <1>13 DEF IInv

\* A job is cancelled: a queued one ends, a held one learns of it, another is left alone.
LEMMA CancelStep ==
    ASSUME IInv, NEW j \in Jobs, Cancel(j)
    PROVE  IInv'
<1>0. TypeOK /\ FlushOK /\ job \in [Jobs -> Rows] /\ Sound(j)
  BY DEF IInv, TypeOK, SoundOK
<1>1. /\ job' = Requested(job, j, "CANCELLED") /\ timer' = NoTimer /\ pending' = TRUE
      /\ UNCHANGED <<rows, vanished, world, recovering, exits, owned, daemon, op>>
      /\ mishaps' \in Nat
  BY <1>0 DEF Cancel, Mishap, TypeOK
<1>2. job' \in [Jobs -> Rows]
  BY <1>0, <1>1, RequestNotes DEF StopReasons
<1>3. TypeOK'
  BY <1>0, <1>1, <1>2, Delays DEF TypeOK, world
<1>4. SoundOK' /\ LeaseOK' /\ LimitOK' /\ Held' = Held /\ \A i \in Held : Onward(i)
  <2>1. CASE job[j].state = "QUEUED"
    <3>1. /\ job'[j].state = "CANCELLED" /\ job'[j].stop = "CANCELLED" /\ job'[j].slot = job[j].slot
          /\ job'[j].process = job[j].process /\ job'[j].anchor = job[j].anchor
          /\ \A i \in Jobs : i # j => job'[i] = job[i]
      BY <2>1, <1>0, <1>1 DEF Requested, Rows
    <3> QED
      BY <2>1, <3>1, <1>1, <1>2, Unstarted DEF world, Terminal
  <2>2. CASE job[j].slot /\ job[j].state # "QUEUED"
    <3>1. Noted(job, job', j)
      BY <2>2, <1>0, <1>1, RequestNotes DEF StopReasons
    <3>2. j \in Held /\ rows' = rows /\ UNCHANGED <<group, record, marker, outcome, starts, exits>>
      BY <2>2, <1>1 DEF Held, world
    <3>3. SoundOK' /\ LeaseOK' /\ LimitOK' /\ Held' = Held
      BY <3>1, <3>2, NoteAlone
    <3>4. \A i \in Jobs : i # j => Kept(i)
      BY <3>1, <3>2 DEF Noted, Kept
    <3>5. Onward(j)
      <4>1. job'[j].anchor = job[j].anchor /\ job'[j].process = job[j].process
        BY <2>2, <1>0, <1>1 DEF Requested, Rows
      <4> QED
        BY <3>2, <4>1 DEF Onward, Unspawned, Running, Present
    <3> QED
      BY <3>3, <3>4, <3>5, KeptSound DEF Held, IInv, SoundOK
  <2>3. CASE ~job[j].slot /\ job[j].state # "QUEUED"
    <3>1. job' = job
      BY <2>3, <1>1 DEF Requested
    <3> QED
      BY <3>1, <1>1, StillSound DEF Kept, world
  <2> QED
    BY <2>1, <2>2, <2>3
<1>5. FlushOK'
  BY <1>0, <1>1, <1>4, FlushKept
<1> QED
  BY <1>3, <1>4, <1>5 DEF IInv

-----------------------------------------------------------------------------
\* What no step does to a finished job.

(* j is finished, and gave up its slot. *)
Settled(j) == job[j].state \in Terminal /\ ~job[j].slot

\* A request to stop changes no other row, and none that is settled.
LEMMA RequestSpares ==
    ASSUME NEW table \in [Jobs -> Rows], NEW j \in Jobs, NEW i \in Jobs, NEW reason,
           i # j \/ (table[i].state # "QUEUED" /\ ~table[i].slot)
    PROVE  Requested(table, j, reason)[i] = table[i]
BY DEF Requested

\* The read of a completion changes no row that holds no slot, but for its error.
LEMMA ReadSpares ==
    ASSUME NEW table \in [Jobs -> Rows], NEW j \in Jobs, NEW i \in Jobs, i # j, NEW read, NEW done
    PROVE  WithTimeout(WithReadError(table, j, read), j, done)[i] = table[i]
BY ReadNotes DEF Noted

\* Reconciling changes the row of the job at hand alone, which holds its slot.
LEMMA ReconcileSpares ==
    ASSUME IInv, NEW i \in Jobs, ~job[i].slot,
           \/ \E j \in Jobs : ReconcileLookup(j)
           \/ ReconcileAnchor \/ ReconcileRead \/ ReconcileGroup \/ ReconcileStop
           \/ ReconcileRegroup \/ ReconcileConfirm \/ FinishJob
    PROVE  job'[i] = job[i]
<1>0. TypeOK /\ FlushOK /\ job \in [Jobs -> Rows] /\ i \notin Held
  BY DEF IInv, TypeOK, Held
<1>1. ASSUME NEW j \in Jobs, ReconcileLookup(j) PROVE job'[i] = job[i]
  <2>1. j # i
    BY <1>0, <1>1 DEF ReconcileLookup, IsHead, FlushOK
  <2> QED
    BY <2>1, <1>0, <1>1 DEF ReconcileLookup
<1>2. CASE ReconcileAnchor \/ ReconcileGroup \/ ReconcileStop \/ ReconcileRegroup \/ FinishJob
  <2>1. op.job # i
    BY <1>0, <1>2 DEF ReconcileAnchor, ReconcileGroup, ReconcileStop, ReconcileRegroup, FinishJob, At,
                      FlushOK, Reconciling
  <2> QED
    BY <2>1, <1>0, <1>2 DEF ReconcileAnchor, ReconcileGroup, ReconcileStop, ReconcileRegroup, FinishJob,
                            StillThere
<1>3. CASE ReconcileRead
  <2>1. op.job # i /\ op.job \in Jobs
    BY <1>0, <1>3 DEF ReconcileRead, At, FlushOK, Reconciling, Held
  <2> DEFINE First(r) == WithTimeout(WithReadError(job, op.job, r), op.job, r)
             Why(r, l) == IF l THEN "TIMED_OUT"
                          ELSE IF op.job \in recovering /\ Completion(r) = "none" THEN "INTERRUPTED"
                          ELSE "none"
  <2>2. PICK read \in Reads(op.job) : \E l \in JudgedLate(op.job, read) :
          job' = First(read) \/ job' = Requested(First(read), op.job, Why(read, l))
    BY <1>3 DEF ReconcileRead
  <2>3. First(read) \in [Jobs -> Rows] /\ First(read)[i] = job[i]
    BY <1>0, <2>1, ReadNotes, ReadSpares DEF Noted
  <2> HIDE DEF First, Why
  <2> QED
    BY <2>1, <2>2, <2>3, RequestSpares
<1>4. CASE ReconcileConfirm
  <2>1. op.job # i /\ op.job \in Jobs
    BY <1>0, <1>4 DEF ReconcileConfirm, At, FlushOK, Reconciling, Held
  <2> DEFINE Done(r) == IF Completion(r) = "none" THEN op.done ELSE r
  <2>2. PICK read \in Reads(op.job) : job' = WithTimeout(WithReadError(job, op.job, read), op.job, Done(read))
    BY <1>4 DEF ReconcileConfirm
  <2> QED
    BY <1>0, <2>1, <2>2, ReadSpares
<1> QED
  BY <1>1, <1>2, <1>3, <1>4

\* So does launching.
LEMMA LaunchSpares ==
    ASSUME IInv, NEW i \in Jobs, ~job[i].slot,
           \/ LaunchTooLate \/ StartConflict \/ BindAnchor \/ BindProcess \/ StartFails
    PROVE  job'[i] = job[i]
<1>0. TypeOK /\ FlushOK /\ job \in [Jobs -> Rows] /\ i \notin Held
  BY DEF IInv, TypeOK, Held
<1>1. op.job # i /\ op.job \in Jobs
  BY <1>0 DEF LaunchTooLate, StartConflict, BindAnchor, BindProcess, StartFails, At, FlushOK, Starting, Held
<1>2. CASE BindAnchor \/ BindProcess
  BY <1>0, <1>1, <1>2 DEF BindAnchor, BindProcess
<1>3. CASE LaunchTooLate
  BY <1>0, <1>1, <1>3, RequestSpares DEF LaunchTooLate
<1>4. CASE StartConflict \/ StartFails
  <2>1. PICK reason \in StopReasons \ {"none"}, error \in Errors : job' = Failed(op.job, reason, error)
    <3>1. CASE StartConflict
      BY <3>1 DEF StartConflict, StopReasons, Errors
    <3>2. CASE StartFails
      <4>1. PICK reason \in {"INTERRUPTED", "TIMED_OUT"} : job' = Failed(op.job, reason, "other")
        BY <3>2 DEF StartFails
      <4> QED
        BY <4>1 DEF StopReasons, Errors
    <3> QED
      BY <1>4, <3>1, <3>2
  <2>2. job[op.job].state # "QUEUED"
    BY <1>0, <1>4 DEF StartConflict, StartFails, At, FlushOK, Starting, Held, IInv, SoundOK, Sound, RowSound
  <2> QED
    BY <1>1, <2>1, <2>2, FailNotes DEF Noted, IInv
<1> QED
  BY <1>2, <1>3, <1>4

\* Pruning takes the row, or leaves it.
LEMMA PruneSpares ==
    ASSUME IInv, NEW i \in Jobs, Settled(i), FlushEnds \/ \E j \in Jobs : Enqueue(j)
    PROVE  job'[i] = job[i] \/ job'[i].state = "pruned"
<1>0. TypeOK /\ job \in [Jobs -> Rows] /\ PrunedRow.state = "pruned"
  BY DEF IInv, TypeOK, PrunedRow, NoRow
<1>1. CASE FlushEnds
  <2>1. PICK S : job' = WithoutJobs(S)
    BY <1>1 DEF FlushEnds, Prune
  <2> QED
    BY <2>1, <1>0 DEF WithoutJobs, PrunedRow
<1>2. ASSUME NEW j \in Jobs, Enqueue(j) PROVE job'[i] = job[i] \/ job'[i].state = "pruned"
  <2>1. PICK S : job' = [WithoutJobs(S) EXCEPT ![j].state = "QUEUED"]
    BY <1>2 DEF Enqueue, Prune
  <2>2. i # j
    BY <1>2 DEF Enqueue, Settled, Terminal
  <2> QED
    BY <2>1, <2>2, <1>0 DEF WithoutJobs, PrunedRow
<1> QED
  BY <1>1, <1>2

\* No step does anything else to a settled job.
LEMMA FinalStep ==
    ASSUME IInv, [Next]_vars, NEW i \in Jobs, Settled(i)
    PROVE  job'[i] = job[i] \/ job'[i].state = "pruned"
<1>0. TypeOK /\ job \in [Jobs -> Rows] /\ ~job[i].slot /\ job[i].state # "QUEUED"
  BY DEF IInv, TypeOK, Settled, Terminal
<1>1. CASE FlushStep
  <2>1. ASSUME NEW j \in Jobs, ClaimGranted(j) \/ ClaimUnavailable(j) PROVE job'[i] = job[i]
    <3>1. i # j
      BY <2>1, <1>0 DEF ClaimGranted, ClaimUnavailable, Dispatchable, Head
    <3> QED
      BY <2>1, <3>1, <1>0 DEF ClaimGranted, ClaimUnavailable
  <2>2. CASE \/ FlushStarts \/ ScanEnds \/ FlushFails \/ ClaimNothing \/ LaunchRejected \/ LaunchStopped
             \/ LaunchGoes \/ NotStarted \/ Spawn \/ CreateRecord \/ SendGo \/ Launched
    BY <2>2 DEF FlushStarts, ScanEnds, FlushFails, ClaimNothing, LaunchRejected, LaunchStopped, LaunchGoes,
                NotStarted, Spawn, CreateRecord, SendGo, Launched, store
  <2> QED
    BY <1>0, <1>1, <2>1, <2>2, ReconcileSpares, LaunchSpares, PruneSpares DEF FlushStep
<1>2. ASSUME NEW j \in Jobs,
             \/ EnqueueAgain(j) \/ GroupStep(j) \/ AnchorKilled(j) \/ DeadlinePasses(j) \/ ObserveExit(j)
      PROVE  job' = job
  BY <1>2 DEF EnqueueAgain, GroupStep, AnchorKilled, DeadlinePasses, ObserveExit, TaskEnds, AnchorDeadline,
              AnchorLeaves, OrphanEnds, store
<1>3. ASSUME NEW j \in Jobs, Cancel(j) PROVE job'[i] = job[i]
  BY <1>0, <1>3, RequestSpares DEF Cancel
<1>4. CASE \/ TimerFires \/ Close \/ LeaseReleased \/ Boot \/ Crash \/ Closed
           \/ (\E o \in Operations : LeaseTaken(o))
           \/ (\E j \in Jobs : WorktreeVanishes(WorktreeOf[j]) \/ WorktreeReturns(WorktreeOf[j]))
           \/ UNCHANGED vars
  BY <1>4 DEF TimerFires, Close, LeaseReleased, Boot, Crash, Closed, Dies, LeaseTaken, WorktreeVanishes,
              WorktreeReturns, store, vars
<1>5. CASE \E j \in Jobs : Enqueue(j)
  BY <1>5, PruneSpares
<1> QED
  BY <1>1, <1>2, <1>3, <1>4, <1>5 DEF Next

-----------------------------------------------------------------------------
\* The theorems.

\* Every step keeps the invariant.
LEMMA NextIInv == IInv /\ [Next]_vars => IInv'
<1> SUFFICES ASSUME IInv, [Next]_vars PROVE IInv'
  OBVIOUS
<1>1. CASE FlushStep
  <2>1. ASSUME NEW j \in Jobs, ReconcileLookup(j) PROVE IInv'
    BY <2>1, ReconcileLookupStep
  <2>2. ASSUME NEW j \in Jobs, ClaimGranted(j) PROVE IInv'
    BY <2>2, ClaimGrantedStep
  <2>3. ASSUME NEW j \in Jobs, ClaimUnavailable(j) PROVE IInv'
    BY <2>3, ClaimUnavailableStep
  <2> QED
    BY <1>1, <2>1, <2>2, <2>3, PassingStep, ReconcileAnchorStep, ReconcileReadStep, ReconcileGroupStep,
       ReconcileStopStep, ReconcileConfirmStep, FinishJobStep, LaunchTooLateStep, StartConflictStep,
       SpawnStep, BindStep, CreateRecordStep, SendGoStep, LaunchedStep, StartFailsStep, FlushEndsStep
    DEF FlushStep
<1>2. ASSUME NEW j \in Jobs,
             \/ Enqueue(j) \/ EnqueueAgain(j) \/ Cancel(j)
             \/ GroupStep(j) \/ AnchorKilled(j) \/ DeadlinePasses(j) \/ ObserveExit(j)
      PROVE  IInv'
  BY <1>2, EnqueueStep, CancelStep, OutsideStep, GroupActs, ObserveExitStep DEF GroupStep
<1>3. CASE TimerFires \/ Close \/ LeaseReleased \/ \E o \in Operations : LeaseTaken(o)
  BY <1>3, OutsideStep
<1>4. CASE \E j \in Jobs : WorktreeVanishes(WorktreeOf[j]) \/ WorktreeReturns(WorktreeOf[j])
  BY <1>4, OutsideStep
<1>5. CASE Boot \/ Crash \/ Closed
  BY <1>5, BootStep, DiesStep
<1>6. CASE UNCHANGED vars
  <2>1. UNCHANGED <<job, rows, vanished, group, record, marker, late, outcome, starts, timer, pending, recovering,
                    exits, owned, daemon, op, mishaps>>
    BY <1>6 DEF vars, store, world, memory
  <2>2. \A i \in Jobs : Kept(i)
    BY <2>1 DEF Kept
  <2>3. TypeOK'
    BY <2>1 DEF IInv, TypeOK
  <2>4. daemon' = "down" => daemon = "down"
    BY <2>1
  <2> QED
    BY <2>1, <2>2, <2>3, <2>4, StillSound, FlushKept DEF IInv
<1> QED
  BY <1>1, <1>2, <1>3, <1>4, <1>5, <1>6 DEF Next

\* So it always holds.
THEOREM InvariantHolds == Spec => []IInv
<1>1. Init => IInv
  BY InitIInv
<1>2. IInv /\ [Next]_vars => IInv'
  BY NextIInv
<1> QED
  BY <1>1, <1>2, PTL DEF Spec

\* Every stored column, in-memory field and local of the flush keeps its shape (table heavy_jobs,
\* class HeavyJobQueue).
THEOREM TypeOKHolds == Spec => []TypeOK
<1>1. IInv => TypeOK
  BY DEF IInv
<1> QED
  BY <1>1, InvariantHolds, PTL

\* A job keeps its slot until its whole process group is gone, for any number of jobs and mishaps
\* (#reconcile, finish).
THEOREM SlotCoversProcessesHolds == Spec => []SlotCoversProcesses
<1>1. IInv => SlotCoversProcesses
  BY DEF IInv, SoundOK, Sound, GroupSound, SlotCoversProcesses
<1> QED
  BY <1>1, InvariantHolds, PTL

\* A command is started at most once, whatever crashed between claim and acknowledgement (claim,
\* recover, #reconcile).
THEOREM NeverReplayedHolds == Spec => []NeverReplayed
<1>1. IInv => NeverReplayed
  BY DEF IInv, SoundOK, Sound, GroupSound, NeverReplayed
<1> QED
  BY <1>1, InvariantHolds, PTL

\* A stop reason once accepted decides the outcome (finish, requestCancellation).
THEOREM StopReasonWinsHolds == Spec => []StopReasonWins
<1>1. IInv => StopReasonWins
  BY DEF IInv, SoundOK, Sound, RowSound, StopReasonWins
<1> QED
  BY <1>1, InvariantHolds, PTL

\* Success is only reported of a command that ran to its end and exited 0 (#reconcile).
THEOREM SuccessIsRealHolds == Spec => []SuccessIsReal
<1>1. IInv => SuccessIsReal
  BY DEF IInv, SoundOK, Sound, RowSound, SuccessIsReal
<1> QED
  BY <1>1, InvariantHolds, PTL

\* A command is only started for a job bound to its record, and stays bound while it runs
\* (onRecorded, GO, deleteFinished).
THEOREM StartedIsBoundHolds == Spec => []StartedIsBound
<1>1. IInv => StartedIsBound
  BY DEF IInv, SoundOK, Sound, GroupSound, StartedIsBound
<1> QED
  BY <1>1, InvariantHolds, PTL

\* While a removal or collection holds the repository no command runs in it, orphans and commands
\* of an earlier daemon included (assertNoHeavyJobs, assertRegistered).
THEOREM TaskNeverUnderDestructionHolds == Spec => []TaskNeverUnderDestruction
<1>1. IInv => TaskNeverUnderDestruction
  BY DEF IInv, SoundOK, Sound, GroupSound, LeaseOK, NoHeavyJobs, Active, TaskNeverUnderDestruction
<1> QED
  BY <1>1, InvariantHolds, PTL

\* At most MaxConcurrent commands run at a time, and no two of one worktree, orphans included
\* (claim, jobWaitingReasons).
THEOREM RunningWithinLimitsHolds == Spec => []RunningWithinLimits
<1>1. ASSUME IInv PROVE RunningWithinLimits
  <2> DEFINE running == {j \in Jobs : Running(j)}
  <2>1. running \subseteq Held
    BY <1>1 DEF IInv, SoundOK, Sound, GroupSound, Held
  <2>2. IsFiniteSet(Held)
    BY JobsAssumption, FS_Subset DEF Held
  <2>3. Cardinality(running) <= Cardinality(Held) /\ Cardinality(running) \in Nat /\ Cardinality(Held) \in Nat
    BY <2>1, <2>2, FS_Subset, FS_CardinalityType
  <2> QED
    BY <1>1, <2>1, <2>3, LimitsAssumption DEF IInv, LimitOK, RunningWithinLimits
<1> QED
  BY <1>1, InvariantHolds, PTL

\* A finished job never changes again, except that it is pruned, and its slot is not taken again
\* (finish, deleteFinished, requestCancellation).
THEOREM TerminalIsFinalHolds == Spec => TerminalIsFinal
<1>1. ASSUME IInv, [Next]_vars
      PROVE  \A j \in Jobs : job[j].state \in Terminal /\ ~job[j].slot
                => job'[j] = job[j] \/ job'[j].state = "pruned"
  BY <1>1, FinalStep DEF Settled
<1> QED
  BY <1>1, InvariantHolds, PTL DEF Spec, TerminalIsFinal

=============================================================================

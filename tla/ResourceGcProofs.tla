-------------------------- MODULE ResourceGcProofs --------------------------
(***************************************************************************)
(* Proofs about `wtm gc --apply`: for any number of runs, owners of        *)
(* references, kills, expiries and interferences of the user.              *)
(***************************************************************************)
EXTENDS ResourceGc, FiniteSetTheorems, TLAPS

PhaseNames == {"none"} \cup {Phases[i] : i \in 1..7}

\* Between the acquisition of the cleanup lease and the end of the operation.
Holding == {"prepare-absent", "absent", "prepare", "container", "note", "prefix", "move",
            "linked", "unlinking", "unlink", "links", "unlink-now", "quarantined", "delete",
            "erase", "deleted", "finalize", "rmdir"}

Pcs == {"idle", "next", "tidy", "validate", "acquire", "ended", "crashed"} \cup Holding

Outcomes == {"none", "done", "contended", "failed"}

Locals == [pc : Pcs, todo : SUBSET Runs, book : [Runs -> Entry], op : Runs \cup {NoRun},
           seen : {"none", "STALE", "ORPHANED", "QUARANTINED"}, phase : PhaseNames,
           container : Nat, pin : {Nothing, Object, Twin}, known : SUBSET Objects,
           met : BOOLEAN, outcome : Outcomes]

Works(p) == run[p].pc \in Holding

\* Where an operation goes on without more than its phase and its container to remember.
Steps == Holding \ {"prepare-absent", "absent", "prepare", "unlink-now", "rmdir"}

\* The locals of a run agree with the place it has reached.
RunOK(p) ==
    /\ run[p] \in Locals
    /\ Works(p) \/ run[p].pc = "tidy" => run[p].op \in Runs
    /\ run[p].pc \in {"validate", "acquire", "prepare-absent", "prepare"} => run[p].op = p
    /\ run[p].pc \in {"validate", "acquire"} => run[p].seen # "none"

RunsOK == \A p \in Runs : RunOK(p)

\* The inode number of the object is reissued only when nothing names it and nobody holds it
\* open, and from then on nothing does again.
InodesOK ==
    /\ Object \in made
    /\ original \in made \cup {Nothing}
    /\ \A o \in Runs : quarantine[o] \in made \cup {Nothing}
    /\ \A p \in Runs : run[p].pin \in made \cup {Nothing}
    /\ Twin \in made => /\ original # Object
                        /\ \A o \in Runs : quarantine[o] # Object
                        /\ \A p \in Runs : run[p].pin # Object

\* What a run saw at the path when it looked last is what it may delete there, until the path
\* names something new.
KnownOK ==
    \A p \in Runs : run[p].pc = "unlink-now" =>
        /\ run[p].known \subseteq made
        /\ original \in run[p].known =>
             original # Stranger /\ (run[p].pin # Nothing => original = run[p].pin)

Reserved == row \in {"QUARANTINED", "REMOVED"}

\* The reservation outlives the lease it was made with: a run at work, or an object in a
\* container, still finds it, and a reserved row has no references.
ReservedOK ==
    /\ Reserved => refs = {}
    /\ \A p \in Runs : Works(p) => Reserved
    /\ \A p \in Runs : run[p].pc = "rmdir" => row = "REMOVED"
    /\ QuarantinedIsReserved

\* The one lease whose release gives the reservation up, because the row was not reserved
\* before it: nobody else works under it, and only its own object can have been moved.
LeaseOK ==
    /\ lease.run \in Runs => lease.op \in Runs /\ lease.previous # "none"
    /\ lease.previous \in {"STALE", "ORPHANED"} =>
         /\ lease.run \in Runs /\ lease.op = lease.run
         /\ Works(lease.run) => run[lease.run].op = lease.run
         /\ run[lease.run].pc \in {"prepare-absent", "absent"} => quarantine[lease.run] = Nothing
         /\ \A q \in Runs \ {lease.run} : ~Works(q) /\ quarantine[q] = Nothing

GcInv == TypeOK /\ RunsOK /\ InodesOK /\ KnownOK /\ ReservedOK /\ LeaseOK
          /\ ErasesWhatItChecked /\ tampers \in Nat

-----------------------------------------------------------------------------
\* Shapes.

\* The journal's phases, one by one.
LEMMA PhaseNamesAre ==
    PhaseNames = {"none", "prepared", "linked", "unlinking", "quarantined", "deleting",
                  "deleted", "finalized"}
<1>1. 1..7 = {1, 2, 3, 4, 5, 6, 7}
  OBVIOUS
<1> QED
  BY <1>1 DEF PhaseNames, Phases

\* What a run has before it starts, and after it ends, are locals.
LEMMA IdleType == Idle \in Locals /\ NoEntry \in Entry /\ NoEntry.container = 0
BY PhaseNamesAre DEF Idle, NoEntry, Locals, Entry, PhaseNames, Pcs, Outcomes, Nothing

LEMMA WorseType ==
    ASSUME NEW a \in Outcomes, NEW b \in Outcomes
    PROVE  Worse(a, b) \in Outcomes
BY DEF Worse, Outcomes

\* A step that changes the locals of one run.
LEMMA OneRun ==
    ASSUME RunsOK, DOMAIN run = Runs, NEW p \in Runs, NEW l \in Locals, run' = [run EXCEPT ![p] = l],
           l.pc \in Holding \cup {"tidy"} => l.op \in Runs,
           l.pc \in {"validate", "acquire", "prepare-absent", "prepare"} => l.op = p,
           l.pc \in {"validate", "acquire"} => l.seen # "none"
    PROVE  /\ RunsOK' /\ DOMAIN run' = Runs
           /\ run'[p] = l
           /\ \A q \in Runs \ {p} : run'[q] = run[q]
BY DEF RunsOK, RunOK, Works

\* An operation that is over leaves a run that works on nothing and holds nothing open.
LEMMA SettleShape ==
    ASSUME RunsOK, DOMAIN run = Runs, NEW p \in Runs, NEW o \in Outcomes, Settle(p, o)
    PROVE  /\ RunsOK' /\ DOMAIN run' = Runs
           /\ \A q \in Runs \ {p} : run'[q] = run[q]
           /\ run'[p].pc \in {"next", "ended"} /\ run'[p].pin = Nothing
<1> DEFINE worst == Worse(run[p].outcome, o)
           rest == [Idle EXCEPT !.todo = run[p].todo, !.book = run[p].book,
                                !.met = run[p].met, !.outcome = worst, !.pc = "next"]
           end == [Idle EXCEPT !.pc = "ended", !.met = run[p].met, !.outcome = worst]
<1>1. run[p] \in Locals
  BY DEF RunsOK, RunOK
<1>2. worst \in Outcomes
  BY <1>1, WorseType DEF Locals
<1>3. /\ Idle.pin = Nothing
      /\ "next" \in Pcs /\ "ended" \in Pcs
      /\ "next" \notin Holding /\ "ended" \notin Holding
  BY DEF Idle, Pcs, Holding
<1> HIDE DEF worst
<1>4. rest \in Locals /\ rest.pc = "next" /\ rest.pin = Nothing
  BY <1>1, <1>2, <1>3, IdleType DEF Locals
<1>5. end \in Locals /\ end.pc = "ended" /\ end.pin = Nothing
  BY <1>1, <1>2, <1>3, IdleType DEF Locals
<1>6. run' = [run EXCEPT ![p] = IF Recovering(p) THEN rest ELSE end]
  BY DEF Settle, worst
<1> HIDE DEF rest, end
<1> QED
  BY <1>3, <1>4, <1>5, <1>6, OneRun

\* Going on to another place of the operation.
LEMMA GotoShape ==
    ASSUME RunsOK, DOMAIN run = Runs, NEW p \in Runs, Works(p),
           NEW pc \in Holding \ {"prepare-absent", "prepare"},
           Goto(p, pc)
    PROVE  /\ RunsOK' /\ DOMAIN run' = Runs
           /\ \A q \in Runs \ {p} : run'[q] = run[q]
           /\ run'[p] = [run[p] EXCEPT !.pc = pc]
<1>1. run[p] \in Locals /\ run[p].op \in Runs
  BY DEF RunsOK, RunOK
<1>2. pc \in Pcs
  BY DEF Pcs
<1> DEFINE l == [run[p] EXCEPT !.pc = pc]
<1>3. l \in Locals /\ l.pc = pc /\ l.op = run[p].op
  BY <1>1, <1>2 DEF Locals
<1>4. run' = [run EXCEPT ![p] = l]
  BY DEF Goto
<1>5. pc \notin {"tidy", "validate", "acquire", "prepare-absent", "prepare"}
  BY DEF Holding
<1> HIDE DEF l
<1> QED
  BY <1>1, <1>3, <1>4, <1>5, OneRun DEF l

-----------------------------------------------------------------------------
\* What the pieces of an operation do to the row, the lease and the run.

\* A step after which run p works on with its operation, no earlier than it was.
GoesOn(p) ==
    /\ \A q \in Runs \ {p} : run'[q] = run[q]
    /\ Works(p)' => Works(p) /\ run'[p].op = run[p].op
    /\ run'[p].pc \in {"prepare-absent", "absent"} =>
           run[p].pc \in {"prepare-absent", "absent"}
    /\ run'[p].pc = "rmdir" => run[p].pc = "rmdir" \/ row' = "REMOVED"
    /\ run'[p].pc = "unlink-now" => run[p].pc = "links"
    /\ run'[p].pin \in {run[p].pin, Nothing}

\* A step after which run p is through with its operation.
Stops(p) ==
    /\ \A q \in Runs \ {p} : run'[q] = run[q]
    /\ run'[p].pc \in {"next", "ended"} /\ run'[p].pin = Nothing

-----------------------------------------------------------------------------
\* The reservation.

ReservationOK == ReservedOK /\ LeaseOK

\* The types of what the store keeps and of what the disk holds.
Leases == [run : Runs \cup {NoRun}, op : Runs \cup {NoRun},
           previous : {"none", "STALE", "ORPHANED", "QUARANTINED"}, live : BOOLEAN]

RowOK == row \in {"STALE", "ORPHANED", "QUARANTINED", "REMOVED"} /\ lease \in Leases

StoreOK == RowOK /\ refs \subseteq Owners /\ journal \in [Runs -> Entry]

DiskOK ==
    /\ original \in Objects \cup {Nothing}
    /\ quarantine \in [Runs -> Objects \cup {Nothing}]
    /\ container \in [Runs -> Nat]
    /\ emptied \cup made \subseteq Objects
    /\ object \in [kind : Kinds, undeletable : BOOLEAN]

LEMMA TypeParts == TypeOK <=> StoreOK /\ DiskOK /\ DOMAIN run = Runs
BY DEF TypeOK, StoreOK, DiskOK, RowOK, Leases

\* The lease is the one there was, expired or not, or it is gone.
LeaseLapses ==
    \/ lease' = NoLease
    \/ /\ lease'.run = lease.run /\ lease'.op = lease.op /\ lease'.previous = lease.previous

\* Short of a release, a step of a run that keeps the row, or that makes it terminal, keeps
\* the reservation; only a run at work moves something, and into its own container.
LEMMA WorkKeepsReservation ==
    ASSUME ReservationOK, NEW p \in Runs, GoesOn(p) \/ (Stops(p) /\ UNCHANGED quarantine),
           LeaseLapses, row' = row \/ (row' = "REMOVED" /\ refs' = {}),
           refs' \subseteq refs,
           \A o \in Runs : quarantine'[o] # Nothing =>
                \/ quarantine[o] # Nothing
                \/ Works(p) /\ o = run[p].op /\ run'[p].pc \notin {"prepare-absent", "absent"}
    PROVE  ReservationOK'
<1>1. \A q \in Runs : Works(q)' => Works(q) /\ run'[q].op = run[q].op
  BY DEF GoesOn, Stops, Works, Holding
<1>2. \A q \in Runs : run'[q].pc = "rmdir" => run[q].pc = "rmdir" \/ row' = "REMOVED"
  BY DEF GoesOn, Stops
<1>3. Reserved => Reserved'
  BY DEF Reserved
<1>4. ReservedOK'
  <2>1. (Reserved => refs = {})'
    BY DEF ReservationOK, ReservedOK, Reserved
  <2>2. (QuarantinedIsReserved)'
    BY <1>3 DEF ReservationOK, ReservedOK, QuarantinedIsReserved, Reserved
  <2>3. \A q \in Runs : Works(q)' => Reserved'
    BY <1>1, <1>3 DEF ReservationOK, ReservedOK
  <2>4. \A q \in Runs : run'[q].pc = "rmdir" => row' = "REMOVED"
    BY <1>2 DEF ReservationOK, ReservedOK
  <2> QED
    BY <2>1, <2>2, <2>3, <2>4 DEF ReservedOK
<1>5. CASE lease' = NoLease
  BY <1>4, <1>5, RunsAssumption DEF ReservationOK, LeaseOK, NoLease
<1>6. CASE lease'.run = lease.run /\ lease'.op = lease.op /\ lease'.previous = lease.previous
  <2>1. lease'.run \in Runs => lease'.op \in Runs /\ lease'.previous # "none"
    BY <1>6 DEF ReservationOK, LeaseOK
  <2>2. ASSUME lease'.previous \in {"STALE", "ORPHANED"}
        PROVE  /\ lease'.run \in Runs /\ lease'.op = lease'.run
               /\ run'[lease'.run].pc \in Holding => run'[lease'.run].op = lease'.run
               /\ run'[lease'.run].pc \in {"prepare-absent", "absent"} =>
                      quarantine'[lease'.run] = Nothing
               /\ \A q \in Runs \ {lease'.run} :
                      run'[q].pc \notin Holding /\ quarantine'[q] = Nothing
    <3>1. PICK h \in Runs : h = lease.run /\ lease.op = h
      BY <1>6, <2>2 DEF ReservationOK, LeaseOK
    <3>2. /\ Works(h) => run[h].op = h
          /\ run[h].pc \in {"prepare-absent", "absent"} => quarantine[h] = Nothing
          /\ \A q \in Runs \ {h} : ~Works(q) /\ quarantine[q] = Nothing
      BY <1>6, <2>2, <3>1 DEF ReservationOK, LeaseOK
    <3>3. Works(h)' => run'[h].op = h
      BY <1>1, <3>2
    <3>4. \A q \in Runs \ {h} : run'[q].pc \notin Holding /\ quarantine'[q] = Nothing
      BY <1>1, <3>2 DEF Works
    <3>5. run'[h].pc \in {"prepare-absent", "absent"} =>
              run[h].pc \in {"prepare-absent", "absent"}
      BY DEF GoesOn, Stops
    <3>6. run'[h].pc \in {"prepare-absent", "absent"} => quarantine'[h] = Nothing
      BY <3>2, <3>5
    <3> QED
      BY <1>6, <3>1, <3>3, <3>4, <3>6 DEF Works
  <2> QED
    BY <1>4, <1>6, <2>1, <2>2 DEF ReservationOK, LeaseOK, Works
<1> QED
  BY <1>5, <1>6 DEF LeaseLapses

\* A release gives a reservation up only if it was this lease that made it, and then nothing
\* is left in a container and nobody works on.
LEMMA ReleaseKeepsReservation ==
    ASSUME ReservationOK, StoreOK, RunsOK, NEW p \in Runs, Works(p), Stops(p),
           NEW preserve \in BOOLEAN, Release(p, preserve), UNCHANGED refs,
           \A o \in Runs : quarantine'[o] # Nothing => quarantine[o] # Nothing \/ o = run[p].op,
           ~preserve /\ MyLease(p) /\ lease.previous \in {"STALE", "ORPHANED"} =>
               quarantine'[run[p].op] = Nothing \/ row = "REMOVED"
    PROVE  ReservationOK'
<1>1. Reserved /\ refs = {} /\ run[p].op \in Runs
  BY DEF ReservationOK, ReservedOK, RunsOK, RunOK
<1>2. \A q \in Runs : Works(q)' => Works(q) /\ run'[q] = run[q] /\ q # p
  BY DEF Stops, Works, Holding
<1>3. \A q \in Runs : run'[q].pc = "rmdir" => run[q].pc = "rmdir"
  BY DEF Stops
<1>4. row' = row \/ (row = "QUARANTINED" /\ row' = lease.previous /\ MyLease(p) /\ ~preserve)
  BY DEF Release
<1>5. CASE Reserved'
  <2>1. ReservedOK'
    <3>1. \A q \in Runs : run'[q].pc = "rmdir" => row' = "REMOVED"
      BY <1>3, <1>4 DEF ReservationOK, ReservedOK
    <3>2. QuarantinedIsReserved'
      BY <1>5 DEF Reserved, QuarantinedIsReserved
    <3> QED
      BY <1>1, <1>5, <3>1, <3>2 DEF ReservedOK, Reserved
  <2>2. CASE MyLease(p)
    BY <2>1, <2>2, RunsAssumption DEF ReservationOK, LeaseOK, NoLease, Release
  <2>3. CASE ~MyLease(p)
    <3>1. lease' = lease
      BY <2>3 DEF Release
    <3>2. lease.previous \notin {"STALE", "ORPHANED"}
      BY <2>3 DEF MyLease, ReservationOK, LeaseOK
    <3> QED
      BY <2>1, <3>1, <3>2 DEF ReservationOK, LeaseOK
  <2> QED
    BY <2>2, <2>3
<1>6. CASE ~Reserved'
  <2>1. /\ MyLease(p) /\ ~preserve /\ row' = lease.previous /\ row = "QUARANTINED"
        /\ lease.previous # "QUARANTINED"
    BY <1>1, <1>4, <1>6 DEF Reserved
  <2>2. lease.previous \in {"STALE", "ORPHANED"} /\ lease.run = p /\ lease.op = p
        /\ run[p].op = p
    BY <1>1, <2>1 DEF MyLease, ReservationOK, LeaseOK, StoreOK, RowOK, Leases
  <2>3. \A q \in Runs : ~Works(q)' /\ quarantine'[q] = Nothing
    BY <1>2, <2>1, <2>2 DEF ReservationOK, LeaseOK
  <2>4. lease' = NoLease
    BY <2>1 DEF Release
  <2>5. \A q \in Runs : run'[q].pc # "rmdir"
    BY <2>3 DEF Works, Holding
  <2> QED
    BY <1>6, <2>3, <2>4, <2>5, RunsAssumption
       DEF ReservationOK, ReservedOK, LeaseOK, NoLease, QuarantinedIsReserved, Reserved
<1> QED
  BY <1>5, <1>6

\* An acquisition reserves the row of an unreferenced object that nobody works on; if it was
\* reserved already, the lease will not give that up.
LEMMA AcquireKeepsReservation ==
    ASSUME ReservationOK, NEW p \in Runs, NEW op \in Runs,
           NEW state \in {"STALE", "ORPHANED", "QUARANTINED"},
           Acquire(p, op, state), Eligible(state),
           \A q \in Runs \ {p} : run'[q] = run[q],
           run'[p].pc # "rmdir", Works(p)' => run'[p].op = op,
           state # "QUARANTINED" => op = p,
           UNCHANGED <<refs, quarantine>>
    PROVE  ReservationOK'
<1>1. /\ row = state /\ row' = "QUARANTINED" /\ refs' = {}
      /\ lease' = [run |-> p, op |-> op, previous |-> state, live |-> TRUE]
  BY DEF Acquire, Eligible
<1>2. row # "REMOVED" => \A q \in Runs : run[q].pc # "rmdir"
  BY DEF ReservationOK, ReservedOK
<1>3. ReservedOK'
  <2>1. \A q \in Runs : run'[q].pc # "rmdir"
    BY <1>1, <1>2
  <2> QED
    BY <1>1, <2>1 DEF ReservedOK, Reserved, QuarantinedIsReserved
<1>4. CASE state = "QUARANTINED"
  BY <1>1, <1>3, <1>4 DEF ReservationOK, LeaseOK
<1>5. CASE state # "QUARANTINED"
  <2>1. \A q \in Runs : ~Works(q) /\ quarantine[q] = Nothing
    BY <1>1, <1>5 DEF ReservationOK, ReservedOK, Reserved, QuarantinedIsReserved
  <2> QED
    BY <1>1, <1>3, <1>5, <2>1 DEF ReservationOK, LeaseOK, Works
<1> QED
  BY <1>4, <1>5

-----------------------------------------------------------------------------
\* The pieces of an operation.

\* What a step of run p leaves behind in the locals, the row and the lease.
StepOK(p) ==
    /\ RunsOK' /\ DOMAIN run' = Runs
    /\ RowOK'
    /\ GoesOn(p) \/ Stops(p)
    /\ ReservationOK'

\* Only run p's own container gains an object.
MovesOwn(p) ==
    \A o \in Runs : quarantine'[o] # Nothing => quarantine[o] # Nothing \/ o = run[p].op

LEMMA ReleaseType ==
    ASSUME RowOK, LeaseOK, NEW p \in Runs, NEW preserve, Release(p, preserve)
    PROVE  RowOK'
<1>1. MyLease(p) => lease.previous # "none"
  BY DEF MyLease, LeaseOK
<1>2. NoLease \in Leases
  BY DEF NoLease, Leases
<1>3. lease.previous \in {"none", "STALE", "ORPHANED", "QUARANTINED"}
  BY DEF RowOK, Leases
<1> QED
  BY <1>1, <1>2, <1>3 DEF Release, RowOK

LEMMA LapseType ==
    ASSUME RowOK, row' \in {row, "REMOVED"}, lease' \in {lease, NoLease}
    PROVE  RowOK' /\ LeaseLapses
<1>1. NoLease \in Leases
  BY DEF NoLease, Leases
<1> QED
  BY <1>1 DEF RowOK, LeaseLapses

LEMMA AcquireType ==
    ASSUME NEW p \in Runs, NEW op \in Runs, NEW state \in {"STALE", "ORPHANED", "QUARANTINED"},
           Acquire(p, op, state), Eligible(state)
    PROVE  RowOK'
<1>1. lease' = [run |-> p, op |-> op, previous |-> state, live |-> TRUE] /\ row' = "QUARANTINED"
  BY DEF Acquire
<1>2. [run |-> p, op |-> op, previous |-> state, live |-> TRUE] \in Leases
  BY DEF Leases
<1> QED
  BY <1>1, <1>2 DEF RowOK

\* A refusal.
LEMMA FailsShape ==
    ASSUME StoreOK, RunsOK, ReservationOK, DOMAIN run = Runs, NEW p \in Runs, Works(p),
           Fails(p), UNCHANGED refs, MovesOwn(p)
    PROVE  StepOK(p)
<1>1. PICK preserve \in BOOLEAN :
         Release(p, preserve) /\ (~preserve => quarantine'[run[p].op] = Nothing)
  BY DEF Fails
<1>2. Settle(p, "failed") /\ "failed" \in Outcomes
  BY DEF Fails, Outcomes
<1>3. RunsOK' /\ DOMAIN run' = Runs /\ Stops(p)
  BY <1>2, SettleShape DEF Stops
<1>4. ReservationOK'
  BY <1>1, <1>3, ReleaseKeepsReservation DEF MovesOwn
<1>5. RowOK'
  BY <1>1, ReleaseType DEF StoreOK, ReservationOK
<1> QED
  BY <1>3, <1>4, <1>5 DEF StepOK

\* Going on, with row and lease as they were.
LEMMA GoesOnShape ==
    ASSUME StoreOK, RunsOK, ReservationOK, DOMAIN run = Runs, NEW p \in Runs, Works(p),
           NEW pc \in Steps \cup {"unlink-now"}, pc = "unlink-now" => run[p].pc = "links",
           NEW l \in Locals, run' = [run EXCEPT ![p] = l], l.pc = pc, l.op = run[p].op,
           l.pin = run[p].pin, UNCHANGED <<row, lease, refs>>, MovesOwn(p)
    PROVE  StepOK(p)
<1>1. run[p].op \in Runs
  BY DEF RunsOK, RunOK
<1>2. pc \notin {"tidy", "validate", "acquire", "prepare-absent", "prepare"}
  BY DEF Steps, Holding
<1>3. RunsOK' /\ DOMAIN run' = Runs /\ run'[p] = l /\ \A q \in Runs \ {p} : run'[q] = run[q]
  BY <1>1, <1>2, OneRun
<1>4. GoesOn(p)
  BY <1>3 DEF GoesOn, Steps
<1>5. ReservationOK'
  BY <1>3, <1>4, WorkKeepsReservation DEF MovesOwn, LeaseLapses, Steps
<1> QED
  BY <1>3, <1>4, <1>5 DEF StepOK, StoreOK, RowOK

LEMMA GotoOn ==
    ASSUME StoreOK, RunsOK, ReservationOK, DOMAIN run = Runs, NEW p \in Runs, Works(p),
           NEW pc \in Steps,
           Goto(p, pc), UNCHANGED <<row, lease, refs>>, MovesOwn(p)
    PROVE  StepOK(p)
<1> DEFINE l == [run[p] EXCEPT !.pc = pc]
<1>1. run[p] \in Locals
  BY DEF RunsOK, RunOK
<1>2. l \in Locals /\ l.pc = pc /\ l.op = run[p].op /\ l.pin = run[p].pin
  BY <1>1 DEF Locals, Pcs, Steps
<1>3. run' = [run EXCEPT ![p] = l]
  BY DEF Goto
<1> HIDE DEF l
<1> QED
  BY <1>2, <1>3, GoesOnShape DEF Steps

\* Recording a phase, or being refused by the store.
LEMMA RecordsShape ==
    ASSUME StoreOK, RunsOK, ReservationOK, DOMAIN run = Runs, NEW p \in Runs, Works(p),
           NEW ph \in PhaseNames,
           NEW pc \in Steps,
           Records(p, ph, pc), UNCHANGED <<refs, quarantine>>
    PROVE  StepOK(p) /\ journal' \in [Runs -> Entry]
<1>0. MovesOwn(p)
  BY DEF MovesOwn
<1>1. run[p] \in Locals /\ run[p].op \in Runs
  BY DEF RunsOK, RunOK
<1>2. CASE Fails(p) /\ UNCHANGED journal
  BY <1>0, <1>2, FailsShape DEF StoreOK
<1>3. CASE /\ journal' = [journal EXCEPT ![run[p].op] = [phase |-> ph, absent |-> FALSE,
                                                   container |-> run[p].container]]
           /\ run' = [run EXCEPT ![p].pc = pc, ![p].phase = ph]
           /\ UNCHANGED <<row, lease>>
  <2> DEFINE l == [run[p] EXCEPT !.pc = pc, !.phase = ph]
  <2>1. l \in Locals /\ l.pc = pc /\ l.op = run[p].op /\ l.pin = run[p].pin
    BY <1>1 DEF Locals, Pcs, Steps
  <2>2. run' = [run EXCEPT ![p] = l]
    BY <1>3
  <2> HIDE DEF l
  <2>3. StepOK(p)
    BY <1>0, <1>3, <2>1, <2>2, GoesOnShape DEF Steps
  <2>4. [phase |-> ph, absent |-> FALSE, container |-> run[p].container] \in Entry
    BY <1>1 DEF Entry, Locals, PhaseNames
  <2> QED
    BY <1>3, <2>3, <2>4 DEF StoreOK
<1> QED
  BY <1>2, <1>3 DEF Records

\* The row becomes terminal.
LEMMA FinalizeType ==
    ASSUME StoreOK, NEW p \in Runs, NEW op \in Runs, Finalize(p, op)
    PROVE  RowOK' /\ LeaseLapses /\ journal' \in [Runs -> Entry] /\ row' = "REMOVED"
<1>1. [journal[op] EXCEPT !.phase = "finalized"] \in Entry
  BY PhaseNamesAre DEF StoreOK, Entry, PhaseNames
<1>2. journal' = [journal EXCEPT ![op] = [journal[op] EXCEPT !.phase = "finalized"]]
  BY DEF Finalize
<1>3. row' = "REMOVED" /\ lease' \in {lease, NoLease}
  BY DEF Finalize
<1> QED
  BY <1>1, <1>2, <1>3, LapseType DEF StoreOK

-----------------------------------------------------------------------------
\* Each action of a run at work.

LEMMA WorkStep ==
    ASSUME StoreOK, DiskOK, RunsOK, ReservationOK, DOMAIN run = Runs, NEW p \in Runs,
           \/ PrepareAbsent(p) \/ FinalizeAbsent(p)
           \/ Prepare(p) \/ MakeContainer(p) \/ NoteContainer(p) \/ ResumePrefix(p) \/ Move(p)
           \/ RecordLinked(p) \/ RecordUnlinking(p) \/ RenewForUnlink(p) \/ CheckLinks(p)
           \/ UnlinkOriginal(p) \/ RecordQuarantined(p)
           \/ RecordDeleting(p) \/ Erase(p) \/ RecordDeleted(p) \/ FinalizeDeleted(p)
           \/ RemoveContainer(p)
    PROVE  StepOK(p) /\ StoreOK'
<1>1. run[p] \in Locals
  BY DEF RunsOK, RunOK
<1>2. Works(p) => Reserved /\ refs = {} /\ run[p].op \in Runs
  BY DEF ReservationOK, ReservedOK, RunsOK, RunOK
<1>3. UNCHANGED quarantine => MovesOwn(p)
  BY DEF MovesOwn
<1>4. StepOK(p) /\ refs' = refs /\ journal' \in [Runs -> Entry] => StoreOK'
  BY DEF StepOK, StoreOK
<1>5. UNCHANGED journal => journal' \in [Runs -> Entry]
  BY DEF StoreOK
<1>6. CASE PrepareAbsent(p)
  <2>1. run[p].pc = "prepare-absent" /\ run[p].op = p
    BY <1>6 DEF PrepareAbsent, RunsOK, RunOK
  <2> DEFINE l == [run[p] EXCEPT !.pc = "absent", !.phase = "prepared"]
  <2>2. l \in Locals /\ l.pc = "absent" /\ l.op = p /\ l.pin = run[p].pin
    BY <1>1, <2>1, PhaseNamesAre DEF Locals, Pcs, Holding
  <2>3. run' = [run EXCEPT ![p] = l] /\ UNCHANGED <<row, lease, refs, quarantine>>
    BY <1>6 DEF PrepareAbsent, disk
  <2>4. [phase |-> "prepared", absent |-> TRUE, container |-> 0] \in Entry
    BY PhaseNamesAre DEF Entry, PhaseNames
  <2>5. journal' \in [Runs -> Entry]
    BY <1>6, <2>4 DEF PrepareAbsent, StoreOK
  <2> HIDE DEF l
  <2>6. RunsOK' /\ DOMAIN run' = Runs /\ run'[p] = l /\ \A q \in Runs \ {p} : run'[q] = run[q]
    BY <2>2, <2>3, OneRun
  <2>7. Works(p)
    BY <2>1 DEF Works, Holding
  <2>8. GoesOn(p)
    BY <2>1, <2>2, <2>6, <2>7 DEF GoesOn
  <2>9. ReservationOK'
    BY <2>3, <2>8, WorkKeepsReservation DEF LeaseLapses
  <2> QED
    BY <1>4, <2>3, <2>5, <2>6, <2>8, <2>9 DEF StepOK, StoreOK, RowOK
<1>7. CASE FinalizeAbsent(p)
  <2>1. /\ run[p].pc = "absent" /\ UNCHANGED <<refs, quarantine>>
        /\ \/ /\ Finalizable(p, run[p].op, [absent |-> TRUE, container |-> 0])
              /\ Finalize(p, run[p].op) /\ Settle(p, "done")
           \/ Release(p, FALSE) /\ Settle(p, "failed") /\ UNCHANGED journal
    BY <1>7 DEF FinalizeAbsent, disk
  <2>2. Works(p)
    BY <2>1 DEF Works, Holding
  <2>3. RunsOK' /\ DOMAIN run' = Runs /\ Stops(p)
    BY <2>1, SettleShape DEF Stops, Outcomes
  <2>4. CASE Finalize(p, run[p].op)
    <3>1. RowOK' /\ LeaseLapses /\ journal' \in [Runs -> Entry] /\ row' = "REMOVED"
      BY <1>2, <2>2, <2>4, FinalizeType
    <3>2. ReservationOK'
      BY <1>2, <2>1, <2>2, <2>3, <3>1, WorkKeepsReservation
    <3> QED
      BY <1>4, <2>1, <2>3, <3>1, <3>2 DEF StepOK
  <2>5. CASE Release(p, FALSE) /\ UNCHANGED journal
    <3>1. lease.previous \in {"STALE", "ORPHANED"} /\ MyLease(p) => quarantine[run[p].op] = Nothing
      BY <2>1 DEF MyLease, ReservationOK, LeaseOK
    <3>2. ReservationOK'
      BY <2>1, <2>2, <2>3, <2>5, <3>1, ReleaseKeepsReservation
    <3>3. RowOK'
      BY <2>5, ReleaseType DEF StoreOK, ReservationOK
    <3> QED
      BY <1>4, <1>5, <2>1, <2>3, <2>5, <3>2, <3>3 DEF StepOK
  <2> QED
    BY <2>1, <2>4, <2>5
<1>8. CASE Prepare(p) \/ NoteContainer(p) \/ RecordLinked(p) \/ RecordUnlinking(p) \/ RecordDeleted(p)
  <2>1. /\ UNCHANGED <<refs, quarantine>> /\ Works(p)
        /\ \E ph \in PhaseNames, pc \in Steps :
              Records(p, ph, pc)
    <3>1. "container" \in Holding /\ "prefix" \in Holding /\ "unlinking" \in Holding
          /\ "unlink" \in Holding /\ "finalize" \in Holding /\ "prepare" \in Holding
          /\ "note" \in Holding /\ "linked" \in Holding /\ "deleted" \in Holding
          /\ {"container", "prefix", "unlinking", "unlink", "finalize"} \subseteq Steps
      BY DEF Steps, Holding
    <3>2. run[p].phase \in PhaseNames
      BY <1>1 DEF Locals
    <3>3. CASE Prepare(p)
      BY <3>1, <3>3, PhaseNamesAre DEF Prepare, Works, disk
    <3>4. CASE NoteContainer(p)
      BY <3>1, <3>2, <3>4 DEF NoteContainer, Works, disk
    <3>5. CASE RecordLinked(p)
      BY <3>1, <3>5, PhaseNamesAre DEF RecordLinked, Works, disk
    <3>6. CASE RecordUnlinking(p)
      BY <3>1, <3>6, PhaseNamesAre DEF RecordUnlinking, Works, disk
    <3>7. CASE RecordDeleted(p)
      BY <3>1, <3>7, PhaseNamesAre DEF RecordDeleted, Works, disk
    <3> QED
      BY <1>8, <3>3, <3>4, <3>5, <3>6, <3>7
  <2> QED
    BY <1>4, <2>1, RecordsShape
<1>9. CASE MakeContainer(p)
  <2>1. /\ run[p].pc = "container" /\ UNCHANGED <<refs, quarantine, journal>>
        /\ \/ Fails(p)
           \/ /\ UNCHANGED <<row, lease>>
              /\ \E found \in Nat, next \in {"note", "prefix", "delete", "finalize"} :
                   run' = [run EXCEPT ![p].pc = next, ![p].container = found]
    <3> DEFINE op == run[p].op
               known == run[p].container
               gone == run[p].phase = "deleted" /\ known # 0
                         /\ quarantine[op] = Nothing /\ original = Nothing
               makes == container[op] = 0 /\ ~gone
               found == IF makes THEN known + 1 ELSE IF gone THEN known ELSE container[op]
               next == IF known = 0 THEN "note"
                       ELSE CASE run[p].phase \in {"prepared", "linked", "unlinking"} -> "prefix"
                              [] run[p].phase \in {"quarantined", "deleting"} -> "delete"
                              [] OTHER -> "finalize"
    <3>1. run[p].pc = "container" /\ UNCHANGED <<refs, quarantine, journal>>
      BY <1>9 DEF MakeContainer
    <3>2. run[p].op \in Runs
      BY <1>2, <3>1 DEF Works, Holding
    <3>3. known \in Nat /\ container[op] \in Nat
      BY <1>1, <3>2 DEF Locals, DiskOK
    <3>4. found \in Nat
      BY <3>3
    <3>5. next \in {"note", "prefix", "delete", "finalize"}
      OBVIOUS
    <3>6. \/ Fails(p)
          \/ run' = [run EXCEPT ![p].pc = next, ![p].container = found] /\ UNCHANGED <<row, lease>>
      BY <1>9 DEF MakeContainer
    <3> HIDE DEF found, next
    <3> QED
      BY <3>1, <3>4, <3>5, <3>6
  <2>2. Works(p)
    BY <2>1 DEF Works, Holding
  <2>3. CASE Fails(p)
    BY <1>3, <1>4, <1>5, <2>1, <2>2, <2>3, FailsShape
  <2>4. ASSUME NEW found \in Nat, NEW next \in {"note", "prefix", "delete", "finalize"},
               UNCHANGED <<row, lease>>,
               run' = [run EXCEPT ![p].pc = next, ![p].container = found]
        PROVE  StepOK(p) /\ StoreOK'
    <3> DEFINE l == [run[p] EXCEPT !.pc = next, !.container = found]
    <3>1. next \in Steps /\ next # "unlink-now"
      BY DEF Steps, Holding
    <3>2. l \in Locals /\ l.pc = next /\ l.op = run[p].op /\ l.pin = run[p].pin
      BY <1>1, <3>1 DEF Locals, Pcs, Steps
    <3>3. run' = [run EXCEPT ![p] = l]
      BY <2>4
    <3> HIDE DEF l
    <3> QED
      BY <1>3, <1>4, <1>5, <2>1, <2>2, <2>4, <3>1, <3>2, <3>3, GoesOnShape
  <2> QED
    BY <2>1, <2>3, <2>4
<1>10. CASE \/ ResumePrefix(p) \/ RenewForUnlink(p)
  <2>1. /\ UNCHANGED <<refs, quarantine, journal>> /\ run[p].pc \in {"prefix", "unlink"}
        /\ \/ Fails(p)
           \/ /\ UNCHANGED <<row, lease>>
              /\ \E next \in {"move", "unlinking", "unlink", "links", "linked",
                                 "quarantined"} : Goto(p, next)
    <3>1. CASE ResumePrefix(p)
      <4>1. UNCHANGED <<refs, quarantine, journal>> /\ run[p].pc = "prefix"
        BY <3>1 DEF ResumePrefix, disk
      <4>2. \/ Fails(p)
            \/ /\ UNCHANGED <<row, lease>>
               /\ \E next \in {"move", "unlinking", "unlink", "links", "linked",
                                 "quarantined"} : Goto(p, next)
        BY <3>1 DEF ResumePrefix
      <4> QED
        BY <4>1, <4>2
    <3>2. CASE RenewForUnlink(p)
      <4>1. UNCHANGED <<refs, quarantine, journal>> /\ run[p].pc = "unlink"
        BY <3>2 DEF RenewForUnlink, disk
      <4>2. \/ Fails(p)
            \/ /\ UNCHANGED <<row, lease>>
               /\ \E next \in {"move", "unlinking", "unlink", "links", "linked",
                                 "quarantined"} : Goto(p, next)
        BY <3>2 DEF RenewForUnlink
      <4> QED
        BY <4>1, <4>2
    <3> QED
      BY <1>10, <3>1, <3>2
  <2>2. Works(p)
    BY <2>1 DEF Works, Holding
  <2>3. CASE Fails(p)
    BY <1>3, <1>4, <1>5, <2>1, <2>2, <2>3, FailsShape
  <2>4. ASSUME UNCHANGED <<row, lease>>,
               NEW next \in {"move", "unlinking", "unlink", "links", "linked",
                                 "quarantined"}, Goto(p, next)
        PROVE  StepOK(p) /\ StoreOK'
    <3>1. next \in Steps
      BY DEF Steps, Holding
    <3> QED
      BY <1>3, <1>4, <1>5, <2>1, <2>2, <2>4, <3>1, GotoOn
  <2> QED
    BY <2>1, <2>3, <2>4
<1>11. CASE Move(p)
  <2>1. /\ UNCHANGED <<refs, journal>> /\ run[p].pc = "move"
        /\ \/ Fails(p)
           \/ /\ UNCHANGED <<row, lease>>
              /\ \E next \in {"linked", "quarantined"} : Goto(p, next)
    BY <1>11 DEF Move
  <2>2. quarantine' = quarantine \/ quarantine' = [quarantine EXCEPT ![run[p].op] = original]
    BY <1>11 DEF Move
  <2>3. MovesOwn(p)
    BY <2>2 DEF MovesOwn, DiskOK
  <2>4. Works(p)
    BY <2>1 DEF Works, Holding
  <2>5. CASE Fails(p)
    BY <1>4, <1>5, <2>1, <2>3, <2>4, <2>5, FailsShape
  <2>6. ASSUME UNCHANGED <<row, lease>>,
               NEW next \in {"linked", "quarantined"}, Goto(p, next)
        PROVE  StepOK(p) /\ StoreOK'
    <3>1. next \in Steps
      BY DEF Steps, Holding
    <3> QED
      BY <1>4, <1>5, <2>1, <2>3, <2>4, <2>6, <3>1, GotoOn
  <2> QED
    BY <2>1, <2>5, <2>6
<1>12. CASE RecordQuarantined(p) \/ RecordDeleting(p)
  <2>1. /\ UNCHANGED <<refs, quarantine>> /\ run[p].pc \in {"quarantined", "delete"}
        /\ \/ Fails(p) /\ UNCHANGED journal
           \/ Goto(p, "deleted") /\ UNCHANGED <<row, lease, journal>>
           \/ Records(p, "quarantined", "delete")
           \/ Records(p, "deleting", "erase")
    <3>1. CASE RecordQuarantined(p)
      BY <3>1 DEF RecordQuarantined, disk
    <3>2. CASE RecordDeleting(p)
      <4>1. UNCHANGED <<refs, quarantine>> /\ run[p].pc = "delete"
        BY <3>2 DEF RecordDeleting, disk
      <4>2. \/ Fails(p) /\ UNCHANGED journal
            \/ Goto(p, "deleted") /\ UNCHANGED <<row, lease, journal>>
            \/ Records(p, "deleting", "erase")
        BY <3>2 DEF RecordDeleting
      <4> QED
        BY <4>1, <4>2
    <3> QED
      BY <1>12, <3>1, <3>2
  <2>2. Works(p)
    BY <2>1 DEF Works, Holding
  <2>3. {"deleted", "delete", "erase"} \subseteq Steps
    BY DEF Steps, Holding
  <2>4. CASE Fails(p) /\ UNCHANGED journal
    BY <1>3, <1>4, <1>5, <2>1, <2>2, <2>4, FailsShape
  <2>5. CASE Goto(p, "deleted") /\ UNCHANGED <<row, lease, journal>>
    BY <1>3, <1>4, <1>5, <2>1, <2>2, <2>3, <2>5, GotoOn
  <2>6. CASE Records(p, "quarantined", "delete") \/ Records(p, "deleting", "erase")
    BY <1>4, <2>1, <2>2, <2>3, <2>6, PhaseNamesAre, RecordsShape
  <2> QED
    BY <2>1, <2>4, <2>5, <2>6
<1>13. CASE Erase(p)
  <2>1. /\ UNCHANGED <<refs, journal>> /\ run[p].pc = "erase"
        /\ \/ Fails(p) /\ UNCHANGED quarantine
           \/ UNCHANGED <<row, lease, quarantine, run>>
           \/ /\ Goto(p, "deleted") /\ UNCHANGED <<row, lease>>
              /\ quarantine' = [quarantine EXCEPT ![run[p].op] = Nothing]
    BY <1>13 DEF Erase
  <2>2. MovesOwn(p)
    BY <2>1 DEF MovesOwn, DiskOK
  <2>3. Works(p) /\ "deleted" \in Steps
    BY <2>1 DEF Works, Steps, Holding
  <2>4. CASE Fails(p)
    BY <1>4, <1>5, <2>1, <2>2, <2>3, <2>4, FailsShape
  <2>5. CASE UNCHANGED <<row, lease, quarantine, run>>
    <3>1. GoesOn(p)
      BY <2>1, <2>3, <2>5 DEF GoesOn
    <3>2. ReservationOK'
      BY <2>1, <2>5, <3>1, WorkKeepsReservation DEF LeaseLapses
    <3>3. RunsOK' /\ RowOK'
      BY <2>5 DEF RunsOK, RunOK, Works, StoreOK, RowOK
    <3> QED
      BY <1>4, <1>5, <2>1, <2>5, <3>1, <3>2, <3>3 DEF StepOK
  <2>6. CASE Goto(p, "deleted") /\ UNCHANGED <<row, lease>>
    BY <1>4, <1>5, <2>1, <2>2, <2>3, <2>6, GotoOn
  <2> QED
    BY <2>1, <2>4, <2>5, <2>6
<1>14. CASE FinalizeDeleted(p)
  <2>1. /\ UNCHANGED <<refs, quarantine>> /\ run[p].pc = "finalize"
        /\ \/ Fails(p) /\ UNCHANGED journal
           \/ /\ Finalize(p, run[p].op)
              /\ run' = [run EXCEPT ![p].pc = "rmdir", ![p].phase = "finalized"]
    BY <1>14 DEF FinalizeDeleted
  <2>2. Works(p)
    BY <2>1 DEF Works, Holding
  <2>3. CASE Fails(p) /\ UNCHANGED journal
    BY <1>3, <1>4, <1>5, <2>1, <2>2, <2>3, FailsShape
  <2>4. CASE /\ Finalize(p, run[p].op)
             /\ run' = [run EXCEPT ![p].pc = "rmdir", ![p].phase = "finalized"]
    <3> DEFINE l == [run[p] EXCEPT !.pc = "rmdir", !.phase = "finalized"]
    <3>0. "rmdir" \in Pcs /\ "finalized" \in PhaseNames
      BY PhaseNamesAre DEF Pcs, Holding
    <3>1. l \in Locals /\ l.pc = "rmdir" /\ l.op = run[p].op /\ l.pin = run[p].pin
      BY <1>1, <3>0 DEF Locals
    <3>2. run' = [run EXCEPT ![p] = l]
      BY <2>4
    <3> HIDE DEF l
    <3>3. RunsOK' /\ DOMAIN run' = Runs /\ run'[p] = l /\ \A q \in Runs \ {p} : run'[q] = run[q]
      BY <1>2, <2>2, <3>1, <3>2, OneRun
    <3>4. RowOK' /\ LeaseLapses /\ journal' \in [Runs -> Entry] /\ row' = "REMOVED"
      BY <1>2, <2>2, <2>4, FinalizeType
    <3>5. GoesOn(p)
      BY <2>2, <3>1, <3>3, <3>4 DEF GoesOn
    <3>6. ReservationOK'
      BY <1>2, <2>1, <2>2, <3>4, <3>5, WorkKeepsReservation
    <3> QED
      BY <1>4, <2>1, <3>3, <3>4, <3>5, <3>6 DEF StepOK
  <2> QED
    BY <2>1, <2>3, <2>4
<1>15. CASE RemoveContainer(p)
  <2>1. /\ UNCHANGED <<refs, quarantine, journal>> /\ run[p].pc = "rmdir"
        /\ \/ Fails(p)
           \/ Release(p, FALSE) /\ Settle(p, "done")
    BY <1>15 DEF RemoveContainer
  <2>2. Works(p) /\ row = "REMOVED"
    BY <2>1 DEF Works, Holding, ReservationOK, ReservedOK
  <2>3. CASE Fails(p)
    BY <1>3, <1>4, <1>5, <2>1, <2>2, <2>3, FailsShape
  <2>4. CASE Release(p, FALSE) /\ Settle(p, "done")
    <3>1. RunsOK' /\ DOMAIN run' = Runs /\ Stops(p)
      BY <2>4, SettleShape DEF Stops, Outcomes
    <3>2. ReservationOK'
      BY <2>1, <2>2, <2>4, <3>1, ReleaseKeepsReservation
    <3>3. RowOK'
      BY <2>4, ReleaseType DEF StoreOK, ReservationOK
    <3> QED
      BY <1>4, <1>5, <2>1, <3>1, <3>2, <3>3 DEF StepOK
  <2> QED
    BY <2>1, <2>3, <2>4
<1>16. CASE CheckLinks(p)
  <2>1. /\ UNCHANGED <<refs, quarantine, journal>> /\ run[p].pc = "links"
        /\ \/ Fails(p)
           \/ /\ run' = [run EXCEPT ![p].pc = "unlink-now", ![p].known = made]
              /\ UNCHANGED <<row, lease>>
    BY <1>16 DEF CheckLinks, disk
  <2>2. Works(p)
    BY <2>1 DEF Works, Holding
  <2>3. CASE Fails(p)
    BY <1>3, <1>4, <1>5, <2>1, <2>2, <2>3, FailsShape
  <2>4. CASE /\ run' = [run EXCEPT ![p].pc = "unlink-now", ![p].known = made]
             /\ UNCHANGED <<row, lease>>
    <3> DEFINE l == [run[p] EXCEPT !.pc = "unlink-now", !.known = made]
    <3>1. made \in SUBSET Objects
      BY DEF DiskOK
    <3>2. l \in Locals /\ l.pc = "unlink-now" /\ l.op = run[p].op /\ l.pin = run[p].pin
      BY <1>1, <3>1 DEF Locals, Pcs, Holding
    <3>3. run' = [run EXCEPT ![p] = l]
      BY <2>4
    <3> HIDE DEF l
    <3> QED
      BY <1>3, <1>4, <1>5, <2>1, <2>2, <2>4, <3>2, <3>3, GoesOnShape
  <2> QED
    BY <2>1, <2>3, <2>4
<1>17. CASE UnlinkOriginal(p)
  <2>1. /\ UNCHANGED <<refs, quarantine, journal>> /\ run[p].pc = "unlink-now"
        /\ \/ Fails(p)
           \/ /\ run' = [run EXCEPT ![p].pc = "quarantined", ![p].known = {}]
              /\ UNCHANGED <<row, lease>>
    BY <1>17 DEF UnlinkOriginal
  <2>2. Works(p)
    BY <2>1 DEF Works, Holding
  <2>3. CASE Fails(p)
    BY <1>3, <1>4, <1>5, <2>1, <2>2, <2>3, FailsShape
  <2>4. CASE /\ run' = [run EXCEPT ![p].pc = "quarantined", ![p].known = {}]
             /\ UNCHANGED <<row, lease>>
    <3> DEFINE l == [run[p] EXCEPT !.pc = "quarantined", !.known = {}]
    <3>1. /\ l \in Locals /\ l.pc = "quarantined" /\ l.op = run[p].op /\ l.pin = run[p].pin
          /\ "quarantined" \in Steps
      BY <1>1 DEF Locals, Pcs, Steps, Holding
    <3>2. run' = [run EXCEPT ![p] = l]
      BY <2>4
    <3> HIDE DEF l
    <3> QED
      BY <1>3, <1>4, <1>5, <2>1, <2>2, <2>4, <3>1, <3>2, GoesOnShape
  <2> QED
    BY <2>1, <2>3, <2>4
<1> QED
  BY <1>6, <1>7, <1>8, <1>9, <1>10, <1>11, <1>12, <1>13, <1>14, <1>15, <1>16, <1>17

-----------------------------------------------------------------------------
\* Each other action of a run, and of the rest of the system.

\* A run about to unlink knows what it knew.
KnownKept ==
    \A q \in Runs : run'[q].pc = "unlink-now" =>
        run[q].pc = "unlink-now" /\ run'[q].known = run[q].known

PinsKept == KnownKept /\ \A q \in Runs : run'[q].pin \in {run[q].pin, Nothing}

\* A step in which nobody starts to work keeps the reservation.
LEMMA RestKeepsReservation ==
    ASSUME ReservationOK,
           \A q \in Runs : \/ run'[q].pc = run[q].pc /\ run'[q].op = run[q].op
                           \/ run'[q].pc \notin Holding,
           LeaseLapses, UNCHANGED <<row, quarantine>>, refs' \subseteq refs \/ ~Reserved
    PROVE  ReservationOK'
<1>1. ReservedOK'
  <2>1. "rmdir" \in Holding
    BY DEF Holding
  <2> QED
    BY <2>1 DEF ReservationOK, ReservedOK, Reserved, Works, QuarantinedIsReserved
<1>2. CASE lease' = NoLease
  BY <1>1, <1>2, RunsAssumption DEF ReservationOK, LeaseOK, NoLease
<1>3. CASE lease'.run = lease.run /\ lease'.op = lease.op /\ lease'.previous = lease.previous
  <2>1. lease'.run \in Runs => lease'.op \in Runs /\ lease'.previous # "none"
    BY <1>3 DEF ReservationOK, LeaseOK
  <2>2. ASSUME lease'.previous \in {"STALE", "ORPHANED"}
        PROVE  /\ lease'.run \in Runs /\ lease'.op = lease'.run
               /\ run'[lease'.run].pc \in Holding => run'[lease'.run].op = lease'.run
               /\ run'[lease'.run].pc \in {"prepare-absent", "absent"} =>
                      quarantine'[lease'.run] = Nothing
               /\ \A q \in Runs \ {lease'.run} :
                      run'[q].pc \notin Holding /\ quarantine'[q] = Nothing
    <3>1. PICK h \in Runs : h = lease.run /\ lease.op = h
      BY <1>3, <2>2 DEF ReservationOK, LeaseOK
    <3>2. /\ run[h].pc \in Holding => run[h].op = h
          /\ run[h].pc \in {"prepare-absent", "absent"} => quarantine[h] = Nothing
          /\ \A q \in Runs \ {h} : run[q].pc \notin Holding /\ quarantine[q] = Nothing
      BY <1>3, <2>2, <3>1 DEF ReservationOK, LeaseOK, Works
    <3>3. {"prepare-absent", "absent"} \subseteq Holding
      BY DEF Holding
    <3> QED
      BY <1>3, <3>1, <3>2, <3>3
  <2> QED
    BY <1>1, <1>3, <2>1, <2>2 DEF ReservationOK, LeaseOK, Works
<1> QED
  BY <1>2, <1>3 DEF LeaseLapses

\* The next operation to resume, or what is left of the list.
LEMMA RecoverNextStep ==
    ASSUME StoreOK, RunsOK, ReservationOK, DOMAIN run = Runs, NEW p \in Runs, RecoverNext(p)
    PROVE  RunsOK' /\ DOMAIN run' = Runs /\ StoreOK' /\ ReservationOK' /\ PinsKept
<1>1. run[p] \in Locals /\ run[p].pc = "next"
  BY DEF RunsOK, RunOK, RecoverNext
<1>2. PICK op \in run[p].todo :
        LET entry == run[p].book[op]
            left == [run[p] EXCEPT !.todo = @ \ {op}]
            taken == [run[p] EXCEPT !.todo = @ \ {op}, !.op = op, !.phase = entry.phase,
                                     !.container = entry.container]
        IN  \/ /\ \/ run' = [run EXCEPT ![p] = left]
                  \/ run' = [run EXCEPT ![p] = [taken EXCEPT !.pc = "tidy"]]
               /\ UNCHANGED <<row, lease, journal>>
            \/ /\ row = "REMOVED" /\ refs = {}
               /\ Finalize(p, op)
               /\ \/ run' = [run EXCEPT ![p] = left]
                  \/ run' = [run EXCEPT ![p] = [taken EXCEPT !.pc = "tidy", !.phase = "finalized"]]
            \/ /\ Acquire(p, op, "QUARANTINED") /\ Eligible("QUARANTINED")
               /\ \E pc \in {"absent", "container"} :
                      run' = [run EXCEPT ![p] = [taken EXCEPT !.pc = pc]]
               /\ UNCHANGED journal
            \/ /\ Acquire(p, op, "QUARANTINED") /\ ~Eligible("QUARANTINED")
               /\ run' = [run EXCEPT ![p] = [left EXCEPT !.outcome = Worse(@, "contended")]]
               /\ UNCHANGED journal
  BY DEF RecoverNext, Finalizable, Renewable
<1>3. UNCHANGED <<refs, quarantine>>
  BY DEF RecoverNext, disk
<1> DEFINE entry == run[p].book[op]
           left == [run[p] EXCEPT !.todo = @ \ {op}]
           taken == [run[p] EXCEPT !.todo = @ \ {op}, !.op = op, !.phase = entry.phase,
                                     !.container = entry.container]
<1>4. op \in Runs /\ entry \in Entry
  BY <1>1 DEF Locals
<1>5. entry.phase \in PhaseNames /\ entry.container \in Nat
  BY <1>4 DEF Entry, PhaseNames
<1> HIDE DEF entry
<1>6. /\ left \in Locals /\ left.pc = "next" /\ left.pin = run[p].pin /\ left.outcome = run[p].outcome
      /\ taken \in Locals /\ taken.op = op /\ taken.pin = run[p].pin
  BY <1>1, <1>4, <1>5 DEF Locals
<1>7. {"next", "tidy", "absent", "container"} \subseteq Pcs /\ "finalized" \in PhaseNames
      /\ "next" \notin Holding /\ "tidy" \notin Holding /\ "absent" \in Holding /\ "container" \in Holding
  BY PhaseNamesAre DEF Pcs, Holding
<1> HIDE DEF left, taken
\* Whatever the run goes on with, it is sound.
<1>8. ASSUME NEW l \in Locals, run' = [run EXCEPT ![p] = l], l.pin = run[p].pin,
             \/ l.pc = "next" \/ (l.pc \in {"tidy", "absent", "container"} /\ l.op = op)
      PROVE  RunsOK' /\ DOMAIN run' = Runs /\ run'[p] = l /\ PinsKept
             /\ \A q \in Runs \ {p} : run'[q] = run[q]
  BY <1>4, <1>7, <1>8, OneRun DEF PinsKept, KnownKept
<1>9. \A x \in {"tidy", "absent", "container"} :
         /\ [taken EXCEPT !.pc = x] \in Locals /\ [taken EXCEPT !.pc = x].pc = x
         /\ [taken EXCEPT !.pc = x].op = op /\ [taken EXCEPT !.pc = x].pin = run[p].pin
  BY <1>6, <1>7 DEF Locals
<1>10. CASE /\ \/ run' = [run EXCEPT ![p] = left]
               \/ run' = [run EXCEPT ![p] = [taken EXCEPT !.pc = "tidy"]]
            /\ UNCHANGED <<row, lease, journal>>
  <2>1. RunsOK' /\ DOMAIN run' = Runs /\ PinsKept /\ run'[p].pc \notin Holding
        /\ \A q \in Runs \ {p} : run'[q] = run[q]
    BY <1>6, <1>7, <1>8, <1>9, <1>10
  <2>2. ReservationOK'
    BY <1>3, <1>10, <2>1, RestKeepsReservation DEF LeaseLapses
  <2> QED
    BY <1>3, <1>10, <2>1, <2>2 DEF StoreOK, RowOK
<1>11. CASE /\ row = "REMOVED" /\ refs = {}
            /\ Finalize(p, op)
            /\ \/ run' = [run EXCEPT ![p] = left]
               \/ run' = [run EXCEPT ![p] = [taken EXCEPT !.pc = "tidy", !.phase = "finalized"]]
  <2> DEFINE l == [taken EXCEPT !.pc = "tidy", !.phase = "finalized"]
  <2>1. l \in Locals /\ l.pc = "tidy" /\ l.op = op /\ l.pin = run[p].pin
    BY <1>6, <1>7 DEF Locals
  <2>2. run' = [run EXCEPT ![p] = left] \/ run' = [run EXCEPT ![p] = l]
    BY <1>11
  <2> HIDE DEF l
  <2>3. RunsOK' /\ DOMAIN run' = Runs /\ PinsKept /\ run'[p].pc \notin Holding
        /\ \A q \in Runs \ {p} : run'[q] = run[q]
    BY <1>6, <1>7, <1>8, <2>1, <2>2
  <2>4. RowOK' /\ LeaseLapses /\ journal' \in [Runs -> Entry] /\ row' = "REMOVED"
    BY <1>4, <1>11, FinalizeType
  <2>5. ReservationOK'
    BY <1>3, <1>11, <2>3, <2>4, RestKeepsReservation
  <2> QED
    BY <1>3, <2>3, <2>4, <2>5 DEF StoreOK
<1>12. ASSUME Acquire(p, op, "QUARANTINED"), Eligible("QUARANTINED"), UNCHANGED journal,
              NEW pc \in {"absent", "container"}, run' = [run EXCEPT ![p] = [taken EXCEPT !.pc = pc]]
       PROVE  RunsOK' /\ DOMAIN run' = Runs /\ StoreOK' /\ ReservationOK' /\ PinsKept
  <2>1. RunsOK' /\ DOMAIN run' = Runs /\ PinsKept /\ run'[p].pc # "rmdir" /\ run'[p].op = op
        /\ \A q \in Runs \ {p} : run'[q] = run[q]
    <3>1. [taken EXCEPT !.pc = pc].pc = pc /\ [taken EXCEPT !.pc = pc].op = op
          /\ [taken EXCEPT !.pc = pc] \in Locals /\ [taken EXCEPT !.pc = pc].pin = run[p].pin
      BY <1>9
    <3> QED
      BY <1>8, <1>12, <3>1
  <2>2. ReservationOK'
    BY <1>3, <1>4, <1>12, <2>1, AcquireKeepsReservation
  <2>3. RowOK'
    BY <1>4, <1>12, AcquireType
  <2> QED
    BY <1>3, <1>12, <2>1, <2>2, <2>3 DEF StoreOK
<1>13. CASE /\ Acquire(p, op, "QUARANTINED") /\ ~Eligible("QUARANTINED")
            /\ run' = [run EXCEPT ![p] = [left EXCEPT !.outcome = Worse(@, "contended")]]
            /\ UNCHANGED journal
  <2> DEFINE worse == Worse(left.outcome, "contended")
             l == [left EXCEPT !.outcome = worse]
  <2>1. worse \in Outcomes
    BY <1>1, <1>6, WorseType DEF Locals, Outcomes
  <2> HIDE DEF worse
  <2>2. l \in Locals /\ l.pc = "next" /\ l.pin = run[p].pin
    BY <1>6, <2>1 DEF Locals
  <2>3. run' = [run EXCEPT ![p] = l]
    BY <1>13 DEF worse
  <2> HIDE DEF l
  <2>4. RunsOK' /\ DOMAIN run' = Runs /\ PinsKept /\ run'[p].pc \notin Holding
        /\ \A q \in Runs \ {p} : run'[q] = run[q]
    BY <1>7, <1>8, <2>2, <2>3
  <2>5. row' = row /\ lease' \in {lease, NoLease}
    BY <1>13 DEF Acquire, Standing
  <2>6. RowOK' /\ LeaseLapses
    BY <2>5, LapseType DEF StoreOK
  <2>7. ReservationOK'
    BY <1>3, <2>4, <2>5, <2>6, RestKeepsReservation
  <2> QED
    BY <1>3, <1>13, <2>4, <2>6, <2>7 DEF StoreOK
<1>14. \/ /\ \/ run' = [run EXCEPT ![p] = left]
             \/ run' = [run EXCEPT ![p] = [taken EXCEPT !.pc = "tidy"]]
          /\ UNCHANGED <<row, lease, journal>>
       \/ /\ row = "REMOVED" /\ refs = {}
          /\ Finalize(p, op)
          /\ \/ run' = [run EXCEPT ![p] = left]
             \/ run' = [run EXCEPT ![p] = [taken EXCEPT !.pc = "tidy", !.phase = "finalized"]]
       \/ /\ Acquire(p, op, "QUARANTINED") /\ Eligible("QUARANTINED")
          /\ \E pc \in {"absent", "container"} :
                 run' = [run EXCEPT ![p] = [taken EXCEPT !.pc = pc]]
          /\ UNCHANGED journal
       \/ /\ Acquire(p, op, "QUARANTINED") /\ ~Eligible("QUARANTINED")
          /\ run' = [run EXCEPT ![p] = [left EXCEPT !.outcome = Worse(@, "contended")]]
          /\ UNCHANGED journal
  BY <1>2 DEF left, taken, entry
<1> QED
  BY <1>10, <1>11, <1>12, <1>13, <1>14

\* A run before it works on anything, or when it is killed.
LEMMA RestStep ==
    ASSUME StoreOK, DiskOK, RunsOK, ReservationOK, DOMAIN run = Runs, NEW p \in Runs,
           Start(p) \/ Tidy(p) \/ Plan(p) \/ AcquireLease(p) \/ Crash(p)
    PROVE  RunsOK' /\ DOMAIN run' = Runs /\ StoreOK' /\ ReservationOK' /\ PinsKept
<1>1. run[p] \in Locals
  BY DEF RunsOK, RunOK
<1>2. UNCHANGED store => StoreOK' /\ UNCHANGED <<row, lease, refs>> /\ LeaseLapses
  BY DEF StoreOK, RowOK, store, LeaseLapses
<1>3. \A q \in Runs : run[q] \in Locals
  BY DEF RunsOK, RunOK
<1>4. {"next", "tidy", "validate", "ended", "crashed", "prepare-absent", "prepare"} \subseteq Pcs
      /\ {"next", "tidy", "validate", "ended", "crashed"} \cap Holding = {}
      /\ {"prepare-absent", "prepare"} \subseteq Holding
  BY DEF Pcs, Holding
<1>5. CASE Start(p)
  <2> DEFINE todo == {o \in Runs : \/ Order(journal[o].phase) \in 1..6
                                   \/ /\ journal[o].phase = "finalized"
                                      /\ journal[o].container # 0}
             met == Others(p) # {} \/ lease.live
             l == [Idle EXCEPT !.pc = "next", !.book = journal, !.todo = todo, !.met = met]
  <2>1. todo \in SUBSET Runs /\ met \in BOOLEAN /\ journal \in [Runs -> Entry]
    BY DEF StoreOK
  <2>2. run' = [q \in Runs |-> IF q = p THEN l ELSE [run[q] EXCEPT !.met = @ \/ Alive(q)]]
    BY <1>5 DEF Start
  <2> HIDE DEF todo, met
  <2>3. l \in Locals /\ l.pc = "next" /\ l.pin = Nothing
    <3>1. Idle.pin = Nothing
      BY DEF Idle
    <3> QED
      BY <1>4, <2>1, <3>1, IdleType DEF Locals
  <2> HIDE DEF l
  <2>4. ASSUME NEW q \in Runs \ {p}
        PROVE  /\ run'[q] \in Locals
               /\ run'[q].pc = run[q].pc /\ run'[q].op = run[q].op /\ run'[q].seen = run[q].seen
               /\ run'[q].pin = run[q].pin /\ run'[q].known = run[q].known
    <3> DEFINE m == run[q].met \/ Alive(q)
    <3>1. m \in BOOLEAN /\ run[q] \in Locals
      BY <1>3
    <3>2. run'[q] = [run[q] EXCEPT !.met = m]
      BY <2>2
    <3> HIDE DEF m
    <3> QED
      BY <3>1, <3>2 DEF Locals
  <2>5. run'[p] = l /\ DOMAIN run' = Runs
    BY <2>2
  <2>6. RunsOK'
    <3> SUFFICES ASSUME NEW q \in Runs PROVE RunOK(q)'
      BY DEF RunsOK
    <3>1. CASE q = p
      BY <1>4, <2>3, <2>5, <3>1 DEF RunOK, Works
    <3>2. CASE q # p
      BY <2>4, <3>2 DEF RunsOK, RunOK, Works
    <3> QED
      BY <3>1, <3>2
  <2>7. ReservationOK'
    BY <1>2, <1>4, <1>5, <2>3, <2>4, <2>5, RestKeepsReservation DEF Start, disk
  <2> QED
    BY <1>2, <1>5, <2>3, <2>4, <2>5, <2>6, <2>7 DEF Start, PinsKept, KnownKept
<1>6. CASE Tidy(p)
  <2>1. /\ UNCHANGED store /\ UNCHANGED quarantine
        /\ Settle(p, "done") \/ Settle(p, "failed")
    BY <1>6 DEF Tidy
  <2>2. /\ RunsOK' /\ DOMAIN run' = Runs
        /\ \A q \in Runs \ {p} : run'[q] = run[q]
        /\ run'[p].pc \in {"next", "ended"} /\ run'[p].pin = Nothing
    BY <2>1, SettleShape DEF Outcomes
  <2>3. ReservationOK'
    BY <1>2, <1>4, <2>1, <2>2, RestKeepsReservation
  <2> QED
    BY <1>2, <2>1, <2>2, <2>3 DEF PinsKept, KnownKept
<1>7. CASE Plan(p)
  <2> DEFINE l == [run[p] EXCEPT !.pc = "validate", !.op = p, !.seen = row,
                                 !.phase = "none", !.container = 0]
             e == [run[p] EXCEPT !.pc = "ended"]
  <2>1. run' = [run EXCEPT ![p] = IF Candidate THEN l ELSE e]
    BY <1>7 DEF Plan
  <2>2. Candidate => l \in Locals /\ l.pc = "validate" /\ l.op = p /\ l.pin = run[p].pin
                     /\ l.seen # "none"
    BY <1>1, <1>4, PhaseNamesAre DEF Locals, Candidate
  <2>3. e \in Locals /\ e.pc = "ended" /\ e.pin = run[p].pin
    BY <1>1, <1>4 DEF Locals
  <2> HIDE DEF l, e
  <2>4. PICK k \in Locals : /\ run' = [run EXCEPT ![p] = k] /\ k.pin = run[p].pin
                            /\ k.pc = "ended" \/ (k.pc = "validate" /\ k.op = p /\ k.seen # "none")
    BY <2>1, <2>2, <2>3
  <2>5. /\ RunsOK' /\ DOMAIN run' = Runs /\ run'[p] = k
        /\ \A q \in Runs \ {p} : run'[q] = run[q]
    BY <1>4, <2>4, OneRun
  <2>6. ReservationOK'
    BY <1>2, <1>4, <1>7, <2>4, <2>5, RestKeepsReservation DEF Plan, disk
  <2> QED
    BY <1>2, <1>7, <2>4, <2>5, <2>6 DEF Plan, PinsKept, KnownKept
<1>8. CASE AcquireLease(p)
  <2>1. /\ run[p].op = p /\ run[p].seen \in {"STALE", "ORPHANED", "QUARANTINED"}
        /\ Acquire(p, p, run[p].seen) /\ UNCHANGED <<refs, journal, quarantine>>
    BY <1>1, <1>8 DEF AcquireLease, RunsOK, RunOK, Locals, disk
  <2>2. CASE Eligible(run[p].seen)
    <3>1. PICK pc \in {"prepare-absent", "prepare"} : Goto(p, pc)
      BY <1>8, <2>2 DEF AcquireLease
    <3> DEFINE l == [run[p] EXCEPT !.pc = pc]
    <3>2. l \in Locals /\ l.pc = pc /\ l.op = p /\ l.pin = run[p].pin
      BY <1>1, <1>4, <2>1 DEF Locals
    <3>3. run' = [run EXCEPT ![p] = l]
      BY <3>1 DEF Goto
    <3> HIDE DEF l
    <3>4. /\ RunsOK' /\ DOMAIN run' = Runs /\ run'[p] = l
          /\ \A q \in Runs \ {p} : run'[q] = run[q]
      BY <3>2, <3>3, OneRun
    <3>5. ReservationOK'
      BY <2>1, <2>2, <3>2, <3>4, AcquireKeepsReservation
    <3>6. RowOK'
      BY <2>1, <2>2, AcquireType
    <3> QED
      BY <2>1, <3>2, <3>4, <3>5, <3>6 DEF StoreOK, PinsKept, KnownKept
  <2>3. CASE ~Eligible(run[p].seen)
    <3>1. Settle(p, "contended")
      BY <1>8, <2>3 DEF AcquireLease
    <3>2. /\ RunsOK' /\ DOMAIN run' = Runs
          /\ \A q \in Runs \ {p} : run'[q] = run[q]
          /\ run'[p].pc \in {"next", "ended"} /\ run'[p].pin = Nothing
      BY <3>1, SettleShape DEF Outcomes
    <3>3. row' = row /\ lease' \in {lease, NoLease}
      BY <2>1, <2>3 DEF Acquire, Standing
    <3>4. RowOK' /\ LeaseLapses
      BY <3>3, LapseType DEF StoreOK
    <3>5. ReservationOK'
      BY <1>4, <2>1, <3>2, <3>3, <3>4, RestKeepsReservation
    <3> QED
      BY <2>1, <3>2, <3>4, <3>5 DEF StoreOK, PinsKept, KnownKept
  <2> QED
    BY <2>2, <2>3
<1>9. CASE Crash(p)
  <2> DEFINE l == [Idle EXCEPT !.pc = "crashed", !.met = run[p].met]
  <2>1. l \in Locals /\ l.pc = "crashed" /\ l.pin = Nothing
    <3>1. Idle.pin = Nothing
      BY DEF Idle
    <3> QED
      BY <1>1, <1>4, <3>1, IdleType DEF Locals
  <2>2. run' = [run EXCEPT ![p] = l]
    BY <1>9 DEF Crash
  <2> HIDE DEF l
  <2>3. /\ RunsOK' /\ DOMAIN run' = Runs /\ run'[p] = l
        /\ \A q \in Runs \ {p} : run'[q] = run[q]
    BY <1>4, <2>1, <2>2, OneRun
  <2>4. ReservationOK'
    BY <1>2, <1>4, <1>9, <2>1, <2>3, RestKeepsReservation DEF Crash, disk
  <2> QED
    BY <1>2, <1>9, <2>1, <2>3, <2>4 DEF Crash, PinsKept, KnownKept
<1> QED
  BY <1>5, <1>6, <1>7, <1>8, <1>9

\* The candidate is held open.
LEMMA ValidateStep ==
    ASSUME StoreOK, DiskOK, RunsOK, ReservationOK, DOMAIN run = Runs, NEW p \in Runs, Validate(p)
    PROVE  /\ RunsOK' /\ DOMAIN run' = Runs /\ StoreOK' /\ ReservationOK'
           /\ \/ PinsKept
              \/ /\ original = Nothing \/ SameInode(original)
                 /\ run'[p].pin = original /\ run'[p].pc = "acquire"
                 /\ \A q \in Runs \ {p} : run'[q] = run[q]
<1>1. run[p] \in Locals
  BY DEF RunsOK, RunOK
<1>2. /\ StoreOK' /\ UNCHANGED <<row, lease, refs, quarantine>> /\ LeaseLapses
      /\ run[p].pc = "validate"
  BY DEF Validate, StoreOK, RowOK, store, disk, LeaseLapses
<1>3. CASE original # Nothing /\ ~IsCandidate(original)
  <2>1. Settle(p, "failed")
    BY <1>3 DEF Validate
  <2>2. /\ RunsOK' /\ DOMAIN run' = Runs
        /\ \A q \in Runs \ {p} : run'[q] = run[q]
        /\ run'[p].pc \in {"next", "ended"} /\ run'[p].pin = Nothing
    BY <2>1, SettleShape DEF Outcomes
  <2>3. ReservationOK'
    BY <1>2, <2>2, RestKeepsReservation DEF Holding
  <2> QED
    BY <1>2, <2>2, <2>3 DEF PinsKept, KnownKept
<1>4. CASE original = Nothing \/ IsCandidate(original)
  <2>1. original \in {Nothing, Object, Twin}
    BY <1>4 DEF IsCandidate, SameInode
  <2> DEFINE l == [run[p] EXCEPT !.pc = "acquire", !.pin = original]
  <2>2. run[p].op = p /\ run[p].seen # "none"
    BY <1>2 DEF RunsOK, RunOK
  <2>3. l \in Locals /\ l.pc = "acquire" /\ l.op = p /\ l.pin = original /\ l.seen # "none"
    BY <1>1, <2>1, <2>2 DEF Locals, Pcs
  <2>4. run' = [run EXCEPT ![p] = l]
    BY <1>4 DEF Validate
  <2> HIDE DEF l
  <2>5. "acquire" \notin Holding /\ "acquire" # "tidy"
    BY DEF Holding
  <2>6. /\ RunsOK' /\ DOMAIN run' = Runs /\ run'[p] = l
        /\ \A q \in Runs \ {p} : run'[q] = run[q]
    BY <2>3, <2>4, <2>5, OneRun
  <2>7. ReservationOK'
    BY <1>2, <2>3, <2>5, <2>6, RestKeepsReservation
  <2> QED
    BY <1>2, <1>4, <2>3, <2>6, <2>7 DEF IsCandidate
<1> QED
  BY <1>3, <1>4

-----------------------------------------------------------------------------
\* The disk.

\* What a step of a run does to the names of the objects: it moves or removes them, and may
\* hold open what the path names.
NamesMove ==
    /\ made' = made
    /\ original' \in {original, Nothing}
    /\ \A o \in Runs : quarantine'[o] \in {quarantine[o], original, Nothing}

LEMMA NamesMoveInodes ==
    ASSUME InodesOK, NamesMove, \A q \in Runs : run'[q].pin \in {run[q].pin, Nothing, original}
    PROVE  InodesOK'
<1>1. Nothing # Object
  BY DEF Nothing, Object
<1> QED
  BY <1>1 DEF InodesOK, NamesMove

\* Every step of a run keeps the types of the disk and only moves names about.
LEMMA RunDisk ==
    ASSUME DiskOK, RunsOK, NEW p \in Runs,
           \/ Start(p) \/ RecoverNext(p) \/ Tidy(p) \/ Plan(p) \/ Validate(p) \/ AcquireLease(p)
           \/ PrepareAbsent(p) \/ FinalizeAbsent(p)
           \/ Prepare(p) \/ MakeContainer(p) \/ NoteContainer(p) \/ ResumePrefix(p) \/ Move(p)
           \/ RecordLinked(p) \/ RecordUnlinking(p) \/ RenewForUnlink(p) \/ CheckLinks(p)
           \/ UnlinkOriginal(p) \/ RecordQuarantined(p)
           \/ RecordDeleting(p) \/ Erase(p) \/ RecordDeleted(p) \/ FinalizeDeleted(p)
           \/ RemoveContainer(p) \/ Crash(p)
    PROVE  DiskOK' /\ NamesMove
<1>1. run[p] \in Locals /\ (Works(p) => run[p].op \in Runs)
  BY DEF RunsOK, RunOK
<1>2. CASE UNCHANGED <<object, disk, made>>
  BY <1>2 DEF DiskOK, NamesMove, disk
<1>3. CASE \/ Start(p) \/ RecoverNext(p) \/ Plan(p) \/ Validate(p) \/ AcquireLease(p)
           \/ PrepareAbsent(p) \/ FinalizeAbsent(p) \/ Prepare(p) \/ NoteContainer(p)
           \/ ResumePrefix(p) \/ RecordLinked(p) \/ RecordUnlinking(p) \/ RenewForUnlink(p)
           \/ CheckLinks(p) \/ RecordQuarantined(p)
           \/ RecordDeleting(p) \/ RecordDeleted(p) \/ FinalizeDeleted(p) \/ Crash(p)
  <2>1. UNCHANGED <<object, disk, made>>
    BY <1>3 DEF Start, RecoverNext, Plan, Validate, AcquireLease, PrepareAbsent, FinalizeAbsent,
         Prepare, NoteContainer, ResumePrefix, RecordLinked, RecordUnlinking, RenewForUnlink,
         CheckLinks, RecordQuarantined, RecordDeleting, RecordDeleted, FinalizeDeleted, Crash, disk,
         history
  <2> QED
    BY <1>2, <2>1
<1>4. CASE Tidy(p) \/ RemoveContainer(p) \/ MakeContainer(p)
  <2>1. /\ UNCHANGED <<object, original, quarantine, emptied, made>>
        /\ \/ container' = container
           \/ \E n \in Nat : container' = [container EXCEPT ![run[p].op] = n]
    <3>1. CASE Tidy(p)
      BY <3>1 DEF Tidy, history
    <3>2. CASE RemoveContainer(p)
      BY <3>2 DEF RemoveContainer, history
    <3>3. CASE MakeContainer(p)
      <4>1. run[p].op \in Runs
        BY <1>1, <3>3 DEF MakeContainer, Works, Holding
      <4>2. run[p].container \in Nat /\ container[run[p].op] \in Nat
        BY <1>1, <4>1 DEF Locals, DiskOK
      <4> DEFINE op == run[p].op
                 gone == run[p].phase = "deleted" /\ run[p].container # 0
                           /\ quarantine[op] = Nothing /\ original = Nothing
                 makes == container[op] = 0 /\ ~gone
                 found == IF makes THEN run[p].container + 1
                          ELSE IF gone THEN run[p].container ELSE container[op]
      <4>3. container' = container \/ container' = [container EXCEPT ![op] = found]
        BY <3>3 DEF MakeContainer
      <4>4. found \in Nat
        BY <4>2
      <4> HIDE DEF found
      <4> QED
        BY <3>3, <4>3, <4>4 DEF MakeContainer, history
    <3> QED
      BY <1>4, <3>1, <3>2, <3>3
  <2> QED
    BY <2>1 DEF DiskOK, NamesMove
<1>5. CASE Move(p)
  <2>1. /\ UNCHANGED <<object, container, emptied, made>>
        /\ quarantine' = quarantine \/ quarantine' = [quarantine EXCEPT ![run[p].op] = original]
        /\ original' = original \/ original' = Nothing
    BY <1>5 DEF Move, history
  <2> QED
    BY <2>1 DEF DiskOK, NamesMove
<1>6. CASE UnlinkOriginal(p)
  BY <1>6 DEF UnlinkOriginal, DiskOK, NamesMove
<1>7. CASE Erase(p)
  <2>1. /\ UNCHANGED <<object, original, container, made>>
        /\ \/ quarantine' = quarantine
           \/ quarantine' = [quarantine EXCEPT ![run[p].op] = Nothing]
        /\ \/ emptied' = emptied
           \/ /\ emptied' = emptied \cup {quarantine[run[p].op]}
              /\ IsCandidate(quarantine[run[p].op])
    BY <1>7 DEF Erase
  <2>2. IsCandidate(quarantine[run[p].op]) => quarantine[run[p].op] \in Objects
    BY DEF IsCandidate, SameInode, Objects
  <2> QED
    BY <2>1, <2>2 DEF DiskOK, NamesMove
<1> QED
  BY <1>3, <1>4, <1>5, <1>6, <1>7

\* The interferences are counted by nobody else.
LEMMA TampersCounted ==
    ASSUME Next
    PROVE  tampers' = tampers \/ tampers' = tampers + 1
<1>1. ASSUME NEW p \in Runs,
             \/ Start(p) \/ RecoverNext(p) \/ Tidy(p) \/ Plan(p) \/ Validate(p) \/ AcquireLease(p)
             \/ PrepareAbsent(p) \/ FinalizeAbsent(p)
             \/ Prepare(p) \/ MakeContainer(p) \/ NoteContainer(p) \/ ResumePrefix(p) \/ Move(p)
             \/ RecordLinked(p) \/ RecordUnlinking(p) \/ RenewForUnlink(p) \/ CheckLinks(p)
             \/ UnlinkOriginal(p) \/ RecordQuarantined(p)
             \/ RecordDeleting(p) \/ Erase(p) \/ RecordDeleted(p) \/ FinalizeDeleted(p)
             \/ RemoveContainer(p) \/ Crash(p)
      PROVE  tampers' = tampers
  BY <1>1 DEF Start, RecoverNext, Tidy, Plan, Validate, AcquireLease, PrepareAbsent,
       FinalizeAbsent, Prepare, MakeContainer, NoteContainer, ResumePrefix, Move, RecordLinked,
       RecordUnlinking, RenewForUnlink, CheckLinks, UnlinkOriginal, RecordQuarantined,
       RecordDeleting, Erase, RecordDeleted, FinalizeDeleted, RemoveContainer, Crash, history
<1>2. ASSUME NEW o \in Owners, AddReference(o) \/ ReleaseReference(o) PROVE tampers' = tampers
  BY <1>2 DEF AddReference, ReleaseReference, history
<1>3. Expire \/ UserDeletes \/ UserPuts => tampers' = tampers \/ tampers' = tampers + 1
  BY DEF Expire, UserDeletes, UserPuts, Tamper
<1> QED
  BY <1>1, <1>2, <1>3 DEF Next

\* The user at the path: it is only here that an inode number can come back.
LEMMA UserInodes ==
    ASSUME DiskOK, InodesOK, UserDeletes \/ UserPuts
    PROVE  InodesOK' /\ DiskOK'
<1>1. Object # Nothing /\ Object # Twin /\ Object \in Objects
  BY DEF Nothing, Object, Twin, Objects
<1>2. CASE UserDeletes
  BY <1>1, <1>2 DEF UserDeletes, InodesOK, DiskOK
<1>3. CASE UserPuts
  <2>1. PICK o \in Objects \ made :
           /\ o = Twin => /\ \A r \in Runs : quarantine[r] # Object
                          /\ \A p \in Runs : run[p].pin # Object
           /\ original' = o
           /\ made' = made \cup {o}
    BY <1>3 DEF UserPuts
  <2>2. o # Object /\ UNCHANGED <<object, quarantine, container, emptied, run>>
    BY <1>3, <2>1 DEF UserPuts, InodesOK
  <2> QED
    BY <1>1, <2>1, <2>2 DEF InodesOK, DiskOK
<1> QED
  BY <1>2, <1>3

\* What a run knew stays what it may delete: the path names that, nothing, or something new.
LEMMA KnownStays ==
    ASSUME KnownOK, DiskOK, made \subseteq made',
           original' \in {original, Nothing} \/ original' \notin made,
           KnownKept, \A q \in Runs : run'[q].pc = "unlink-now" => run'[q].pin \in {run[q].pin, Nothing}
    PROVE  KnownOK'
<1> SUFFICES ASSUME NEW p \in Runs, run'[p].pc = "unlink-now"
             PROVE  /\ run'[p].known \subseteq made'
                    /\ original' \in run'[p].known =>
                         original' # Stranger /\ (run'[p].pin # Nothing => original' = run'[p].pin)
  BY DEF KnownOK
<1>1. run[p].pc = "unlink-now" /\ run'[p].known = run[p].known /\ run'[p].pin \in {run[p].pin, Nothing}
  BY DEF KnownKept
<1>2. run[p].known \subseteq made /\ Nothing \notin made
  BY <1>1 DEF KnownOK, DiskOK, Objects, Object, Stranger, Twin, Nothing
<1>3. original' \in run'[p].known => original' = original
  BY <1>1, <1>2
<1> QED
  BY <1>1, <1>2, <1>3 DEF KnownOK

\* What the last look before the unlink finds is the object, and what the run holds open.
LEMMA CheckKnows ==
    ASSUME DiskOK, RunsOK, DOMAIN run = Runs, InodesOK, KnownOK,
           NEW p \in Runs, CheckLinks(p), StepOK(p)
    PROVE  KnownOK'
<1>1. /\ UNCHANGED <<original, made>>
      /\ \/ Fails(p)
         \/ TwoLinks(run[p].op) /\ run' = [run EXCEPT ![p].pc = "unlink-now", ![p].known = made]
  BY DEF CheckLinks, disk, history
<1>2. run[p] \in Locals
  BY DEF RunsOK, RunOK
<1>3. \A q \in Runs \ {p} : run'[q] = run[q]
  BY DEF StepOK, GoesOn, Stops
<1>4. CASE run'[p].pc # "unlink-now"
  <2>1. KnownKept /\ \A q \in Runs : run'[q].pc = "unlink-now" => run'[q].pin \in {run[q].pin, Nothing}
    BY <1>3, <1>4 DEF KnownKept
  <2> QED
    BY <1>1, <2>1, KnownStays
<1>5. CASE run'[p].pc = "unlink-now"
  <2>1. /\ TwoLinks(run[p].op) /\ run'[p].known = made' /\ run'[p].pin = run[p].pin
    <3>1. ~Fails(p)
      BY <1>5, SettleShape DEF Fails, Outcomes
    <3> QED
      BY <1>1, <1>2, <3>1 DEF Locals, StepOK
  <2>2. original \in {Object, Twin} /\ original # Stranger
    BY <2>1 DEF TwoLinks, SameInode, Object, Twin, Stranger
  <2>3. run[p].pin \in {Nothing, Object, Twin}
    BY <1>2 DEF Locals
  <2>4. original \in made /\ run[p].pin \in made \cup {Nothing}
    BY <2>2 DEF InodesOK, Object, Twin, Nothing
  <2>5. run[p].pin # Nothing => original = run[p].pin
    BY <2>2, <2>3, <2>4 DEF InodesOK
  <2>6. \A q \in Runs \ {p} : run[q].pc = "unlink-now" =>
          /\ run[q].known \subseteq made
          /\ original \in run[q].known =>
               original # Stranger /\ (run[q].pin # Nothing => original = run[q].pin)
    BY DEF KnownOK
  <2> QED
    BY <1>1, <1>3, <2>1, <2>2, <2>5, <2>6 DEF KnownOK
<1> QED
  BY <1>4, <1>5

\* What is deleted lay in the run's own container and has the object's inode number; if the
\* run holds an object open, the number cannot have been reissued, so it is that object.
LEMMA EraseStep ==
    ASSUME DiskOK, RunsOK, InodesOK, ErasesWhatItChecked, NEW p \in Runs, Erase(p)
    PROVE  ErasesWhatItChecked'
<1> DEFINE found == quarantine[run[p].op]
<1>1. \/ erased' = erased
      \/ /\ IsCandidate(found)
         /\ erased' = erased \cup {[object |-> found, held |-> run[p].pin, late |-> FALSE]}
  BY DEF Erase
<1>2. CASE erased' = erased
  BY <1>2 DEF ErasesWhatItChecked
<1>3. CASE /\ IsCandidate(found)
           /\ erased' = erased \cup {[object |-> found, held |-> run[p].pin, late |-> FALSE]}
  <2>1. found \in {Object, Twin} /\ found # Stranger /\ run[p].op \in Runs
    <3>1. run[p].op \in Runs
      BY DEF Erase, RunsOK, RunOK, Works, Holding
    <3> QED
      BY <1>3, <3>1 DEF IsCandidate, SameInode, Object, Twin, Stranger
  <2>2. run[p].pin \in {Nothing, Object, Twin}
    BY DEF RunsOK, RunOK, Locals
  <2>3. found \in made /\ run[p].pin \in made \cup {Nothing}
    BY <2>1 DEF InodesOK, Object, Twin, Nothing
  <2>4. run[p].pin # Nothing => found = run[p].pin
    BY <2>1, <2>2, <2>3 DEF InodesOK
  <2> QED
    BY <1>3, <2>1, <2>4 DEF ErasesWhatItChecked
<1> QED
  BY <1>1, <1>2, <1>3

\* What is unlinked by its path is what the run looked at, or it was put there since.
LEMMA UnlinkStep ==
    ASSUME KnownOK, ErasesWhatItChecked, NEW p \in Runs, UnlinkOriginal(p)
    PROVE  ErasesWhatItChecked'
<1>1. run[p].pc = "unlink-now"
  BY DEF UnlinkOriginal
<1>2. \/ erased' = erased
      \/ erased' = erased \cup {[object |-> original, held |-> run[p].pin,
                                late |-> original \notin run[p].known]}
  BY DEF UnlinkOriginal
<1>3. original \in run[p].known =>
          original # Stranger /\ (run[p].pin # Nothing => original = run[p].pin)
  BY <1>1 DEF KnownOK
<1> SUFFICES ASSUME NEW e \in erased', ~e.late
             PROVE  e.object # Stranger /\ (e.held # Nothing => e.object = e.held)
  BY DEF ErasesWhatItChecked
<1>4. CASE e \in erased
  BY <1>4 DEF ErasesWhatItChecked
<1>5. CASE e = [object |-> original, held |-> run[p].pin, late |-> original \notin run[p].known]
  <2>1. e.object = original /\ e.held = run[p].pin /\ original \in run[p].known
    BY <1>5
  <2> QED
    BY <1>3, <2>1
<1> QED
  BY <1>2, <1>4, <1>5

-----------------------------------------------------------------------------
\* The invariant.

LEMMA GcInvInit == Init => GcInv
<1> SUFFICES ASSUME Init PROVE GcInv
  OBVIOUS
<1>1. /\ Idle.pc = "idle" /\ Idle.op = NoRun /\ Idle.pin = Nothing
      /\ "idle" \notin Holding /\ "rmdir" \in Holding
      /\ {"prepare-absent", "absent"} \subseteq Holding
  BY DEF Idle, Holding
<1>2. \A p \in Runs : run[p] = Idle /\ quarantine[p] = Nothing
  BY DEF Init
<1>3. TypeOK
  <2>1. NoLease \in Leases
    BY DEF NoLease, Leases
  <2> QED
    BY <2>1, IdleType DEF Init, TypeOK, Leases, Objects
<1>4. RunsOK
  BY <1>1, <1>2, IdleType DEF RunsOK, RunOK, Works
<1>5. InodesOK
  BY <1>1, <1>2 DEF Init, InodesOK, Object, Twin, Nothing
<1>6. ReservedOK
  BY <1>1, <1>2 DEF Init, ReservedOK, Works, Reserved, QuarantinedIsReserved
<1>7. LeaseOK
  BY RunsAssumption DEF Init, LeaseOK, NoLease
<1>8. ErasesWhatItChecked
  BY DEF Init, ErasesWhatItChecked
<1>9. KnownOK
  BY <1>1, <1>2 DEF KnownOK
<1> QED
  BY <1>3, <1>4, <1>5, <1>6, <1>7, <1>8, <1>9 DEF Init, GcInv

LEMMA GcInvStep == GcInv /\ [Next]_vars => GcInv'
<1> SUFFICES ASSUME GcInv, [Next]_vars PROVE GcInv'
  OBVIOUS
<1>1. StoreOK /\ DiskOK /\ DOMAIN run = Runs /\ RunsOK /\ InodesOK /\ ReservationOK
      /\ KnownOK /\ ErasesWhatItChecked
  BY TypeParts DEF GcInv, ReservationOK
<1>2. (TypeOK <=> StoreOK /\ DiskOK /\ DOMAIN run = Runs)'
  BY TypeParts, PTL
<1>0. tampers' \in Nat
  <2>1. tampers' = tampers \/ tampers' = tampers + 1
    BY TampersCounted DEF vars, history
  <2> QED
    BY <2>1 DEF GcInv
<1>3. /\ RunsOK' /\ DOMAIN run' = Runs /\ StoreOK' /\ DiskOK' /\ ReservationOK' /\ InodesOK'
      /\ KnownOK' /\ ErasesWhatItChecked'
      => GcInv'
  BY <1>0, <1>2 DEF GcInv, ReservationOK
\* A run at work.
<1>4. ASSUME NEW p \in Runs,
             \/ PrepareAbsent(p) \/ FinalizeAbsent(p)
             \/ Prepare(p) \/ MakeContainer(p) \/ NoteContainer(p) \/ ResumePrefix(p) \/ Move(p)
             \/ RecordLinked(p) \/ RecordUnlinking(p) \/ RenewForUnlink(p) \/ CheckLinks(p)
             \/ UnlinkOriginal(p) \/ RecordQuarantined(p)
             \/ RecordDeleting(p) \/ Erase(p) \/ RecordDeleted(p) \/ FinalizeDeleted(p)
             \/ RemoveContainer(p)
      PROVE  GcInv'
  <2>1. StepOK(p) /\ StoreOK'
    BY <1>1, <1>4, WorkStep
  <2>2. DiskOK' /\ NamesMove
    BY <1>1, <1>4, RunDisk
  <2>3. \A q \in Runs : run'[q].pin \in {run[q].pin, Nothing, original}
    BY <2>1 DEF StepOK, GoesOn, Stops
  <2>4. InodesOK'
    BY <1>1, <2>2, <2>3, NamesMoveInodes
  <2>5. ErasesWhatItChecked'
    <3>1. CASE Erase(p)
      BY <1>1, <3>1, EraseStep
    <3>2. CASE UnlinkOriginal(p)
      BY <1>1, <3>2, UnlinkStep
    <3>3. CASE UNCHANGED erased
      BY <1>1, <3>3 DEF ErasesWhatItChecked
    <3> QED
      BY <1>4, <3>1, <3>2, <3>3 DEF PrepareAbsent, FinalizeAbsent, Prepare, MakeContainer,
           NoteContainer, ResumePrefix, Move, RecordLinked, RecordUnlinking, RenewForUnlink,
           CheckLinks, RecordQuarantined, RecordDeleting, RecordDeleted, FinalizeDeleted,
           RemoveContainer, history
  <2>6. KnownOK'
    <3>1. CASE CheckLinks(p)
      BY <1>1, <2>1, <3>1, CheckKnows
    <3>2. CASE ~CheckLinks(p)
      <4>1. run[p].pc # "links"
        BY <1>4, <3>2 DEF PrepareAbsent, FinalizeAbsent, Prepare, MakeContainer,
             NoteContainer, ResumePrefix, Move, RecordLinked, RecordUnlinking, RenewForUnlink,
             UnlinkOriginal, RecordQuarantined, RecordDeleting, Erase, RecordDeleted,
             FinalizeDeleted, RemoveContainer
      <4>2. KnownKept /\ \A q \in Runs : run'[q].pc = "unlink-now" => run'[q].pin \in {run[q].pin, Nothing}
        BY <2>1, <4>1 DEF StepOK, GoesOn, Stops, KnownKept
      <4> QED
        BY <1>1, <2>2, <4>2, KnownStays DEF NamesMove
    <3> QED
      BY <3>1, <3>2
  <2> QED
    BY <1>3, <2>1, <2>2, <2>4, <2>5, <2>6 DEF StepOK
\* A run that works on nothing yet, or any more.
<1>5. ASSUME NEW p \in Runs,
             Start(p) \/ RecoverNext(p) \/ Tidy(p) \/ Plan(p) \/ Validate(p) \/ AcquireLease(p)
               \/ Crash(p)
      PROVE  GcInv'
  <2>1. /\ RunsOK' /\ DOMAIN run' = Runs /\ StoreOK' /\ ReservationOK'
        /\ \A q \in Runs : run'[q].pin \in {run[q].pin, Nothing, original}
        /\ KnownKept /\ \A q \in Runs : run'[q].pc = "unlink-now" =>
                                          run'[q].pin \in {run[q].pin, Nothing}
    <3>1. CASE Start(p) \/ Tidy(p) \/ Plan(p) \/ AcquireLease(p) \/ Crash(p)
      BY <1>1, <3>1, RestStep DEF PinsKept
    <3>2. CASE RecoverNext(p)
      BY <1>1, <3>2, RecoverNextStep DEF PinsKept
    <3>3. CASE Validate(p)
      BY <1>1, <3>3, ValidateStep DEF PinsKept, KnownKept
    <3> QED
      BY <1>5, <3>1, <3>2, <3>3
  <2>2. DiskOK' /\ NamesMove
    BY <1>1, <1>5, RunDisk
  <2>3. InodesOK'
    BY <1>1, <2>1, <2>2, NamesMoveInodes
  <2>4. UNCHANGED erased
    BY <1>5 DEF Start, RecoverNext, Tidy, Plan, Validate, AcquireLease, Crash, history
  <2>5. KnownOK'
    BY <1>1, <2>1, <2>2, KnownStays DEF NamesMove
  <2> QED
    BY <1>1, <1>3, <2>1, <2>2, <2>3, <2>4, <2>5 DEF ErasesWhatItChecked
\* Owners of references come and go.
<1>6. ASSUME NEW o \in Owners, AddReference(o) \/ ReleaseReference(o) PROVE GcInv'
  <2>1. /\ UNCHANGED <<object, row, lease, journal, disk, made, erased>>
        /\ (refs' = refs \cup {o} /\ ~Reserved) \/ refs' = refs \ {o}
    BY <1>6 DEF AddReference, ReleaseReference, history, Reserved
  <2>2. /\ DOMAIN run' = Runs
        /\ \A q \in Runs : /\ run'[q] \in Locals
                           /\ run'[q].pc = run[q].pc /\ run'[q].op = run[q].op
                           /\ run'[q].seen = run[q].seen /\ run'[q].pin = run[q].pin
                           /\ run'[q].known = run[q].known
    <3>1. CASE AddReference(o)
      <4>1. run' = [q \in Runs |-> [run[q] EXCEPT !.met = @ \/ Alive(q)]]
        BY <3>1 DEF AddReference
      <4>2. ASSUME NEW q \in Runs
            PROVE  /\ run'[q] \in Locals
                   /\ run'[q].pc = run[q].pc /\ run'[q].op = run[q].op
                   /\ run'[q].seen = run[q].seen /\ run'[q].pin = run[q].pin
                   /\ run'[q].known = run[q].known
        <5> DEFINE m == run[q].met \/ Alive(q)
        <5>1. m \in BOOLEAN /\ run[q] \in Locals
          BY <1>1 DEF RunsOK, RunOK
        <5>2. run'[q] = [run[q] EXCEPT !.met = m]
          BY <4>1
        <5> HIDE DEF m
        <5> QED
          BY <5>1, <5>2 DEF Locals
      <4> QED
        BY <4>1, <4>2
    <3>2. CASE ReleaseReference(o)
      BY <1>1, <3>2 DEF ReleaseReference, RunsOK, RunOK
    <3> QED
      BY <1>6, <3>1, <3>2
  <2>3. RunsOK'
    BY <1>1, <2>2 DEF RunsOK, RunOK, Works
  <2>4. ReservationOK'
    BY <1>1, <2>1, <2>2, RestKeepsReservation DEF LeaseLapses, disk
  <2>5. StoreOK' /\ DiskOK'
    BY <1>1, <2>1 DEF StoreOK, RowOK, DiskOK, disk
  <2>6. InodesOK'
    BY <1>1, <2>1, <2>2, NamesMoveInodes DEF NamesMove, disk
  <2>7. KnownOK'
    BY <1>1, <2>1, <2>2, KnownStays DEF KnownKept, disk
  <2> QED
    BY <1>1, <1>3, <2>1, <2>2, <2>3, <2>4, <2>5, <2>6, <2>7 DEF ErasesWhatItChecked
<1>7. CASE Expire
  <2>1. /\ UNCHANGED <<object, row, refs, journal, disk, made, erased, run>>
        /\ lease' = [lease EXCEPT !.live = FALSE]
    BY <1>7 DEF Expire
  <2>2. LeaseLapses /\ lease' \in Leases
    BY <1>1, <2>1 DEF StoreOK, RowOK, Leases, LeaseLapses
  <2>3. ReservationOK'
    BY <1>1, <2>1, <2>2, RestKeepsReservation DEF disk
  <2>4. StoreOK' /\ DiskOK' /\ RunsOK' /\ InodesOK' /\ KnownOK'
    BY <1>1, <2>1, <2>2 DEF StoreOK, RowOK, DiskOK, disk, RunsOK, RunOK, Works, InodesOK, KnownOK
  <2> QED
    BY <1>1, <1>3, <2>1, <2>3, <2>4 DEF ErasesWhatItChecked
<1>8. CASE UserDeletes \/ UserPuts
  <2>1. InodesOK' /\ DiskOK'
    BY <1>1, <1>8, UserInodes
  <2>2. UNCHANGED <<row, refs, lease, journal, quarantine, erased, run>>
    BY <1>8 DEF UserDeletes, UserPuts, store
  <2>3. ReservationOK'
    BY <1>1, <2>2, RestKeepsReservation DEF LeaseLapses
  <2>4. StoreOK' /\ RunsOK'
    BY <1>1, <2>2 DEF StoreOK, RowOK, RunsOK, RunOK, Works
  <2>5. KnownOK'
    <3>1. KnownKept /\ \A q \in Runs : run'[q].pc = "unlink-now" => run'[q].pin \in {run[q].pin, Nothing}
      BY <2>2 DEF KnownKept
    <3>2. made \subseteq made' /\ (original' \in {original, Nothing} \/ original' \notin made)
      BY <1>8 DEF UserDeletes, UserPuts
    <3> QED
      BY <1>1, <3>1, <3>2, KnownStays
  <2> QED
    BY <1>1, <1>3, <2>1, <2>2, <2>3, <2>4, <2>5 DEF ErasesWhatItChecked
<1>9. CASE UNCHANGED vars
  <2>1. UNCHANGED <<object, row, refs, lease, journal, original, quarantine, container, emptied,
                    made, run, erased>>
    BY <1>9 DEF vars, store, disk, history
  <2>2. ReservationOK'
    BY <1>1, <2>1, RestKeepsReservation DEF LeaseLapses
  <2>3. StoreOK' /\ DiskOK' /\ RunsOK' /\ InodesOK' /\ KnownOK'
    BY <1>1, <2>1 DEF StoreOK, RowOK, DiskOK, RunsOK, RunOK, Works, InodesOK, KnownOK
  <2> QED
    BY <1>1, <1>3, <2>1, <2>2, <2>3 DEF ErasesWhatItChecked
<1> QED
  BY <1>4, <1>5, <1>6, <1>7, <1>8, <1>9 DEF Next

\* The invariant holds along every behaviour of the collector.
THEOREM GcInvHolds == Spec => []GcInv
BY GcInvInit, GcInvStep, PTL DEF Spec

\* The rows, the journal, the lease and the disk keep their shapes (resource tables of
\* sqlite-store.ts).
THEOREM TypeOKHolds == Spec => []TypeOK
<1>1. GcInv => TypeOK
  BY DEF GcInv
<1> QED
  BY <1>1, GcInvHolds, PTL

\* However the user interferes, and whatever inode numbers the file system reissues: of what was
\* there when a run looked last, nothing but the registered object is deleted, at its path or in
\* the container, and by an apply what it held open (gc.ts:239-250, 365-370, 779-784).
THEOREM ErasesWhatItCheckedHolds == Spec => []ErasesWhatItChecked
<1>1. GcInv => ErasesWhatItChecked
  BY DEF GcInv
<1> QED
  BY <1>1, GcInvHolds, PTL

\* An object that lies in a container stays reserved, across kills, expired leases and the
\* releases of other runs (gc.ts:425-431).
THEOREM QuarantinedIsReservedHolds == Spec => []QuarantinedIsReserved
<1>1. GcInv => QuarantinedIsReserved
  BY DEF GcInv, ReservedOK
<1> QED
  BY <1>1, GcInvHolds, PTL

\* No run moves, unlinks or deletes an object that somebody references, whatever it read
\* before the reference was added (sqlite-store.ts:729-747, 797-849).
THEOREM ReferencesProtectHolds == Spec => ReferencesProtect
<1> DEFINE A == \/ quarantine' # quarantine \/ emptied' # emptied
                \/ original' # original /\ tampers' = tampers
                => refs = {}
<1>1. GcInv /\ [Next]_vars => [A]_vars
  <2> SUFFICES ASSUME GcInv, Next, \/ quarantine' # quarantine \/ emptied' # emptied
                                   \/ original' # original /\ tampers' = tampers
               PROVE  refs = {}
    BY DEF A
  <2>1. \A p \in Runs : Works(p) => refs = {}
    BY DEF GcInv, ReservedOK
  <2>2. ASSUME NEW p \in Runs, Move(p) \/ UnlinkOriginal(p) \/ Erase(p) PROVE refs = {}
    BY <2>1, <2>2 DEF Move, UnlinkOriginal, Erase, Works, Holding
  <2>3. ASSUME NEW p \in Runs,
               \/ Start(p) \/ RecoverNext(p) \/ Tidy(p) \/ Plan(p) \/ Validate(p) \/ AcquireLease(p)
               \/ PrepareAbsent(p) \/ FinalizeAbsent(p)
               \/ Prepare(p) \/ MakeContainer(p) \/ NoteContainer(p) \/ ResumePrefix(p)
               \/ RecordLinked(p) \/ RecordUnlinking(p) \/ RenewForUnlink(p) \/ CheckLinks(p)
               \/ RecordQuarantined(p)
               \/ RecordDeleting(p) \/ RecordDeleted(p) \/ FinalizeDeleted(p)
               \/ RemoveContainer(p) \/ Crash(p)
        PROVE  UNCHANGED <<original, quarantine, emptied>>
    BY <2>3 DEF Start, RecoverNext, Tidy, Plan, Validate, AcquireLease, PrepareAbsent,
         FinalizeAbsent, Prepare, MakeContainer, NoteContainer, ResumePrefix, RecordLinked,
         RecordUnlinking, RenewForUnlink, CheckLinks, RecordQuarantined, RecordDeleting, RecordDeleted, FinalizeDeleted,
         RemoveContainer, Crash, disk
  <2>4. ASSUME NEW o \in Owners, AddReference(o) \/ ReleaseReference(o)
        PROVE  UNCHANGED <<original, quarantine, emptied>>
    BY <2>4 DEF AddReference, ReleaseReference, disk
  <2>5. Expire => UNCHANGED <<original, quarantine, emptied>>
    BY DEF Expire, disk
  <2>6. UserDeletes \/ UserPuts =>
            UNCHANGED <<quarantine, emptied>> /\ tampers' = tampers + 1 /\ tampers \in Nat
    BY DEF UserDeletes, UserPuts, Tamper, GcInv
  <2> QED
    BY <2>2, <2>3, <2>4, <2>5, <2>6 DEF Next
<1> QED
  BY <1>1, GcInvHolds, PTL DEF Spec, ReferencesProtect, A

-----------------------------------------------------------------------------
\* A run that is alone.

\* Nobody interferes: the user leaves the path alone, no lease expires under a living holder,
\* no run has met another one, a living lease or a new reference, and there is nothing that
\* no deletion accepts.
Quiet == /\ tampers = 0 /\ ~object.undeletable
         /\ \A q \in Runs : run[q].pc # "idle" => ~run[q].met

\* An operation that a recovery has to finish.
Open(o) == journal[o].phase \notin {"none", "finalized"}

\* Where the object can be while an operation moves it.
Untouched(o) == original = Object /\ quarantine[o] = Nothing
Linked(o) == original = Object /\ quarantine[o] = Object
Moved(o) == original = Nothing /\ quarantine[o] = Object
Gone(o) == original = Nothing /\ quarantine[o] = Nothing

\* What a phase of the journal says of the disk, wherever the run was killed behind it.
PhaseOK(o, phase) ==
    /\ phase = "prepared" => \/ Untouched(o)
                             \/ /\ journal[o].container # 0
                                /\ IF object.kind = "file" THEN Linked(o) ELSE Moved(o)
    /\ phase = "linked" => object.kind = "file" /\ Linked(o)
    /\ phase = "unlinking" => object.kind = "file" /\ (Linked(o) \/ Moved(o))
    /\ phase = "quarantined" => Moved(o)
    /\ phase = "deleting" => Moved(o) \/ Gone(o)
    /\ phase = "deleted" => Gone(o)

OpOK(o) ==
    /\ ~journal[o].absent
    /\ journal[o].phase = "none" => journal[o].container = 0 /\ container[o] = 0
    /\ journal[o].phase = "finalized" =>
         /\ row = "REMOVED" /\ journal[o].container # 0
         /\ container[o] \in {0, journal[o].container}
    /\ ~Open(o) => quarantine[o] = Nothing
    /\ Open(o) =>
         /\ row = "QUARANTINED" /\ PhaseOK(o, journal[o].phase)
         /\ journal[o].container # 0 => container[o] = journal[o].container
         /\ journal[o].phase # "prepared" => journal[o].container # 0

\* One operation is open at a time, and without one the object is at its path until it is removed.
WorldOK ==
    /\ original \in {Object, Nothing}
    /\ \A o \in Runs : OpOK(o)
    /\ \A o, r \in Runs : Open(o) /\ Open(r) => o = r
    /\ (\A o \in Runs : ~Open(o)) => (original = Nothing <=> row = "REMOVED")

\* A run at its place: its phase and its container are those of the journal, and the object
\* is where the next step expects it.
PlaceOK(p) ==
    LET pc == run[p].pc
        op == run[p].op
        entry == journal[op]
    IN  /\ pc \in {"validate", "acquire"} =>
             /\ run[p].seen = row /\ row # "REMOVED" /\ refs = {} /\ run[p].phase = "none"
             /\ journal[p].phase = "none" /\ run[p].container = 0
        /\ pc = "acquire" \/ (Works(p) /\ op = p) => run[p].pin = Object
        /\ pc = "prepare" => /\ op = p /\ row = "QUARANTINED"
                             /\ journal[p].phase = "none" /\ run[p].phase = "none"
                             /\ run[p].container = 0
        /\ pc = "tidy" => op # p /\ entry.phase = "finalized" /\ run[p].container = entry.container
        /\ pc \in Holding \ {"prepare", "rmdir"} => Open(op) /\ run[p].phase = entry.phase
        /\ pc = "container" => run[p].container = entry.container
        /\ pc \in Holding \ {"prepare", "container"} =>
             run[p].container = container[op] /\ run[p].container # 0
        /\ pc \in Holding \ {"prepare", "container", "note"} => run[p].container = entry.container
        /\ pc = "container" /\ op = p => /\ entry.phase = "prepared" /\ entry.container = 0
                                        /\ container[p] = 0 /\ Untouched(p)
        /\ pc = "note" => entry.phase = "prepared" /\ entry.container = 0
        /\ pc = "prefix" => entry.phase \in {"prepared", "linked", "unlinking"}
        /\ pc = "prefix" /\ op = p => entry.phase = "prepared" /\ Untouched(p)
        /\ pc = "move" => entry.phase = "prepared" /\ Untouched(op)
        /\ pc = "linked" => entry.phase = "prepared" /\ Linked(op) /\ object.kind = "file"
        /\ pc = "unlinking" => entry.phase = "linked"
        /\ pc = "unlink" => entry.phase = "unlinking" /\ (op = p => Linked(op))
        /\ pc \in {"links", "unlink-now"} => entry.phase = "unlinking" /\ Linked(op)
        /\ pc = "quarantined" => entry.phase \in {"prepared", "unlinking"} /\ Moved(op)
        /\ pc = "delete" => entry.phase \in {"quarantined", "deleting"}
        /\ pc = "delete" /\ op = p => Moved(op)
        /\ pc = "erase" => entry.phase = "deleting" /\ Moved(op)
        /\ pc = "deleted" => entry.phase = "deleting" /\ Gone(op)
        /\ pc = "finalize" => entry.phase = "deleted"
        /\ pc = "rmdir" => entry.phase = "finalized"

\* A living run is the only one; its list has every operation that is not closed, as the
\* journal has it, and nothing has gone wrong.
SoloOK(p) ==
    /\ \A q \in Runs \ {p} : ~Alive(q)
    /\ run[p].pc \notin {"prepare-absent", "absent"}
    /\ run[p].outcome \in {"none", "done"}
    /\ run[p].pc = "next" => run[p].op = NoRun
    /\ run[p].op # p => journal[p].phase = "none"
    /\ run[p].op = p => run[p].todo = {}
    /\ run[p].op \notin run[p].todo
    /\ \A o \in run[p].todo : run[p].book[o] = journal[o] /\ journal[o].phase # "none"
    /\ \A o \in Runs : Open(o) \/ container[o] # 0 => o \in run[p].todo \cup {run[p].op}
    /\ run[p].pc \in {"next", "tidy", "validate", "acquire", "rmdir"} => ~lease.live
    /\ Works(p) /\ run[p].pc # "rmdir" => MyLease(p) /\ lease.live

AloneOK ==
    /\ WorldOK
    /\ \A p \in Runs : run[p].pc = "idle" => journal[p].phase = "none"
    /\ \A p \in Runs : Alive(p) => SoloOK(p) /\ PlaceOK(p)

AloneInv == GcInv /\ (Quiet => AloneOK)

\* The order of the phases, one by one.
LEMMA OrderIs ==
    /\ Order("none") = 0 /\ Order("prepared") = 1 /\ Order("linked") = 2 /\ Order("unlinking") = 3
    /\ Order("quarantined") = 4 /\ Order("deleting") = 5 /\ Order("deleted") = 6
    /\ Order("finalized") = 7
<1>1. DOMAIN Phases = {1, 2, 3, 4, 5, 6, 7}
  BY DEF Phases
<1>2. /\ Phases[1] = "prepared" /\ Phases[2] = "linked" /\ Phases[3] = "unlinking"
      /\ Phases[4] = "quarantined" /\ Phases[5] = "deleting" /\ Phases[6] = "deleted"
      /\ Phases[7] = "finalized"
  BY DEF Phases
<1> QED
  BY <1>1, <1>2 DEF Order

\* Where nothing else of the object is moved, its links are its path and one container.
LEMMA LinksAre ==
    ASSUME NEW op \in Runs, \A r \in Runs \ {op} : quarantine[r] # Object
    PROVE  Links(Object) = (IF original = Object THEN 1 ELSE 0)
                           + (IF quarantine[op] = Object THEN 1 ELSE 0)
<1> DEFINE named == {r \in Runs : quarantine[r] = Object}
<1>1. CASE quarantine[op] = Object
  <2>1. named = {op}
    BY <1>1
  <2>2. Cardinality(named) = 1
    BY <2>1, FS_Singleton
  <2> QED
    BY <1>1, <2>2 DEF Links
<1>2. CASE quarantine[op] # Object
  <2>1. named = {}
    BY <1>2
  <2>2. Cardinality(named) = 0
    BY <2>1, FS_EmptySet
  <2> QED
    BY <1>2, <2>2 DEF Links
<1> QED
  BY <1>1, <1>2

\* What the checks of an operation find.
LEMMA ShapesAre ==
    ASSUME WorldOK, NEW op \in Runs, \A r \in Runs \ {op} : ~Open(r)
    PROVE  /\ Untouched(op) => IsCandidate(original)
           /\ Moved(op) => IsCandidate(quarantine[op])
           /\ Linked(op) /\ object.kind = "file" => TwoLinks(op)
<1>1. \A r \in Runs \ {op} : quarantine[r] # Object
  BY DEF WorldOK, OpOK, Nothing, Object
<1>2. Links(Object) = (IF original = Object THEN 1 ELSE 0)
                      + (IF quarantine[op] = Object THEN 1 ELSE 0)
  BY <1>1, LinksAre
<1> QED
  BY <1>2 DEF Untouched, Moved, Linked, IsCandidate, TwoLinks, SameInode, Object, Nothing

\* What a run that is alone knows at work.
LEMMA WorkKnows ==
    ASSUME GcInv, AloneOK, NEW p \in Runs, run[p].pc \in Holding \ {"prepare", "rmdir"}
    PROVE  /\ Works(p) /\ run[p] \in Locals /\ run[p].op \in Runs /\ SoloOK(p) /\ PlaceOK(p)
           /\ Open(run[p].op) /\ OpOK(run[p].op) /\ journal[run[p].op] \in Entry
           /\ run[p].phase = journal[run[p].op].phase /\ (Recovering(p) <=> run[p].op # p)
           /\ row = "QUARANTINED" /\ refs = {} /\ Renewable(p)
           /\ original \in {Object, Nothing} /\ quarantine[run[p].op] \in {Object, Nothing}
           /\ \A r \in Runs \ {run[p].op} : ~Open(r)
           /\ Untouched(run[p].op) => IsCandidate(original)
           /\ Moved(run[p].op) => IsCandidate(quarantine[run[p].op])
           /\ Linked(run[p].op) /\ object.kind = "file" => TwoLinks(run[p].op)
<1> DEFINE op == run[p].op
<1>1. Works(p) /\ Alive(p)
  BY DEF Works, Alive, Holding
<1>2. run[p] \in Locals /\ op \in Runs
  BY <1>1 DEF GcInv, RunsOK, RunOK
<1>3. SoloOK(p) /\ PlaceOK(p) /\ WorldOK
  BY <1>1 DEF AloneOK
<1>4. Open(op) /\ run[p].phase = journal[op].phase /\ OpOK(op)
  BY <1>2, <1>3 DEF PlaceOK, WorldOK
<1>5. row = "QUARANTINED" /\ refs = {}
  BY <1>1, <1>4 DEF OpOK, GcInv, ReservedOK
<1>6. Renewable(p)
  BY <1>1, <1>3, <1>5 DEF SoloOK, Renewable
<1>7. \A r \in Runs \ {op} : ~Open(r)
  BY <1>2, <1>3, <1>4 DEF WorldOK
<1>8. original \in {Object, Nothing} /\ journal[op] \in Entry
  BY <1>2, <1>3 DEF WorldOK, GcInv, TypeOK
<1>9. quarantine[op] \in {Object, Nothing}
  <2>1. journal[op].phase \in {"prepared", "linked", "unlinking", "quarantined", "deleting", "deleted"}
    BY <1>4, <1>8, PhaseNamesAre DEF Open, Entry, PhaseNames
  <2> QED
    BY <1>4, <2>1 DEF OpOK, PhaseOK, Untouched, Linked, Moved, Gone
<1> HIDE DEF op
<1>10. /\ Untouched(op) => IsCandidate(original)
       /\ Moved(op) => IsCandidate(quarantine[op])
       /\ Linked(op) /\ object.kind = "file" => TwoLinks(op)
  BY <1>2, <1>3, <1>7, ShapesAre
<1> QED
  BY <1>1, <1>2, <1>3, <1>4, <1>5, <1>6, <1>7, <1>8, <1>9, <1>10 DEF Recovering, op

-----------------------------------------------------------------------------
\* The steps of a run that is alone.

\* The run is at a new place of the same operation.
Went(p, pc, phase, c) ==
    /\ \A q \in Runs \ {p} : run'[q] = run[q]
    /\ run'[p].pc = pc /\ run'[p].phase = phase /\ run'[p].container = c
    /\ run'[p].todo = run[p].todo /\ run'[p].book = run[p].book /\ run'[p].op = run[p].op
    /\ run'[p].seen = run[p].seen /\ run'[p].pin = run[p].pin /\ run'[p].met = run[p].met
    /\ run'[p].outcome = run[p].outcome

LEMMA GotoWent ==
    ASSUME GcInv, NEW p \in Runs, NEW pc, Goto(p, pc)
    PROVE  Went(p, pc, run[p].phase, run[p].container)
<1>1. run[p] \in Locals /\ DOMAIN run = Runs
  BY DEF GcInv, TypeOK, RunsOK, RunOK
<1> QED
  BY <1>1 DEF Goto, Went, Locals

\* The phase a run records is never one the journal is past.
LEMMA RecordsWent ==
    ASSUME GcInv, NEW p \in Runs, run[p].op \in Runs, NEW phase, NEW next, Records(p, phase, next),
           Order(phase) >= Order(journal[run[p].op].phase),
           Order(phase) \in Nat, Order(journal[run[p].op].phase) \in Nat
    PROVE  /\ Went(p, next, phase, run[p].container) /\ UNCHANGED <<row, lease>>
           /\ journal'[run[p].op] = [phase |-> phase, absent |-> FALSE, container |-> run[p].container]
           /\ \A r \in Runs \ {run[p].op} : journal'[r] = journal[r]
<1>1. run[p] \in Locals /\ DOMAIN run = Runs /\ journal = [r \in Runs |-> journal[r]]
  BY DEF GcInv, TypeOK, RunsOK, RunOK
<1>2. /\ journal' = [journal EXCEPT ![run[p].op] = [phase |-> phase, absent |-> FALSE,
                                                     container |-> run[p].container]]
      /\ run' = [run EXCEPT ![p].pc = next, ![p].phase = phase] /\ UNCHANGED <<row, lease>>
  BY DEF Records
<1> QED
  BY <1>1, <1>2 DEF Went, Locals

\* The places between the preparation of an operation and its finalization.
Midway == Holding \ {"prepare-absent", "absent", "prepare", "rmdir"}

\* A step inside one operation.
LEMMA WorkGoes ==
    ASSUME GcInv, AloneOK, NEW p \in Runs, run[p].pc \in Holding \ {"prepare", "rmdir"},
           NEW op \in Runs, run[p].op = op, NEW pc \in Midway,
           NEW phase, NEW c, Went(p, pc, phase, c), UNCHANGED <<row, lease, refs>>,
           \A r \in Runs \ {op} : /\ journal'[r] = journal[r] /\ container'[r] = container[r]
                                  /\ quarantine'[r] = quarantine[r],
           original' \in {Object, Nothing}, Open(op)', OpOK(op)', PlaceOK(p)'
    PROVE  AloneOK' /\ Works(p)'
<1>1. /\ op \in Runs /\ SoloOK(p) /\ PlaceOK(p) /\ Open(op) /\ run'[p].op = op
      /\ \A r \in Runs \ {op} : ~Open(r)
  BY WorkKnows DEF Went
<1>2. \A r \in Runs : OpOK(r) /\ (run[r].pc = "idle" => journal[r].phase = "none")
  BY DEF AloneOK, WorldOK
<1>3. ASSUME NEW r \in Runs \ {op}
      PROVE  OpOK(r)' /\ ~Open(r)' /\ journal'[r] = journal[r] /\ container'[r] = container[r]
  <2>1. journal'[r] = journal[r] /\ container'[r] = container[r] /\ quarantine'[r] = quarantine[r]
    OBVIOUS
  <2> QED
    BY <1>1, <1>2, <2>1 DEF OpOK, Open
<1>4. OpOK(op)' /\ Open(op)'
  OBVIOUS
<1>5. WorldOK'
  BY <1>1, <1>3, <1>4 DEF WorldOK
<1>6. \A q \in Runs \ {p} : ~Alive(q)' /\ run'[q] = run[q]
  BY <1>1 DEF Went, SoloOK, Alive
<1>7. /\ Works(p)' /\ run'[p].pc = pc
      /\ run'[p].pc \notin {"idle", "next", "tidy", "validate", "acquire", "rmdir", "prepare-absent",
                             "absent"}
  BY DEF Went, Works, Midway, Holding
<1>8. \A q \in Runs : run'[q].pc = "idle" => journal'[q].phase = "none"
  <2>1. run[op].pc # "idle"
    BY <1>1, <1>2 DEF Open
  <2> QED
    BY <1>2, <1>3, <1>6, <1>7, <2>1
<1>9. SoloOK(p)'
  <2>1. Works(p) /\ run[p].pc # "rmdir"
    BY DEF Works
  <2>2. op # p => journal'[p].phase = "none"
    BY <1>1, <1>3 DEF SoloOK
  <2>3. \A o \in run[p].todo : o # op /\ o \in Runs
    BY <1>1 DEF SoloOK, GcInv, RunsOK, RunOK, Locals
  <2>4. \A o \in run[p].todo : run[p].book[o] = journal'[o] /\ journal'[o].phase # "none"
    BY <1>1, <1>3, <2>3 DEF SoloOK
  <2>5. \A o \in Runs : Open(o)' \/ container'[o] # 0 => o \in run[p].todo \cup {op}
    BY <1>1, <1>3 DEF SoloOK
  <2>6. MyLease(p)' /\ lease'.live
    BY <1>1, <2>1 DEF SoloOK, MyLease
  <2> QED
    BY <1>1, <1>6, <1>7, <2>2, <2>4, <2>5, <2>6 DEF SoloOK, Went
<1> QED
  BY <1>5, <1>6, <1>7, <1>8, <1>9 DEF AloneOK

\* A phase is recorded of an operation that is open.
LEMMA RecordGoes ==
    ASSUME GcInv, AloneOK, NEW p \in Runs, run[p].pc \in Holding \ {"prepare", "rmdir"},
           NEW op \in Runs, run[p].op = op,
           NEW phase \in {"prepared", "linked", "unlinking", "quarantined", "deleting", "deleted"},
           NEW next \in Midway, Records(p, phase, next), UNCHANGED <<object, refs, disk>>,
           Order(phase) >= Order(journal[op].phase),
           run[p].container # 0, run[p].container = container[op],
           PhaseOK(op, phase)
    PROVE  /\ Went(p, next, phase, run[p].container)
           /\ journal'[op] = [phase |-> phase, absent |-> FALSE, container |-> run[p].container]
           /\ PlaceOK(p)' => AloneOK' /\ Works(p)'
<1>1. /\ op \in Runs /\ Open(op) /\ OpOK(op) /\ journal[op] \in Entry /\ row = "QUARANTINED"
      /\ original \in {Object, Nothing}
  BY WorkKnows
<1>2. journal[op].phase \in {"prepared", "linked", "unlinking", "quarantined", "deleting", "deleted"}
  BY <1>1, PhaseNamesAre DEF Open, Entry, PhaseNames
<1>3. Order(phase) \in Nat /\ Order(journal[op].phase) \in Nat
  BY <1>2, OrderIs
<1>4. /\ Went(p, next, phase, run[p].container) /\ UNCHANGED <<row, lease>>
      /\ journal'[op] = [phase |-> phase, absent |-> FALSE, container |-> run[p].container]
      /\ \A r \in Runs \ {op} : journal'[r] = journal[r]
  BY <1>1, <1>3, RecordsWent
<1>5. UNCHANGED <<original, quarantine, container, object>>
  BY DEF disk
<1>6. Open(op)'
  BY <1>4 DEF Open
<1>7. PhaseOK(op, phase)'
  BY <1>4, <1>5 DEF PhaseOK, Untouched, Linked, Moved, Gone
<1>8. OpOK(op)'
  <2>1. journal'[op].phase = phase /\ journal'[op].container = run[p].container /\ ~journal'[op].absent
    BY <1>4
  <2> QED
    BY <1>1, <1>4, <1>5, <1>6, <1>7, <2>1 DEF OpOK
<1>9. ASSUME PlaceOK(p)' PROVE AloneOK' /\ Works(p)'
  BY <1>1, <1>4, <1>5, <1>6, <1>8, <1>9, WorkGoes DEF Midway
<1> QED
  BY <1>4, <1>9

\* A step that only goes on, or that changes nothing but the disk under one operation.
LEMMA GotoGoes ==
    ASSUME GcInv, AloneOK, NEW p \in Runs, run[p].pc \in Holding \ {"prepare", "rmdir"},
           NEW op \in Runs, run[p].op = op, NEW pc \in Midway, NEW c, Went(p, pc, run[p].phase, c),
           UNCHANGED <<object, row, lease, refs, journal>>,
           \A r \in Runs \ {op} : container'[r] = container[r] /\ quarantine'[r] = quarantine[r],
           original' \in {Object, Nothing}, PhaseOK(op, journal[op].phase)',
           journal[op].container # 0 => container'[op] = journal[op].container,
           PlaceOK(p)'
    PROVE  AloneOK' /\ Works(p)'
<1>1. op \in Runs /\ Open(op) /\ OpOK(op) /\ row = "QUARANTINED"
  BY WorkKnows
<1>2. run'[p].op = op
  BY DEF Went
<1>3. Open(op)'
  BY <1>1 DEF Open
<1>4. OpOK(op)'
  BY <1>1, <1>2, <1>3 DEF OpOK
<1> QED
  BY <1>1, <1>3, <1>4, WorkGoes DEF Midway

\* The container is made or found; where it is missing nothing has been moved.
LEMMA MakeContainerAlone ==
    ASSUME GcInv, AloneOK, NEW p \in Runs, MakeContainer(p)
    PROVE  AloneOK' /\ Works(p)'
<1>1. run[p].pc = "container" /\ run[p].pc \in Holding \ {"prepare", "rmdir"}
  BY DEF MakeContainer, Holding
<1>2. PICK op \in Runs : run[p].op = op
  BY <1>1, WorkKnows
<1> DEFINE entry == journal[op]
           known == run[p].container
           gone == run[p].phase = "deleted" /\ known # 0
                     /\ quarantine[op] = Nothing /\ original = Nothing
           makes == container[op] = 0 /\ ~gone
           exists == container[op] # 0 /\ ~Recovering(p)
           lost == makes /\ Recovering(p)
                     /\ (run[p].phase # "prepared" \/ ~IsCandidate(original))
           refused == exists \/ lost
           found == IF makes THEN known + 1 ELSE IF gone THEN known ELSE container[op]
           next == IF known = 0 THEN "note"
                   ELSE CASE run[p].phase \in {"prepared", "linked", "unlinking"} -> "prefix"
                          [] run[p].phase \in {"quarantined", "deleting"} -> "delete"
                          [] OTHER -> "finalize"
<1>3. /\ container' = IF makes /\ ~refused THEN [container EXCEPT ![op] = found] ELSE container
      /\ UNCHANGED <<object, refs, journal, original, quarantine, emptied>>
      /\ \/ refused /\ UNCHANGED journal
         \/ known \notin {0, found} /\ UNCHANGED journal
         \/ /\ run' = [run EXCEPT ![p].pc = next, ![p].container = found]
            /\ UNCHANGED <<row, lease>>
  BY <1>2 DEF MakeContainer
<1>4. /\ run[p] \in Locals /\ PlaceOK(p) /\ Open(op) /\ OpOK(op) /\ entry \in Entry
      /\ run[p].phase = entry.phase /\ (Recovering(p) <=> op # p)
      /\ original \in {Object, Nothing}
      /\ Untouched(op) => IsCandidate(original)
  BY <1>1, <1>2, WorkKnows
<1>5. /\ known = entry.container /\ known \in Nat
      /\ op = p => entry.phase = "prepared" /\ known = 0 /\ container[op] = 0 /\ Untouched(op)
  BY <1>1, <1>2, <1>4 DEF PlaceOK, Locals
<1>6. container[op] \in Nat /\ container \in [Runs -> Nat] /\ DOMAIN run = Runs
  BY DEF GcInv, TypeOK
<1>7. entry.phase \in {"prepared", "linked", "unlinking", "quarantined", "deleting", "deleted"}
  BY <1>4, PhaseNamesAre DEF Open, Entry, PhaseNames
<1>8. /\ entry.container # 0 => container[op] = entry.container
      /\ entry.phase # "prepared" => entry.container # 0
      /\ PhaseOK(op, entry.phase)
  BY <1>4 DEF OpOK
<1>9. makes => known = 0 /\ entry.phase = "prepared" /\ Untouched(op)
  BY <1>5, <1>7, <1>8 DEF PhaseOK
<1>10. ~refused /\ known \in {0, found} /\ found \in Nat \ {0} /\ (known = 0 => next = "note")
  <2>1. CASE makes
    BY <1>4, <1>5, <1>9, <2>1
  <2>2. CASE ~makes
    BY <1>4, <1>5, <1>6, <1>8, <2>2
  <2> QED
    BY <2>1, <2>2
<1>11. /\ known # 0 /\ entry.phase \in {"prepared", "linked", "unlinking"} => next = "prefix"
       /\ known # 0 /\ entry.phase \in {"quarantined", "deleting"} => next = "delete"
       /\ known # 0 /\ entry.phase = "deleted" => next = "finalize"
  BY <1>4
<1>12. container'[op] = found /\ \A r \in Runs \ {op} : container'[r] = container[r]
  BY <1>3, <1>6, <1>8, <1>10, <1>5
<1>13. known # 0 => found = known
  BY <1>10
<1>14. next \in {"note", "prefix", "delete", "finalize"}
  BY <1>7, <1>10, <1>11
<1> HIDE DEF next, found, makes, gone, exists, lost, refused, known
<1>15. run' = [run EXCEPT ![p].pc = next, ![p].container = found] /\ UNCHANGED <<row, lease>>
  BY <1>3, <1>10
<1>16. Went(p, next, run[p].phase, found)
  BY <1>4, <1>6, <1>15 DEF Went, Locals
<1>17. PhaseOK(op, entry.phase)'
  BY <1>3, <1>8 DEF PhaseOK, Untouched, Linked, Moved, Gone
<1>18. PlaceOK(p)'
  <2>1. /\ run'[p].pc = next /\ run'[p].op = op /\ run'[p].phase = entry.phase /\ run'[p].container = found
        /\ run'[p].pin = run[p].pin /\ journal' = journal /\ container'[op] = found
    BY <1>2, <1>3, <1>4, <1>12, <1>16 DEF Went
  <2>2. op = p => run[p].pin = Object
    BY <1>1, <1>2, <1>4 DEF PlaceOK, Works
  <2>3. CASE known = 0
    <3>1. next = "note" /\ entry.phase = "prepared" /\ entry.container = 0
      BY <1>5, <1>8, <1>10, <2>3
    <3> QED
      BY <1>3, <1>4, <1>10, <2>1, <2>2, <3>1 DEF PlaceOK, Works, Holding, Open
  <2>4. CASE known # 0
    <3>1. op # p /\ found = entry.container
      BY <1>5, <1>13, <2>4
    <3> QED
      BY <1>3, <1>4, <1>7, <1>10, <1>11, <2>1, <2>2, <2>4, <3>1 DEF PlaceOK, Works, Holding, Open
  <2> QED
    BY <2>3, <2>4
<1>19. entry.container # 0 => container'[op] = entry.container
  BY <1>5, <1>12, <1>13
<1> QED
  BY <1>1, <1>2, <1>3, <1>4, <1>12, <1>14, <1>15, <1>16, <1>17, <1>18, <1>19, GotoGoes DEF Midway, Holding

\* Its inode joins the journal.
LEMMA NoteContainerAlone ==
    ASSUME GcInv, AloneOK, NEW p \in Runs, NoteContainer(p)
    PROVE  AloneOK' /\ Works(p)'
<1>1. run[p].pc = "note" /\ run[p].pc \in Holding \ {"prepare", "rmdir"}
  BY DEF NoteContainer, Holding
<1>2. PICK op \in Runs : run[p].op = op
  BY <1>1, WorkKnows
<1>3. /\ PlaceOK(p) /\ OpOK(op) /\ Open(op) /\ run[p].phase = journal[op].phase
  BY <1>1, <1>2, WorkKnows
<1>4. /\ journal[op].phase = "prepared" /\ journal[op].container = 0
      /\ run[p].container = container[op] /\ run[p].container # 0
      /\ op = p => run[p].pin = Object
  BY <1>1, <1>2, <1>3 DEF PlaceOK, Works, Holding
<1>5. Untouched(op) /\ PhaseOK(op, "prepared")
  BY <1>3, <1>4 DEF OpOK, PhaseOK
<1>6. Records(p, "prepared", "prefix") /\ UNCHANGED <<object, refs, disk>>
  BY <1>3, <1>4 DEF NoteContainer
<1>7. /\ Went(p, "prefix", "prepared", run[p].container)
      /\ journal'[op] = [phase |-> "prepared", absent |-> FALSE, container |-> run[p].container]
      /\ PlaceOK(p)' => AloneOK' /\ Works(p)'
  <2>1. Order("prepared") >= Order(journal[op].phase)
    BY <1>4, OrderIs
  <2> QED
    BY <1>1, <1>2, <1>4, <1>5, <1>6, <2>1, RecordGoes DEF Midway, Holding
<1>8. PlaceOK(p)'
  BY <1>2, <1>4, <1>5, <1>6, <1>7 DEF PlaceOK, Works, Holding, Open, Went, disk, Untouched
<1> QED
  BY <1>7, <1>8

\* What a run knows once its container is in the journal.
LEMMA PlaceKnows ==
    ASSUME GcInv, AloneOK, NEW p \in Runs, run[p].pc \in Midway \ {"container", "note"}
    PROVE  /\ run[p].op \in Runs /\ PlaceOK(p) /\ Open(run[p].op)
           /\ run[p].phase = journal[run[p].op].phase
           /\ run[p].container = container[run[p].op] /\ run[p].container # 0
           /\ run[p].container = journal[run[p].op].container
           /\ PhaseOK(run[p].op, journal[run[p].op].phase)
           /\ run[p].op = p => run[p].pin = Object
<1>1. run[p].pc \in Holding \ {"prepare", "rmdir"} /\ run[p].pc \in Holding \ {"prepare", "container"}
      /\ run[p].pc \in Holding \ {"prepare", "container", "note"} /\ Works(p)
  BY DEF Midway, Holding, Works
<1>2. run[p].op \in Runs /\ PlaceOK(p) /\ Open(run[p].op) /\ OpOK(run[p].op)
  BY <1>1, WorkKnows
<1> QED
  BY <1>1, <1>2 DEF PlaceOK, OpOK

\* An apply finds the object it holds open; a recovery finds what the phase left behind.
LEMMA ResumePrefixAlone ==
    ASSUME GcInv, AloneOK, NEW p \in Runs, ResumePrefix(p)
    PROVE  AloneOK' /\ Works(p)'
<1>1. run[p].pc = "prefix" /\ run[p].pc \in Midway \ {"container", "note"}
      /\ run[p].pc \in Holding \ {"prepare", "rmdir"}
  BY DEF ResumePrefix, Holding, Midway
<1>2. PICK op \in Runs : run[p].op = op
  BY <1>1, WorkKnows
<1>3. /\ PlaceOK(p) /\ Open(op) /\ run[p].phase = journal[op].phase
      /\ run[p].container = container[op] /\ run[p].container # 0
      /\ run[p].container = journal[op].container
      /\ PhaseOK(op, journal[op].phase) /\ (op = p => run[p].pin = Object)
  BY <1>1, <1>2, PlaceKnows
<1>4. /\ Renewable(p) /\ (Recovering(p) <=> op # p)
      /\ original \in {Object, Nothing}
      /\ Untouched(op) => IsCandidate(original)
      /\ Moved(op) => IsCandidate(quarantine[op])
      /\ Linked(op) /\ object.kind = "file" => TwoLinks(op)
  BY <1>1, <1>2, WorkKnows
<1>5. /\ journal[op].phase \in {"prepared", "linked", "unlinking"}
      /\ op = p => journal[op].phase = "prepared" /\ Untouched(op)
  BY <1>1, <1>2, <1>3 DEF PlaceOK
<1>6. object.kind \in {"file", "directory"} /\ Object # Nothing
  BY KindAssumption DEF GcInv, TypeOK, Object, Nothing
<1>7. UNCHANGED <<object, refs, journal, original, quarantine, container, emptied>>
  BY DEF ResumePrefix, disk
<1>8. PICK pc \in {"move", "unlinking", "unlink", "linked", "quarantined"} :
        /\ Goto(p, pc) /\ UNCHANGED <<row, lease>>
        /\ pc = "move" => journal[op].phase = "prepared" /\ Untouched(op)
        /\ pc = "unlinking" => journal[op].phase = "linked"
        /\ pc = "unlink" => journal[op].phase = "unlinking" /\ op # p
        /\ pc = "linked" => journal[op].phase = "prepared" /\ Linked(op) /\ object.kind = "file"
        /\ pc = "quarantined" => journal[op].phase = "prepared" /\ Moved(op)
  <2>1. CASE op = p
    <3>1. /\ Renewable(p) /\ original = run[p].pin /\ IsCandidate(original)
          /\ quarantine[op] = Nothing
      BY <1>3, <1>4, <1>5, <2>1 DEF Untouched
    <3>2. Goto(p, "move") /\ UNCHANGED <<row, lease>>
      BY <1>2, <1>4, <2>1, <3>1 DEF ResumePrefix
    <3> QED
      BY <1>5, <2>1, <3>2
  <2>2. CASE op # p /\ journal[op].phase = "linked"
    <3>1. TwoLinks(op)
      BY <1>3, <1>4, <2>2 DEF PhaseOK
    <3>2. Goto(p, "unlinking") /\ UNCHANGED <<row, lease>>
      BY <1>2, <1>3, <1>4, <2>2, <3>1 DEF ResumePrefix
    <3> QED
      BY <2>2, <3>2
  <2>3. CASE op # p /\ journal[op].phase = "unlinking"
    <3>1. TwoLinks(op) \/ (original = Nothing /\ quarantine[op] # Nothing
                           /\ IsCandidate(quarantine[op]))
      BY <1>3, <1>4, <1>6, <2>3 DEF PhaseOK, Moved
    <3>2. Goto(p, "unlink") /\ UNCHANGED <<row, lease>>
      BY <1>2, <1>3, <1>4, <2>3, <3>1 DEF ResumePrefix
    <3> QED
      BY <2>3, <3>2
  <2>4. CASE op # p /\ journal[op].phase = "prepared"
    <3>1. CASE Untouched(op)
      <4>1. Goto(p, "move") /\ UNCHANGED <<row, lease>>
        BY <1>2, <1>3, <1>4, <1>6, <2>4, <3>1 DEF ResumePrefix, Untouched
      <4> QED
        BY <2>4, <3>1, <4>1
    <3>2. CASE object.kind = "file" /\ Linked(op)
      <4>1. Goto(p, "linked") /\ UNCHANGED <<row, lease>>
        BY <1>2, <1>3, <1>4, <1>6, <2>4, <3>2 DEF ResumePrefix, Linked
      <4> QED
        BY <2>4, <3>2, <4>1
    <3>3. CASE object.kind = "directory" /\ Moved(op)
      <4>1. Goto(p, "quarantined") /\ UNCHANGED <<row, lease>>
        BY <1>2, <1>3, <1>4, <1>6, <2>4, <3>3 DEF ResumePrefix, Moved
      <4> QED
        BY <2>4, <3>3, <4>1
    <3> QED
      BY <1>3, <1>6, <2>4, <3>1, <3>2, <3>3 DEF PhaseOK
  <2> QED
    BY <1>5, <2>1, <2>2, <2>3, <2>4
<1>9. Went(p, pc, run[p].phase, run[p].container)
  BY <1>8, GotoWent
<1>10. PhaseOK(op, journal[op].phase)'
  BY <1>3, <1>7 DEF PhaseOK, Untouched, Linked, Moved, Gone
<1>11. PlaceOK(p)'
  <2>1. /\ run'[p].pc = pc /\ run'[p].op = op /\ run'[p].phase = run[p].phase
        /\ run'[p].container = run[p].container /\ run'[p].pin = run[p].pin
    BY <1>2, <1>9 DEF Went
  <2> QED
    BY <1>3, <1>5, <1>7, <1>8, <2>1 DEF PlaceOK, Works, Holding, Open, Untouched, Linked, Moved
<1>12. pc \in Midway
  BY DEF Midway, Holding
<1> QED
  BY <1>1, <1>2, <1>3, <1>4, <1>7, <1>8, <1>9, <1>10, <1>11, <1>12, GotoGoes

\* What is moved is the object, and all of it.
LEMMA MoveAlone ==
    ASSUME GcInv, AloneOK, NEW p \in Runs, Move(p)
    PROVE  AloneOK' /\ Works(p)'
<1>1. run[p].pc = "move" /\ run[p].pc \in Midway \ {"container", "note"}
      /\ run[p].pc \in Holding \ {"prepare", "rmdir"}
  BY DEF Move, Holding, Midway
<1>2. PICK op \in Runs : run[p].op = op
  BY <1>1, WorkKnows
<1>3. /\ PlaceOK(p) /\ Open(op) /\ run[p].phase = journal[op].phase
      /\ run[p].container = container[op] /\ run[p].container # 0
      /\ run[p].container = journal[op].container /\ (op = p => run[p].pin = Object)
  BY <1>1, <1>2, PlaceKnows
<1>4. journal[op].phase = "prepared" /\ Untouched(op)
  BY <1>1, <1>2, <1>3 DEF PlaceOK
<1>5. IsCandidate(original) /\ original = Object /\ quarantine[op] = Nothing
  BY <1>1, <1>2, <1>4, WorkKnows DEF Untouched
<1>6. object.kind \in {"file", "directory"} /\ Object # Nothing
  BY KindAssumption DEF GcInv, TypeOK, Object, Nothing
<1>7. UNCHANGED <<object, refs, journal, container, emptied>>
  BY DEF Move
<1> DEFINE pc == IF object.kind = "file" THEN "linked" ELSE "quarantined"
<1>8. /\ quarantine' = [quarantine EXCEPT ![op] = original]
      /\ original' = IF object.kind = "directory" THEN Nothing ELSE original
      /\ Goto(p, pc) /\ UNCHANGED <<row, lease>>
  BY <1>2, <1>3, <1>5, <1>6 DEF Move, IsCandidate
<1>9. Went(p, pc, run[p].phase, run[p].container)
  BY <1>8, GotoWent
<1>10. /\ quarantine'[op] = Object /\ \A r \in Runs \ {op} : quarantine'[r] = quarantine[r]
       /\ original' = IF object.kind = "directory" THEN Nothing ELSE Object
       /\ pc \in Midway /\ pc \in {"linked", "quarantined"}
  BY <1>5, <1>8 DEF GcInv, TypeOK, Midway, Holding
<1>11. IF object.kind = "file" THEN Linked(op)' ELSE Moved(op)'
  BY <1>6, <1>10 DEF Linked, Moved
<1>12. PhaseOK(op, journal[op].phase)'
  BY <1>3, <1>4, <1>6, <1>7, <1>11 DEF PhaseOK
<1>13. PlaceOK(p)'
  <2>1. /\ run'[p].pc = pc /\ run'[p].op = op /\ run'[p].phase = run[p].phase
        /\ run'[p].container = run[p].container /\ run'[p].pin = run[p].pin
    BY <1>2, <1>9 DEF Went
  <2> QED
    BY <1>3, <1>4, <1>7, <1>11, <2>1 DEF PlaceOK, Works, Holding, Open
<1>14. /\ original' \in {Object, Nothing} /\ container'[op] = journal[op].container
       /\ \A r \in Runs \ {op} : container'[r] = container[r]
  BY <1>3, <1>7, <1>10
<1>15. pc \in Midway /\ UNCHANGED <<object, row, lease, refs, journal>>
  BY <1>7, <1>8, <1>10
<1> HIDE DEF pc
<1> QED
  BY <1>1, <1>2, <1>9, <1>10, <1>12, <1>13, <1>14, <1>15, GotoGoes

LEMMA RecordLinkedAlone ==
    ASSUME GcInv, AloneOK, NEW p \in Runs, RecordLinked(p)
    PROVE  AloneOK' /\ Works(p)'
<1>1. run[p].pc = "linked" /\ run[p].pc \in Midway \ {"container", "note"}
      /\ run[p].pc \in Holding \ {"prepare", "rmdir"}
  BY DEF RecordLinked, Holding, Midway
<1>2. PICK op \in Runs : run[p].op = op
  BY <1>1, WorkKnows
<1>3. /\ PlaceOK(p) /\ run[p].container = container[op] /\ run[p].container # 0
      /\ (op = p => run[p].pin = Object)
  BY <1>1, <1>2, PlaceKnows
<1>4. journal[op].phase = "prepared" /\ Linked(op) /\ object.kind = "file"
  BY <1>1, <1>2, <1>3 DEF PlaceOK
<1>5. Records(p, "linked", "unlinking") /\ UNCHANGED <<object, refs, disk>>
  BY DEF RecordLinked
<1>6. Order("linked") >= Order(journal[op].phase) /\ PhaseOK(op, "linked")
  BY <1>4, OrderIs DEF PhaseOK
<1>7. /\ Went(p, "unlinking", "linked", run[p].container)
      /\ journal'[op] = [phase |-> "linked", absent |-> FALSE, container |-> run[p].container]
      /\ PlaceOK(p)' => AloneOK' /\ Works(p)'
  BY <1>1, <1>2, <1>3, <1>5, <1>6, RecordGoes DEF Midway, Holding
<1>8. PlaceOK(p)'
  BY <1>2, <1>3, <1>5, <1>7 DEF PlaceOK, Works, Holding, Open, Went, disk
<1> QED
  BY <1>7, <1>8

LEMMA RecordUnlinkingAlone ==
    ASSUME GcInv, AloneOK, NEW p \in Runs, RecordUnlinking(p)
    PROVE  AloneOK' /\ Works(p)'
<1>1. run[p].pc = "unlinking" /\ run[p].pc \in Midway \ {"container", "note"}
      /\ run[p].pc \in Holding \ {"prepare", "rmdir"}
  BY DEF RecordUnlinking, Holding, Midway
<1>2. PICK op \in Runs : run[p].op = op
  BY <1>1, WorkKnows
<1>3. /\ PlaceOK(p) /\ run[p].container = container[op] /\ run[p].container # 0
      /\ PhaseOK(op, journal[op].phase) /\ (op = p => run[p].pin = Object)
  BY <1>1, <1>2, PlaceKnows
<1>4. journal[op].phase = "linked"
  BY <1>1, <1>2, <1>3 DEF PlaceOK
<1>5. Records(p, "unlinking", "unlink") /\ UNCHANGED <<object, refs, disk>>
  BY DEF RecordUnlinking
<1>6. Order("unlinking") >= Order(journal[op].phase) /\ Linked(op) /\ PhaseOK(op, "unlinking")
  BY <1>3, <1>4, OrderIs DEF PhaseOK
<1>7. /\ Went(p, "unlink", "unlinking", run[p].container)
      /\ journal'[op] = [phase |-> "unlinking", absent |-> FALSE, container |-> run[p].container]
      /\ PlaceOK(p)' => AloneOK' /\ Works(p)'
  BY <1>1, <1>2, <1>3, <1>5, <1>6, RecordGoes DEF Midway, Holding
<1>8. Linked(op)'
  BY <1>5, <1>6 DEF Linked, disk
<1>9. PlaceOK(p)'
  BY <1>2, <1>3, <1>5, <1>7, <1>8 DEF PlaceOK, Works, Holding, Open, Went, disk
<1> QED
  BY <1>7, <1>9

\* The original name is there, or a recovery finds it gone.
LEMMA RenewForUnlinkAlone ==
    ASSUME GcInv, AloneOK, NEW p \in Runs, RenewForUnlink(p)
    PROVE  AloneOK' /\ Works(p)'
<1>1. run[p].pc = "unlink" /\ run[p].pc \in Midway \ {"container", "note"}
      /\ run[p].pc \in Holding \ {"prepare", "rmdir"}
  BY DEF RenewForUnlink, Holding, Midway
<1>2. PICK op \in Runs : run[p].op = op
  BY <1>1, WorkKnows
<1>3. /\ PlaceOK(p) /\ Open(op) /\ run[p].phase = journal[op].phase
      /\ run[p].container = container[op] /\ run[p].container # 0
      /\ run[p].container = journal[op].container
      /\ PhaseOK(op, journal[op].phase) /\ (op = p => run[p].pin = Object)
  BY <1>1, <1>2, PlaceKnows
<1>4. journal[op].phase = "unlinking" /\ (op = p => Linked(op))
  BY <1>1, <1>2, <1>3 DEF PlaceOK
<1>5. Renewable(p) /\ (Recovering(p) <=> op # p)
  BY <1>1, <1>2, WorkKnows
<1>6. object.kind = "file" /\ (Linked(op) \/ Moved(op))
  BY <1>3, <1>4 DEF PhaseOK
<1>7. UNCHANGED <<object, refs, journal, disk, original, quarantine, container>>
  BY DEF RenewForUnlink, disk
<1>8. original' \in {Object, Nothing}
  BY <1>6, <1>7 DEF Linked, Moved
<1>9. PhaseOK(op, journal[op].phase)'
  BY <1>3, <1>7 DEF PhaseOK, Untouched, Linked, Moved, Gone
<1>10. CASE Linked(op)
  <2>1. Goto(p, "links") /\ UNCHANGED <<row, lease>>
    BY <1>5, <1>10 DEF RenewForUnlink, Linked, Nothing, Object
  <2>2. Went(p, "links", run[p].phase, run[p].container)
    BY <2>1, GotoWent
  <2>3. Linked(op)'
    BY <1>7, <1>10 DEF Linked
  <2>4. PlaceOK(p)'
    BY <1>2, <1>3, <1>4, <1>7, <2>2, <2>3 DEF PlaceOK, Works, Holding, Open, Went
  <2> QED
    BY <1>1, <1>2, <1>3, <1>7, <1>8, <1>9, <2>1, <2>2, <2>4, GotoGoes DEF Midway, Holding
<1>11. CASE Moved(op)
  <2>1. op # p
    BY <1>4, <1>11 DEF Linked, Moved, Nothing, Object
  <2>2. Goto(p, "quarantined") /\ UNCHANGED <<row, lease>>
    BY <1>5, <1>11, <2>1 DEF RenewForUnlink, Moved
  <2>3. Went(p, "quarantined", run[p].phase, run[p].container)
    BY <2>2, GotoWent
  <2>4. Moved(op)'
    BY <1>7, <1>11 DEF Moved
  <2>5. PlaceOK(p)'
    BY <1>2, <1>3, <1>4, <1>7, <2>1, <2>3, <2>4 DEF PlaceOK, Works, Holding, Open, Went
  <2> QED
    BY <1>1, <1>2, <1>3, <1>7, <1>8, <1>9, <2>2, <2>3, <2>5, GotoGoes DEF Midway, Holding
<1> QED
  BY <1>6, <1>10, <1>11

\* Nobody has touched either name since.
LEMMA CheckLinksAlone ==
    ASSUME GcInv, AloneOK, NEW p \in Runs, CheckLinks(p)
    PROVE  AloneOK' /\ Works(p)'
<1>1. run[p].pc = "links" /\ run[p].pc \in Midway \ {"container", "note"}
      /\ run[p].pc \in Holding \ {"prepare", "rmdir"}
  BY DEF CheckLinks, Holding, Midway
<1>2. PICK op \in Runs : run[p].op = op
  BY <1>1, WorkKnows
<1>3. /\ PlaceOK(p) /\ Open(op) /\ run[p].phase = journal[op].phase
      /\ run[p].container = container[op] /\ run[p].container # 0
      /\ run[p].container = journal[op].container
      /\ PhaseOK(op, journal[op].phase) /\ (op = p => run[p].pin = Object)
  BY <1>1, <1>2, PlaceKnows
<1>4. journal[op].phase = "unlinking" /\ Linked(op)
  BY <1>1, <1>2, <1>3 DEF PlaceOK
<1>5. object.kind = "file"
  BY <1>3, <1>4 DEF PhaseOK
<1>6. TwoLinks(op) /\ run[p] \in Locals
  BY <1>1, <1>2, <1>4, <1>5, WorkKnows
<1>7. UNCHANGED <<object, refs, journal, disk, original, quarantine, container>>
  BY DEF CheckLinks, disk
<1>8. run' = [run EXCEPT ![p].pc = "unlink-now", ![p].known = made] /\ UNCHANGED <<row, lease>>
  BY <1>2, <1>6 DEF CheckLinks
<1>9. Went(p, "unlink-now", run[p].phase, run[p].container)
  <2>1. DOMAIN run = Runs
    BY DEF GcInv, TypeOK
  <2> QED
    BY <1>6, <1>8, <2>1 DEF Went, Locals
<1>10. Linked(op)' /\ original' \in {Object, Nothing}
  BY <1>4, <1>7 DEF Linked
<1>11. PhaseOK(op, journal[op].phase)'
  BY <1>3, <1>7 DEF PhaseOK, Untouched, Linked, Moved, Gone
<1>12. PlaceOK(p)'
  BY <1>2, <1>3, <1>4, <1>7, <1>9, <1>10 DEF PlaceOK, Works, Holding, Open, Went
<1> QED
  BY <1>1, <1>2, <1>3, <1>7, <1>8, <1>9, <1>10, <1>11, <1>12, GotoGoes DEF Midway, Holding

\* The original name goes.
LEMMA UnlinkOriginalAlone ==
    ASSUME GcInv, AloneOK, NEW p \in Runs, UnlinkOriginal(p)
    PROVE  AloneOK' /\ Works(p)'
<1>1. run[p].pc = "unlink-now" /\ run[p].pc \in Midway \ {"container", "note"}
      /\ run[p].pc \in Holding \ {"prepare", "rmdir"}
  BY DEF UnlinkOriginal, Holding, Midway
<1>2. PICK op \in Runs : run[p].op = op
  BY <1>1, WorkKnows
<1>3. /\ PlaceOK(p) /\ Open(op) /\ run[p].phase = journal[op].phase
      /\ run[p].container = container[op] /\ run[p].container # 0
      /\ run[p].container = journal[op].container
      /\ PhaseOK(op, journal[op].phase) /\ (op = p => run[p].pin = Object)
  BY <1>1, <1>2, PlaceKnows
<1>4. journal[op].phase = "unlinking" /\ Linked(op)
  BY <1>1, <1>2, <1>3 DEF PlaceOK
<1>5. object.kind = "file" /\ run[p] \in Locals
  BY <1>1, <1>3, <1>4, WorkKnows DEF PhaseOK
<1>6. original # Nothing
  BY <1>4 DEF Linked, Nothing, Object
<1>7. UNCHANGED <<object, refs, journal, quarantine, container, emptied>>
  BY DEF UnlinkOriginal
<1>8. /\ original' = Nothing /\ UNCHANGED <<row, lease>>
      /\ run' = [run EXCEPT ![p].pc = "quarantined", ![p].known = {}]
  BY <1>6 DEF UnlinkOriginal
<1>9. Went(p, "quarantined", run[p].phase, run[p].container)
  <2>1. DOMAIN run = Runs
    BY DEF GcInv, TypeOK
  <2> QED
    BY <1>5, <1>8, <2>1 DEF Went, Locals
<1>10. Moved(op)'
  BY <1>4, <1>7, <1>8 DEF Linked, Moved
<1>11. PhaseOK(op, journal[op].phase)'
  BY <1>4, <1>5, <1>7, <1>10 DEF PhaseOK
<1>12. PlaceOK(p)'
  BY <1>2, <1>3, <1>4, <1>7, <1>9, <1>10 DEF PlaceOK, Works, Holding, Open, Went
<1> QED
  BY <1>1, <1>2, <1>3, <1>7, <1>8, <1>9, <1>11, <1>12, GotoGoes DEF Midway, Holding

LEMMA RecordQuarantinedAlone ==
    ASSUME GcInv, AloneOK, NEW p \in Runs, RecordQuarantined(p)
    PROVE  AloneOK' /\ Works(p)'
<1>1. run[p].pc = "quarantined" /\ run[p].pc \in Midway \ {"container", "note"}
      /\ run[p].pc \in Holding \ {"prepare", "rmdir"}
  BY DEF RecordQuarantined, Holding, Midway
<1>2. PICK op \in Runs : run[p].op = op
  BY <1>1, WorkKnows
<1>3. /\ PlaceOK(p) /\ run[p].container = container[op] /\ run[p].container # 0
      /\ (op = p => run[p].pin = Object)
  BY <1>1, <1>2, PlaceKnows
<1>4. journal[op].phase \in {"prepared", "unlinking"} /\ Moved(op)
  BY <1>1, <1>2, <1>3 DEF PlaceOK
<1>5. Records(p, "quarantined", "delete") /\ UNCHANGED <<object, refs, disk>>
  <2>1. IsCandidate(quarantine[op])
    BY <1>1, <1>2, <1>4, WorkKnows
  <2> QED
    BY <1>2, <2>1 DEF RecordQuarantined
<1>6. Order("quarantined") >= Order(journal[op].phase) /\ PhaseOK(op, "quarantined")
  BY <1>4, OrderIs DEF PhaseOK
<1>7. /\ Went(p, "delete", "quarantined", run[p].container)
      /\ journal'[op] = [phase |-> "quarantined", absent |-> FALSE, container |-> run[p].container]
      /\ PlaceOK(p)' => AloneOK' /\ Works(p)'
  BY <1>1, <1>2, <1>3, <1>5, <1>6, RecordGoes DEF Midway, Holding
<1>8. Moved(op)'
  BY <1>4, <1>5 DEF Moved, disk
<1>9. PlaceOK(p)'
  BY <1>2, <1>3, <1>5, <1>7, <1>8 DEF PlaceOK, Works, Holding, Open, Went, disk
<1> QED
  BY <1>7, <1>9

\* A recovery may find the object deleted already.
LEMMA RecordDeletingAlone ==
    ASSUME GcInv, AloneOK, NEW p \in Runs, RecordDeleting(p)
    PROVE  AloneOK' /\ Works(p)'
<1>1. run[p].pc = "delete" /\ run[p].pc \in Midway \ {"container", "note"}
      /\ run[p].pc \in Holding \ {"prepare", "rmdir"}
  BY DEF RecordDeleting, Holding, Midway
<1>2. PICK op \in Runs : run[p].op = op
  BY <1>1, WorkKnows
<1>3. /\ PlaceOK(p) /\ Open(op) /\ run[p].phase = journal[op].phase
      /\ run[p].container = container[op] /\ run[p].container # 0
      /\ run[p].container = journal[op].container
      /\ PhaseOK(op, journal[op].phase) /\ (op = p => run[p].pin = Object)
  BY <1>1, <1>2, PlaceKnows
<1>4. journal[op].phase \in {"quarantined", "deleting"} /\ (op = p => Moved(op))
  BY <1>1, <1>2, <1>3 DEF PlaceOK
<1>5. /\ Renewable(p) /\ (Recovering(p) <=> op # p) /\ original \in {Object, Nothing}
      /\ Moved(op) => IsCandidate(quarantine[op])
  BY <1>1, <1>2, WorkKnows
<1>6. UNCHANGED <<object, refs, disk>> /\ Object # Nothing
  BY DEF RecordDeleting, Object, Nothing
<1>7. CASE Moved(op)
  <2>1. Records(p, "deleting", "erase")
    BY <1>2, <1>5, <1>6, <1>7 DEF RecordDeleting, Moved
  <2>2. Order("deleting") >= Order(journal[op].phase) /\ PhaseOK(op, "deleting")
    BY <1>4, <1>7, OrderIs DEF PhaseOK
  <2>3. /\ Went(p, "erase", "deleting", run[p].container)
        /\ journal'[op] = [phase |-> "deleting", absent |-> FALSE, container |-> run[p].container]
        /\ PlaceOK(p)' => AloneOK' /\ Works(p)'
    BY <1>1, <1>2, <1>3, <1>6, <2>1, <2>2, RecordGoes DEF Midway, Holding
  <2>4. Moved(op)'
    BY <1>6, <1>7 DEF Moved, disk
  <2>5. /\ run'[p].pc = "erase" /\ run'[p].op = op /\ run'[p].phase = "deleting"
        /\ run'[p].container = run[p].container /\ run'[p].pin = run[p].pin
        /\ journal'[op].phase = "deleting" /\ journal'[op].container = run[p].container
        /\ container' = container
    BY <1>2, <1>6, <2>3 DEF Went, disk
  <2>6. PlaceOK(p)'
    BY <1>3, <2>4, <2>5 DEF PlaceOK, Works, Holding, Open
  <2> QED
    BY <2>3, <2>6
<1>8. CASE ~Moved(op)
  <2>1. journal[op].phase = "deleting" /\ Gone(op) /\ op # p
    BY <1>3, <1>4, <1>8 DEF PhaseOK
  <2>2. Goto(p, "deleted") /\ UNCHANGED <<row, lease, journal>>
    BY <1>2, <1>5, <2>1 DEF RecordDeleting, Gone
  <2>3. Went(p, "deleted", run[p].phase, run[p].container)
    BY <2>2, GotoWent
  <2>4. Gone(op)' /\ UNCHANGED <<original, quarantine, container>>
    BY <1>6, <2>1 DEF Gone, disk
  <2>5. PhaseOK(op, journal[op].phase)'
    BY <2>1, <2>2, <2>4 DEF PhaseOK
  <2>6. PlaceOK(p)'
    BY <1>2, <1>3, <2>1, <2>2, <2>3, <2>4 DEF PlaceOK, Works, Holding, Open, Went
  <2> QED
    BY <1>1, <1>2, <1>3, <1>5, <1>6, <2>2, <2>3, <2>4, <2>5, <2>6, GotoGoes DEF Midway, Holding
<1> QED
  BY <1>7, <1>8

\* Entries first; then the object itself is gone, and everything of it.
LEMMA EraseAlone ==
    ASSUME GcInv, AloneOK, ~object.undeletable, NEW p \in Runs, Erase(p)
    PROVE  AloneOK' /\ Works(p)'
<1>1. run[p].pc = "erase" /\ run[p].pc \in Midway \ {"container", "note"}
      /\ run[p].pc \in Holding \ {"prepare", "rmdir"}
  BY DEF Erase, Holding, Midway
<1>2. PICK op \in Runs : run[p].op = op
  BY <1>1, WorkKnows
<1>3. /\ PlaceOK(p) /\ Open(op) /\ run[p].phase = journal[op].phase
      /\ run[p].container = container[op] /\ run[p].container # 0
      /\ run[p].container = journal[op].container /\ (op = p => run[p].pin = Object)
  BY <1>1, <1>2, PlaceKnows
<1>4. journal[op].phase = "deleting" /\ Moved(op)
  BY <1>1, <1>2, <1>3 DEF PlaceOK
<1>5. Renewable(p) /\ IsCandidate(quarantine[op])
  BY <1>1, <1>2, <1>4, WorkKnows
<1>6. UNCHANGED <<object, refs, journal, original, container, row, lease>>
  BY <1>2, <1>5 DEF Erase
<1>7. CASE UNCHANGED <<quarantine, run>>
  BY <1>1, <1>6, <1>7 DEF AloneOK, WorldOK, OpOK, Open, PhaseOK, Untouched, Linked, Moved, Gone, Alive,
       SoloOK, PlaceOK, Works, MyLease
<1>8. CASE quarantine' = [quarantine EXCEPT ![op] = Nothing] /\ Goto(p, "deleted")
  <2>1. Went(p, "deleted", run[p].phase, run[p].container)
    BY <1>8, GotoWent
  <2>2. quarantine'[op] = Nothing /\ \A r \in Runs \ {op} : quarantine'[r] = quarantine[r]
    BY <1>8 DEF GcInv, TypeOK
  <2>3. Gone(op)' /\ original' \in {Object, Nothing}
    BY <1>4, <1>6, <2>2 DEF Gone, Moved
  <2>4. PhaseOK(op, journal[op].phase)'
    BY <1>4, <1>6, <2>3 DEF PhaseOK
  <2>5. PlaceOK(p)'
    BY <1>2, <1>3, <1>4, <1>6, <2>1, <2>3 DEF PlaceOK, Works, Holding, Open, Went
  <2> QED
    BY <1>1, <1>2, <1>3, <1>6, <2>1, <2>2, <2>3, <2>4, <2>5, GotoGoes DEF Midway, Holding
<1> QED
  BY <1>2, <1>5, <1>7, <1>8 DEF Erase

LEMMA RecordDeletedAlone ==
    ASSUME GcInv, AloneOK, NEW p \in Runs, RecordDeleted(p)
    PROVE  AloneOK' /\ Works(p)'
<1>1. run[p].pc = "deleted" /\ run[p].pc \in Midway \ {"container", "note"}
      /\ run[p].pc \in Holding \ {"prepare", "rmdir"}
  BY DEF RecordDeleted, Holding, Midway
<1>2. PICK op \in Runs : run[p].op = op
  BY <1>1, WorkKnows
<1>3. /\ PlaceOK(p) /\ run[p].container = container[op] /\ run[p].container # 0
      /\ (op = p => run[p].pin = Object)
  BY <1>1, <1>2, PlaceKnows
<1>4. journal[op].phase = "deleting" /\ Gone(op)
  BY <1>1, <1>2, <1>3 DEF PlaceOK
<1>5. Records(p, "deleted", "finalize") /\ UNCHANGED <<object, refs, disk>>
  BY DEF RecordDeleted
<1>6. Order("deleted") >= Order(journal[op].phase) /\ PhaseOK(op, "deleted")
  BY <1>4, OrderIs DEF PhaseOK
<1>7. /\ Went(p, "finalize", "deleted", run[p].container)
      /\ journal'[op] = [phase |-> "deleted", absent |-> FALSE, container |-> run[p].container]
      /\ PlaceOK(p)' => AloneOK' /\ Works(p)'
  BY <1>1, <1>2, <1>3, <1>5, <1>6, RecordGoes DEF Midway, Holding
<1>8. PlaceOK(p)'
  BY <1>2, <1>3, <1>5, <1>7 DEF PlaceOK, Works, Holding, Open, Went, disk
<1> QED
  BY <1>7, <1>8

\* A run that ended has left nothing open.
Ends(p) == run[p].pc = "ended" => Closed /\ run[p].outcome \notin {"failed", "contended"}

\* What a run that is alone knows before and after its operations.
LEMMA RestKnows ==
    ASSUME GcInv, AloneOK, NEW p \in Runs, Alive(p)
    PROVE  /\ run[p] \in Locals /\ DOMAIN run = Runs /\ SoloOK(p) /\ PlaceOK(p) /\ WorldOK
           /\ \A o \in Runs : OpOK(o) /\ journal[o] \in Entry
           /\ \A o \in Runs : run[o].pc = "idle" => journal[o].phase = "none"
BY DEF GcInv, TypeOK, RunsOK, RunOK, AloneOK, WorldOK

\* Only this run changes its place.
LEMMA AloneAgain ==
    ASSUME NEW p \in Runs, WorldOK', \A q \in Runs \ {p} : run'[q] = run[q] /\ ~Alive(q),
           \A q \in Runs : run[q].pc = "idle" => journal'[q].phase = "none",
           run'[p].pc # "idle", Alive(p)' => SoloOK(p)' /\ PlaceOK(p)'
    PROVE  AloneOK'
BY DEF AloneOK, Alive

\* The operation went well.
LEMMA DoneGoes ==
    ASSUME GcInv, NEW p \in Runs, run[p].outcome \in {"none", "done"}, Settle(p, "done")
    PROVE  /\ \A q \in Runs \ {p} : run'[q] = run[q]
           /\ run'[p].outcome = "done"
           /\ IF run[p].op # p
              THEN /\ run'[p].pc = "next" /\ run'[p].op = NoRun
                   /\ run'[p].todo = run[p].todo /\ run'[p].book = run[p].book
              ELSE run'[p].pc = "ended"
<1>1. run[p] \in Locals /\ DOMAIN run = Runs
  BY DEF GcInv, TypeOK, RunsOK, RunOK
<1>2. Worse(run[p].outcome, "done") = "done"
  BY DEF Worse
<1> DEFINE rest == [Idle EXCEPT !.todo = run[p].todo, !.book = run[p].book,
                                !.met = run[p].met, !.outcome = "done", !.pc = "next"]
           end == [Idle EXCEPT !.pc = "ended", !.met = run[p].met, !.outcome = "done"]
<1>3. /\ rest.pc = "next" /\ rest.op = NoRun /\ rest.todo = run[p].todo /\ rest.book = run[p].book
      /\ rest.outcome = "done" /\ end.pc = "ended" /\ end.outcome = "done"
  BY DEF Idle
<1>4. run' = [run EXCEPT ![p] = IF Recovering(p) THEN rest ELSE end]
  BY <1>2 DEF Settle
<1> HIDE DEF rest, end
<1> QED
  BY <1>1, <1>3, <1>4 DEF Recovering

LEMMA PrepareAlone ==
    ASSUME GcInv, AloneOK, NEW p \in Runs, Prepare(p)
    PROVE  AloneOK' /\ Ends(p)'
<1>1. run[p].pc = "prepare" /\ Alive(p) /\ Works(p)
  BY DEF Prepare, Alive, Works, Holding
<1>2. /\ run[p] \in Locals /\ DOMAIN run = Runs /\ SoloOK(p) /\ PlaceOK(p) /\ WorldOK
      /\ \A o \in Runs : OpOK(o) /\ journal[o] \in Entry
      /\ \A o \in Runs : run[o].pc = "idle" => journal[o].phase = "none"
  BY <1>1, RestKnows
<1>3. /\ run[p].op = p /\ row = "QUARANTINED" /\ journal[p].phase = "none" /\ run[p].phase = "none"
      /\ run[p].container = 0 /\ run[p].pin = Object
  BY <1>1, <1>2 DEF PlaceOK
<1>4. /\ run[p].todo = {} /\ run[p].outcome \in {"none", "done"} /\ MyLease(p) /\ lease.live
      /\ \A q \in Runs \ {p} : ~Alive(q)
      /\ \A o \in Runs : Open(o) \/ container[o] # 0 => o = p
  BY <1>1, <1>2, <1>3 DEF SoloOK
<1>5. \A o \in Runs : ~Open(o)
  BY <1>3, <1>4 DEF Open
<1>6. Untouched(p)
  BY <1>2, <1>3, <1>5 DEF WorldOK, OpOK, Untouched
<1>7. Records(p, "prepared", "container") /\ UNCHANGED <<object, refs, disk>>
  BY DEF Prepare
<1>8. /\ Went(p, "container", "prepared", 0) /\ UNCHANGED <<row, lease>>
      /\ journal'[p] = [phase |-> "prepared", absent |-> FALSE, container |-> 0]
      /\ \A r \in Runs \ {p} : journal'[r] = journal[r]
  <2>1. /\ Order("prepared") >= Order(journal[p].phase) /\ Order("prepared") \in Nat
        /\ Order(journal[p].phase) \in Nat
    BY <1>3, OrderIs
  <2> QED
    BY <1>3, <1>7, <2>1, RecordsWent
<1>9. /\ journal'[p].phase = "prepared" /\ journal'[p].container = 0 /\ ~journal'[p].absent
      /\ Open(p)' /\ Untouched(p)'
      /\ UNCHANGED <<object, row, lease, original, quarantine, container>>
  BY <1>6, <1>7, <1>8 DEF Open, Untouched, disk
<1>10. WorldOK'
  <2>1. OpOK(p)'
    BY <1>3, <1>9 DEF OpOK, PhaseOK
  <2>2. \A r \in Runs \ {p} : OpOK(r)' /\ ~Open(r)'
    BY <1>2, <1>5, <1>8, <1>9 DEF OpOK, Open
  <2> QED
    BY <1>2, <1>9, <2>1, <2>2 DEF WorldOK
<1>11. /\ run'[p].pc = "container" /\ run'[p].op = p /\ run'[p].phase = "prepared"
       /\ run'[p].container = 0 /\ run'[p].pin = Object /\ run'[p].todo = {}
       /\ run'[p].outcome \in {"none", "done"}
  BY <1>3, <1>4, <1>8 DEF Went
<1>12. \A q \in Runs \ {p} : run'[q] = run[q] /\ ~Alive(q)'
  BY <1>4, <1>8 DEF Went, Alive
<1>13. PlaceOK(p)'
  <2>1. container[p] = 0
    BY <1>2, <1>3 DEF OpOK
  <2> QED
    BY <1>9, <1>11, <2>1 DEF PlaceOK, Works, Holding
<1>14. SoloOK(p)'
  BY <1>3, <1>4, <1>5, <1>8, <1>9, <1>11, <1>12 DEF SoloOK, Open, MyLease
<1>15. \A q \in Runs : run[q].pc = "idle" => journal'[q].phase = "none"
  BY <1>1, <1>2, <1>8
<1> QED
  BY <1>4, <1>10, <1>11, <1>12, <1>13, <1>14, <1>15, AloneAgain DEF Ends

LEMMA FinalizeDeletedAlone ==
    ASSUME GcInv, AloneOK, NEW p \in Runs, FinalizeDeleted(p)
    PROVE  AloneOK' /\ Ends(p)'
<1>1. run[p].pc = "finalize" /\ run[p].pc \in Midway \ {"container", "note"} /\ Works(p) /\ Alive(p)
      /\ run[p].pc \in Holding \ {"prepare", "rmdir"}
  BY DEF FinalizeDeleted, Alive, Midway, Works, Holding
<1>2. PICK op \in Runs : run[p].op = op
  BY <1>1, WorkKnows
<1>3. /\ PlaceOK(p) /\ Open(op) /\ run[p].container = container[op] /\ run[p].container # 0
      /\ run[p].container = journal[op].container
      /\ PhaseOK(op, journal[op].phase) /\ (op = p => run[p].pin = Object)
  BY <1>1, <1>2, PlaceKnows
<1>4. journal[op].phase = "deleted" /\ Gone(op)
  BY <1>1, <1>2, <1>3 DEF PlaceOK, PhaseOK
<1>5. /\ Renewable(p) /\ SoloOK(p) /\ row = "QUARANTINED" /\ OpOK(op) /\ run[p] \in Locals
      /\ \A r \in Runs \ {op} : ~Open(r)
  BY <1>1, <1>2, WorkKnows
<1>6. /\ journal \in [Runs -> Entry] /\ DOMAIN run = Runs /\ \A o \in Runs : OpOK(o)
      /\ \A o \in Runs : run[o].pc = "idle" => journal[o].phase = "none"
  BY DEF GcInv, TypeOK, AloneOK, WorldOK
<1>7. Finalizable(p, op, [absent |-> FALSE, container |-> run[p].container])
  <2>1. ~journal[op].absent /\ journal[op].absent \in BOOLEAN
    BY <1>5, <1>6 DEF OpOK, Entry
  <2> QED
    BY <1>3, <1>4, <1>5, <2>1 DEF Finalizable
<1>8. /\ Finalize(p, op) /\ run' = [run EXCEPT ![p].pc = "rmdir", ![p].phase = "finalized"]
      /\ UNCHANGED <<object, refs, original, quarantine, container, emptied>>
  BY <1>2, <1>4, <1>5, <1>7 DEF FinalizeDeleted, Gone
<1>9. row' = "REMOVED" /\ lease' = NoLease
  BY <1>5, <1>8 DEF Finalize, Renewable
<1>10. /\ journal'[op].phase = "finalized" /\ journal'[op].container = journal[op].container
       /\ journal'[op].absent = journal[op].absent
       /\ \A r \in Runs \ {op} : journal'[r] = journal[r]
  BY <1>6, <1>8 DEF Finalize, Entry
<1>11. /\ \A q \in Runs \ {p} : run'[q] = run[q]
       /\ run'[p].pc = "rmdir" /\ run'[p].op = op /\ run'[p].container = run[p].container
       /\ run'[p].pin = run[p].pin /\ run'[p].todo = run[p].todo /\ run'[p].book = run[p].book
       /\ run'[p].outcome = run[p].outcome
  BY <1>2, <1>5, <1>6, <1>8 DEF Locals
<1>12. WorldOK'
  <2>1. OpOK(op)' /\ ~Open(op)'
    BY <1>3, <1>4, <1>5, <1>8, <1>9, <1>10 DEF OpOK, Open, Gone
  <2>2. \A r \in Runs \ {op} : OpOK(r)' /\ ~Open(r)'
    BY <1>5, <1>6, <1>8, <1>9, <1>10 DEF OpOK, Open
  <2> QED
    BY <1>4, <1>8, <1>9, <2>1, <2>2 DEF WorldOK, Gone
<1>13. PlaceOK(p)'
  BY <1>3, <1>8, <1>10, <1>11 DEF PlaceOK, Works, Holding
<1>14. SoloOK(p)'
  <2>1. \A o \in run[p].todo : o \in Runs /\ o # op
    BY <1>2, <1>5 DEF SoloOK, Locals
  <2>2. \A o \in Runs : Open(o)' => Open(o)
    BY <1>10 DEF Open
  <2>3. \A q \in Runs \ {p} : ~Alive(q)'
    BY <1>5, <1>11 DEF SoloOK, Alive
  <2>4. op # p => journal'[p].phase = "none"
    BY <1>2, <1>5, <1>10 DEF SoloOK
  <2>5. ~lease'.live
    BY <1>9 DEF NoLease
  <2>6. \A o \in run[p].todo : run[p].book[o] = journal'[o] /\ journal'[o].phase # "none"
    BY <1>5, <1>10, <2>1 DEF SoloOK
  <2>7. \A o \in Runs : Open(o)' \/ container'[o] # 0 => o \in run[p].todo \cup {op}
    BY <1>2, <1>5, <1>8, <2>2 DEF SoloOK
  <2>8. /\ run[p].outcome \in {"none", "done"} /\ (op = p => run[p].todo = {})
        /\ op \notin run[p].todo
    BY <1>2, <1>5 DEF SoloOK
  <2> QED
    BY <1>11, <2>3, <2>4, <2>5, <2>6, <2>7, <2>8 DEF SoloOK
<1>15. \A q \in Runs : run[q].pc = "idle" => journal'[q].phase = "none"
  BY <1>4, <1>6, <1>10
<1>16. \A q \in Runs \ {p} : run'[q] = run[q] /\ ~Alive(q)
  BY <1>5, <1>11 DEF SoloOK
<1> QED
  BY <1>11, <1>12, <1>13, <1>14, <1>15, <1>16, AloneAgain DEF Ends

\* The last step of an operation: what it leaves is closed.
LEMMA RemoveContainerAlone ==
    ASSUME GcInv, AloneOK, NEW p \in Runs, RemoveContainer(p)
    PROVE  AloneOK' /\ Ends(p)'
<1>1. run[p].pc = "rmdir" /\ Works(p) /\ Alive(p)
  BY DEF RemoveContainer, Alive, Works, Holding
<1>2. PICK op \in Runs : run[p].op = op
  BY <1>1 DEF GcInv, RunsOK, RunOK
<1>3. /\ run[p] \in Locals /\ DOMAIN run = Runs /\ SoloOK(p) /\ PlaceOK(p) /\ WorldOK
      /\ \A o \in Runs : OpOK(o) /\ journal[o] \in Entry
      /\ \A o \in Runs : run[o].pc = "idle" => journal[o].phase = "none"
  BY <1>1, RestKnows
<1>4. journal[op].phase = "finalized" /\ run[p].container = container[op]
  BY <1>1, <1>2, <1>3 DEF PlaceOK, Holding
<1>5. row = "REMOVED" /\ quarantine[op] = Nothing /\ \A o \in Runs : ~Open(o)
  BY <1>3, <1>4 DEF OpOK, Open
<1>6. original = Nothing
  BY <1>3, <1>5 DEF WorldOK
<1>7. /\ container' = [container EXCEPT ![op] = 0] /\ Release(p, FALSE) /\ Settle(p, "done")
      /\ UNCHANGED <<object, refs, journal, original, quarantine, emptied>>
  BY <1>2, <1>4, <1>5 DEF RemoveContainer
<1>8. row' = "REMOVED" /\ lease' \in {lease, NoLease}
  BY <1>5, <1>7 DEF Release
<1>9. container'[op] = 0 /\ \A r \in Runs \ {op} : container'[r] = container[r]
  BY <1>7 DEF GcInv, TypeOK
<1>10. WorldOK'
  <2>1. \A r \in Runs : OpOK(r)' /\ ~Open(r)'
    BY <1>3, <1>5, <1>7, <1>8, <1>9 DEF OpOK, Open
  <2> QED
    BY <1>6, <1>7, <1>8, <2>1 DEF WorldOK
<1>11. /\ \A q \in Runs \ {p} : run'[q] = run[q]
       /\ run'[p].outcome = "done"
       /\ IF op # p
          THEN /\ run'[p].pc = "next" /\ run'[p].op = NoRun
               /\ run'[p].todo = run[p].todo /\ run'[p].book = run[p].book
          ELSE run'[p].pc = "ended"
  BY <1>2, <1>3, <1>7, DoneGoes DEF SoloOK
<1>12. \A q \in Runs \ {p} : run'[q] = run[q] /\ ~Alive(q) /\ ~Alive(q)'
  BY <1>3, <1>11 DEF SoloOK, Alive
<1>13. ~lease'.live
  BY <1>1, <1>3, <1>8 DEF SoloOK, NoLease
<1>14. \A q \in Runs : run[q].pc = "idle" => journal'[q].phase = "none"
  BY <1>3, <1>7
<1>15. CASE op # p
  <2>1. PlaceOK(p)'
    BY <1>11, <1>15 DEF PlaceOK, Works, Holding
  <2>2. \A o \in Runs : Open(o)' \/ container'[o] # 0 => o \in run[p].todo
    BY <1>2, <1>3, <1>5, <1>7, <1>9 DEF SoloOK, Open
  <2>3. SoloOK(p)'
    BY <1>2, <1>3, <1>7, <1>11, <1>12, <1>13, <1>15, <2>2, RunsAssumption
       DEF SoloOK, Works, Holding, Locals
  <2> QED
    BY <1>10, <1>11, <1>12, <1>14, <1>15, <2>1, <2>3, AloneAgain DEF Ends
<1>16. CASE op = p
  <2>1. \A o \in Runs : container'[o] = 0
    BY <1>2, <1>3, <1>9, <1>16 DEF SoloOK
  <2>2. Closed'
    BY <1>5, <1>6, <1>7, <1>8, <2>1 DEF Closed, Open, Object, Nothing
  <2> QED
    BY <1>10, <1>11, <1>12, <1>14, <1>16, <2>2, AloneAgain DEF Ends, Alive
<1> QED
  BY <1>15, <1>16

\* A run that starts alone reads a journal in which nothing open is missing.
LEMMA StartAlone ==
    ASSUME GcInv, AloneOK, NEW p \in Runs, Start(p), ~run'[p].met
    PROVE  AloneOK' /\ Ends(p)'
<1> DEFINE todo == {o \in Runs : \/ Order(journal[o].phase) \in 1..6
                                 \/ /\ journal[o].phase = "finalized"
                                    /\ journal[o].container # 0}
           l == [Idle EXCEPT !.pc = "next", !.book = journal, !.todo = todo,
                             !.met = Others(p) # {} \/ lease.live]
<1>1. /\ DOMAIN run = Runs /\ WorldOK /\ \A o \in Runs : OpOK(o) /\ journal[o] \in Entry
      /\ \A o \in Runs : run[o].pc = "idle" => journal[o].phase = "none"
      /\ \A o \in Runs : run[o] \in Locals
  BY DEF GcInv, TypeOK, RunsOK, RunOK, AloneOK, WorldOK
<1>2. /\ run[p].pc = "idle"
      /\ UNCHANGED <<object, row, refs, lease, journal, original, quarantine, container, emptied>>
      /\ run' = [q \in Runs |-> IF q = p THEN l ELSE [run[q] EXCEPT !.met = @ \/ Alive(q)]]
  BY DEF Start, store, disk
<1>3. /\ l.pc = "next" /\ l.book = journal /\ l.todo = todo /\ l.op = NoRun /\ l.outcome = "none"
      /\ l.met = (Others(p) # {} \/ lease.live)
  BY DEF Idle
<1> HIDE DEF l
<1>4. run'[p] = l /\ Others(p) = {} /\ ~lease.live
  BY <1>2, <1>3
<1>5. \A q \in Runs \ {p} : ~Alive(q)
  BY <1>4 DEF Others
<1>6. ASSUME NEW q \in Runs \ {p} PROVE run'[q].pc = run[q].pc
  <2> DEFINE m == run[q].met \/ Alive(q)
  <2>1. run'[q] = [run[q] EXCEPT !.met = m]
    BY <1>2
  <2> HIDE DEF m
  <2> QED
    BY <1>1, <2>1 DEF Locals
<1>7. WorldOK'
  BY <1>1, <1>2 DEF WorldOK, OpOK, Open, PhaseOK, Untouched, Linked, Moved, Gone
<1>8. ASSUME NEW o \in Runs
      PROVE  /\ o \in todo => journal[o].phase # "none"
             /\ Open(o) \/ container[o] # 0 => o \in todo
  <2>1. journal[o].phase \in {"none", "prepared", "linked", "unlinking", "quarantined", "deleting",
                              "deleted", "finalized"}
    BY <1>1, PhaseNamesAre DEF Entry, PhaseNames
  <2> QED
    BY <1>1, <2>1, OrderIs DEF OpOK, Open
<1>9. SoloOK(p)'
  <2>1. \A q \in Runs \ {p} : ~Alive(q)'
    BY <1>5, <1>6 DEF Alive
  <2>2. NoRun # p /\ todo \subseteq Runs /\ NoRun \notin todo
    BY RunsAssumption
  <2> HIDE DEF todo
  <2> QED
    BY <1>1, <1>2, <1>3, <1>4, <1>8, <2>1, <2>2 DEF SoloOK, Open, Works, Holding
<1>10. PlaceOK(p)'
  BY <1>3, <1>4 DEF PlaceOK, Works, Holding
<1>11. \A q \in Runs : run'[q].pc = "idle" => journal'[q].phase = "none"
  BY <1>1, <1>2, <1>3, <1>4, <1>6
<1>12. \A q \in Runs : Alive(q)' => q = p
  BY <1>5, <1>6 DEF Alive
<1> QED
  BY <1>3, <1>4, <1>7, <1>9, <1>10, <1>11, <1>12 DEF AloneOK, Ends

\* Each open operation of the list is taken under a lease: nobody else holds one.
LEMMA RecoverNextAlone ==
    ASSUME GcInv, AloneOK, NEW p \in Runs, RecoverNext(p)
    PROVE  AloneOK' /\ Ends(p)'
<1>1. run[p].pc = "next" /\ Alive(p)
  BY DEF RecoverNext, Alive
<1>2. /\ run[p] \in Locals /\ DOMAIN run = Runs /\ SoloOK(p) /\ PlaceOK(p) /\ WorldOK
      /\ \A o \in Runs : OpOK(o) /\ journal[o] \in Entry
      /\ \A o \in Runs : run[o].pc = "idle" => journal[o].phase = "none"
  BY <1>1, RestKnows
<1>3. /\ run[p].op = NoRun /\ journal[p].phase = "none" /\ ~lease.live
      /\ run[p].outcome \in {"none", "done"} /\ \A q \in Runs \ {p} : ~Alive(q)
      /\ \A o \in run[p].todo : o \in Runs /\ run[p].book[o] = journal[o] /\ journal[o].phase # "none"
      /\ \A o \in Runs : Open(o) \/ container[o] # 0 => o \in run[p].todo
  BY <1>1, <1>2, RunsAssumption DEF SoloOK, Locals
<1> DEFINE left(op) == [run[p] EXCEPT !.todo = @ \ {op}]
           taken(op) == [run[p] EXCEPT !.todo = @ \ {op}, !.op = op, !.phase = run[p].book[op].phase,
                                       !.container = run[p].book[op].container]
<1>4. PICK op \in run[p].todo :
         CASE run[p].book[op].phase = "finalized" ->
                   /\ run' = [run EXCEPT ![p] =
                        IF container[op] = 0 THEN left(op) ELSE [taken(op) EXCEPT !.pc = "tidy"]]
                   /\ UNCHANGED <<row, lease, journal>>
           [] run[p].book[op].phase # "finalized"
                /\ (/\ run[p].book[op].phase = "deleted" \/ run[p].book[op].absent
                    /\ run[p].book[op].absent \/ quarantine[op] = Nothing
                    /\ original = Nothing
                    /\ row = "REMOVED" /\ Finalizable(p, op, run[p].book[op])) ->
                   /\ Finalize(p, op)
                   /\ run' = [run EXCEPT ![p] =
                        IF run[p].book[op].absent THEN left(op)
                        ELSE [taken(op) EXCEPT !.pc = "tidy", !.phase = "finalized"]]
           [] OTHER ->
                   /\ Acquire(p, op, "QUARANTINED")
                   /\ run' = [run EXCEPT ![p] =
                        IF Eligible("QUARANTINED")
                        THEN [taken(op) EXCEPT
                                !.pc = IF run[p].book[op].absent THEN "absent" ELSE "container"]
                        ELSE [left(op) EXCEPT !.outcome = Worse(@, "contended")]]
                   /\ UNCHANGED journal
  BY DEF RecoverNext
<1>5. /\ op \in Runs /\ op # p /\ run[p].book[op] = journal[op] /\ journal[op].phase # "none"
      /\ ~journal[op].absent
  BY <1>2, <1>3, <1>4 DEF OpOK
<1>6. UNCHANGED <<object, refs, original, quarantine, container, emptied>>
  BY DEF RecoverNext, disk
<1>7. journal[op].phase \in {"prepared", "linked", "unlinking", "quarantined", "deleting", "deleted",
                             "finalized"}
  BY <1>2, <1>5, PhaseNamesAre DEF Entry, PhaseNames
\* An operation found finalized.
<1>8. CASE journal[op].phase = "finalized"
  <2>1. /\ run' = [run EXCEPT ![p] = IF container[op] = 0 THEN left(op)
                                     ELSE [taken(op) EXCEPT !.pc = "tidy"]]
        /\ UNCHANGED <<row, lease, journal>>
    BY <1>4, <1>5, <1>8
  <2>2. /\ \A q \in Runs \ {p} : run'[q] = run[q]
        /\ run'[p].todo = run[p].todo \ {op} /\ run'[p].book = run[p].book
        /\ run'[p].outcome = run[p].outcome
        /\ \/ /\ container[op] = 0 /\ run'[p].pc = "next" /\ run'[p].op = NoRun
           \/ /\ run'[p].pc = "tidy" /\ run'[p].op = op
              /\ run'[p].container = journal[op].container
    BY <1>1, <1>2, <1>3, <1>5, <2>1 DEF Locals
  <2>3. ~Open(op)
    BY <1>8 DEF Open
  <2>4. WorldOK'
    BY <1>2, <1>6, <2>1 DEF WorldOK, OpOK, Open, PhaseOK, Untouched, Linked, Moved, Gone
  <2>5. PlaceOK(p)'
    BY <1>5, <1>8, <2>1, <2>2 DEF PlaceOK, Works, Holding
  <2>6. \A q \in Runs \ {p} : ~Alive(q)'
    BY <1>3, <2>2 DEF Alive
  <2>7. /\ \A o \in Runs : Open(o)' \/ container'[o] # 0 => o \in run'[p].todo \cup {run'[p].op}
        /\ \A o \in run'[p].todo : run'[p].book[o] = journal'[o] /\ journal'[o].phase # "none"
        /\ run'[p].op \notin run'[p].todo /\ run'[p].op # p
    BY <1>3, <1>5, <1>6, <2>1, <2>2, <2>3, RunsAssumption DEF Open
  <2>8. SoloOK(p)'
    BY <1>3, <2>1, <2>2, <2>6, <2>7 DEF SoloOK, Works, Holding
  <2> QED
    BY <1>2, <1>3, <2>1, <2>2, <2>4, <2>5, <2>8, AloneAgain DEF Ends
\* One that is open.
<1>9. CASE journal[op].phase # "finalized"
  <2>1. Open(op) /\ row = "QUARANTINED" /\ \A r \in Runs \ {op} : ~Open(r)
    BY <1>2, <1>5, <1>9 DEF Open, OpOK, WorldOK
  <2>2. Eligible("QUARANTINED")
    <3>1. refs = {}
      BY <2>1 DEF GcInv, ReservedOK, Reserved
    <3> QED
      BY <1>3, <2>1, <3>1 DEF Eligible, Standing
  <2>3. /\ Acquire(p, op, "QUARANTINED") /\ UNCHANGED journal
        /\ run' = [run EXCEPT ![p] = [taken(op) EXCEPT !.pc = "container"]]
    BY <1>4, <1>5, <1>9, <2>1, <2>2
  <2>4. row' = "QUARANTINED" /\ lease'.run = p /\ lease'.op = op /\ lease'.live
    BY <2>2, <2>3 DEF Acquire
  <2>5. /\ \A q \in Runs \ {p} : run'[q] = run[q]
        /\ run'[p].todo = run[p].todo \ {op} /\ run'[p].book = run[p].book
        /\ run'[p].outcome = run[p].outcome /\ run'[p].pc = "container" /\ run'[p].op = op
        /\ run'[p].container = journal[op].container /\ run'[p].phase = journal[op].phase
    BY <1>1, <1>2, <1>5, <2>3 DEF Locals
  <2>6. WorldOK'
    BY <1>2, <1>6, <2>1, <2>3, <2>4
       DEF WorldOK, OpOK, Open, PhaseOK, Untouched, Linked, Moved, Gone
  <2>7. PlaceOK(p)'
    BY <1>5, <2>1, <2>3, <2>5 DEF PlaceOK, Works, Holding, Open
  <2>8. \A q \in Runs \ {p} : ~Alive(q)'
    BY <1>3, <2>5 DEF Alive
  <2>9. /\ \A o \in Runs : Open(o)' \/ container'[o] # 0 => o \in run'[p].todo \cup {run'[p].op}
        /\ \A o \in run'[p].todo : run'[p].book[o] = journal'[o] /\ journal'[o].phase # "none"
        /\ run'[p].op \notin run'[p].todo /\ run'[p].op # p
    BY <1>3, <1>5, <1>6, <2>3, <2>5 DEF Open
  <2>10. SoloOK(p)'
    BY <1>3, <2>3, <2>4, <2>5, <2>8, <2>9 DEF SoloOK, MyLease
  <2> QED
    BY <1>2, <1>3, <2>3, <2>5, <2>6, <2>7, <2>10, AloneAgain DEF Ends
<1> QED
  BY <1>8, <1>9

\* The container of an operation found finalized is its own, and nothing is left in it.
LEMMA TidyAlone ==
    ASSUME GcInv, AloneOK, NEW p \in Runs, Tidy(p)
    PROVE  AloneOK' /\ Ends(p)'
<1>1. run[p].pc = "tidy" /\ Alive(p)
  BY DEF Tidy, Alive
<1>2. PICK op \in Runs : run[p].op = op
  BY <1>1 DEF GcInv, RunsOK, RunOK
<1>3. /\ run[p] \in Locals /\ DOMAIN run = Runs /\ SoloOK(p) /\ PlaceOK(p) /\ WorldOK
      /\ \A o \in Runs : OpOK(o) /\ journal[o] \in Entry
      /\ \A o \in Runs : run[o].pc = "idle" => journal[o].phase = "none"
  BY <1>1, RestKnows
<1>4. /\ op # p /\ journal[op].phase = "finalized" /\ run[p].container = journal[op].container
  BY <1>1, <1>2, <1>3 DEF PlaceOK
<1>5. /\ row = "REMOVED" /\ quarantine[op] = Nothing /\ \A o \in Runs : ~Open(o)
      /\ container[op] \in {0, run[p].container}
  BY <1>3, <1>4 DEF OpOK, Open
<1>6. original = Nothing
  BY <1>3, <1>5 DEF WorldOK
<1>7. /\ container' = [container EXCEPT ![op] = 0] /\ Settle(p, "done")
      /\ UNCHANGED <<object, row, refs, lease, journal, original, quarantine, emptied>>
  BY <1>2, <1>5, <1>6 DEF Tidy, store, SameInode, Object, Twin, Nothing
<1>8. container'[op] = 0 /\ \A r \in Runs \ {op} : container'[r] = container[r]
  BY <1>7 DEF GcInv, TypeOK
<1>9. WorldOK'
  <2>1. \A r \in Runs : OpOK(r)' /\ ~Open(r)'
    BY <1>3, <1>5, <1>7, <1>8 DEF OpOK, Open
  <2> QED
    BY <1>5, <1>6, <1>7, <2>1 DEF WorldOK
<1>10. /\ \A q \in Runs \ {p} : run'[q] = run[q]
       /\ run'[p].outcome = "done" /\ run'[p].pc = "next" /\ run'[p].op = NoRun
       /\ run'[p].todo = run[p].todo /\ run'[p].book = run[p].book
  BY <1>2, <1>3, <1>4, <1>7, DoneGoes DEF SoloOK
<1>11. \A q \in Runs \ {p} : run'[q] = run[q] /\ ~Alive(q) /\ ~Alive(q)'
  BY <1>3, <1>10 DEF SoloOK, Alive
<1>12. PlaceOK(p)'
  BY <1>10 DEF PlaceOK, Works, Holding
<1>13. \A o \in Runs : Open(o)' \/ container'[o] # 0 => o \in run[p].todo
  BY <1>2, <1>3, <1>5, <1>7, <1>8 DEF SoloOK, Open
<1>14. SoloOK(p)'
  BY <1>1, <1>2, <1>3, <1>4, <1>7, <1>10, <1>11, <1>13, RunsAssumption DEF SoloOK, Works, Holding, Locals
<1> QED
  BY <1>3, <1>7, <1>9, <1>10, <1>11, <1>12, <1>14, AloneAgain DEF Ends

\* With nothing open and no candidate left, the object is gone, or somebody references it.
LEMMA PlanAlone ==
    ASSUME GcInv, AloneOK, NEW p \in Runs, Plan(p)
    PROVE  AloneOK' /\ Ends(p)'
<1>1. run[p].pc = "next" /\ Alive(p) /\ run[p].todo = {}
  BY DEF Plan, Alive
<1>2. /\ run[p] \in Locals /\ DOMAIN run = Runs /\ SoloOK(p) /\ PlaceOK(p) /\ WorldOK
      /\ \A o \in Runs : OpOK(o) /\ journal[o] \in Entry
      /\ \A o \in Runs : run[o].pc = "idle" => journal[o].phase = "none"
  BY <1>1, RestKnows
<1>3. /\ run[p].op = NoRun /\ journal[p].phase = "none" /\ ~lease.live
      /\ run[p].outcome \in {"none", "done"} /\ \A q \in Runs \ {p} : ~Alive(q)
      /\ \A o \in Runs : ~Open(o) /\ container[o] = 0
  BY <1>1, <1>2, RunsAssumption DEF SoloOK
<1>4. UNCHANGED <<object, row, refs, lease, journal, original, quarantine, container, emptied>>
  BY DEF Plan, store, disk
<1>5. WorldOK'
  BY <1>2, <1>4 DEF WorldOK, OpOK, Open, PhaseOK, Untouched, Linked, Moved, Gone
<1>6. CASE Candidate
  <2>1. /\ \A q \in Runs \ {p} : run'[q] = run[q]
        /\ run'[p].pc = "validate" /\ run'[p].op = p /\ run'[p].seen = row
        /\ run'[p].phase = "none" /\ run'[p].container = 0
        /\ run'[p].todo = {} /\ run'[p].outcome = run[p].outcome
    BY <1>1, <1>2, <1>6 DEF Plan, Locals
  <2>2. row # "REMOVED" /\ refs = {}
    BY <1>6 DEF Candidate
  <2>3. PlaceOK(p)'
    BY <1>3, <1>4, <2>1, <2>2 DEF PlaceOK, Works, Holding
  <2>4. \A q \in Runs \ {p} : ~Alive(q)'
    BY <1>3, <2>1 DEF Alive
  <2>5. SoloOK(p)'
    BY <1>3, <1>4, <2>1, <2>4 DEF SoloOK, Works, Holding, Open
  <2> QED
    BY <1>2, <1>3, <1>4, <1>5, <2>1, <2>3, <2>5, AloneAgain DEF Ends
<1>7. CASE ~Candidate
  <2>1. /\ \A q \in Runs \ {p} : run'[q] = run[q]
        /\ run'[p].pc = "ended" /\ run'[p].outcome = run[p].outcome
    BY <1>1, <1>2, <1>7 DEF Plan, Locals
  <2>2. refs = {} => row = "REMOVED" /\ original = Nothing
    BY <1>2, <1>3, <1>7 DEF Candidate, WorldOK, GcInv, TypeOK
  <2>3. Closed'
    BY <1>3, <1>4, <2>2 DEF Closed, Open, Object, Nothing
  <2> QED
    BY <1>2, <1>3, <1>4, <1>5, <2>1, <2>3, AloneAgain DEF Ends, Alive
<1> QED
  BY <1>6, <1>7

\* The object is at its path, whole.
LEMMA ValidateAlone ==
    ASSUME GcInv, AloneOK, NEW p \in Runs, Validate(p)
    PROVE  AloneOK' /\ Ends(p)'
<1>1. run[p].pc = "validate" /\ Alive(p)
  BY DEF Validate, Alive
<1>2. /\ run[p] \in Locals /\ DOMAIN run = Runs /\ SoloOK(p) /\ PlaceOK(p) /\ WorldOK
      /\ \A o \in Runs : OpOK(o) /\ journal[o] \in Entry
      /\ \A o \in Runs : run[o].pc = "idle" => journal[o].phase = "none"
  BY <1>1, RestKnows
<1>3. /\ run[p].op = p /\ run[p].seen = row /\ row # "REMOVED" /\ refs = {} /\ run[p].phase = "none"
      /\ journal[p].phase = "none" /\ run[p].container = 0
  BY <1>1, <1>2 DEF PlaceOK, GcInv, RunsOK, RunOK
<1>4. /\ run[p].todo = {} /\ run[p].outcome \in {"none", "done"} /\ ~lease.live
      /\ \A q \in Runs \ {p} : ~Alive(q)
      /\ \A o \in Runs : ~Open(o)
  BY <1>1, <1>2, <1>3 DEF SoloOK, Open
<1>5. Untouched(p)
  BY <1>2, <1>3, <1>4 DEF WorldOK, OpOK, Untouched
<1>6. IsCandidate(original) /\ original = Object
  BY <1>2, <1>4, <1>5, ShapesAre DEF Untouched
<1>7. /\ run' = [run EXCEPT ![p].pc = "acquire", ![p].pin = original]
      /\ UNCHANGED <<object, row, refs, lease, journal, original, quarantine, container, emptied>>
  BY <1>6 DEF Validate, store, disk
<1>8. /\ \A q \in Runs \ {p} : run'[q] = run[q]
      /\ run'[p].pc = "acquire" /\ run'[p].pin = Object /\ run'[p].op = p /\ run'[p].seen = row
      /\ run'[p].phase = "none" /\ run'[p].container = 0
      /\ run'[p].todo = {} /\ run'[p].outcome = run[p].outcome
  BY <1>2, <1>3, <1>4, <1>6, <1>7 DEF Locals
<1>9. WorldOK'
  BY <1>2, <1>7 DEF WorldOK, OpOK, Open, PhaseOK, Untouched, Linked, Moved, Gone
<1>10. PlaceOK(p)'
  BY <1>3, <1>7, <1>8 DEF PlaceOK, Works, Holding
<1>11. \A q \in Runs \ {p} : ~Alive(q)'
  BY <1>4, <1>8 DEF Alive
<1>12. \A o \in Runs : Open(o)' \/ container'[o] # 0 => o = p
  BY <1>2, <1>3, <1>4, <1>7 DEF SoloOK, Open
<1>13. SoloOK(p)'
  BY <1>4, <1>7, <1>8, <1>11, <1>12 DEF SoloOK, Works, Holding
<1> QED
  BY <1>2, <1>4, <1>7, <1>8, <1>9, <1>10, <1>13, AloneAgain DEF Ends

\* Nobody holds a lease on the object, and its row is as the plan saw it.
LEMMA AcquireLeaseAlone ==
    ASSUME GcInv, AloneOK, NEW p \in Runs, AcquireLease(p)
    PROVE  AloneOK' /\ Ends(p)'
<1>1. run[p].pc = "acquire" /\ Alive(p)
  BY DEF AcquireLease, Alive
<1>2. /\ run[p] \in Locals /\ DOMAIN run = Runs /\ SoloOK(p) /\ PlaceOK(p) /\ WorldOK
      /\ \A o \in Runs : OpOK(o) /\ journal[o] \in Entry
      /\ \A o \in Runs : run[o].pc = "idle" => journal[o].phase = "none"
  BY <1>1, RestKnows
<1>3. /\ run[p].op = p /\ run[p].seen = row /\ row # "REMOVED" /\ refs = {} /\ run[p].phase = "none"
      /\ journal[p].phase = "none" /\ run[p].container = 0 /\ run[p].pin = Object
  BY <1>1, <1>2 DEF PlaceOK, GcInv, RunsOK, RunOK
<1>4. /\ run[p].todo = {} /\ run[p].outcome \in {"none", "done"} /\ ~lease.live
      /\ \A q \in Runs \ {p} : ~Alive(q)
      /\ \A o \in Runs : ~Open(o)
  BY <1>1, <1>2, <1>3 DEF SoloOK, Open
<1>5. Eligible(run[p].seen)
  BY <1>3, <1>4 DEF Eligible, Standing, GcInv, TypeOK
<1>6. /\ Goto(p, "prepare") /\ row' = "QUARANTINED"
      /\ lease'.run = p /\ lease'.op = p /\ lease'.live
      /\ UNCHANGED <<object, refs, journal, original, quarantine, container, emptied>>
  BY <1>3, <1>5 DEF AcquireLease, Acquire, disk, Object, Nothing
<1>7. Went(p, "prepare", "none", 0)
  BY <1>3, <1>6, GotoWent
<1>8. /\ \A q \in Runs \ {p} : run'[q] = run[q]
      /\ run'[p].pc = "prepare" /\ run'[p].pin = Object /\ run'[p].op = p
      /\ run'[p].phase = "none" /\ run'[p].container = 0
      /\ run'[p].todo = {} /\ run'[p].outcome = run[p].outcome
  BY <1>3, <1>4, <1>7 DEF Went
<1>9. WorldOK'
  <2>1. \A r \in Runs : OpOK(r)' /\ ~Open(r)'
    BY <1>2, <1>3, <1>4, <1>6 DEF OpOK, Open
  <2> QED
    BY <1>2, <1>3, <1>4, <1>6, <2>1 DEF WorldOK
<1>10. PlaceOK(p)'
  BY <1>3, <1>6, <1>8 DEF PlaceOK, Works, Holding
<1>11. \A q \in Runs \ {p} : ~Alive(q)'
  BY <1>4, <1>8 DEF Alive
<1>12. \A o \in Runs : Open(o)' \/ container'[o] # 0 => o = p
  BY <1>2, <1>3, <1>4, <1>6 DEF SoloOK, Open
<1>13. SoloOK(p)'
  BY <1>4, <1>6, <1>8, <1>11, <1>12 DEF SoloOK, MyLease
<1> QED
  BY <1>2, <1>4, <1>6, <1>8, <1>9, <1>10, <1>13, AloneAgain DEF Ends

LEMMA CrashAlone ==
    ASSUME GcInv, AloneOK, NEW p \in Runs, Crash(p)
    PROVE  AloneOK' /\ Ends(p)'
<1>1. Alive(p)
  BY DEF Crash
<1>2. /\ DOMAIN run = Runs /\ SoloOK(p) /\ WorldOK
      /\ \A o \in Runs : run[o].pc = "idle" => journal[o].phase = "none"
  BY <1>1, RestKnows
<1>3. /\ run' = [run EXCEPT ![p] = [Idle EXCEPT !.pc = "crashed", !.met = run[p].met]]
      /\ UNCHANGED <<object, row, refs, lease, journal, original, quarantine, container, emptied>>
  BY DEF Crash, store, disk
<1>4. run'[p].pc = "crashed" /\ \A q \in Runs \ {p} : run'[q] = run[q] /\ ~Alive(q)
  BY <1>2, <1>3 DEF SoloOK, Idle
<1>5. WorldOK'
  BY <1>2, <1>3 DEF WorldOK, OpOK, Open, PhaseOK, Untouched, Linked, Moved, Gone
<1> QED
  BY <1>2, <1>3, <1>4, <1>5, AloneAgain DEF Ends, Alive

\* What the others may do while nobody interferes.
LEMMA OthersAlone ==
    ASSUME GcInv, AloneOK, Quiet',
           \/ \E o \in Owners : AddReference(o) \/ ReleaseReference(o)
           \/ Expire \/ UserDeletes \/ UserPuts
    PROVE  AloneOK' /\ \A p \in Runs : run'[p].pc = run[p].pc
<1>1. /\ DOMAIN run = Runs /\ \A q \in Runs : run[q] \in Locals
      /\ tampers \in Nat
  BY DEF GcInv, TypeOK, RunsOK, RunOK
<1>2. ASSUME NEW o \in Owners, AddReference(o)
      PROVE  AloneOK' /\ \A p \in Runs : run'[p].pc = run[p].pc
  <2>1. /\ UNCHANGED <<object, row, lease, journal, original, quarantine, container, emptied>>
        /\ run' = [q \in Runs |-> [run[q] EXCEPT !.met = @ \/ Alive(q)]]
    BY <1>2 DEF AddReference, disk
  <2>2. ASSUME NEW q \in Runs PROVE run'[q].pc = run[q].pc /\ ~Alive(q)
    <3> DEFINE m == run[q].met \/ Alive(q)
    <3>1. run'[q] = [run[q] EXCEPT !.met = m]
      BY <2>1
    <3>2. Alive(q) => ~m
      <4> HIDE DEF m
      <4>1. run'[q].pc = run[q].pc /\ run'[q].met = m
        BY <1>1, <3>1 DEF Locals
      <4> QED
        BY <4>1 DEF Quiet, Alive
    <3>3. ~Alive(q)
      BY <3>2
    <3> HIDE DEF m
    <3> QED
      BY <1>1, <3>1, <3>3 DEF Locals
  <2>3. WorldOK'
    BY <2>1 DEF AloneOK, WorldOK, OpOK, Open, PhaseOK, Untouched, Linked, Moved, Gone
  <2> QED
    BY <2>1, <2>2, <2>3 DEF AloneOK, Alive
<1>3. ASSUME NEW o \in Owners, ReleaseReference(o)
      PROVE  AloneOK' /\ \A p \in Runs : run'[p].pc = run[p].pc
  <2>1. /\ UNCHANGED <<object, row, lease, journal, original, quarantine, container, emptied, run>>
        /\ refs' = refs \ {o}
    BY <1>3 DEF ReleaseReference, disk
  <2>2. WorldOK'
    BY <2>1 DEF AloneOK, WorldOK, OpOK, Open, PhaseOK, Untouched, Linked, Moved, Gone
  <2>3. ASSUME NEW p \in Runs, Alive(p)' PROVE SoloOK(p)' /\ PlaceOK(p)'
    <3>1. SoloOK(p) /\ PlaceOK(p)
      BY <2>1, <2>3 DEF AloneOK, Alive
    <3>2. SoloOK(p)'
      BY <2>1, <3>1 DEF SoloOK, Alive, Open, Works, MyLease
    <3>3. PlaceOK(p)'
      BY <2>1, <3>1 DEF PlaceOK, Open, Works, Untouched, Linked, Moved, Gone
    <3> QED
      BY <3>2, <3>3
  <2> QED
    BY <2>1, <2>2, <2>3 DEF AloneOK
<1>4. ASSUME Expire PROVE AloneOK' /\ \A p \in Runs : run'[p].pc = run[p].pc
  <2>1. /\ UNCHANGED <<object, row, refs, journal, original, quarantine, container, emptied, run>>
        /\ lease' = [lease EXCEPT !.live = FALSE]
    BY <1>4 DEF Expire, disk
  <2>2. ~Alive(lease.run)
    BY <1>1, <1>4 DEF Expire, Quiet
  <2>3. ~lease'.live
    BY <2>1 DEF GcInv, TypeOK
  <2>4. WorldOK'
    BY <2>1 DEF AloneOK, WorldOK, OpOK, Open, PhaseOK, Untouched, Linked, Moved, Gone
  <2>5. ASSUME NEW p \in Runs, Alive(p)' PROVE SoloOK(p)' /\ PlaceOK(p)'
    <3>1. SoloOK(p) /\ PlaceOK(p) /\ Alive(p)
      BY <2>1, <2>5 DEF AloneOK, Alive
    <3>2. ~(Works(p) /\ run[p].pc # "rmdir")
      BY <2>2, <3>1 DEF SoloOK, MyLease
    <3>3. SoloOK(p)'
      BY <2>1, <2>3, <3>1, <3>2 DEF SoloOK, Alive, Open, Works
    <3>4. PlaceOK(p)'
      BY <2>1, <3>1 DEF PlaceOK, Open, Works, Untouched, Linked, Moved, Gone
    <3> QED
      BY <3>3, <3>4
  <2> QED
    BY <2>1, <2>4, <2>5 DEF AloneOK
<1>5. ~UserDeletes /\ ~UserPuts
  BY <1>1 DEF UserDeletes, UserPuts, Tamper, Quiet
<1> QED
  BY <1>2, <1>3, <1>4, <1>5

\* What a run that has started has met is not forgotten.
MetKept == \A q \in Runs : run[q].pc # "idle" => run'[q].pc # "idle" /\ (run[q].met => run'[q].met)

LEMMA SettleMet ==
    ASSUME GcInv, NEW p \in Runs, NEW outcome, Settle(p, outcome)
    PROVE  MetKept
<1>1. run[p] \in Locals /\ DOMAIN run = Runs
  BY DEF GcInv, TypeOK, RunsOK, RunOK
<1> DEFINE worst == Worse(run[p].outcome, outcome)
           rest == [Idle EXCEPT !.todo = run[p].todo, !.book = run[p].book,
                                !.met = run[p].met, !.outcome = worst]
           next == [rest EXCEPT !.pc = "next"]
           end == [Idle EXCEPT !.pc = "ended", !.met = run[p].met, !.outcome = worst]
<1>2. run' = [run EXCEPT ![p] = IF Recovering(p) THEN next ELSE end]
  BY DEF Settle
<1> HIDE DEF worst
<1>3. /\ next.met = run[p].met /\ next.pc = "next"
      /\ end.met = run[p].met /\ end.pc = "ended"
  BY DEF Idle
<1> HIDE DEF next, end
<1> QED
  BY <1>1, <1>2, <1>3 DEF MetKept

LEMMA RecordsMet ==
    ASSUME GcInv, NEW p \in Runs, NEW phase, NEW next, next # "idle", Records(p, phase, next)
    PROVE  MetKept
<1>1. run[p] \in Locals /\ DOMAIN run = Runs
  BY DEF GcInv, TypeOK, RunsOK, RunOK
<1>2. CASE Settle(p, "failed")
  BY <1>2, SettleMet
<1>3. CASE run' = [run EXCEPT ![p].pc = next, ![p].phase = phase]
  BY <1>1, <1>3 DEF MetKept, Locals
<1> QED
  BY <1>2, <1>3 DEF Records, Fails

LEMMA GotoMet ==
    ASSUME GcInv, NEW p \in Runs, NEW pc, pc # "idle", Goto(p, pc)
    PROVE  MetKept
<1>1. run[p] \in Locals /\ DOMAIN run = Runs
  BY DEF GcInv, TypeOK, RunsOK, RunOK
<1> QED
  BY <1>1 DEF MetKept, Locals, Goto

\* No step changes what the object is, and none forgets what a run has met.
LEMMA NextMet ==
    ASSUME GcInv, Next
    PROVE  MetKept /\ object' = object
<1>1. /\ DOMAIN run = Runs /\ \A q \in Runs : run[q] \in Locals
  BY DEF GcInv, TypeOK, RunsOK, RunOK
<1>2. ASSUME NEW p \in Runs, Start(p) PROVE MetKept /\ object' = object
  <2>1. run[p].pc = "idle" /\ object' = object
    BY <1>2 DEF Start
  <2>2. ASSUME NEW q \in Runs \ {p} PROVE run'[q].pc = run[q].pc /\ (run[q].met => run'[q].met)
    <3> DEFINE m == run[q].met \/ Alive(q)
    <3>1. run'[q] = [run[q] EXCEPT !.met = m]
      BY <1>2 DEF Start
    <3>2. run[q].met => m
      OBVIOUS
    <3> HIDE DEF m
    <3> QED
      BY <1>1, <3>1, <3>2 DEF Locals
  <2> QED
    BY <2>1, <2>2 DEF MetKept
<1>3. ASSUME NEW p \in Runs, RecoverNext(p) PROVE MetKept /\ object' = object
  <2>1. object' = object
    BY <1>3 DEF RecoverNext
  <2>2. run[p].pc # "idle"
    BY <1>3 DEF RecoverNext
  <2>3. \E l : l.pc # "idle" /\ l.met = run[p].met /\ run' = [run EXCEPT ![p] = l]
    <3> DEFINE left(op) == [run[p] EXCEPT !.todo = @ \ {op}]
               taken(op) == [run[p] EXCEPT !.todo = @ \ {op}, !.op = op, !.phase = run[p].book[op].phase,
                                           !.container = run[p].book[op].container]
    <3>1. PICK op \in run[p].todo :
             \/ run' = [run EXCEPT ![p] = left(op)]
             \/ run' = [run EXCEPT ![p] = [taken(op) EXCEPT !.pc = "tidy"]]
             \/ run' = [run EXCEPT ![p] = [taken(op) EXCEPT !.pc = "tidy", !.phase = "finalized"]]
             \/ run' = [run EXCEPT ![p] = [taken(op) EXCEPT
                                  !.pc = IF run[p].book[op].absent THEN "absent" ELSE "container"]]
             \/ run' = [run EXCEPT ![p] = [left(op) EXCEPT !.outcome = Worse(@, "contended")]]
      BY <1>3 DEF RecoverNext
    <3>2. /\ left(op).pc = run[p].pc /\ left(op).met = run[p].met
          /\ [taken(op) EXCEPT !.pc = "tidy"].pc = "tidy"
          /\ [taken(op) EXCEPT !.pc = "tidy"].met = run[p].met
          /\ [taken(op) EXCEPT !.pc = "tidy", !.phase = "finalized"].pc = "tidy"
          /\ [taken(op) EXCEPT !.pc = "tidy", !.phase = "finalized"].met = run[p].met
          /\ [taken(op) EXCEPT !.pc = IF run[p].book[op].absent THEN "absent"
                                       ELSE "container"].pc \in {"absent", "container"}
          /\ [taken(op) EXCEPT !.pc = IF run[p].book[op].absent THEN "absent"
                                       ELSE "container"].met = run[p].met
          /\ [left(op) EXCEPT !.outcome = Worse(@, "contended")].pc = run[p].pc
          /\ [left(op) EXCEPT !.outcome = Worse(@, "contended")].met = run[p].met
      BY <1>1 DEF Locals
    <3> HIDE DEF left, taken
    <3> QED
      BY <2>2, <3>1, <3>2
  <2> QED
    BY <1>1, <1>3, <2>1, <2>2, <2>3 DEF MetKept
<1>4. ASSUME NEW p \in Runs, Tidy(p) \/ Validate(p) \/ AcquireLease(p) \/ FinalizeAbsent(p)
      PROVE  MetKept /\ object' = object
  <2>1. CASE Tidy(p)
    BY <1>4, <2>1, SettleMet DEF Tidy
  <2>2. CASE Validate(p)
    <3>1. CASE Settle(p, "failed")
      BY <1>4, <2>2, <3>1, SettleMet DEF Validate
    <3>2. CASE run' = [run EXCEPT ![p].pc = "acquire", ![p].pin = original]
      BY <1>1, <1>4, <2>2, <3>2 DEF Validate, MetKept, Locals
    <3> QED
      BY <2>2, <3>1, <3>2 DEF Validate
  <2>3. CASE AcquireLease(p)
    BY <1>4, <2>3, SettleMet, GotoMet DEF AcquireLease
  <2>4. CASE FinalizeAbsent(p)
    BY <1>4, <2>4, SettleMet DEF FinalizeAbsent
  <2> QED
    BY <1>4, <2>1, <2>2, <2>3, <2>4
<1>5. ASSUME NEW p \in Runs, Plan(p) \/ PrepareAbsent(p) \/ Crash(p)
      PROVE  MetKept /\ object' = object
  <2>1. CASE Plan(p)
    BY <1>1, <1>5, <2>1 DEF Plan, MetKept, Locals
  <2>2. CASE PrepareAbsent(p)
    BY <1>1, <1>5, <2>2 DEF PrepareAbsent, MetKept, Locals
  <2>3. CASE Crash(p)
    BY <1>1, <1>5, <2>3 DEF Crash, MetKept, Idle
  <2> QED
    BY <1>5, <2>1, <2>2, <2>3
<1>6. ASSUME NEW p \in Runs, \/ Prepare(p) \/ NoteContainer(p) \/ RecordLinked(p) \/ RecordUnlinking(p)
                             \/ RecordQuarantined(p) \/ RecordDeleting(p) \/ RecordDeleted(p)
      PROVE  MetKept /\ object' = object
  <2>1. object' = object /\ \/ \E phase, next : next # "idle" /\ Records(p, phase, next)
                            \/ Settle(p, "failed")
                            \/ Goto(p, "deleted")
    BY <1>6 DEF Prepare, NoteContainer, RecordLinked, RecordUnlinking, RecordQuarantined,
         RecordDeleting, RecordDeleted, Fails
  <2> QED
    BY <1>6, <2>1, RecordsMet, SettleMet, GotoMet
<1>7. ASSUME NEW p \in Runs,
             \/ ResumePrefix(p) \/ Move(p) \/ RenewForUnlink(p) \/ CheckLinks(p)
             \/ UnlinkOriginal(p) \/ Erase(p) \/ RemoveContainer(p)
      PROVE  MetKept /\ object' = object
  <2>1. object' = object /\ \/ \E pc : pc # "idle" /\ Goto(p, pc)
                            \/ \E outcome : Settle(p, outcome)
                            \/ UNCHANGED run
                            \/ run' = [run EXCEPT ![p].pc = "unlink-now", ![p].known = made]
                            \/ run' = [run EXCEPT ![p].pc = "quarantined", ![p].known = {}]
    BY <1>7 DEF ResumePrefix, Move, RenewForUnlink, CheckLinks, UnlinkOriginal, Erase,
         RemoveContainer, Fails
  <2>2. CASE \/ run' = [run EXCEPT ![p].pc = "unlink-now", ![p].known = made]
             \/ run' = [run EXCEPT ![p].pc = "quarantined", ![p].known = {}]
    BY <1>1, <1>7, <2>1, <2>2 DEF MetKept, Locals
  <2> QED
    BY <1>7, <2>1, <2>2, SettleMet, GotoMet DEF MetKept
<1>8. ASSUME NEW p \in Runs, MakeContainer(p) \/ FinalizeDeleted(p)
      PROVE  MetKept /\ object' = object
  <2>1. object' = object
    BY <1>8 DEF MakeContainer, FinalizeDeleted
  <2>2. CASE Settle(p, "failed")
    BY <1>8, <2>1, <2>2, SettleMet
  <2>3. CASE FinalizeDeleted(p) /\ ~Settle(p, "failed")
    <3>1. run' = [run EXCEPT ![p].pc = "rmdir", ![p].phase = "finalized"]
      BY <2>3 DEF FinalizeDeleted, Fails
    <3> QED
      BY <1>1, <2>1, <3>1 DEF MetKept, Locals
  <2>4. CASE MakeContainer(p) /\ ~Settle(p, "failed")
    <3>1. \E pc \in {"note", "prefix", "delete", "finalize"} : \E found :
             run' = [run EXCEPT ![p].pc = pc, ![p].container = found]
      <4> DEFINE pc == IF run[p].container = 0 THEN "note"
                       ELSE CASE run[p].phase \in {"prepared", "linked", "unlinking"} -> "prefix"
                              [] run[p].phase \in {"quarantined", "deleting"} -> "delete"
                              [] OTHER -> "finalize"
      <4>1. \E found : run' = [run EXCEPT ![p].pc = pc, ![p].container = found]
        BY <2>4 DEF MakeContainer, Fails
      <4>2. pc \in {"note", "prefix", "delete", "finalize"}
        OBVIOUS
      <4> HIDE DEF pc
      <4> QED
        BY <4>1, <4>2
    <3> QED
      BY <1>1, <2>1, <3>1 DEF MetKept, Locals
  <2> QED
    BY <1>8, <2>2, <2>3, <2>4
<1>9. ASSUME NEW o \in Owners, AddReference(o) \/ ReleaseReference(o) PROVE MetKept /\ object' = object
  BY <1>1, <1>9 DEF AddReference, ReleaseReference, MetKept, Locals
<1>10. ASSUME Expire \/ UserDeletes \/ UserPuts PROVE MetKept /\ object' = object
  BY <1>10 DEF Expire, UserDeletes, UserPuts, MetKept
<1> QED
  BY <1>2, <1>3, <1>4, <1>5, <1>6, <1>7, <1>8, <1>9, <1>10 DEF Next

\* A run's own step leaves the other runs where they are.
LEMMA OwnPlace ==
    ASSUME GcInv, NEW p \in Runs,
           \/ RecoverNext(p) \/ Tidy(p) \/ Plan(p) \/ Validate(p) \/ AcquireLease(p)
           \/ PrepareAbsent(p) \/ FinalizeAbsent(p)
           \/ Prepare(p) \/ MakeContainer(p) \/ NoteContainer(p) \/ ResumePrefix(p) \/ Move(p)
           \/ RecordLinked(p) \/ RecordUnlinking(p) \/ RenewForUnlink(p) \/ CheckLinks(p)
           \/ UnlinkOriginal(p) \/ RecordQuarantined(p)
           \/ RecordDeleting(p) \/ Erase(p) \/ RecordDeleted(p) \/ FinalizeDeleted(p)
           \/ RemoveContainer(p) \/ Crash(p)
    PROVE  \A q \in Runs \ {p} : run'[q] = run[q]
<1>1. StoreOK /\ DiskOK /\ DOMAIN run = Runs /\ RunsOK /\ ReservationOK
  BY TypeParts DEF GcInv, ReservationOK
<1>2. CASE \/ PrepareAbsent(p) \/ FinalizeAbsent(p)
           \/ Prepare(p) \/ MakeContainer(p) \/ NoteContainer(p) \/ ResumePrefix(p) \/ Move(p)
           \/ RecordLinked(p) \/ RecordUnlinking(p) \/ RenewForUnlink(p) \/ CheckLinks(p)
           \/ UnlinkOriginal(p) \/ RecordQuarantined(p)
           \/ RecordDeleting(p) \/ Erase(p) \/ RecordDeleted(p) \/ FinalizeDeleted(p)
           \/ RemoveContainer(p)
  <2>1. StepOK(p)
    BY <1>1, <1>2, WorkStep
  <2> QED
    BY <2>1 DEF StepOK, GoesOn, Stops
<1>3. CASE Tidy(p) \/ Validate(p) \/ AcquireLease(p)
  BY <1>1, <1>3 DEF Tidy, Validate, AcquireLease, Settle, Goto
<1>4. CASE Plan(p) \/ Crash(p)
  BY <1>1, <1>4 DEF Plan, Crash
<1>5. CASE RecoverNext(p)
  BY <1>1, <1>5 DEF RecoverNext
<1> QED
  BY <1>2, <1>3, <1>4, <1>5

\* Peace is lost for good.
LEMMA QuietBefore ==
    ASSUME GcInv, [Next]_vars, Quiet'
    PROVE  Quiet
<1>1. CASE UNCHANGED vars
  BY <1>1 DEF Quiet, vars, history
<1>2. CASE Next
  <2>1. tampers' = tampers \/ tampers' = tampers + 1
    BY <1>2, TampersCounted
  <2>2. tampers = 0
    BY <2>1 DEF Quiet, GcInv
  <2> QED
    BY <1>2, <2>2, NextMet DEF Quiet, MetKept
<1> QED
  BY <1>1, <1>2

\* A run's own step, in peace.
LEMMA OwnStepAlone ==
    ASSUME GcInv, AloneOK, Quiet, NEW p \in Runs,
           \/ RecoverNext(p) \/ Tidy(p) \/ Plan(p) \/ Validate(p) \/ AcquireLease(p)
           \/ PrepareAbsent(p) \/ FinalizeAbsent(p)
           \/ Prepare(p) \/ MakeContainer(p) \/ NoteContainer(p) \/ ResumePrefix(p) \/ Move(p)
           \/ RecordLinked(p) \/ RecordUnlinking(p) \/ RenewForUnlink(p) \/ CheckLinks(p)
           \/ UnlinkOriginal(p) \/ RecordQuarantined(p)
           \/ RecordDeleting(p) \/ Erase(p) \/ RecordDeleted(p) \/ FinalizeDeleted(p)
           \/ RemoveContainer(p) \/ Crash(p)
    PROVE  AloneOK' /\ Ends(p)'
<1>1. Works(p)' => Ends(p)'
  BY DEF Works, Ends, Holding
<1>2. ~PrepareAbsent(p) /\ ~FinalizeAbsent(p)
  BY DEF PrepareAbsent, FinalizeAbsent, AloneOK, SoloOK, Alive
<1>3. ~object.undeletable
  BY DEF Quiet
<1>4. CASE RecoverNext(p) \/ Tidy(p) \/ Plan(p) \/ Validate(p) \/ AcquireLease(p) \/ Prepare(p)
             \/ FinalizeDeleted(p) \/ RemoveContainer(p) \/ Crash(p)
  BY <1>4, RecoverNextAlone, TidyAlone, PlanAlone, ValidateAlone, AcquireLeaseAlone, PrepareAlone,
     FinalizeDeletedAlone, RemoveContainerAlone, CrashAlone
<1>5. CASE \/ MakeContainer(p) \/ NoteContainer(p) \/ ResumePrefix(p) \/ Move(p)
           \/ RecordLinked(p) \/ RecordUnlinking(p) \/ RenewForUnlink(p) \/ CheckLinks(p)
           \/ UnlinkOriginal(p) \/ RecordQuarantined(p)
           \/ RecordDeleting(p) \/ Erase(p) \/ RecordDeleted(p)
  BY <1>1, <1>3, <1>5, MakeContainerAlone, NoteContainerAlone, ResumePrefixAlone, MoveAlone,
     RecordLinkedAlone, RecordUnlinkingAlone, RenewForUnlinkAlone, CheckLinksAlone,
     UnlinkOriginalAlone, RecordQuarantinedAlone, RecordDeletingAlone, EraseAlone, RecordDeletedAlone
<1> QED
  BY <1>2, <1>4, <1>5

LEMMA AloneInvInit == Init => AloneInv
<1> SUFFICES ASSUME Init PROVE AloneOK
  BY GcInvInit DEF AloneInv
<1>1. \A p \in Runs : run[p].pc = "idle" /\ ~Alive(p)
  BY DEF Init, Idle, Alive
<1>2. /\ original = Object /\ row # "REMOVED"
      /\ \A o \in Runs : /\ journal[o].phase = "none" /\ ~journal[o].absent /\ journal[o].container = 0
                         /\ container[o] = 0 /\ quarantine[o] = Nothing
  BY DEF Init, NoEntry
<1>3. WorldOK
  BY <1>2 DEF WorldOK, OpOK, Open, Object, Nothing
<1> QED
  BY <1>1, <1>2, <1>3 DEF AloneOK

LEMMA AloneInvStep == AloneInv /\ [Next]_vars => AloneInv'
<1> SUFFICES ASSUME AloneInv, [Next]_vars, Quiet' PROVE AloneOK'
  BY GcInvStep DEF AloneInv
<1>1. GcInv /\ Quiet /\ AloneOK
  BY QuietBefore DEF AloneInv
<1>2. ASSUME NEW p \in Runs, Start(p) PROVE AloneOK'
  <2>1. run'[p].pc # "idle"
    BY <1>2 DEF Start, Idle
  <2> QED
    BY <1>1, <1>2, <2>1, StartAlone DEF Quiet
<1>3. ASSUME NEW p \in Runs,
             \/ RecoverNext(p) \/ Tidy(p) \/ Plan(p) \/ Validate(p) \/ AcquireLease(p)
             \/ PrepareAbsent(p) \/ FinalizeAbsent(p)
             \/ Prepare(p) \/ MakeContainer(p) \/ NoteContainer(p) \/ ResumePrefix(p) \/ Move(p)
             \/ RecordLinked(p) \/ RecordUnlinking(p) \/ RenewForUnlink(p) \/ CheckLinks(p)
             \/ UnlinkOriginal(p) \/ RecordQuarantined(p)
             \/ RecordDeleting(p) \/ Erase(p) \/ RecordDeleted(p) \/ FinalizeDeleted(p)
             \/ RemoveContainer(p) \/ Crash(p)
      PROVE  AloneOK'
  BY <1>1, <1>3, OwnStepAlone
<1>4. CASE (\E o \in Owners : AddReference(o) \/ ReleaseReference(o)) \/ Expire \/ UserDeletes \/ UserPuts
  BY <1>1, <1>4, OthersAlone
<1>5. CASE UNCHANGED vars
  <2>1. UNCHANGED <<object, row, refs, lease, journal, original, quarantine, container, run>>
    BY <1>5 DEF vars, store, disk
  <2> QED
    BY <1>1, <2>1 DEF AloneOK, WorldOK, OpOK, Open, PhaseOK, Untouched, Linked, Moved, Gone, Alive,
         SoloOK, PlaceOK, Works, MyLease
<1> QED
  BY <1>2, <1>3, <1>4, <1>5 DEF Next

\* While nobody interferes the journal says where the object is, one operation is open at a
\* time, and the one run that lives is going to close it.
THEOREM AloneInvHolds == Spec => []AloneInv
BY AloneInvInit, AloneInvStep, PTL DEF Spec

\* As long as no run, dead or alive, has met another, the next one finishes what the killed ones
\* left, wherever they were killed, and its own operation: the object is gone unless it is referenced, no journal entry is open and no
\* container is left (gc.ts:173-229, 372-603).
THEOREM AloneFinishesHolds == Spec => AloneFinishes
<1> DEFINE A == \A p \in Runs :
                  run[p].pc # "ended" /\ run'[p].pc = "ended" /\ tampers = 0 /\ ~object.undeletable
                    /\ (\A q \in Runs : ~run[q].met)
                  => Closed' /\ run'[p].outcome \notin {"failed", "contended"}
<1>1. AloneInv /\ [Next]_vars => [A]_vars
  <2> SUFFICES ASSUME AloneInv, Next, Quiet, NEW p \in Runs, run[p].pc # "ended", run'[p].pc = "ended"
               PROVE  Closed' /\ run'[p].outcome \notin {"failed", "contended"}
    BY DEF A, Quiet
  <2>1. GcInv /\ AloneOK
    BY DEF AloneInv
  <2>2. DOMAIN run = Runs /\ \A q \in Runs : run[q] \in Locals
    BY <2>1 DEF GcInv, TypeOK, RunsOK, RunOK
  <2>3. ASSUME NEW q \in Runs, Start(q) PROVE FALSE
    BY <2>2, <2>3 DEF Start, Idle, Locals
  <2>4. ASSUME NEW q \in Runs,
               \/ RecoverNext(q) \/ Tidy(q) \/ Plan(q) \/ Validate(q) \/ AcquireLease(q)
               \/ PrepareAbsent(q) \/ FinalizeAbsent(q)
               \/ Prepare(q) \/ MakeContainer(q) \/ NoteContainer(q) \/ ResumePrefix(q) \/ Move(q)
               \/ RecordLinked(q) \/ RecordUnlinking(q) \/ RenewForUnlink(q) \/ CheckLinks(q)
               \/ UnlinkOriginal(q) \/ RecordQuarantined(q)
               \/ RecordDeleting(q) \/ Erase(q) \/ RecordDeleted(q) \/ FinalizeDeleted(q)
               \/ RemoveContainer(q) \/ Crash(q)
        PROVE  Closed' /\ run'[p].outcome \notin {"failed", "contended"}
    <3>1. Ends(q)'
      BY <2>1, <2>4, OwnStepAlone
    <3>2. CASE q = p
      BY <3>1, <3>2 DEF Ends
    <3>3. CASE q # p
      BY <2>1, <2>2, <2>4, <3>3, OwnPlace
    <3> QED
      BY <3>2, <3>3
  <2>5. ASSUME NEW o \in Owners, AddReference(o) \/ ReleaseReference(o) PROVE FALSE
    BY <2>2, <2>5 DEF AddReference, ReleaseReference, Locals
  <2>6. ~Expire /\ ~UserDeletes /\ ~UserPuts
    BY DEF Expire, UserDeletes, UserPuts
  <2> QED
    BY <2>3, <2>4, <2>5, <2>6 DEF Next
<1> QED
  BY <1>1, AloneInvHolds, PTL DEF Spec, AloneFinishes, A
=============================================================================

----------------------------- MODULE ResourceGc -----------------------------
(***************************************************************************)
(* `wtm gc --apply` on one storage object of a sandbox: the object's row,  *)
(* its references, the cleanup lease and the journal in SQLite; the object *)
(* on disk, moved into a container of the operation and deleted there.     *)
(* A run first resumes the operations the journal says are unfinished,     *)
(* then plans and applies its own.  Several runs interleave, may be killed *)
(* between any two system calls, and a cleanup lease may expire under one. *)
(*                                                                         *)
(* Objects have rows, leases, journal entries and containers of their own, *)
(* so one object is enough.  The repository lease an apply may also hold   *)
(* is left out: a workspace without repositories takes none.               *)
(***************************************************************************)
EXTENDS Naturals, FiniteSets

CONSTANTS
    Runs,        \* runs of the command; a run's name is also its operation id
    NoRun,       \* no run
    Owners,      \* owners of references
    Kinds,       \* what the object may be
    MaxCrashes,  \* bound: runs that are killed
    MaxTampers,  \* bound: times the user touches the path, or a live holder's lease expires
    MaxLive      \* bound: runs alive at once

ASSUME RunsAssumption == IsFiniteSet(Runs) /\ NoRun \notin Runs
ASSUME KindAssumption == Kinds \subseteq {"file", "directory"}
ASSUME BoundsAssumption == {MaxCrashes, MaxTampers, MaxLive} \subseteq Nat

VARIABLES
    object,      \* what the object is, and whether it holds an entry no deletion
                 \* accepts: hard-linked, special, one too many
    row,         \* the state of the storage object's row
    refs,        \* owners with an unreleased reference
    lease,       \* the cleanup lease row
    journal,     \* journal[o]: the row of operation o
    original,    \* what the object's path names
    quarantine,  \* quarantine[o]: what `object` in o's container names
    container,   \* container[o]: the inode of o's container, 0 when there is none
    emptied,     \* objects (directories) whose entries are gone
    made,        \* history: objects that have been created
    run,         \* run[p]: the locals of run p
    erased,      \* history: what the runs deleted, with what each had checked
    crashes,     \* how many runs were killed
    tampers      \* how often the user or a slow holder interfered

store == <<row, refs, lease, journal>>
disk == <<original, quarantine, container, emptied>>
history == <<made, erased, crashes, tampers>>
vars == <<object, store, disk, history, run>>

\* The object, a stranger, and a stranger whose file system reissued the object's inode number.
Nothing == "nothing"
Object == "object"
Stranger == "stranger"
Twin == "twin"
Objects == {Object, Stranger, Twin}
\* Mutant: kind and owner alone are the identity.
AnyInode(o) == o # Nothing

SameInode(o) == o \in {Object, Twin}

Phases == <<"prepared", "linked", "unlinking", "quarantined", "deleting", "deleted",
            "finalized">>
Order(phase) == IF phase = "none" THEN 0
                ELSE CHOOSE i \in DOMAIN Phases : Phases[i] = phase

NoLease == [run |-> NoRun, op |-> NoRun, previous |-> "none", live |-> FALSE]
NoEntry == [phase |-> "none", absent |-> FALSE, container |-> 0]

Idle == [pc |-> "idle", todo |-> {}, book |-> [o \in Runs |-> NoEntry], op |-> NoRun,
         seen |-> "none", phase |-> "none", container |-> 0, pin |-> Nothing, known |-> {},
         met |-> FALSE, outcome |-> "none"]

Alive(p) == run[p].pc \notin {"idle", "ended", "crashed"}
Recovering(p) == run[p].op # p

Init ==
    /\ object \in {k \in [kind : Kinds, undeletable : BOOLEAN] :
                     k.undeletable => k.kind = "directory"}
    /\ row \in {"STALE", "ORPHANED"}
    /\ refs \in SUBSET Owners
    /\ lease = NoLease
    /\ journal = [o \in Runs |-> NoEntry]
    /\ original = Object
    /\ quarantine = [o \in Runs |-> Nothing]
    /\ container = [o \in Runs |-> 0]
    /\ emptied = {}
    /\ made = {Object}
    /\ run = [p \in Runs |-> Idle]
    /\ erased = {}
    /\ crashes = 0
    /\ tampers = 0

-----------------------------------------------------------------------------
\* Identity on disk: kind, owner and inode number, and for a file the number of links.

Links(o) == (IF original = o THEN 1 ELSE 0) + Cardinality({r \in Runs : quarantine[r] = o})

IsCandidate(o) == SameInode(o) /\ (object.kind = "file" => Links(o) = 1)

TwoLinks(op) == /\ original = quarantine[op]
                /\ SameInode(original)
                /\ object.kind = "file"
                /\ Links(original) = 2

-----------------------------------------------------------------------------
\* The store's transactions.

\* Mutant: an expired lease stays.
StandingForever == lease

\* An expired lease is deleted whether or not the object is eligible.
Standing == IF lease.live THEN lease ELSE NoLease

Eligible(state) == /\ Standing = NoLease
                   /\ row = state
                   /\ state \in {"STALE", "ORPHANED", "QUARANTINED"}
                   /\ refs = {}

Acquire(p, op, state) ==
    IF Eligible(state)
    THEN /\ lease' = [run |-> p, op |-> op, previous |-> state, live |-> TRUE]
         /\ row' = "QUARANTINED"
    ELSE lease' = Standing /\ UNCHANGED row

MyLease(p) == lease.run = p /\ lease.op = run[p].op

\* A renewal, and what finalization asks of the lease.
Renewable(p) == MyLease(p) /\ lease.live /\ row = "QUARANTINED" /\ refs = {}

\* The release of p's lease, if it is still there; an expired one counts.
Release(p, preserve) ==
    /\ lease' = IF MyLease(p) THEN NoLease ELSE lease
    /\ row' = IF MyLease(p) /\ ~preserve /\ row = "QUARANTINED" THEN lease.previous ELSE row

\* The journal row is the run's, up to the phase, and the object is or was removed by it.
Finalizable(p, op, entry) ==
    /\ journal[op].absent = entry.absent
    /\ journal[op].container = entry.container
    /\ journal[op].phase \in {"prepared", "deleted", "finalized"}
    /\ Renewable(p) \/ (row = "REMOVED" /\ refs = {})

Finalize(p, op) ==
    /\ row' = "REMOVED"
    /\ journal' = [journal EXCEPT ![op].phase = "finalized"]
    /\ lease' = IF MyLease(p) THEN NoLease ELSE lease

\* Mutant: a reference is refused only to a removed object.
AddReferenceAnyway(o) ==
    /\ o \notin refs /\ row # "REMOVED"
    /\ refs' = refs \cup {o}
    /\ UNCHANGED <<object, row, lease, journal, disk, history, run>>

AddReference(o) ==
    /\ o \notin refs
    /\ row \notin {"QUARANTINED", "REMOVED"} /\ lease = NoLease
    /\ refs' = refs \cup {o}
    /\ run' = [p \in Runs |-> [run[p] EXCEPT !.met = @ \/ Alive(p)]]
    /\ UNCHANGED <<object, row, lease, journal, disk, history>>

ReleaseReference(o) ==
    /\ o \in refs
    /\ refs' = refs \ {o}
    /\ UNCHANGED <<object, row, lease, journal, disk, history, run>>

\* Time passes; to a holder that is still running it is an interference.
Expire ==
    /\ lease.live
    /\ IF Alive(lease.run) THEN tampers < MaxTampers /\ tampers' = tampers + 1
       ELSE UNCHANGED tampers
    /\ lease' = [lease EXCEPT !.live = FALSE]
    /\ UNCHANGED <<object, row, refs, journal, disk, made, erased, crashes, run>>

-----------------------------------------------------------------------------
\* Outcomes.

Worse(a, b) == IF "failed" \in {a, b} THEN "failed"
               ELSE IF "contended" \in {a, b} THEN "contended" ELSE b

\* The operation is over: a recovery goes on to the next one, an apply ends the run.
Settle(p, outcome) ==
    LET worst == Worse(run[p].outcome, outcome)
        rest == [Idle EXCEPT !.todo = run[p].todo, !.book = run[p].book,
                             !.met = run[p].met, !.outcome = worst]
    IN run' = [run EXCEPT ![p] =
                 IF Recovering(p) THEN [rest EXCEPT !.pc = "next"]
                 ELSE [Idle EXCEPT !.pc = "ended", !.met = run[p].met, !.outcome = worst]]

\* Mutant: a failure always gives the object back its former state.
FailsForgetting(p) == Release(p, FALSE) /\ Settle(p, "failed")

\* A refusal: the lease is released, and the row keeps its reservation when the object may
\* have left its path.
Fails(p) ==
    /\ Release(p, \/ Order(run[p].phase) \in Order("linked") .. Order("deleted")
                  \/ quarantine'[run[p].op] # Nothing)
    /\ Settle(p, "failed")

Goto(p, pc) == run' = [run EXCEPT ![p].pc = pc]

\* A phase is recorded; the store refuses to move one backward.
Records(p, phase, next) ==
    LET op == run[p].op
    IN IF Order(phase) < Order(journal[op].phase)
       THEN Fails(p) /\ UNCHANGED journal
       ELSE /\ journal' = [journal EXCEPT ![op] = [phase |-> phase, absent |-> FALSE,
                                                   container |-> run[p].container]]
            /\ run' = [run EXCEPT ![p].pc = next, ![p].phase = phase]
            /\ UNCHANGED <<row, lease>>

-----------------------------------------------------------------------------
\* A run of the command.

Others(p) == {q \in Runs \ {p} : Alive(q)}

Start(p) ==
    /\ run[p].pc = "idle" /\ Cardinality(Others(p)) < MaxLive
    /\ run' = [q \in Runs |->
         IF q = p
         THEN [Idle EXCEPT !.pc = "next", !.book = journal,
                           !.todo = {o \in Runs : \/ Order(journal[o].phase) \in 1..6
                                                  \/ /\ journal[o].phase = "finalized"
                                                     /\ journal[o].container # 0},
                           !.met = Others(p) # {} \/ lease.live]
         ELSE [run[q] EXCEPT !.met = @ \/ Alive(q)]]
    /\ UNCHANGED <<object, store, disk, history>>

\* The next unfinished operation of the list that was read: a finalized one only has its
\* container cleaned up, a deleted or absent one of a removed object is closed without a
\* lease, any other is resumed under one.
RecoverNext(p) ==
    /\ run[p].pc = "next"
    /\ \E op \in run[p].todo :
         LET entry == run[p].book[op]
             left == [run[p] EXCEPT !.todo = @ \ {op}]
             taken == [run[p] EXCEPT !.todo = @ \ {op}, !.op = op, !.phase = entry.phase,
                                     !.container = entry.container]
             settled == /\ entry.phase = "deleted" \/ entry.absent
                        /\ entry.absent \/ quarantine[op] = Nothing
                        /\ original = Nothing
                        /\ row = "REMOVED" /\ Finalizable(p, op, entry)
         IN CASE entry.phase = "finalized" ->
                   /\ run' = [run EXCEPT ![p] =
                        IF container[op] = 0 THEN left ELSE [taken EXCEPT !.pc = "tidy"]]
                   /\ UNCHANGED <<row, lease, journal>>
              [] entry.phase # "finalized" /\ settled ->
                   /\ Finalize(p, op)
                   /\ run' = [run EXCEPT ![p] =
                        IF entry.absent THEN left
                        ELSE [taken EXCEPT !.pc = "tidy", !.phase = "finalized"]]
              [] OTHER ->
                   /\ Acquire(p, op, "QUARANTINED")
                   /\ run' = [run EXCEPT ![p] =
                        IF Eligible("QUARANTINED")
                        THEN [taken EXCEPT !.pc = IF entry.absent THEN "absent" ELSE "container"]
                        ELSE [left EXCEPT !.outcome = Worse(@, "contended")]]
                   /\ UNCHANGED journal
    /\ UNCHANGED <<object, refs, disk, history>>

\* The container of an operation found finalized.
Tidy(p) ==
    /\ run[p].pc = "tidy"
    /\ LET op == run[p].op
           clean == ~SameInode(original) /\ quarantine[op] = Nothing
       IN IF clean /\ container[op] \in {0, run[p].container}
          THEN container' = [container EXCEPT ![op] = 0] /\ Settle(p, "done")
          ELSE Settle(p, "failed") /\ UNCHANGED container
    /\ UNCHANGED <<object, store, original, quarantine, emptied, history>>

\* The evidence is read again and planned.
Candidate == /\ refs = {} /\ ~lease.live
             /\ row \in {"STALE", "ORPHANED", "QUARANTINED"}

Plan(p) ==
    /\ run[p].pc = "next" /\ run[p].todo = {}
    /\ run' = [run EXCEPT ![p] = IF Candidate
                                 THEN [@ EXCEPT !.pc = "validate", !.op = p, !.seen = row,
                                                !.phase = "none", !.container = 0]
                                 ELSE [@ EXCEPT !.pc = "ended"]]
    /\ UNCHANGED <<object, store, disk, history>>

\* The candidate is validated and, when there is one, held open.
Validate(p) ==
    /\ run[p].pc = "validate"
    /\ IF original # Nothing /\ ~IsCandidate(original) THEN Settle(p, "failed")
       ELSE run' = [run EXCEPT ![p].pc = "acquire", ![p].pin = original]
    /\ UNCHANGED <<object, store, disk, history>>

AcquireLease(p) ==
    /\ run[p].pc = "acquire"
    /\ Acquire(p, p, run[p].seen)
    /\ IF Eligible(run[p].seen)
       THEN Goto(p, IF run[p].pin = Nothing THEN "prepare-absent" ELSE "prepare")
       ELSE Settle(p, "contended")
    /\ UNCHANGED <<object, refs, journal, disk, history>>

\* The object was already gone: journal, look again, finalize.
PrepareAbsent(p) ==
    /\ run[p].pc = "prepare-absent"
    /\ journal' = [journal EXCEPT ![p] = [phase |-> "prepared", absent |-> TRUE, container |-> 0]]
    /\ run' = [run EXCEPT ![p].pc = "absent", ![p].phase = "prepared"]
    /\ UNCHANGED <<object, row, refs, lease, disk, history>>

FinalizeAbsent(p) ==
    /\ run[p].pc = "absent"
    /\ LET op == run[p].op
       IN IF original = Nothing /\ Finalizable(p, op, [absent |-> TRUE, container |-> 0])
          THEN Finalize(p, op) /\ Settle(p, "done")
          ELSE /\ Release(p, FALSE) /\ Settle(p, "failed")
               /\ UNCHANGED journal
    /\ UNCHANGED <<object, refs, disk, history>>

-----------------------------------------------------------------------------
\* Moving the object into the operation's container.

Prepare(p) ==
    /\ run[p].pc = "prepare"
    /\ UNCHANGED <<object, refs, disk, history>>
    /\ Records(p, "prepared", "container")

\* The container is made, which an apply takes for granted, or the recovery finds it; a
\* recovery also accepts that a deleted operation has none any more.
MakeContainer(p) ==
    /\ run[p].pc = "container"
    /\ LET op == run[p].op
           known == run[p].container
           gone == run[p].phase = "deleted" /\ known # 0
                     /\ quarantine[op] = Nothing /\ original = Nothing
           makes == container[op] = 0 /\ ~gone
           exists == container[op] # 0 /\ ~Recovering(p)
           lost == makes /\ Recovering(p)
                     /\ (run[p].phase # "prepared" \/ ~IsCandidate(original))
           refused == exists \/ lost
           found == IF makes THEN known + 1 ELSE IF gone THEN known ELSE container[op]
           next == IF known = 0 THEN "note"
                   ELSE CASE run[p].phase \in {"prepared", "linked", "unlinking"} -> "prefix"
                          [] run[p].phase \in {"quarantined", "deleting"} -> "delete"
                          [] OTHER -> "finalize"
       IN /\ container' = IF makes /\ ~refused THEN [container EXCEPT ![op] = found] ELSE container
          /\ UNCHANGED quarantine
          /\ IF refused \/ known \notin {0, found}
             THEN Fails(p)
             ELSE /\ run' = [run EXCEPT ![p].pc = next, ![p].container = found]
                  /\ UNCHANGED <<row, lease>>
    /\ UNCHANGED <<object, refs, journal, original, emptied, history>>

\* Its identity joins the journal.
NoteContainer(p) ==
    /\ run[p].pc = "note"
    /\ UNCHANGED <<object, refs, disk, history>>
    /\ Records(p, run[p].phase, "prefix")

\* What stands between a prepared operation and the move.  An apply renews its lease and
\* asks whether the path still names what it holds open; a recovery resumes from what the
\* phase says the two paths must look like.
ResumePrefix(p) ==
    /\ run[p].pc = "prefix"
    /\ UNCHANGED <<object, refs, journal, disk, history>>
    /\ LET op == run[p].op
           phase == run[p].phase
           both == original # Nothing /\ quarantine[op] # Nothing
           untouched == original # Nothing /\ quarantine[op] = Nothing
           moved == original = Nothing /\ quarantine[op] # Nothing
       IN IF ~Recovering(p)
          THEN IF /\ Renewable(p) /\ original = run[p].pin /\ IsCandidate(original)
                  /\ quarantine[op] = Nothing
               THEN Goto(p, "move") /\ UNCHANGED <<row, lease>>
               ELSE Fails(p)
          ELSE CASE phase = "linked" /\ TwoLinks(op) ->
                      Goto(p, "unlinking") /\ UNCHANGED <<row, lease>>
                 [] /\ phase = "unlinking"
                    /\ TwoLinks(op) \/ (moved /\ IsCandidate(quarantine[op])) ->
                      Goto(p, "unlink") /\ UNCHANGED <<row, lease>>
                 [] phase = "prepared" /\ untouched /\ IsCandidate(original) /\ Renewable(p) ->
                      Goto(p, "move") /\ UNCHANGED <<row, lease>>
                 [] phase = "prepared" /\ both /\ TwoLinks(op) ->
                      Goto(p, "linked") /\ UNCHANGED <<row, lease>>
                 [] /\ phase = "prepared" /\ moved /\ object.kind = "directory"
                    /\ IsCandidate(quarantine[op]) ->
                      Goto(p, "quarantined") /\ UNCHANGED <<row, lease>>
                 [] OTHER -> Fails(p)

\* A file is linked, a directory renamed; then what arrived is looked at.
Move(p) ==
    /\ run[p].pc = "move"
    /\ LET op == run[p].op
           can == /\ original # Nothing /\ container[op] # 0 /\ quarantine[op] = Nothing
           right == IF object.kind = "file"
                    THEN SameInode(original) /\ Links(original) = 1
                    ELSE SameInode(original)
       IN /\ quarantine' = IF can THEN [quarantine EXCEPT ![op] = original] ELSE quarantine
          /\ original' = IF can /\ object.kind = "directory" THEN Nothing ELSE original
          /\ IF can /\ right
             THEN /\ Goto(p, IF object.kind = "file" THEN "linked" ELSE "quarantined")
                  /\ UNCHANGED <<row, lease>>
             ELSE Fails(p)
    /\ UNCHANGED <<object, refs, journal, container, emptied, history>>

RecordLinked(p) ==
    /\ run[p].pc = "linked"
    /\ UNCHANGED <<object, refs, disk, history>>
    /\ Records(p, "linked", "unlinking")

RecordUnlinking(p) ==
    /\ run[p].pc = "unlinking"
    /\ UNCHANGED <<object, refs, disk, history>>
    /\ Records(p, "unlinking", "unlink")

\* The lease is renewed.  A recovery that finds the original name gone already carries on.
RenewForUnlink(p) ==
    /\ run[p].pc = "unlink"
    /\ UNCHANGED <<object, refs, journal, disk, history>>
    /\ CASE original = Nothing /\ Recovering(p) ->
              Goto(p, "quarantined") /\ UNCHANGED <<row, lease>>
         [] ~(original = Nothing /\ Recovering(p)) /\ Renewable(p) ->
              Goto(p, "links") /\ UNCHANGED <<row, lease>>
         [] OTHER -> Fails(p)

\* The last look before the original name goes.
CheckLinks(p) ==
    /\ run[p].pc = "links"
    /\ UNCHANGED <<object, refs, journal, disk, history>>
    /\ IF TwoLinks(run[p].op)
       THEN /\ run' = [run EXCEPT ![p].pc = "unlink-now", ![p].known = made]
            /\ UNCHANGED <<row, lease>>
       ELSE Fails(p)

\* It goes by its path, whatever the path names by now.
UnlinkOriginal(p) ==
    /\ run[p].pc = "unlink-now"
    /\ original' = Nothing
    /\ UNCHANGED quarantine
    /\ IF original = Nothing
       THEN Fails(p) /\ UNCHANGED erased
       ELSE /\ run' = [run EXCEPT ![p].pc = "quarantined", ![p].known = {}]
            /\ erased' = erased \cup {[object |-> original, held |-> run[p].pin,
                                       late |-> original \notin run[p].known]}
            /\ UNCHANGED <<row, lease>>
    /\ UNCHANGED <<object, refs, journal, container, emptied, made, crashes, tampers>>

RecordQuarantined(p) ==
    /\ run[p].pc = "quarantined"
    /\ UNCHANGED <<object, refs, disk, history>>
    /\ IF IsCandidate(quarantine[run[p].op])
       THEN Records(p, "quarantined", "delete")
       ELSE Fails(p) /\ UNCHANGED journal

-----------------------------------------------------------------------------
\* Deleting it there.

\* An apply renews first.  A recovery that finds no object left only checks that the
\* original has not come back.
RecordDeleting(p) ==
    /\ run[p].pc = "delete"
    /\ UNCHANGED <<object, refs, disk, history>>
    /\ LET found == quarantine[run[p].op]
       IN CASE Recovering(p) /\ found = Nothing ->
                 /\ IF original = Nothing
                    THEN Goto(p, "deleted") /\ UNCHANGED <<row, lease>>
                    ELSE Fails(p)
                 /\ UNCHANGED journal
            [] \/ Recovering(p) /\ found # Nothing /\ ~IsCandidate(found)
               \/ ~Recovering(p) /\ ~Renewable(p) ->
                 Fails(p) /\ UNCHANGED journal
            [] OTHER -> Records(p, "deleting", "erase")

\* Entries first, then the object; the lease is renewed before each.
Erase(p) ==
    /\ run[p].pc = "erase"
    /\ LET op == run[p].op
           found == quarantine[op]
           entries == object.kind = "directory" /\ found \notin emptied
       IN IF ~IsCandidate(found) \/ ~Renewable(p) \/ (entries /\ object.undeletable)
          THEN Fails(p) /\ UNCHANGED <<quarantine, emptied, erased>>
          ELSE /\ IF entries
                  THEN emptied' = emptied \cup {found} /\ UNCHANGED <<quarantine, run>>
                  ELSE /\ quarantine' = [quarantine EXCEPT ![op] = Nothing]
                       /\ Goto(p, "deleted")
                       /\ UNCHANGED emptied
               /\ erased' = erased \cup {[object |-> found, held |-> run[p].pin,
                                          late |-> FALSE]}
               /\ UNCHANGED <<row, lease>>
    /\ UNCHANGED <<object, refs, journal, original, container, made, crashes, tampers>>

RecordDeleted(p) ==
    /\ run[p].pc = "deleted"
    /\ UNCHANGED <<object, refs, disk, history>>
    /\ Records(p, "deleted", "finalize")

FinalizeDeleted(p) ==
    /\ run[p].pc = "finalize"
    /\ UNCHANGED quarantine
    /\ LET op == run[p].op
       IN IF /\ Recovering(p) => quarantine[op] = Nothing
             /\ Renewable(p)
             /\ Finalizable(p, op, [absent |-> FALSE, container |-> run[p].container])
          THEN /\ Finalize(p, op)
               /\ run' = [run EXCEPT ![p].pc = "rmdir", ![p].phase = "finalized"]
          ELSE Fails(p) /\ UNCHANGED journal
    /\ UNCHANGED <<object, refs, original, container, emptied, history>>

\* The empty container goes, and the lease, should there be one.
RemoveContainer(p) ==
    /\ run[p].pc = "rmdir"
    /\ UNCHANGED quarantine
    /\ LET op == run[p].op
       IN IF \/ container[op] = 0
             \/ container[op] = run[p].container /\ quarantine[op] = Nothing
          THEN /\ container' = [container EXCEPT ![op] = 0]
               /\ Release(p, FALSE) /\ Settle(p, "done")
          ELSE Fails(p) /\ UNCHANGED container
    /\ UNCHANGED <<object, refs, journal, original, emptied, history>>

-----------------------------------------------------------------------------
\* The environment.

Crash(p) ==
    /\ Alive(p) /\ crashes < MaxCrashes
    /\ crashes' = crashes + 1
    /\ run' = [run EXCEPT ![p] = [Idle EXCEPT !.pc = "crashed", !.met = run[p].met]]
    /\ UNCHANGED <<object, store, disk, made, erased, tampers>>

Tamper == tampers < MaxTampers /\ tampers' = tampers + 1

\* The user deletes what is at the path.
UserDeletes ==
    /\ Tamper /\ original # Nothing
    /\ original' = Nothing
    /\ UNCHANGED <<object, store, quarantine, container, emptied, made, erased, crashes, run>>

\* The user creates something there, or puts it in place of what is there.  An inode number
\* is reissued only when no other name and no open file keeps it.
UserPuts ==
    /\ Tamper
    /\ \E o \in Objects \ made :
         /\ o = Twin => /\ \A r \in Runs : quarantine[r] # Object
                        /\ \A p \in Runs : run[p].pin # Object
         /\ original' = o
         /\ made' = made \cup {o}
    /\ UNCHANGED <<object, store, quarantine, container, emptied, erased, crashes, run>>

Next ==
    \/ \E p \in Runs :
         \/ Start(p) \/ RecoverNext(p) \/ Tidy(p) \/ Plan(p) \/ Validate(p) \/ AcquireLease(p)
         \/ PrepareAbsent(p) \/ FinalizeAbsent(p)
         \/ Prepare(p) \/ MakeContainer(p) \/ NoteContainer(p) \/ ResumePrefix(p) \/ Move(p)
         \/ RecordLinked(p) \/ RecordUnlinking(p)
         \/ RenewForUnlink(p) \/ CheckLinks(p) \/ UnlinkOriginal(p) \/ RecordQuarantined(p)
         \/ RecordDeleting(p) \/ Erase(p) \/ RecordDeleted(p) \/ FinalizeDeleted(p)
         \/ RemoveContainer(p) \/ Crash(p)
    \/ \E o \in Owners : AddReference(o) \/ ReleaseReference(o)
    \/ Expire \/ UserDeletes \/ UserPuts

Spec == Init /\ [][Next]_vars

-----------------------------------------------------------------------------
\* Properties.

Entry == [phase : {"none"} \cup {Phases[i] : i \in 1..7}, absent : BOOLEAN, container : Nat]

TypeOK ==
    /\ row \in {"STALE", "ORPHANED", "QUARANTINED", "REMOVED"}
    /\ refs \subseteq Owners
    /\ lease \in [run : Runs \cup {NoRun}, op : Runs \cup {NoRun},
                  previous : {"none", "STALE", "ORPHANED", "QUARANTINED"}, live : BOOLEAN]
    /\ journal \in [Runs -> Entry]
    /\ original \in Objects \cup {Nothing}
    /\ quarantine \in [Runs -> Objects \cup {Nothing}]
    /\ container \in [Runs -> Nat]
    /\ emptied \cup made \subseteq Objects
    /\ DOMAIN run = Runs
    /\ object \in [kind : Kinds, undeletable : BOOLEAN]

\* Of what was there when the run looked last, nothing but the registered object is deleted,
\* at its path or in the container: never a file of another inode, and by an apply nothing but
\* what it held open, even when the file system reissued the inode number (gc.ts:239-250,
\* 369-370, 783-784).  What is put at the path between that look and the unlink is excepted:
\* the unlink is by path, and nothing can make the two one step.
ErasesWhatItChecked ==
    \A e \in erased :
        ~e.late => e.object # Stranger /\ (e.held # Nothing => e.object = e.held)

\* docs/01-product-goals-and-non-goals.md:78: "GC only deletes resources that are owned and
\* classified as safe to remove."
DeletesOnlyOwned == \A e \in erased : e.object # Stranger

\* While anything lies in an operation's container the object's row is reserved, so no
\* reference can be added to an object that has been moved away (gc.ts:425-431).
QuarantinedIsReserved ==
    \A o \in Runs : quarantine[o] # Nothing => row \notin {"STALE", "ORPHANED"}

\* docs/13-data-model-and-state-machines.md: "REMOVED (terminal -- content deleted".
RemovedIsGone ==
    row = "REMOVED" => original # Object /\ \A o \in Runs : quarantine[o] # Object

\* No run moves, unlinks or deletes a referenced object, whatever it read before the
\* reference was added (sqlite-store.ts:729-747, 797-849).
ReferencesProtect ==
    [][ \/ quarantine' # quarantine \/ emptied' # emptied
        \/ original' # original /\ tampers' = tampers
        => refs = {} ]_vars

Closed == /\ \A o \in Runs : journal[o].phase \in {"none", "finalized"} /\ container[o] = 0
          /\ refs = {} => row = "REMOVED" /\ original # Object

\* However many runs were killed, and wherever: as long as no run, dead or alive, ever met
\* another, the next one finishes their operations and its own, once the last one's lease has
\* expired.
AloneFinishes ==
    [][ \A p \in Runs :
          run[p].pc # "ended" /\ run'[p].pc = "ended" /\ tampers = 0 /\ ~object.undeletable
            /\ (\A q \in Runs : ~run[q].met)
          => Closed' /\ run'[p].outcome \notin {"failed", "contended"} ]_vars
=============================================================================

-------------------------- MODULE ServiceLifecycle --------------------------
(***************************************************************************)
(* `wtm daemon install | uninstall | status`: changing the one file a      *)
(* service manager reads, from processes that may be killed between any    *)
(* two system calls while another copy does the same.  An operation lock   *)
(* taken over from dead owners through claims, a journal published by      *)
(* rename, a publication and a removal that go through a quarantine, the   *)
(* recovery of what a dead predecessor left, and the rollback of an        *)
(* install the manager refused.                                            *)
(*                                                                         *)
(* Runs are numbered in the order they start; a run's number stands for    *)
(* its transaction id, its PID and its start time.                         *)
(***************************************************************************)
EXTENDS Integers, Sequences, FiniteSets, SequencesExt

CONSTANTS
    Runs,            \* runs of the command, numbered from 1
    Ops,             \* Ops[p]: the commands run p may be
    Legacies,        \* what an installation under the old label may have left
    Build,           \* Build[p]: the definition run p would publish
    MaxPredecessors, \* maxOwnerPredecessors
    MaxBusy,         \* lockPollAttempts
    MaxLive,         \* bound: runs alive at once
    MaxMishaps,      \* bound: crashes, failed commands and foreign edits
    MaxFaults,       \* bound: only the first so many of them are not crashes
    TornWrites       \* whether a crash may leave a file created and not written

ASSUME RunsAssumption == Runs \subseteq Nat \ {0} /\ IsFiniteSet(Runs)
ASSUME OpsAssumption == /\ Ops \in [Runs -> SUBSET {"install", "uninstall", "status"}]
                        /\ Legacies \subseteq [def : BOOLEAN, loaded : BOOLEAN, artifacts : BOOLEAN]
ASSUME BuildAssumption == Build \in [Runs -> {"old", "new"}]
ASSUME BoundsAssumption == /\ {MaxPredecessors, MaxBusy, MaxLive} \subseteq Nat \ {0}
                           /\ {MaxMishaps, MaxFaults} \subseteq Nat
                           /\ TornWrites \in BOOLEAN

VARIABLES
    lock,        \* the operation lock: its owner's metadata
    candidate,   \* candidate[p]: p's own `.owner-` file
    claim,       \* claim[q]: the `.successor-` file that claims the lock of q
    journal,     \* the transaction journal
    journalTmp,  \* journalTmp[p]: the journal's temporary of transaction p
    def,         \* the service definition
    tmp,         \* tmp[p]: the definition's temporary of transaction p
    quarantine,  \* quarantine[p]: where transaction p moved the old definition
    service,     \* the definition the service manager has loaded
    legacy,      \* what an installation under the old label left
    run,         \* run[p]: the locals of run p
    allowed,     \* history: what the definition may hold once it is at rest
    mishaps,     \* how many there have been
    met,         \* history: met[p]: p was not alone
    edited       \* history: somebody else edited the definition

locks == <<lock, candidate, claim>>
journals == <<journal, journalTmp>>
files == <<def, tmp, quarantine>>
manager == <<service, legacy>>
history == <<allowed, met, edited>>
vars == <<locks, journals, files, manager, run, history, mishaps>>

\* A file is an inode and its content; one inode may have two names.
NoFile == [id |-> <<0, 0>>, body |-> "none"]
OldFile == [id |-> <<0, 1>>, body |-> "old"]
Stranger == [id |-> <<0, 2>>, body |-> "foreign"]
NoOwner == [tx |-> 0, preds |-> <<>>]
NoJournal == [tx |-> 0, op |-> "none", phase |-> "none", original |-> NoFile.id,
              replacement |-> NoFile.id, expected |-> "none"]
Torn == [NoJournal EXCEPT !.op = "torn"]

Idle == [pc |-> "idle", op |-> "none", seen |-> NoOwner, busy |-> 0, claimed |-> 0,
         existing |-> NoFile, loaded |-> FALSE, bootedOut |-> FALSE, source |-> NoFile.id,
         body |-> "none", published |-> NoFile.id, handOver |-> FALSE,
         pending |-> NoJournal, next |-> "none", outcome |-> "none"]

\* A run that has ended and one that was killed are dead; the inspector sees no difference.
Alive(p) == run[p].pc \notin {"idle", "ended", "crashed"}

\* States outside the operation lock.
Unlocked == {"idle", "ended", "crashed", "probe-legacy", "candidate", "link", "linked",
             "inspect", "unlink-companion", "claim", "claim-link", "contest", "claimed",
             "replace"}

Holds(p) == run[p].pc \notin Unlocked

Mishap == mishaps < MaxMishaps /\ mishaps' = mishaps + 1

Goto(p, pc) == run' = [run EXCEPT ![p].pc = pc]

\* The locals of p after it ended with an outcome.
Ended(p, outcome) == [run EXCEPT ![p] = [Idle EXCEPT !.pc = "ended", !.op = run[p].op,
                                                     !.outcome = outcome]]

\* A lifecycle error while the lock is held: the finally block releases it.
Failed(p) == [run EXCEPT ![p].pc = "release", ![p].outcome = "failed"]

-----------------------------------------------------------------------------
Init ==
    /\ lock = NoOwner
    /\ candidate = [p \in Runs |-> NoOwner]
    /\ claim = [p \in Runs |-> NoOwner]
    /\ journal = NoJournal
    /\ journalTmp = [p \in Runs |-> NoJournal]
    /\ def \in {NoFile, OldFile}
    /\ tmp = [p \in Runs |-> NoFile]
    /\ quarantine = [p \in Runs |-> NoFile]
    /\ service \in {"none", def.body}
    /\ legacy \in Legacies
    /\ run = [p \in Runs |-> Idle]
    /\ allowed = {def.body}
    /\ mishaps = 0
    /\ met = [p \in Runs |-> FALSE]
    /\ edited = FALSE

-----------------------------------------------------------------------------
\* The operation lock.

\* The second name of the inode the lock names, if it has one: its owner's candidate, or
\* the claim on its first predecessor.
HasCandidate(owner) == owner.tx # 0 /\ candidate[owner.tx] = owner
HasClaim(owner) == owner.preds # <<>> /\ claim[Head(owner.preds)] = owner

Start(p, op) ==
    /\ run[p].pc = "idle"
    /\ \A q \in Runs : q < p => run[q].pc # "idle"
    /\ Cardinality({q \in Runs : Alive(q)}) < MaxLive
    /\ run' = [run EXCEPT ![p].op = op,
                          ![p].pc = IF op = "status" THEN "probe-legacy" ELSE "candidate"]
    /\ met' = [q \in Runs |-> met[q] \/ (q # p /\ Alive(q))
                                     \/ (q = p /\ \E r \in Runs : Alive(r))]
    /\ UNCHANGED <<locks, journals, files, manager, allowed, edited, mishaps>>

\* A fault: a published definition is taken for a service that answers.
ProbeLegacy_Published(p) ==
    LET handOver == legacy.def /\ def # NoFile
    IN  /\ run[p].pc = "probe-legacy"
        /\ run' = IF legacy.def \/ legacy.artifacts
                  THEN [run EXCEPT ![p].pc = "candidate", ![p].handOver = handOver]
                  ELSE Ended(p, "done")
        /\ UNCHANGED <<locks, journals, files, manager, history, mishaps>>

\* finishLegacyLabelMigration, before the lock: what it will do is decided here.
ProbeLegacy(p) ==
    LET handOver == legacy.def /\ def # NoFile /\ (~legacy.loaded \/ service # "none")
    IN  /\ run[p].pc = "probe-legacy"
        /\ run' = IF legacy.def \/ legacy.artifacts
                  THEN [run EXCEPT ![p].pc = "candidate", ![p].handOver = handOver]
                  ELSE Ended(p, "done")
        /\ UNCHANGED <<locks, journals, files, manager, history, mishaps>>

WriteCandidate(p) ==
    /\ run[p].pc = "candidate"
    /\ candidate' = [candidate EXCEPT ![p] = [tx |-> p, preds |-> <<>>]]
    /\ Goto(p, "link")
    /\ UNCHANGED <<lock, claim, journals, files, manager, history, mishaps>>

\* link(2) fails when the name exists; the candidate goes either way, before the lock is
\* looked at.
LinkLock(p) ==
    /\ run[p].pc = "link"
    /\ \/ lock = NoOwner /\ lock' = candidate[p] /\ Goto(p, "linked") /\ UNCHANGED candidate
       \/ /\ lock # NoOwner
          /\ candidate' = [candidate EXCEPT ![p] = NoOwner]
          /\ Goto(p, "inspect")
          /\ UNCHANGED lock
    /\ UNCHANGED <<claim, journals, files, manager, history, mishaps>>

DropCandidate(p) ==
    /\ run[p].pc = "linked"
    /\ candidate' = [candidate EXCEPT ![p] = NoOwner]
    /\ Goto(p, "recover")
    /\ UNCHANGED <<lock, claim, journals, files, manager, history, mishaps>>

\* Waited once more for a live owner, or for one that cannot be inspected.
Busy(p) ==
    run' = IF run[p].busy + 1 >= MaxBusy THEN Ended(p, "busy")
           ELSE [run EXCEPT ![p] = [Idle EXCEPT !.pc = "candidate", !.op = run[p].op,
                                                !.busy = run[p].busy + 1,
                                                !.handOver = run[p].handOver]]

\* Transactions whose journal or journal temporary is still there.
Unfinished(ids) == {t \in ids : journal.tx = t \/ journalTmp[t] # NoJournal}

\* A fault: the oldest predecessors are forgotten, whatever they left.
Inherited_Newest(owner) ==
    LET available == <<owner.tx>> \o owner.preds
    IN  SubSeq(available, 1, IF Len(available) < MaxPredecessors THEN Len(available)
                             ELSE MaxPredecessors)

\* The elements of s that are in S, in the order they have there.
Among(s, S) ==
    LET at == {i \in DOMAIN s : s[i] \in S}
    IN  [k \in 1..Cardinality(at) |-> s[CHOOSE i \in at : Cardinality({j \in at : j <= i}) = k]]

\* The newest transactions, without as many of the oldest of them as have to give way.
Newest(available, needed) ==
    LET newest == ToSet(SubSeq(available, 1, MaxPredecessors))
        spare  == Reverse(Among(SubSeq(available, 1, MaxPredecessors), newest \ needed))
    IN  newest \ ToSet(SubSeq(spare, 1, Cardinality(needed \ newest)))

\* inheritedPredecessorTransactionIds: the owner and its predecessors, newest first; past
\* the bound, those that left nothing give way to those that did.
Inherited(owner) ==
    LET available == <<owner.tx>> \o owner.preds
        needed    == {owner.tx} \cup Unfinished(ToSet(available))
    IN  IF Len(available) <= MaxPredecessors THEN available
        ELSE Among(available, Newest(available, needed) \cup needed)

\* What the inspection reads must be authentic: a journal of the lineage, complete, and no
\* more transactions to recover than the owner's metadata can name.
Readable(owner) ==
    LET ids == {owner.tx} \cup ToSet(owner.preds)
    IN  /\ journal = NoJournal \/ journal.tx \in ids
        /\ \A t \in ids : journalTmp[t] # Torn
        /\ \/ Cardinality(ids) <= MaxPredecessors
           \/ Cardinality({owner.tx} \cup Unfinished(ids)) <= MaxPredecessors

\* The owner is measured.  A lock with two names loses the second first.
InspectOwner(p) ==
    /\ run[p].pc = "inspect"
    /\ \/ lock = NoOwner /\ Goto(p, "candidate") /\ UNCHANGED candidate
       \/ lock # NoOwner /\ Busy(p) /\ UNCHANGED candidate
       \/ /\ lock # NoOwner /\ ~Alive(lock.tx)
          /\ HasCandidate(lock) \/ HasClaim(lock)
          /\ run' = [run EXCEPT ![p].pc = "unlink-companion", ![p].seen = lock]
          /\ UNCHANGED candidate
       \/ /\ lock # NoOwner /\ ~Alive(lock.tx)
          /\ ~HasCandidate(lock) /\ ~HasClaim(lock)
          /\ IF Readable(lock)
             THEN /\ candidate' = [candidate EXCEPT ![p] = [tx |-> p, preds |-> Inherited(lock)]]
                  /\ run' = [run EXCEPT ![p].pc = "claim", ![p].seen = lock]
             ELSE run' = Ended(p, "unsafe") /\ UNCHANGED candidate
    /\ UNCHANGED <<lock, claim, journals, files, manager, history, mishaps>>

UnlinkCompanion(p) ==
    LET seen == run[p].seen
    IN  /\ run[p].pc = "unlink-companion"
        /\ \/ /\ HasCandidate(seen)
              /\ candidate' = [candidate EXCEPT ![seen.tx] = NoOwner]
              /\ Goto(p, "candidate")
              /\ UNCHANGED claim
           \/ /\ ~HasCandidate(seen) /\ HasClaim(seen)
              /\ claim' = [claim EXCEPT ![Head(seen.preds)] = NoOwner]
              /\ Goto(p, "candidate")
              /\ UNCHANGED candidate
           \/ /\ ~HasCandidate(seen) /\ ~HasClaim(seen)
              /\ run' = Ended(p, "unsafe")
              /\ UNCHANGED <<candidate, claim>>
        /\ UNCHANGED <<lock, journals, files, manager, history, mishaps>>

\* The dead owner's lock is read again, twice: a change seen first is a reason to wait, one
\* seen second an error that leaves the candidate behind.
Claim(p) ==
    LET seen == run[p].seen
    IN  /\ run[p].pc = "claim"
        /\ \/ /\ lock # seen
              /\ candidate' = [candidate EXCEPT ![p] = NoOwner]
              /\ Busy(p)
           \/ lock # seen /\ run' = Ended(p, "unsafe") /\ UNCHANGED candidate
           \/ lock = seen /\ Goto(p, "claim-link") /\ UNCHANGED candidate
        /\ UNCHANGED <<lock, claim, journals, files, manager, history, mishaps>>

\* The right to replace a dead owner's lock is the link to its `.successor-` name.
LinkClaim(p) ==
    LET seen == run[p].seen
    IN  /\ run[p].pc = "claim-link"
        /\ IF claim[seen.tx] = NoOwner
           THEN /\ claim' = [claim EXCEPT ![seen.tx] = candidate[p]]
                /\ run' = [run EXCEPT ![p].pc = "claimed", ![p].claimed = seen.tx]
                /\ UNCHANGED candidate
           ELSE /\ candidate' = [candidate EXCEPT ![p] = NoOwner]
                /\ Goto(p, "contest")
                /\ UNCHANGED claim
        /\ UNCHANGED <<lock, journals, files, manager, history, mishaps>>

\* A fault: the claim alone decides.
ConfirmClaim_Trusts(p) ==
    /\ run[p].pc = "claimed"
    /\ Goto(p, "replace")
    /\ UNCHANGED <<locks, journals, files, manager, history, mishaps>>

\* The claim may have been free because its last holder is done: the lock is no longer the
\* one this run saw.  From here on nobody else can replace it.
ConfirmClaim(p) ==
    /\ run[p].pc = "claimed"
    /\ IF lock = run[p].seen THEN Goto(p, "replace") /\ UNCHANGED <<candidate, claim>>
       ELSE /\ claim' = [claim EXCEPT ![run[p].claimed] = NoOwner]
            /\ candidate' = [candidate EXCEPT ![p] = NoOwner]
            /\ run' = Ended(p, "unsafe")
    /\ UNCHANGED <<lock, journals, files, manager, history, mishaps>>

\* resolveExistingSuccessorClaim: somebody else's claim, which is the second name of its
\* candidate or of the lock.  A dead claimant's takeover is finished in its name; its lock is
\* then taken over like any other.
ContestClaim(p) ==
    LET seen  == run[p].seen
        other == claim[seen.tx]
    IN  /\ run[p].pc = "contest"
        /\ \/ /\ other # NoOwner
              /\ Busy(p)
              /\ UNCHANGED <<lock, candidate>>
           \/ /\ ~(other # NoOwner /\ Alive(other.tx))
              /\ IF other # NoOwner /\ HasCandidate(other) /\ lock = seen
                 THEN lock' = other /\ candidate' = [candidate EXCEPT ![other.tx] = NoOwner]
                 ELSE UNCHANGED <<lock, candidate>>
              /\ run' = IF \/ other = NoOwner
                           \/ HasCandidate(other) /\ lock = seen
                           \/ ~HasCandidate(other) /\ lock = other
                        THEN [run EXCEPT ![p].pc = "candidate"]
                        ELSE Ended(p, "unsafe")
        /\ UNCHANGED <<claim, journals, files, manager, history, mishaps>>

\* rename(2) of the candidate over the dead owner's lock.
ReplaceLock(p) ==
    /\ run[p].pc = "replace"
    /\ lock' = candidate[p]
    /\ candidate' = [candidate EXCEPT ![p] = NoOwner]
    /\ Goto(p, "recover")
    /\ UNCHANGED <<claim, journals, files, manager, history, mishaps>>

-----------------------------------------------------------------------------
\* Journal writes: a complete temporary under the transaction's name, renamed into place.

\* The locals of p about to write journal j and to continue at pc.
Writing(p, j, pc) == [run EXCEPT ![p].pc = "stage", ![p].pending = j, ![p].next = pc]

Phase(p, phase) == [run[p].pending EXCEPT !.phase = phase]

StageJournal(p) ==
    LET j == run[p].pending
    IN  /\ run[p].pc = "stage"
        /\ journalTmp[j.tx] = NoJournal
        /\ journalTmp' = [journalTmp EXCEPT ![j.tx] = j]
        /\ Goto(p, "commit")
        /\ UNCHANGED <<locks, journal, files, manager, history, mishaps>>

CommitJournal(p) ==
    LET j == run[p].pending
    IN  /\ run[p].pc = "commit"
        /\ journal' = j
        /\ journalTmp' = [journalTmp EXCEPT ![j.tx] = NoJournal]
        /\ Goto(p, run[p].next)
        /\ UNCHANGED <<locks, files, manager, history, mishaps>>

-----------------------------------------------------------------------------
\* Recovery: every step is decided from the files a predecessor left, so that a crash in
\* the middle of it is recovered like any other.

\* The newest predecessor that left a journal temporary.
Outstanding(t) ==
    \E i \in DOMAIN lock.preds :
        /\ lock.preds[i] = t /\ journalTmp[t] # NoJournal
        /\ \A k \in 1..(i - 1) : journalTmp[lock.preds[k]] = NoJournal

\* The journal has no temporary left beside it: what it says can be acted on.
Reconciled == journal # NoJournal /\ journalTmp[journal.tx] = NoJournal

Quarantined == quarantine[journal.tx]
Temporary == tmp[journal.tx]
Late == journal.op = "publish" /\ journal.phase # "preparing"

\* What recovery does not dare to touch.
Unrecoverable ==
    \/ journal.tx \notin ToSet(lock.preds) /\ journal # NoJournal
    \/ \E t \in ToSet(lock.preds) : journalTmp[t] = Torn
    \/ /\ Reconciled /\ journal.phase = "preparing"
       /\ \/ Quarantined # NoFile
          \/ def.id # journal.original
          \/ Temporary # NoFile /\ Temporary.body # journal.expected
    \/ /\ Reconciled /\ Late
       /\ \/ Temporary # NoFile /\ Temporary.id # journal.replacement
          \/ Quarantined # NoFile /\ Quarantined.id # journal.original
          \/ /\ def = NoFile /\ Quarantined = NoFile
             /\ journal.original # NoFile.id
    \/ /\ Reconciled /\ journal.op = "remove"
       /\ Quarantined # NoFile /\ Quarantined.id # journal.original

\* Recovery runs before the try block: its error leaves the lock to the next run.
RecoveryRefused(p) ==
    /\ run[p].pc = "recover"
    /\ Unrecoverable
    /\ run' = Ended(p, "unsafe")
    /\ UNCHANGED <<locks, journals, files, manager, history, mishaps>>

\* reconcilePredecessorJournalTemporary: an equal temporary is a leftover, another one is
\* newer than the journal, and one without a journal is adopted by a second link to it.
ReconcileJournal(p) ==
    /\ run[p].pc = "recover" /\ ~Unrecoverable
    /\ \E t \in Runs :
        /\ IF journal # NoJournal THEN t = journal.tx ELSE Outstanding(t)
        /\ journalTmp[t] # NoJournal
        /\ journal' = journalTmp[t]
        /\ journalTmp' = IF journal = NoJournal THEN journalTmp
                         ELSE [journalTmp EXCEPT ![t] = NoJournal]
    /\ UNCHANGED <<locks, files, manager, run, history, mishaps>>

\* A temporary the journal announced and did not identify yet.
AdoptTemporary(p) ==
    /\ run[p].pc = "recover" /\ ~Unrecoverable
    /\ Reconciled /\ journal.phase = "preparing" /\ Temporary # NoFile
    /\ run' = Writing(p, [journal EXCEPT !.phase = "prepared", !.replacement = Temporary.id], "recover")
    /\ UNCHANGED <<locks, journals, files, manager, history, mishaps>>

\* A fault: an interrupted publication that had moved the old definition is only tidied up.
RestoreLink_Skipped(p) ==
    /\ run[p].pc = "recover" /\ ~Unrecoverable
    /\ Reconciled /\ Late
    /\ def = NoFile /\ Quarantined # NoFile
    /\ quarantine' = [quarantine EXCEPT ![journal.tx] = NoFile]
    /\ tmp' = [tmp EXCEPT ![journal.tx] = NoFile]
    /\ journal' = NoJournal
    /\ UNCHANGED <<locks, journalTmp, def, manager, run, history, mishaps>>

\* The old definition goes back to its name by a second link.
RestoreLink(p) ==
    /\ run[p].pc = "recover" /\ ~Unrecoverable
    /\ Reconciled /\ Late
    /\ def = NoFile /\ Quarantined # NoFile
    /\ def' = Quarantined
    /\ UNCHANGED <<locks, journals, tmp, quarantine, manager, run, history, mishaps>>

DropTemporary(p) ==
    /\ run[p].pc = "recover" /\ ~Unrecoverable
    /\ Reconciled /\ Late /\ Temporary # NoFile
    /\ IF def = NoFile THEN Quarantined = NoFile ELSE def # Quarantined
    /\ tmp' = [tmp EXCEPT ![journal.tx] = NoFile]
    /\ UNCHANGED <<locks, journals, def, quarantine, manager, run, history, mishaps>>

DropQuarantine(p) ==
    /\ run[p].pc = "recover" /\ ~Unrecoverable
    /\ Reconciled /\ Quarantined # NoFile
    /\ \/ journal.op = "remove"
       \/ Late /\ def # NoFile /\ (Temporary = NoFile \/ def = Quarantined)
    /\ quarantine' = [quarantine EXCEPT ![journal.tx] = NoFile]
    /\ UNCHANGED <<locks, journals, def, tmp, manager, run, history, mishaps>>

CloseTransaction(p) ==
    /\ run[p].pc = "recover" /\ ~Unrecoverable
    /\ Reconciled
    /\ Temporary = NoFile /\ Quarantined = NoFile
    /\ journal' = NoJournal
    /\ UNCHANGED <<locks, journalTmp, files, manager, run, history, mishaps>>

EnterBody(p) ==
    /\ run[p].pc = "recover"
    /\ journal = NoJournal /\ \A t \in Runs : ~Outstanding(t)
    /\ Goto(p, "legacy-bootout")
    /\ UNCHANGED <<locks, journals, files, manager, history, mishaps>>

-----------------------------------------------------------------------------
\* The operation under the lock: legacy takeover, inspection, service manager.

BootOutLegacy(p) ==
    /\ run[p].pc = "legacy-bootout"
    /\ legacy' = [legacy EXCEPT !.loaded = @ /\ ~(legacy.def /\ (run[p].op # "status" \/ run[p].handOver))]
    /\ Goto(p, "sweep")
    /\ UNCHANGED <<locks, journals, files, service, history, mishaps>>

\* sweepLegacyLabelArtifacts
Sweep(p) ==
    /\ run[p].pc = "sweep"
    /\ legacy' = [legacy EXCEPT !.artifacts = FALSE]
    /\ Goto(p, IF run[p].op = "status" THEN "retire" ELSE "probe")
    /\ UNCHANGED <<locks, journals, files, service, history, mishaps>>

\* Where an operation goes once the service is out of the way.
AfterBootout(p, existing) ==
    IF run[p].op = "uninstall" THEN IF existing = NoFile THEN "retire" ELSE "remove"
    ELSE IF existing.body = Build[p] THEN "bootstrap" ELSE "intend"

Probe(p) ==
    /\ run[p].pc = "probe"
    /\ run' = [run EXCEPT
         ![p].existing = def,
         ![p].loaded = service # "none",
         ![p].body = IF run[p].op = "install" THEN Build[p] ELSE "none",
         ![p].pc = IF service = "none" THEN AfterBootout(p, def)
                   ELSE IF run[p].op = "install" /\ def.body = Build[p] THEN "restart" ELSE "bootout"]
    /\ allowed' = {def.body}
    /\ UNCHANGED <<locks, journals, files, manager, met, edited, mishaps>>

\* enable and kickstart of an unchanged definition.
Restart(p) ==
    /\ run[p].pc = "restart"
    /\ Goto(p, "retire")
    /\ UNCHANGED <<locks, journals, files, manager, history, mishaps>>

\* A fault: a rollback does not know that a service was stopped.
BootOut_Forgets(p) ==
    /\ run[p].pc = "bootout"
    /\ service' = "none"
    /\ Goto(p, AfterBootout(p, run[p].existing))
    /\ UNCHANGED <<locks, journals, files, legacy, history, mishaps>>

BootOut(p) ==
    /\ run[p].pc = "bootout"
    /\ service' = "none"
    /\ run' = [run EXCEPT ![p].bootedOut = TRUE, ![p].pc = AfterBootout(p, run[p].existing)]
    /\ UNCHANGED <<locks, journals, files, legacy, history, mishaps>>

\* reload, enable and bootstrap; there must be a definition to load.
Bootstrap(p) ==
    /\ run[p].pc = "bootstrap"
    /\ def # NoFile
    /\ service' = def.body
    /\ Goto(p, "retire")
    /\ UNCHANGED <<locks, journals, files, legacy, history, mishaps>>

Published(p) == run[p].published # NoFile.id

\* The file operation or the command p was at went wrong.
Undone(p) ==
    IF run[p].op = "install" /\ Published(p) /\ run[p].pc # "bootstrap"
    THEN [run EXCEPT ![p].pc = "release", ![p].outcome = "rollback-failed"]
    ELSE IF run[p].op = "install" /\ (Published(p) \/ run[p].bootedOut)
    THEN [run EXCEPT ![p].pc = "rollback"]
    ELSE Failed(p)

BootstrapImpossible(p) ==
    /\ run[p].pc = "bootstrap"
    /\ def = NoFile
    /\ run' = Undone(p)
    /\ UNCHANGED <<locks, journals, files, manager, history, mishaps>>

\* restorePreviousDefinition: nobody may have touched what is there since.
Rollback(p) ==
    LET expected == IF Published(p) THEN run[p].published ELSE run[p].existing.id
    IN  /\ run[p].pc = "rollback"
        /\ run' = IF def.id # expected
                  THEN [run EXCEPT ![p].pc = "release", ![p].outcome = "rollback-failed"]
                  ELSE IF ~Published(p) THEN [run EXCEPT ![p].pc = "rebootstrap"]
                  ELSE IF run[p].existing = NoFile THEN [run EXCEPT ![p].pc = "remove"]
                  ELSE [run EXCEPT ![p].pc = "intend", ![p].body = run[p].existing.body]
        /\ UNCHANGED <<locks, journals, files, manager, history, mishaps>>

\* The previous service comes back if this run stopped it.
Rebootstrap(p) ==
    /\ run[p].pc = "rebootstrap"
    /\ IF ~run[p].bootedOut THEN run' = Failed(p) /\ UNCHANGED service
       ELSE IF run[p].existing = NoFile \/ def = NoFile
       THEN /\ run' = [run EXCEPT ![p].pc = "release", ![p].outcome = "rollback-failed"]
            /\ UNCHANGED service
       ELSE service' = def.body /\ run' = Failed(p)
    /\ UNCHANGED <<locks, journals, files, legacy, history, mishaps>>

\* The manager refuses a command; a bootout it obeyed may be reported as one that never
\* ended, a bootstrap it obeyed as one that did not.
CommandFails(p) ==
    /\ Mishap /\ mishaps < MaxFaults
    /\ \/ /\ run[p].pc \in {"legacy-bootout", "bootout", "restart", "bootstrap", "rebootstrap"}
          /\ run[p].pc = "legacy-bootout" => legacy.loaded /\ legacy.def
          /\ run' = IF run[p].pc = "rebootstrap"
                    THEN [run EXCEPT ![p].pc = "release", ![p].outcome = "rollback-failed"]
                    ELSE IF run[p].pc = "bootstrap" THEN Undone(p) ELSE Failed(p)
          /\ UNCHANGED service
       \/ /\ run[p].pc = "bootout"
          /\ service' = "none"
          /\ run' = IF run[p].op = "install"
                    THEN [run EXCEPT ![p].bootedOut = TRUE, ![p].pc = "rollback"] ELSE Failed(p)
       \/ /\ run[p].pc = "bootstrap" /\ def # NoFile
          /\ service' = def.body
          /\ Goto(p, "retire")
    /\ UNCHANGED <<locks, journals, files, legacy, history>>

-----------------------------------------------------------------------------
\* publishSafeManagedFile, one action per change of a directory.

NewId(p) == IF Published(p) THEN <<p, 2>> ELSE <<p, 1>>

Intend(p) ==
    /\ run[p].pc = "intend"
    /\ run' = [Writing(p, [tx |-> p, op |-> "publish", phase |-> "preparing", original |-> def.id,
                           replacement |-> NoFile.id, expected |-> run[p].body], "write-temp")
               EXCEPT ![p].source = def.id]
    /\ allowed' = {def.body, run[p].body}
    /\ UNCHANGED <<locks, journals, files, manager, met, edited, mishaps>>

WriteTemporary(p) ==
    /\ run[p].pc = "write-temp"
    /\ tmp' = [tmp EXCEPT ![p] = [id |-> NewId(p), body |-> run[p].body]]
    /\ run' = Writing(p, [Phase(p, "prepared") EXCEPT !.replacement = NewId(p)], "move-old")
    /\ UNCHANGED <<locks, journals, def, quarantine, manager, history, mishaps>>

\* The old definition is still the one this run read.
MoveOld(p) ==
    /\ run[p].pc = "move-old"
    /\ Goto(p, IF def.id # run[p].source THEN "undo"
               ELSE IF def = NoFile THEN "link-new" ELSE "rename-old")
    /\ UNCHANGED <<locks, journals, files, manager, history, mishaps>>

\* A fault: what was moved is not looked at.
RenameOld_Blind(p) ==
    /\ run[p].pc = "rename-old"
    /\ IF def = NoFile THEN Goto(p, "undo") /\ UNCHANGED <<def, quarantine>>
       ELSE /\ quarantine' = [quarantine EXCEPT ![p] = def]
            /\ def' = NoFile
            /\ run' = Writing(p, Phase(p, "old-quarantined"), "link-new")
    /\ UNCHANGED <<locks, journals, tmp, manager, history, mishaps>>

\* rename(2) of whatever is there now; a stranger goes back.
RenameOld(p) ==
    /\ run[p].pc = "rename-old"
    /\ IF def = NoFile THEN Goto(p, "undo") /\ UNCHANGED <<def, quarantine>>
       ELSE /\ quarantine' = [quarantine EXCEPT ![p] = def]
            /\ def' = NoFile
            /\ run' = IF def.id = run[p].source THEN Writing(p, Phase(p, "old-quarantined"), "link-new")
                      ELSE [run EXCEPT ![p].pc = "put-back"]
    /\ UNCHANGED <<locks, journals, tmp, manager, history, mishaps>>

\* restoreQuarantinedFile for a file that was not this run's to move: never deleted.
PutBack(p) ==
    /\ run[p].pc = "put-back"
    /\ IF def = NoFile THEN def' = quarantine[p] /\ Goto(p, "undo-drop")
       ELSE Goto(p, "drop-temp") /\ UNCHANGED def
    /\ UNCHANGED <<locks, journals, tmp, quarantine, manager, history, mishaps>>

LinkNew(p) ==
    /\ run[p].pc = "link-new"
    /\ IF def # NoFile THEN Goto(p, "undo") /\ UNCHANGED def
       ELSE /\ def' = tmp[p]
            /\ run' = Writing(p, Phase(p, "new-linked"), "unlink-temp")
    /\ UNCHANGED <<locks, journals, tmp, quarantine, manager, history, mishaps>>

UnlinkTemporary(p) ==
    /\ run[p].pc = "unlink-temp"
    /\ IF def.id # tmp[p].id THEN Goto(p, "undo") /\ UNCHANGED tmp
       ELSE /\ tmp' = [tmp EXCEPT ![p] = NoFile]
            /\ run' = Writing(p, Phase(p, "temporary-unlinked"), "drop-old")
    /\ UNCHANGED <<locks, journals, def, quarantine, manager, history, mishaps>>

DropOld(p) ==
    /\ run[p].pc = "drop-old"
    /\ quarantine' = [quarantine EXCEPT ![p] = NoFile]
    /\ run' = IF Published(p) THEN [run EXCEPT ![p].pc = "rebootstrap"]
              ELSE [run EXCEPT ![p].pc = "bootstrap", ![p].published = NewId(p)]
    /\ UNCHANGED <<locks, journals, def, tmp, manager, history, mishaps>>

\* A publication that failed puts the old definition back, or, when another one is there,
\* deletes it; its temporary goes last.
UndoLink(p) ==
    /\ run[p].pc = "undo"
    /\ IF quarantine[p] # NoFile /\ def = NoFile THEN def' = quarantine[p] ELSE UNCHANGED def
    /\ Goto(p, "undo-drop")
    /\ UNCHANGED <<locks, journals, tmp, quarantine, manager, history, mishaps>>

UndoDrop(p) ==
    /\ run[p].pc = "undo-drop"
    /\ quarantine' = [quarantine EXCEPT ![p] = NoFile]
    /\ Goto(p, "drop-temp")
    /\ UNCHANGED <<locks, journals, def, tmp, manager, history, mishaps>>

DropOwnTemporary(p) ==
    /\ run[p].pc = "drop-temp"
    /\ tmp' = [tmp EXCEPT ![p] = NoFile]
    /\ run' = Undone(p)
    /\ UNCHANGED <<locks, journals, def, quarantine, manager, history, mishaps>>

-----------------------------------------------------------------------------
\* removeSafeManagedFile, one action per change of a directory.

BeginRemoval(p) ==
    LET expected == IF Published(p) THEN run[p].published ELSE run[p].existing.id
    IN  /\ run[p].pc = "remove"
        /\ \/ def = NoFile /\ Goto(p, "removed") /\ UNCHANGED allowed
           \/ def # NoFile /\ def.id # expected /\ run' = Undone(p) /\ UNCHANGED allowed
           \/ /\ def # NoFile /\ def.id = expected
              /\ run' = [Writing(p, [tx |-> p, op |-> "remove", phase |-> "prepared", original |-> def.id,
                                     replacement |-> NoFile.id, expected |-> "none"], "rename-away")
                         EXCEPT ![p].source = def.id]
              /\ allowed' = {def.body, "none"}
        /\ UNCHANGED <<locks, journals, files, manager, met, edited, mishaps>>

RenameAway(p) ==
    /\ run[p].pc = "rename-away"
    /\ IF def = NoFile THEN run' = Undone(p) /\ UNCHANGED <<def, quarantine>>
       ELSE /\ quarantine' = [quarantine EXCEPT ![p] = def]
            /\ def' = NoFile
            /\ run' = IF def.id = run[p].source THEN Writing(p, Phase(p, "removal-quarantined"), "destroy")
                      ELSE [run EXCEPT ![p].pc = "put-back"]
    /\ UNCHANGED <<locks, journals, tmp, manager, history, mishaps>>

Destroy(p) ==
    /\ run[p].pc = "destroy"
    /\ quarantine' = [quarantine EXCEPT ![p] = NoFile]
    /\ run' = Writing(p, Phase(p, "removal-cleaned"), "removed")
    /\ UNCHANGED <<locks, journals, def, tmp, manager, history, mishaps>>

Removed(p) ==
    /\ run[p].pc = "removed"
    /\ Goto(p, IF run[p].op = "uninstall" THEN "retire" ELSE "rebootstrap")
    /\ UNCHANGED <<locks, journals, files, manager, history, mishaps>>

-----------------------------------------------------------------------------
\* The end of an operation.

\* retireLegacyDefinition and removeLegacyDefinition: through a quarantine with a legacy name.
RetireLegacy(p) ==
    LET retires == legacy.def /\ CASE run[p].op = "uninstall" -> TRUE
                                   [] run[p].op = "install"   -> def # NoFile
                                   [] run[p].op = "status"    -> run[p].handOver /\ def # NoFile
    IN  /\ run[p].pc = "retire"
        /\ legacy' = IF retires THEN [legacy EXCEPT !.def = FALSE, !.artifacts = TRUE] ELSE legacy
        /\ run' = [run EXCEPT ![p].pc = IF retires THEN "retired" ELSE "release", ![p].outcome = "done"]
        /\ UNCHANGED <<locks, journals, files, service, history, mishaps>>

DropRetired(p) ==
    /\ run[p].pc = "retired"
    /\ legacy' = [legacy EXCEPT !.artifacts = FALSE]
    /\ Goto(p, "release")
    /\ UNCHANGED <<locks, journals, files, service, history, mishaps>>

\* The finally block: the journal, the claim, the lock.
ReleaseJournal(p) ==
    /\ run[p].pc = "release"
    /\ journal' = IF journal.tx = p THEN NoJournal ELSE journal
    /\ Goto(p, "release-claim")
    /\ UNCHANGED <<locks, journalTmp, files, manager, history, mishaps>>

ReleaseClaim(p) ==
    /\ run[p].pc = "release-claim"
    /\ claim' = [q \in Runs |-> IF q = run[p].claimed THEN NoOwner ELSE claim[q]]
    /\ Goto(p, "unlock")
    /\ UNCHANGED <<lock, candidate, journals, files, manager, history, mishaps>>

Unlock(p) ==
    /\ run[p].pc = "unlock"
    /\ lock' = NoOwner
    /\ run' = Ended(p, run[p].outcome)
    /\ UNCHANGED <<candidate, claim, journals, files, manager, history, mishaps>>

-----------------------------------------------------------------------------
\* The environment.

Killed(p) == [run EXCEPT ![p] = [Idle EXCEPT !.pc = "crashed", !.op = run[p].op]]

\* Killed between open(O_CREAT | O_EXCL) and the write, if TornWrites: the name is taken and
\* the file is empty.
Crash(p) ==
    /\ Mishap
    /\ Alive(p)
    /\ \E torn \in {FALSE, TornWrites /\ run[p].pc \in {"stage", "write-temp"}} :
        /\ journalTmp' = IF torn /\ run[p].pc = "stage"
                         THEN [journalTmp EXCEPT ![run[p].pending.tx] = Torn] ELSE journalTmp
        /\ tmp' = IF torn /\ run[p].pc = "write-temp"
                  THEN [tmp EXCEPT ![p] = [id |-> NewId(p), body |-> "torn"]] ELSE tmp
    /\ run' = Killed(p)
    /\ UNCHANGED <<locks, journal, def, quarantine, manager, history>>

\* Somebody else replaces or deletes the definition (bound: once).
Edit(file) ==
    /\ ~edited /\ Mishap /\ mishaps < MaxFaults
    /\ def # file
    /\ def' = file
    /\ allowed' = allowed \cup {file.body}
    /\ edited' = TRUE
    /\ UNCHANGED <<locks, journals, tmp, quarantine, manager, run, met>>

-----------------------------------------------------------------------------
Acquire(p) == \/ ProbeLegacy(p) \/ WriteCandidate(p) \/ LinkLock(p) \/ DropCandidate(p) \/ InspectOwner(p)
              \/ UnlinkCompanion(p) \/ Claim(p) \/ LinkClaim(p) \/ ConfirmClaim(p) \/ ContestClaim(p) \/ ReplaceLock(p)

Recover(p) == \/ RecoveryRefused(p) \/ ReconcileJournal(p) \/ AdoptTemporary(p) \/ RestoreLink(p)
              \/ DropTemporary(p) \/ DropQuarantine(p) \/ CloseTransaction(p) \/ EnterBody(p)

Operate(p) == \/ StageJournal(p) \/ CommitJournal(p)
              \/ BootOutLegacy(p) \/ Sweep(p) \/ Probe(p) \/ Restart(p) \/ BootOut(p) \/ Bootstrap(p)
              \/ BootstrapImpossible(p) \/ Rollback(p) \/ Rebootstrap(p)
              \/ RetireLegacy(p) \/ DropRetired(p)

Publish(p) == \/ Intend(p) \/ WriteTemporary(p) \/ MoveOld(p) \/ RenameOld(p) \/ PutBack(p) \/ LinkNew(p)
              \/ UnlinkTemporary(p) \/ DropOld(p) \/ UndoLink(p) \/ UndoDrop(p) \/ DropOwnTemporary(p)

Withdraw(p) == BeginRemoval(p) \/ RenameAway(p) \/ Destroy(p) \/ Removed(p)

Release(p) == ReleaseJournal(p) \/ ReleaseClaim(p) \/ Unlock(p)

Next ==
    \/ \E p \in Runs :
        \/ \E op \in Ops[p] : Start(p, op)
        \/ Acquire(p) \/ Recover(p) \/ Operate(p) \/ Publish(p) \/ Withdraw(p) \/ Release(p)
        \/ CommandFails(p) \/ Crash(p)
    \/ \E file \in {Stranger, NoFile} : Edit(file)

Spec == Init /\ [][Next]_vars

-----------------------------------------------------------------------------
TypeOK ==
    /\ lock.tx \in Runs \cup {0} /\ journal.tx \in Runs \cup {0}
    /\ candidate \in [Runs -> [tx : Runs \cup {0}, preds : Seq(Runs)]]
    /\ claim \in [Runs -> [tx : Runs \cup {0}, preds : Seq(Runs)]]
    /\ legacy \in [def : BOOLEAN, loaded : BOOLEAN, artifacts : BOOLEAN]
    /\ mishaps \in 0..MaxMishaps
    /\ met \in [Runs -> BOOLEAN] /\ edited \in BOOLEAN

\* A run past its acquisition finds its own metadata in the lock, however many dead owners
\* it took it over from and whoever else was trying: every assertOwned it makes succeeds.
LockIsOwned == \A p \in Runs : Holds(p) => lock.tx = p

\* When nobody works on it, and when the next operation starts to, the definition is one
\* the last operation read or published, whichever syscall that operation was killed in.
DefinitionSurvives ==
    lock = NoOwner \/ (\E p \in Runs : run[p].pc = "legacy-bootout") => def.body \in allowed

OnDisk(file) == def = file \/ \E p \in Runs : quarantine[p] = file

\* A definition somebody else wrote is only deleted by an operation, or the recovery of one,
\* that had read it as the definition to replace or to remove.
StrangerSurvives ==
    [][OnDisk(Stranger) /\ ~OnDisk(Stranger)' /\ edited' = edited /\ mishaps' = mishaps
       => journal.original = Stranger.id]_vars

\* An install that fails and says its rollback did not leaves the definition it found, and
\* a service running if one was.
FailedInstallRollsBack ==
    [][\A p \in Runs :
         /\ run[p].pc = "unlock" /\ run'[p].pc = "ended" /\ run[p].op = "install"
         /\ run[p].outcome = "failed" /\ ~edited /\ run[p].existing # NoFile
         => def.body = run[p].existing.body /\ (run[p].loaded => service = def.body)]_vars

\* Any number of crashes later, a run that meets no other one recovers and goes on.
AloneNeverRefused ==
    \A p \in Runs : run[p].outcome = "unsafe" => met[p] \/ edited

\* `status` does not stop the only daemon the user has.
StatusKeepsDaemon ==
    [][legacy.loaded /\ ~legacy'.loaded /\ (\E p \in Runs : run[p].pc = "legacy-bootout" /\ run[p].op = "status")
       => service # "none"]_vars

=============================================================================

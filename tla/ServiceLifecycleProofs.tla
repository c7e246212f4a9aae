----------------------- MODULE ServiceLifecycleProofs -----------------------
(***************************************************************************)
(* Proofs about the service lifecycle, for any number of runs, whatever    *)
(* they find, wherever they are killed and however often a lock is taken   *)
(* over from the dead: the operation lock has one owner (LockInv), the     *)
(* takeover of a legacy installation keeps a daemon (TakeoverInv), the     *)
(* journal and the quarantine lose no definition (FileInv), an install     *)
(* that fails rolls back (RollbackInv), and a run that meets nobody is     *)
(* refused nothing: of the lock's files it finds the ones it may act on    *)
(* (CompanionInv), their metadata names whoever left a transaction         *)
(* (LineageInv), what that left can be recovered (RecoverableInv), and so  *)
(* nobody alone ends as unsafe (AloneInv).                                 *)
(***************************************************************************)
EXTENDS ServiceLifecycle, FiniteSetTheorems, WellFoundedInduction, TLAPS

Fields == {"pc", "op", "seen", "busy", "claimed", "existing", "loaded", "bootedOut", "source",
           "body", "published", "handOver", "pending", "next", "outcome"}

\* A run that ended or was killed: it never runs again.
Dead(p) == run[p].pc \in {"ended", "crashed"}

\* What the steps need of the variables' types.
Shaped ==
    /\ DOMAIN run = Runs /\ \A p \in Runs : DOMAIN run[p] = Fields
    /\ candidate = [p \in Runs |-> candidate[p]]
    /\ claim = [p \in Runs |-> claim[p]]

\* The lock and its companions name runs that have started, a candidate its own.
Started(owner) == owner = NoOwner \/ (owner.tx \in Runs /\ run[owner.tx].pc # "idle")

NamesOK ==
    /\ Started(lock)
    /\ \A q \in Runs : /\ Started(candidate[q]) /\ Started(claim[q])
                       /\ candidate[q] = NoOwner \/ candidate[q].tx = q

\* States in which a run acts on the owner it found dead.
LooksBack == {"unlink-companion", "claim", "claim-link", "claimed", "replace", "contest"}

SeenOK(p) == run[p].pc \in LooksBack => run[p].seen.tx \in Runs /\ Dead(run[p].seen.tx)

\* Nobody takes the candidate a living run is about to link.
Candidates == {"link", "claim", "claim-link", "claimed", "replace"}

CandidateOK(p) == run[p].pc \in Candidates => candidate[p] # NoOwner

\* Nobody takes the claim of a living run; before it may replace the lock, it is the claim on
\* the owner that run saw.
ClaimOK(p) ==
    /\ run[p].pc \notin {"ended", "crashed", "unlock"} /\ run[p].claimed # 0 =>
         run[p].claimed \in Runs /\ claim[run[p].claimed].tx = p
    /\ run[p].pc \in {"claimed", "replace"} => run[p].claimed = run[p].seen.tx

\* The lock is the run's that linked it or replaced it; one that may replace it still finds
\* the dead owner's.
LockOK(p) ==
    /\ run[p].pc = "linked" \/ Holds(p) => lock.tx = p
    /\ run[p].pc = "replace" => lock = run[p].seen

\* A journal write goes on under the lock.
NextOK(p) == run[p].pc \in {"stage", "commit"} => run[p].next \notin Unlocked

RunOK(p) == SeenOK(p) /\ CandidateOK(p) /\ ClaimOK(p) /\ LockOK(p) /\ NextOK(p)

LockInv == Shaped /\ NamesOK /\ \A p \in Runs : RunOK(p)

-----------------------------------------------------------------------------
LEMMA IdleShape ==
    DOMAIN Idle = Fields /\ Idle.pc = "idle" /\ Idle.claimed = 0
BY DEF Idle, Fields

LEMMA NoOwnerShape == NoOwner.tx = 0
BY DEF NoOwner

\* Run p is at pc with the claim it had, or without one.
At(p, l) == /\ DOMAIN run' = Runs /\ DOMAIN l = Fields /\ run'[p] = l
            /\ \A q \in Runs \ {p} : run'[q] = run[q]

\* Leaving off leaves no trace of a claim.
LEMMA EndedAt ==
    ASSUME Shaped, NEW p \in Runs, NEW outcome, run' = Ended(p, outcome)
    PROVE  At(p, run'[p]) /\ run'[p].pc = "ended"
BY DEF Ended, At, Shaped, Fields, Idle

LEMMA BusyAt ==
    ASSUME Shaped, NEW p \in Runs, Busy(p)
    PROVE  At(p, run'[p]) /\ run'[p].pc \in {"ended", "candidate"} /\ run'[p].claimed = 0
<1>1. CASE run' = Ended(p, "busy")
  BY <1>1 DEF Ended, At, Shaped, Fields, Idle
<1>2. CASE run' = [run EXCEPT ![p] = [Idle EXCEPT !.pc = "candidate", !.op = run[p].op,
                                                  !.busy = run[p].busy + 1,
                                                  !.handOver = run[p].handOver]]
  BY <1>2 DEF At, Shaped, Fields, Idle
<1> QED
  BY <1>1, <1>2 DEF Busy

LEMMA GotoAt ==
    ASSUME Shaped, NEW p \in Runs, NEW pc, Goto(p, pc)
    PROVE  /\ At(p, run'[p]) /\ run'[p].pc = pc /\ run'[p].claimed = run[p].claimed
           /\ run'[p].seen = run[p].seen /\ run'[p].next = run[p].next
BY DEF Goto, At, Shaped, Fields

-----------------------------------------------------------------------------
\* What a step of p may not do to the others: a living run keeps its candidate, its claim
\* and its lock, and finds the lock it is about to replace as it was.
Spares(p) ==
    \A q \in Runs \ {p} :
        ~Dead(q) =>
            /\ candidate[q] # NoOwner => candidate'[q] # NoOwner
            /\ \A c \in Runs : claim[c].tx = q => claim'[c].tx = q
            /\ lock.tx = q => lock'.tx = q
            /\ run[q].pc = "replace" => lock' = lock

LEMMA OneRunMoves ==
    ASSUME LockInv, NEW p \in Runs, At(p, run'[p]), ~Dead(p), run'[p].pc # "idle", Spares(p),
           candidate' = [q \in Runs |-> candidate'[q]], claim' = [q \in Runs |-> claim'[q]],
           NamesOK', RunOK(p)'
    PROVE  LockInv'
<1>1. Shaped'
  BY DEF LockInv, Shaped, At
<1>2. \A q \in Runs : Dead(q) => Dead(q)'
  BY DEF At, Dead
<1>3. ASSUME NEW q \in Runs \ {p}
      PROVE  RunOK(q)'
  <2>1. run'[q] = run[q] /\ RunOK(q)
    BY DEF At, LockInv
  <2>2. SeenOK(q)' /\ NextOK(q)'
    BY <1>2, <2>1 DEF RunOK, SeenOK, NextOK, Dead
  <2>3. run[q].pc \notin {"ended", "crashed"} => ~Dead(q)
    BY DEF Dead
  <2>4. CandidateOK(q)' /\ ClaimOK(q)' /\ LockOK(q)'
    BY <2>1, <2>3 DEF RunOK, CandidateOK, ClaimOK, LockOK, Spares, Candidates, Holds, Unlocked
  <2> QED
    BY <2>2, <2>4 DEF RunOK
<1> QED
  BY <1>1, <1>3 DEF LockInv

\* A step of p that leaves the lock and its companions alone.
LEMMA QuietStep ==
    ASSUME LockInv, NEW p \in Runs, At(p, run'[p]), UNCHANGED locks,
           run'[p].pc # "idle", ~Dead(p), RunOK(p)'
    PROVE  LockInv'
<1>1. \A q \in Runs : run[q].pc # "idle" => run'[q].pc # "idle"
  BY DEF At
<1>2. NamesOK'
  BY <1>1 DEF LockInv, NamesOK, Started, locks
<1>3. Spares(p) /\ candidate' = [q \in Runs |-> candidate'[q]] /\ claim' = [q \in Runs |-> claim'[q]]
  BY DEF Spares, LockInv, Shaped, locks
<1> QED
  BY <1>2, <1>3, OneRunMoves

\* One that writes its own candidate, or removes it or a dead run's.
LEMMA CandidateStep ==
    ASSUME LockInv, NEW p \in Runs, At(p, run'[p]), run'[p].pc # "idle", ~Dead(p),
           UNCHANGED <<lock, claim>>,
           NEW c \in Runs, NEW owner, candidate' = [candidate EXCEPT ![c] = owner],
           \/ owner = NoOwner /\ (c = p \/ Dead(c))
           \/ c = p /\ owner.tx = p,
           RunOK(p)'
    PROVE  LockInv'
<1>1. \A q \in Runs : run[q].pc # "idle" => run'[q].pc # "idle"
  BY DEF At
<1>2. /\ candidate' = [q \in Runs |-> candidate'[q]] /\ candidate'[c] = owner
      /\ \A q \in Runs \ {c} : candidate'[q] = candidate[q]
  BY DEF LockInv, Shaped
<1>3. Started(owner)'
  BY DEF Started
<1>4. NamesOK'
  <2>1. Started(lock)' /\ \A q \in Runs : Started(claim[q])'
    BY <1>1 DEF LockInv, NamesOK, Started
  <2>2. \A q \in Runs : Started(candidate[q])' /\ (candidate'[q] = NoOwner \/ candidate'[q].tx = q)
    BY <1>1, <1>2, <1>3 DEF LockInv, NamesOK, Started
  <2> QED
    BY <2>1, <2>2 DEF NamesOK
<1>5. Spares(p) /\ claim' = [q \in Runs |-> claim'[q]]
  BY <1>2 DEF Spares, LockInv, Shaped
<1> QED
  BY <1>2, <1>4, <1>5, OneRunMoves

\* One that removes its own claim or a dead run's, and perhaps its candidate.
LEMMA UnclaimStep ==
    ASSUME LockInv, NEW p \in Runs, At(p, run'[p]), run'[p].pc # "idle", ~Dead(p),
           UNCHANGED lock,
           NEW c, claim' = [claim EXCEPT ![c] = NoOwner],
           c \in Runs => claim[c].tx = p \/ claim[c].tx \in {q \in Runs : Dead(q)},
           candidate' = candidate \/ candidate' = [candidate EXCEPT ![p] = NoOwner],
           RunOK(p)'
    PROVE  LockInv'
<1>1. \A q \in Runs : run[q].pc # "idle" => run'[q].pc # "idle"
  BY DEF At
<1>2. /\ candidate' = [q \in Runs |-> candidate'[q]]
      /\ \A q \in Runs \ {p} : candidate'[q] = candidate[q]
      /\ candidate'[p] \in {candidate[p], NoOwner}
  BY DEF LockInv, Shaped
<1>3. /\ claim' = [q \in Runs |-> claim'[q]]
      /\ \A q \in Runs : claim'[q] = IF q = c THEN NoOwner ELSE claim[q]
  BY DEF LockInv, Shaped
<1>4. NamesOK'
  <2>1. Started(lock)' /\ \A q \in Runs : Started(claim[q])'
    BY <1>1, <1>3 DEF LockInv, NamesOK, Started
  <2>2. \A q \in Runs : Started(candidate[q])' /\ (candidate'[q] = NoOwner \/ candidate'[q].tx = q)
    BY <1>1, <1>2 DEF LockInv, NamesOK, Started
  <2> QED
    BY <2>1, <2>2 DEF NamesOK
<1>5. Spares(p)
  BY <1>2, <1>3 DEF Spares
<1> QED
  BY <1>2, <1>3, <1>4, <1>5, OneRunMoves

\* One that replaces the lock nobody alive owns or is about to replace, or gives up its own.
LEMMA LockStep ==
    ASSUME LockInv, NEW p \in Runs, At(p, run'[p]), run'[p].pc # "idle", ~Dead(p),
           UNCHANGED claim, Started(lock)',
           \A q \in Runs \ {p} : ~Dead(q) => lock.tx # q /\ run[q].pc # "replace",
           candidate' = candidate \/ \E c \in Runs : /\ c = p \/ Dead(c)
                                                     /\ candidate' = [candidate EXCEPT ![c] = NoOwner],
           RunOK(p)'
    PROVE  LockInv'
<1>1. \A q \in Runs : run[q].pc # "idle" => run'[q].pc # "idle"
  BY DEF At
<1>2. /\ candidate' = [q \in Runs |-> candidate'[q]]
      /\ \A q \in Runs : candidate'[q] \in {candidate[q], NoOwner}
      /\ \A q \in Runs \ {p} : ~Dead(q) => candidate'[q] = candidate[q]
  BY DEF LockInv, Shaped
<1>3. NamesOK'
  <2>1. Started(lock)' /\ \A q \in Runs : Started(claim[q])'
    BY <1>1 DEF LockInv, NamesOK, Started
  <2>2. \A q \in Runs : Started(candidate[q])' /\ (candidate'[q] = NoOwner \/ candidate'[q].tx = q)
    BY <1>1, <1>2 DEF LockInv, NamesOK, Started
  <2> QED
    BY <2>1, <2>2 DEF NamesOK
<1>4. Spares(p) /\ claim' = [q \in Runs |-> claim'[q]]
  BY <1>2 DEF Spares, LockInv, Shaped
<1> QED
  BY <1>2, <1>3, <1>4, OneRunMoves

-----------------------------------------------------------------------------
\* Taking the lock.

\* A run that is not looking back, holds no candidate and no claim has nothing to lose.
LEMMA Unburdened ==
    ASSUME NEW p \in Runs,
           \/ run'[p].pc \in {"ended", "crashed"}
           \/ run'[p].pc \in {"candidate", "probe-legacy", "inspect"} /\ ClaimOK(p)'
    PROVE  RunOK(p)'
BY DEF RunOK, SeenOK, CandidateOK, ClaimOK, LockOK, NextOK, LooksBack, Candidates, Holds, Unlocked

\* The claim of a run that keeps it.
LEMMA ClaimKept ==
    ASSUME LockInv, NEW p \in Runs, UNCHANGED claim, run'[p].claimed \in {0, run[p].claimed},
           run[p].pc \notin {"ended", "crashed", "unlock"}, run'[p].pc \notin {"claimed", "replace"}
    PROVE  ClaimOK(p)'
BY DEF LockInv, RunOK, ClaimOK

LEMMA StartStep ==
    ASSUME LockInv, NEW p \in Runs, NEW op, Start(p, op)
    PROVE  LockInv'
<1>1. At(p, run'[p]) /\ run'[p].pc \in {"probe-legacy", "candidate"} /\ run'[p].claimed = run[p].claimed
  BY DEF Start, At, LockInv, Shaped, Fields
<1>2. UNCHANGED locks /\ run[p].pc = "idle"
  BY DEF Start
<1>3. RunOK(p)'
  BY <1>1, <1>2, ClaimKept, Unburdened DEF locks
<1> QED
  BY <1>1, <1>2, <1>3, QuietStep DEF Dead

LEMMA ProbeLegacyStep ==
    ASSUME LockInv, NEW p \in Runs, ProbeLegacy(p)
    PROVE  LockInv'
<1>1. UNCHANGED locks /\ run[p].pc = "probe-legacy"
  BY DEF ProbeLegacy
<1>2. At(p, run'[p]) /\ (run'[p].pc = "ended" \/ (run'[p].pc = "candidate" /\ run'[p].claimed = run[p].claimed))
  <2>1. CASE run' = Ended(p, "done")
    BY <2>1, EndedAt DEF LockInv
  <2>2. ASSUME NEW handOver, run' = [run EXCEPT ![p].pc = "candidate", ![p].handOver = handOver]
        PROVE  At(p, run'[p]) /\ run'[p].pc = "candidate" /\ run'[p].claimed = run[p].claimed
    BY <2>2 DEF At, LockInv, Shaped, Fields
  <2> QED
    BY <2>1, <2>2 DEF ProbeLegacy
<1>3. RunOK(p)'
  BY <1>1, <1>2, ClaimKept, Unburdened DEF locks
<1> QED
  BY <1>1, <1>2, <1>3, QuietStep DEF Dead

LEMMA WriteCandidateStep ==
    ASSUME LockInv, NEW p \in Runs, WriteCandidate(p)
    PROVE  LockInv'
<1>1. /\ run[p].pc = "candidate" /\ UNCHANGED <<lock, claim>> /\ Goto(p, "link")
      /\ candidate' = [candidate EXCEPT ![p] = [tx |-> p, preds |-> <<>>]]
  BY DEF WriteCandidate
<1>2. /\ At(p, run'[p]) /\ run'[p].pc = "link" /\ run'[p].claimed = run[p].claimed
  BY <1>1, GotoAt DEF LockInv
<1>3. candidate'[p].tx = p /\ p # 0
  BY <1>1, RunsAssumption DEF LockInv, Shaped
<1>4. RunOK(p)'
  <2>1. ClaimOK(p)'
    BY <1>1, <1>2, ClaimKept
  <2>2. SeenOK(p)' /\ CandidateOK(p)' /\ LockOK(p)' /\ NextOK(p)'
    BY <1>2, <1>3, NoOwnerShape DEF SeenOK, CandidateOK, LockOK, NextOK, LooksBack, Holds, Unlocked
  <2> QED
    BY <2>1, <2>2 DEF RunOK
<1> QED
  BY <1>1, <1>2, <1>4, CandidateStep DEF Dead

LEMMA LinkLockStep ==
    ASSUME LockInv, NEW p \in Runs, LinkLock(p)
    PROVE  LockInv'
<1>1. run[p].pc = "link" /\ UNCHANGED claim /\ candidate[p] # NoOwner /\ p # 0
  BY RunsAssumption DEF LinkLock, LockInv, RunOK, CandidateOK, Candidates
<1>2. CASE lock = NoOwner /\ lock' = candidate[p] /\ Goto(p, "linked") /\ UNCHANGED candidate
  <2>1. At(p, run'[p]) /\ run'[p].pc = "linked" /\ run'[p].claimed = run[p].claimed
    BY <1>2, GotoAt DEF LockInv
  <2>2. lock'.tx = p
    BY <1>1, <1>2 DEF LockInv, NamesOK
  <2>3. RunOK(p)'
    <3>1. ClaimOK(p)'
      BY <1>1, <2>1, ClaimKept
    <3>2. SeenOK(p)' /\ CandidateOK(p)' /\ LockOK(p)' /\ NextOK(p)'
      BY <2>1, <2>2 DEF SeenOK, CandidateOK, LockOK, NextOK, LooksBack, Candidates, Holds, Unlocked
    <3> QED
      BY <3>1, <3>2 DEF RunOK
  <2>4. ASSUME NEW q \in Runs \ {p}, ~Dead(q)
        PROVE  lock.tx # q /\ run[q].pc # "replace"
    <3>1. q # 0 /\ lock.tx = 0
      BY <1>2, RunsAssumption, NoOwnerShape
    <3>2. run[q].pc = "replace" => lock = run[q].seen /\ run[q].seen.tx \in Runs
      BY DEF LockInv, RunOK, LockOK, SeenOK, LooksBack
    <3> QED
      BY <3>1, <3>2, RunsAssumption
  <2>5. Started(lock)'
    BY <2>1, <2>2 DEF Started
  <2> QED
    BY <1>1, <1>2, <2>1, <2>3, <2>4, <2>5, LockStep DEF Dead
<1>3. CASE /\ candidate' = [candidate EXCEPT ![p] = NoOwner] /\ Goto(p, "inspect")
           /\ UNCHANGED lock
  <2>1. At(p, run'[p]) /\ run'[p].pc = "inspect" /\ run'[p].claimed = run[p].claimed
    BY <1>3, GotoAt DEF LockInv
  <2>2. RunOK(p)'
    BY <1>1, <2>1, ClaimKept, Unburdened
  <2> QED
    BY <1>1, <1>3, <2>1, <2>2, CandidateStep DEF Dead
<1> QED
  BY <1>2, <1>3 DEF LinkLock

LEMMA DropCandidateStep ==
    ASSUME LockInv, NEW p \in Runs, DropCandidate(p)
    PROVE  LockInv'
<1>1. /\ run[p].pc = "linked" /\ UNCHANGED <<lock, claim>> /\ Goto(p, "recover")
      /\ candidate' = [candidate EXCEPT ![p] = NoOwner] /\ lock.tx = p
  BY DEF DropCandidate, LockInv, RunOK, LockOK
<1>2. At(p, run'[p]) /\ run'[p].pc = "recover" /\ run'[p].claimed = run[p].claimed
  BY <1>1, GotoAt DEF LockInv
<1>3. RunOK(p)'
  <2>1. ClaimOK(p)'
    BY <1>1, <1>2, ClaimKept
  <2>2. SeenOK(p)' /\ CandidateOK(p)' /\ LockOK(p)' /\ NextOK(p)'
    BY <1>1, <1>2 DEF SeenOK, CandidateOK, LockOK, NextOK, LooksBack, Candidates, Holds, Unlocked
  <2> QED
    BY <2>1, <2>2 DEF RunOK
<1> QED
  BY <1>1, <1>2, <1>3, CandidateStep DEF Dead

\* The owner a run found dead stays dead.
LEMMA DeadOwner ==
    ASSUME LockInv, lock # NoOwner, ~Alive(lock.tx)
    PROVE  lock.tx \in Runs /\ Dead(lock.tx)
BY DEF LockInv, NamesOK, Started, Alive, Dead

LEMMA InspectOwnerStep ==
    ASSUME LockInv, NEW p \in Runs, InspectOwner(p)
    PROVE  LockInv'
<1>1. run[p].pc = "inspect" /\ UNCHANGED <<lock, claim>> /\ p # 0 /\ ~Dead(p)
  BY RunsAssumption DEF InspectOwner, Dead
<1>2. CASE Goto(p, "candidate") /\ UNCHANGED candidate
  <2>1. At(p, run'[p]) /\ run'[p].pc = "candidate" /\ run'[p].claimed = run[p].claimed
    BY <1>2, GotoAt DEF LockInv
  <2>2. RunOK(p)'
    BY <1>1, <2>1, ClaimKept, Unburdened
  <2> QED
    BY <1>1, <1>2, <2>1, <2>2, QuietStep DEF locks
<1>3. CASE Busy(p) /\ UNCHANGED candidate
  <2>1. At(p, run'[p]) /\ run'[p].pc \in {"ended", "candidate"} /\ run'[p].claimed = 0
    BY <1>3, BusyAt DEF LockInv
  <2>2. RunOK(p)'
    BY <1>1, <2>1, ClaimKept, Unburdened
  <2> QED
    BY <1>1, <1>3, <2>1, <2>2, QuietStep DEF locks
<1>4. CASE run' = Ended(p, "unsafe") /\ UNCHANGED candidate
  <2>1. At(p, run'[p]) /\ run'[p].pc = "ended"
    BY <1>4, EndedAt DEF LockInv
  <2> QED
    BY <1>1, <1>4, <2>1, Unburdened, QuietStep DEF locks
\* A dead owner is remembered.
<1>5. ASSUME lock # NoOwner, ~Alive(lock.tx),
             NEW pc \in {"unlink-companion", "claim"},
             run' = [run EXCEPT ![p].pc = pc, ![p].seen = lock],
             pc = "claim" => candidate'[p] # NoOwner
      PROVE  At(p, run'[p]) /\ run'[p].pc = pc /\ RunOK(p)'
  <2>1. /\ At(p, run'[p]) /\ run'[p].pc = pc /\ run'[p].seen = lock
        /\ run'[p].claimed = run[p].claimed
    BY <1>5 DEF At, LockInv, Shaped, Fields
  <2>2. lock.tx \in Runs /\ Dead(lock.tx)
    BY <1>5, DeadOwner
  <2>3. SeenOK(p)'
    BY <1>1, <2>1, <2>2 DEF SeenOK, Dead, At
  <2>4. ClaimOK(p)'
    BY <1>1, <2>1, ClaimKept
  <2>5. CandidateOK(p)' /\ LockOK(p)' /\ NextOK(p)'
    BY <1>5, <2>1 DEF CandidateOK, LockOK, NextOK, Candidates, Holds, Unlocked
  <2> QED
    BY <2>1, <2>3, <2>4, <2>5 DEF RunOK
<1>6. CASE /\ lock # NoOwner /\ ~Alive(lock.tx) /\ UNCHANGED candidate
           /\ run' = [run EXCEPT ![p].pc = "unlink-companion", ![p].seen = lock]
  <2>1. At(p, run'[p]) /\ run'[p].pc = "unlink-companion" /\ RunOK(p)'
    BY <1>5, <1>6
  <2> QED
    BY <1>1, <1>6, <2>1, QuietStep DEF locks
<1>7. CASE /\ lock # NoOwner /\ ~Alive(lock.tx)
           /\ candidate' = [candidate EXCEPT ![p] = [tx |-> p, preds |-> Inherited(lock)]]
           /\ run' = [run EXCEPT ![p].pc = "claim", ![p].seen = lock]
  <2> DEFINE owner == [tx |-> p, preds |-> Inherited(lock)]
  <2>1. owner.tx = p /\ candidate' = [candidate EXCEPT ![p] = owner]
    BY <1>7
  <2> HIDE DEF owner
  <2>2. candidate'[p] # NoOwner
    BY <1>1, <2>1, NoOwnerShape DEF LockInv, Shaped
  <2>3. At(p, run'[p]) /\ run'[p].pc = "claim" /\ RunOK(p)'
    BY <1>5, <1>7, <2>2
  <2> QED
    BY <1>1, <2>1, <2>3, CandidateStep
<1> QED
  BY <1>2, <1>3, <1>4, <1>6, <1>7 DEF InspectOwner

\* What a run that looks back has: its claim as before, and a dead owner.
LEMMA LookingBack ==
    ASSUME LockInv, NEW p \in Runs, run[p].pc \in LooksBack
    PROVE  /\ ~Dead(p) /\ p # 0 /\ run[p].seen.tx \in Runs /\ Dead(run[p].seen.tx)
           /\ run[p].seen.tx # 0 /\ run[p].seen.tx # p
           /\ run[p].pc \in Candidates => candidate[p] # NoOwner /\ candidate[p].tx = p
BY RunsAssumption DEF LockInv, NamesOK, RunOK, SeenOK, CandidateOK, LooksBack, Dead

\* And goes back to the start.
LEMMA BackToStart ==
    ASSUME LockInv, NEW p \in Runs, UNCHANGED claim, run[p].pc \in LooksBack,
           Goto(p, "candidate") \/ run' = [run EXCEPT ![p].pc = "candidate"] \/ Busy(p)
             \/ \E outcome : run' = Ended(p, outcome)
    PROVE  At(p, run'[p]) /\ run'[p].pc \in {"candidate", "ended"} /\ RunOK(p)'
<1>1. run[p].pc \notin {"ended", "crashed", "unlock"}
  BY DEF LooksBack
<1>2. CASE Goto(p, "candidate") \/ run' = [run EXCEPT ![p].pc = "candidate"]
  <2>1. At(p, run'[p]) /\ run'[p].pc = "candidate" /\ run'[p].claimed = run[p].claimed
    BY <1>2, GotoAt DEF LockInv, Goto
  <2> QED
    BY <1>1, <2>1, ClaimKept, Unburdened
<1>3. CASE Busy(p)
  <2>1. At(p, run'[p]) /\ run'[p].pc \in {"ended", "candidate"} /\ run'[p].claimed = 0
    BY <1>3, BusyAt DEF LockInv
  <2> QED
    BY <1>1, <2>1, ClaimKept, Unburdened
<1>4. CASE \E outcome : run' = Ended(p, outcome)
  <2>1. At(p, run'[p]) /\ run'[p].pc = "ended"
    BY <1>4, EndedAt DEF LockInv
  <2> QED
    BY <2>1, Unburdened
<1> QED
  BY <1>2, <1>3, <1>4

LEMMA UnlinkCompanionStep ==
    ASSUME LockInv, NEW p \in Runs, UnlinkCompanion(p)
    PROVE  LockInv'
<1>1. run[p].pc = "unlink-companion" /\ run[p].pc \in LooksBack /\ UNCHANGED lock
  BY DEF UnlinkCompanion, LooksBack
<1>2. ~Dead(p) /\ run[p].seen.tx \in Runs /\ Dead(run[p].seen.tx)
  BY <1>1, LookingBack
<1>3. CASE /\ candidate' = [candidate EXCEPT ![run[p].seen.tx] = NoOwner]
           /\ Goto(p, "candidate") /\ UNCHANGED claim
  <2>1. At(p, run'[p]) /\ run'[p].pc \in {"candidate", "ended"} /\ RunOK(p)'
    BY <1>1, <1>3, BackToStart
  <2> QED
    BY <1>1, <1>2, <1>3, <2>1, CandidateStep
<1>4. CASE /\ HasClaim(run[p].seen) /\ Goto(p, "candidate") /\ UNCHANGED candidate
           /\ claim' = [claim EXCEPT ![Head(run[p].seen.preds)] = NoOwner]
  <2> DEFINE c == Head(run[p].seen.preds)
  <2>1. claim[c] = run[p].seen /\ claim' = [claim EXCEPT ![c] = NoOwner]
    BY <1>4 DEF HasClaim
  <2> HIDE DEF c
  <2>2. At(p, run'[p]) /\ run'[p].pc = "candidate" /\ run'[p].claimed = run[p].claimed
    BY <1>4, GotoAt DEF LockInv
  \* Its own claim is another one: that names a living run.
  <2>3. ClaimOK(p)'
    <3>1. run[p].claimed # 0 => run[p].claimed \in Runs /\ claim[run[p].claimed].tx = p
      BY <1>1 DEF LockInv, RunOK, ClaimOK
    <3>2. run[p].claimed # 0 => run[p].claimed # c
      BY <1>2, <2>1, <3>1
    <3>3. \A q \in Runs : q # c => claim'[q] = claim[q]
      BY <2>1 DEF LockInv, Shaped
    <3> QED
      BY <2>2, <3>1, <3>2, <3>3 DEF ClaimOK
  <2>4. RunOK(p)'
    BY <2>2, <2>3, Unburdened
  <2>5. c \in Runs => claim[c].tx \in {q \in Runs : Dead(q)}
    BY <1>2, <2>1
  <2> QED
    BY <1>1, <1>2, <1>4, <2>1, <2>2, <2>4, <2>5, UnclaimStep
<1>5. CASE run' = Ended(p, "unsafe") /\ UNCHANGED <<candidate, claim>>
  <2>1. At(p, run'[p]) /\ run'[p].pc \in {"candidate", "ended"} /\ RunOK(p)'
    BY <1>1, <1>5, BackToStart
  <2> QED
    BY <1>1, <1>2, <1>5, <2>1, QuietStep DEF locks
<1> QED
  BY <1>3, <1>4, <1>5 DEF UnlinkCompanion

LEMMA ClaimStep ==
    ASSUME LockInv, NEW p \in Runs, Claim(p)
    PROVE  LockInv'
<1>1. run[p].pc = "claim" /\ run[p].pc \in LooksBack /\ UNCHANGED <<lock, claim>>
  BY DEF Claim, LooksBack
<1>2. ~Dead(p) /\ run[p].seen.tx \in Runs /\ Dead(run[p].seen.tx) /\ candidate[p] # NoOwner
  BY <1>1, LookingBack DEF Candidates
<1>3. CASE candidate' = [candidate EXCEPT ![p] = NoOwner] /\ Busy(p)
  <2>1. At(p, run'[p]) /\ run'[p].pc \in {"candidate", "ended"} /\ RunOK(p)'
    BY <1>1, <1>3, BackToStart
  <2> QED
    BY <1>1, <1>2, <1>3, <2>1, CandidateStep
<1>4. CASE run' = Ended(p, "unsafe") /\ UNCHANGED candidate
  <2>1. At(p, run'[p]) /\ run'[p].pc \in {"candidate", "ended"} /\ RunOK(p)'
    BY <1>1, <1>4, BackToStart
  <2> QED
    BY <1>1, <1>2, <1>4, <2>1, QuietStep DEF locks
<1>5. CASE Goto(p, "claim-link") /\ UNCHANGED candidate
  <2>1. /\ At(p, run'[p]) /\ run'[p].pc = "claim-link" /\ run'[p].claimed = run[p].claimed
        /\ run'[p].seen = run[p].seen
    BY <1>5, GotoAt DEF LockInv
  <2>2. ClaimOK(p)'
    BY <1>1, <2>1, ClaimKept
  <2>3. SeenOK(p)'
    BY <1>2, <2>1 DEF SeenOK, Dead, At
  <2>4. CandidateOK(p)' /\ LockOK(p)' /\ NextOK(p)'
    BY <1>2, <1>5, <2>1 DEF CandidateOK, LockOK, NextOK, Holds, Unlocked
  <2> QED
    BY <1>1, <1>2, <1>5, <2>1, <2>2, <2>3, <2>4, QuietStep DEF locks, RunOK
<1> QED
  BY <1>3, <1>4, <1>5 DEF Claim

LEMMA LinkClaimStep ==
    ASSUME LockInv, NEW p \in Runs, LinkClaim(p)
    PROVE  LockInv'
<1>1. run[p].pc = "claim-link" /\ run[p].pc \in LooksBack /\ UNCHANGED lock
  BY DEF LinkClaim, LooksBack
<1>2. /\ ~Dead(p) /\ run[p].seen.tx \in Runs /\ Dead(run[p].seen.tx) /\ candidate[p] # NoOwner
      /\ candidate[p].tx = p
  BY <1>1, LookingBack DEF Candidates
<1>3. CASE /\ claim[run[p].seen.tx] = NoOwner
           /\ claim' = [claim EXCEPT ![run[p].seen.tx] = candidate[p]]
           /\ run' = [run EXCEPT ![p].pc = "claimed", ![p].claimed = run[p].seen.tx]
           /\ UNCHANGED candidate
  <2>1. /\ At(p, run'[p]) /\ run'[p].pc = "claimed" /\ run'[p].claimed = run[p].seen.tx
        /\ run'[p].seen = run[p].seen
    BY <1>3 DEF At, LockInv, Shaped, Fields
  <2>2. /\ claim' = [q \in Runs |-> claim'[q]] /\ claim'[run[p].seen.tx] = candidate[p]
        /\ \A q \in Runs : q # run[p].seen.tx => claim'[q] = claim[q]
    BY <1>2, <1>3 DEF LockInv, Shaped
  <2>3. \A q \in Runs : run[q].pc # "idle" => run'[q].pc # "idle"
    BY <2>1 DEF At
  <2>4. NamesOK'
    BY <1>1, <1>3, <2>2, <2>3 DEF LockInv, NamesOK, Started
  <2>5. Spares(p) /\ candidate' = [q \in Runs |-> candidate'[q]]
    BY <1>1, <1>3, <2>2, RunsAssumption, NoOwnerShape DEF Spares, LockInv, Shaped
  <2>6. SeenOK(p)'
    BY <1>2, <2>1 DEF SeenOK, Dead, At
  <2>7. ClaimOK(p)'
    BY <1>2, <2>1, <2>2 DEF ClaimOK
  <2>8. CandidateOK(p)' /\ LockOK(p)' /\ NextOK(p)'
    BY <1>2, <1>3, <2>1 DEF CandidateOK, LockOK, NextOK, Holds, Unlocked
  <2>9. RunOK(p)'
    BY <2>6, <2>7, <2>8 DEF RunOK
  <2> QED
    BY <1>2, <2>1, <2>2, <2>4, <2>5, <2>9, OneRunMoves
<1>4. CASE candidate' = [candidate EXCEPT ![p] = NoOwner] /\ Goto(p, "contest") /\ UNCHANGED claim
  <2>1. /\ At(p, run'[p]) /\ run'[p].pc = "contest" /\ run'[p].claimed = run[p].claimed
        /\ run'[p].seen = run[p].seen
    BY <1>4, GotoAt DEF LockInv
  <2>2. ClaimOK(p)'
    BY <1>1, <1>4, <2>1, ClaimKept
  <2>3. SeenOK(p)'
    BY <1>2, <2>1 DEF SeenOK, Dead, At
  <2>4. CandidateOK(p)' /\ LockOK(p)' /\ NextOK(p)'
    BY <2>1 DEF CandidateOK, LockOK, NextOK, Candidates, Holds, Unlocked
  <2> QED
    BY <1>1, <1>2, <1>4, <2>1, <2>2, <2>3, <2>4, CandidateStep DEF RunOK
<1> QED
  BY <1>3, <1>4 DEF LinkClaim

LEMMA ConfirmClaimStep ==
    ASSUME LockInv, NEW p \in Runs, ConfirmClaim(p)
    PROVE  LockInv'
<1>1. run[p].pc = "claimed" /\ run[p].pc \in LooksBack /\ UNCHANGED lock
  BY DEF ConfirmClaim, LooksBack
<1>2. /\ ~Dead(p) /\ run[p].seen.tx \in Runs /\ Dead(run[p].seen.tx) /\ candidate[p] # NoOwner
      /\ run[p].claimed = run[p].seen.tx /\ claim[run[p].claimed].tx = p
  BY <1>1, LookingBack DEF Candidates, LockInv, RunOK, ClaimOK
<1>3. CASE lock = run[p].seen /\ Goto(p, "replace") /\ UNCHANGED <<candidate, claim>>
  <2>1. /\ At(p, run'[p]) /\ run'[p].pc = "replace" /\ run'[p].claimed = run[p].claimed
        /\ run'[p].seen = run[p].seen
    BY <1>3, GotoAt DEF LockInv
  <2>2. SeenOK(p)'
    BY <1>2, <2>1 DEF SeenOK, Dead, At
  <2>3. ClaimOK(p)' /\ CandidateOK(p)' /\ LockOK(p)' /\ NextOK(p)'
    BY <1>1, <1>2, <1>3, <2>1 DEF ClaimOK, CandidateOK, LockOK, NextOK, Holds, Unlocked
  <2> QED
    BY <1>1, <1>2, <1>3, <2>1, <2>2, <2>3, QuietStep DEF locks, RunOK
<1>4. CASE /\ claim' = [claim EXCEPT ![run[p].claimed] = NoOwner]
           /\ candidate' = [candidate EXCEPT ![p] = NoOwner]
           /\ run' = Ended(p, "unsafe")
  <2>1. At(p, run'[p]) /\ run'[p].pc = "ended"
    BY <1>4, EndedAt DEF LockInv
  <2>2. RunOK(p)'
    BY <2>1, Unburdened
  <2> QED
    BY <1>1, <1>2, <1>4, <2>1, <2>2, UnclaimStep
<1> QED
  BY <1>3, <1>4 DEF ConfirmClaim

\* Where the lock still is the dead owner's p saw, and whoever claimed that owner is dead, or
\* p itself, nobody else has the lock or is about to replace it.
LEMMA NobodyElse ==
    ASSUME LockInv, NEW p \in Runs, run[p].pc \in LooksBack, lock = run[p].seen,
           ~Alive(claim[run[p].seen.tx].tx) \/ claim[run[p].seen.tx].tx = p,
           NEW q \in Runs \ {p}, ~Dead(q)
    PROVE  lock.tx # q /\ run[q].pc # "replace"
<1>1. run[p].seen.tx \in Runs /\ Dead(run[p].seen.tx)
  BY LookingBack
<1>2. ASSUME run[q].pc = "replace"
      PROVE  FALSE
  <2>1. lock = run[q].seen /\ run[q].claimed = run[q].seen.tx
    BY <1>2 DEF LockInv, RunOK, LockOK, ClaimOK
  <2>2. run[q].claimed # 0
    BY <1>1, <2>1, RunsAssumption
  <2>3. claim[run[q].claimed].tx = q
    BY <1>2, <2>2 DEF LockInv, RunOK, ClaimOK
  <2> QED
    BY <1>2, <2>1, <2>3 DEF Alive
<1> QED
  BY <1>1, <1>2

LEMMA ContestClaimStep ==
    ASSUME LockInv, NEW p \in Runs, ContestClaim(p)
    PROVE  LockInv'
<1> DEFINE other == claim[run[p].seen.tx]
<1>1. run[p].pc = "contest" /\ run[p].pc \in LooksBack /\ UNCHANGED claim
  BY DEF ContestClaim, LooksBack
<1>2. ~Dead(p) /\ run[p].seen.tx \in Runs
  BY <1>1, LookingBack
<1>3. ASSUME UNCHANGED lock, UNCHANGED candidate,
             \/ Busy(p) \/ run' = [run EXCEPT ![p].pc = "candidate"] \/ run' = Ended(p, "unsafe")
      PROVE  LockInv'
  <2>1. At(p, run'[p]) /\ run'[p].pc \in {"candidate", "ended"} /\ RunOK(p)'
    BY <1>1, <1>3, BackToStart
  <2> QED
    BY <1>1, <1>2, <1>3, <2>1, QuietStep DEF locks
<1>4. ASSUME other # NoOwner, ~Alive(other.tx), lock = run[p].seen, lock' = other,
             candidate' = [candidate EXCEPT ![other.tx] = NoOwner],
             \/ run' = [run EXCEPT ![p].pc = "candidate"] \/ run' = Ended(p, "unsafe")
      PROVE  LockInv'
  <2>1. other.tx \in Runs /\ Dead(other.tx) /\ run[other.tx].pc # "idle"
    BY <1>2, <1>4 DEF LockInv, NamesOK, Started, Alive, Dead
  <2>2. At(p, run'[p]) /\ run'[p].pc \in {"candidate", "ended"} /\ RunOK(p)'
    BY <1>1, <1>4, BackToStart
  <2>3. Started(lock)'
    BY <1>4, <2>1, <2>2 DEF Started, At
  <2>4. \A q \in Runs \ {p} : ~Dead(q) => lock.tx # q /\ run[q].pc # "replace"
    BY <1>1, <1>4, NobodyElse
  <2> HIDE DEF other
  <2> QED
    BY <1>1, <1>2, <1>4, <2>1, <2>2, <2>3, <2>4, LockStep
<1> QED
  BY <1>3, <1>4 DEF ContestClaim

LEMMA ReplaceLockStep ==
    ASSUME LockInv, NEW p \in Runs, ReplaceLock(p)
    PROVE  LockInv'
<1>1. /\ run[p].pc = "replace" /\ run[p].pc \in LooksBack /\ UNCHANGED claim
      /\ lock' = candidate[p] /\ candidate' = [candidate EXCEPT ![p] = NoOwner]
      /\ Goto(p, "recover")
  BY DEF ReplaceLock, LooksBack
<1>2. ~Dead(p) /\ candidate[p].tx = p /\ run[p].seen.tx # 0
  BY <1>1, LookingBack DEF Candidates
<1>3. /\ lock = run[p].seen /\ run[p].claimed = run[p].seen.tx
      /\ claim[run[p].claimed].tx = p
  BY <1>1, <1>2 DEF LockInv, RunOK, LockOK, ClaimOK
<1>4. At(p, run'[p]) /\ run'[p].pc = "recover" /\ run'[p].claimed = run[p].claimed
  BY <1>1, GotoAt DEF LockInv
<1>5. \A q \in Runs \ {p} : ~Dead(q) => lock.tx # q /\ run[q].pc # "replace"
  BY <1>1, <1>3, NobodyElse
<1>6. RunOK(p)'
  <2>1. ClaimOK(p)'
    BY <1>1, <1>4, ClaimKept
  <2>2. SeenOK(p)' /\ CandidateOK(p)' /\ LockOK(p)' /\ NextOK(p)'
    BY <1>1, <1>2, <1>4 DEF SeenOK, CandidateOK, LockOK, NextOK, LooksBack, Candidates, Holds, Unlocked
  <2> QED
    BY <2>1, <2>2 DEF RunOK
<1>7. Started(lock)'
  BY <1>1, <1>2, <1>4 DEF Started
<1> QED
  BY <1>1, <1>2, <1>4, <1>5, <1>6, <1>7, LockStep

-----------------------------------------------------------------------------
\* Under the lock.

\* Run p goes on under the lock, or ends.
Onwards(p) ==
    /\ At(p, run'[p])
    /\ \/ run'[p].pc = "ended"
       \/ /\ run'[p].pc \notin Unlocked /\ run'[p].claimed = run[p].claimed
          /\ run'[p].pc \in {"stage", "commit"} => run'[p].next \notin Unlocked

\* What every action under the lock does, but for those that give it up.
Body(p) ==
    Holds(p) /\ run[p].pc # "unlock" /\ UNCHANGED locks /\ (run' = run \/ Onwards(p))

LEMMA BodyStep ==
    ASSUME LockInv, NEW p \in Runs, Body(p)
    PROVE  LockInv'
<1> USE DEF Body
<1>1. lock.tx = p /\ ~Dead(p) /\ run[p].pc \notin {"ended", "crashed", "unlock"}
  BY DEF LockInv, RunOK, LockOK, Holds, Unlocked, Dead
<1>2. CASE run' = run
  BY <1>2 DEF LockInv, Shaped, NamesOK, Started, RunOK, SeenOK, CandidateOK, ClaimOK, LockOK,
              NextOK, Dead, Holds, locks
<1>3. CASE Onwards(p) /\ run'[p].pc = "ended"
  BY <1>1, <1>3, Unburdened, QuietStep DEF Onwards
<1>4. CASE Onwards(p) /\ run'[p].pc # "ended"
  <2>1. /\ At(p, run'[p]) /\ run'[p].pc \notin Unlocked /\ run'[p].claimed = run[p].claimed
        /\ run'[p].pc \in {"stage", "commit"} => run'[p].next \notin Unlocked
    BY <1>4 DEF Onwards
  <2>2. /\ run'[p].pc \notin LooksBack /\ run'[p].pc \notin Candidates
        /\ run'[p].pc \notin {"idle", "claimed", "replace", "linked"}
    BY <2>1 DEF Unlocked, LooksBack, Candidates
  <2>3. ClaimOK(p)'
    BY <1>1, <2>1, <2>2, ClaimKept DEF locks
  <2>4. SeenOK(p)' /\ CandidateOK(p)' /\ LockOK(p)' /\ NextOK(p)'
    BY <1>1, <2>1, <2>2 DEF SeenOK, CandidateOK, LockOK, NextOK, locks
  <2> QED
    BY <1>1, <2>1, <2>2, <2>3, <2>4, QuietStep DEF RunOK
<1> QED
  BY <1>2, <1>3, <1>4

\* The ways to go on.
LEMMA GotoOnwards ==
    ASSUME LockInv, NEW p \in Runs, NEW pc, pc \notin Unlocked \cup {"stage", "commit"},
           Goto(p, pc)
    PROVE  Onwards(p)
BY GotoAt DEF Onwards, LockInv

LEMMA EndedOnwards ==
    ASSUME LockInv, NEW p \in Runs, NEW outcome, run' = Ended(p, outcome)
    PROVE  Onwards(p)
BY EndedAt DEF Onwards, LockInv

LEMMA OutcomeOnwards ==
    ASSUME LockInv, NEW p \in Runs, NEW pc, pc \notin Unlocked \cup {"stage", "commit"},
           NEW outcome, run' = [run EXCEPT ![p].pc = pc, ![p].outcome = outcome]
    PROVE  Onwards(p)
BY DEF Onwards, At, LockInv, Shaped, Fields

LEMMA WritingOnwards ==
    ASSUME LockInv, NEW p \in Runs, NEW j, NEW pc, pc \notin Unlocked, NEW source,
           \/ run' = Writing(p, j, pc)
           \/ run' = [Writing(p, j, pc) EXCEPT ![p].source = source]
    PROVE  Onwards(p)
<1>1. "stage" \notin Unlocked
  BY DEF Unlocked
<1> DEFINE w == Writing(p, j, pc)
<1>2. /\ DOMAIN w = Runs /\ DOMAIN w[p] = Fields /\ w[p].pc = "stage" /\ w[p].next = pc
      /\ w[p].claimed = run[p].claimed /\ \A q \in Runs \ {p} : w[q] = run[q]
  BY DEF Writing, LockInv, Shaped, Fields
<1> HIDE DEF w
<1>3. CASE run' = w
  BY <1>1, <1>2, <1>3 DEF Onwards, At
<1>4. CASE run' = [w EXCEPT ![p].source = source]
  BY <1>1, <1>2, <1>4 DEF Onwards, At, Fields
<1> QED
  BY <1>3, <1>4 DEF w

\* Back to the rollback, or to the release of the lock.
LEMMA UndoneOnwards ==
    ASSUME LockInv, NEW p \in Runs, run' = Undone(p) \/ run' = Failed(p)
    PROVE  Onwards(p)
<1>1. {"release", "rollback"} \cap (Unlocked \cup {"stage", "commit"}) = {}
  BY DEF Unlocked
<1>2. CASE run' = Failed(p)
  BY <1>1, <1>2, OutcomeOnwards DEF Failed
<1>3. CASE run' = [run EXCEPT ![p].pc = "release", ![p].outcome = "rollback-failed"]
  BY <1>1, <1>3, OutcomeOnwards
<1>4. CASE run' = [run EXCEPT ![p].pc = "rollback"]
  BY <1>1, <1>4, GotoOnwards DEF Goto
<1> QED
  BY <1>2, <1>3, <1>4 DEF Undone

\* The states of a run under the lock, as the actions name them.
LEMMA Places ==
    ASSUME NEW p \in Runs,
           run[p].pc \in {"recover", "stage", "commit", "legacy-bootout", "sweep", "probe",
                          "restart", "bootout", "bootstrap", "rollback", "rebootstrap", "retire",
                          "retired", "intend", "write-temp", "move-old", "rename-old", "put-back",
                          "link-new", "unlink-temp", "drop-old", "undo", "undo-drop", "drop-temp",
                          "remove", "rename-away", "destroy", "removed", "release",
                          "release-claim"}
    PROVE  Holds(p) /\ run[p].pc # "unlock" /\ run[p].pc \notin Unlocked
BY DEF Holds, Unlocked

\* And what each can go on to.
Ahead == {"legacy-bootout", "sweep", "probe", "restart", "bootout", "bootstrap", "rollback",
          "rebootstrap", "retire", "retired", "intend", "write-temp", "move-old", "rename-old",
          "put-back", "link-new", "unlink-temp", "drop-old", "undo", "undo-drop", "drop-temp",
          "remove", "rename-away", "destroy", "removed", "release"}

LEMMA AheadHolds == Ahead \cap (Unlocked \cup {"stage", "commit"}) = {}
BY DEF Ahead, Unlocked

LEMMA RecoverBody ==
    ASSUME LockInv, NEW p \in Runs, Recover(p)
    PROVE  Body(p)
<1>1. run[p].pc = "recover" /\ UNCHANGED locks
  BY DEF Recover, RecoveryRefused, ReconcileJournal, AdoptTemporary, RestoreLink, DropTemporary,
         DropQuarantine, CloseTransaction, EnterBody
<1>2. Holds(p) /\ run[p].pc # "unlock"
  BY <1>1, Places
<1>3. run' = run \/ Onwards(p)
  <2>1. CASE RecoveryRefused(p)
    BY <2>1, EndedOnwards DEF RecoveryRefused
  <2>2. CASE AdoptTemporary(p)
    <3>1. "recover" \notin Unlocked
      BY DEF Unlocked
    <3> QED
      BY <2>2, <3>1, WritingOnwards DEF AdoptTemporary
  <2>3. CASE EnterBody(p)
    <3>1. "legacy-bootout" \in Ahead
      BY DEF Ahead
    <3> QED
      BY <2>3, <3>1, AheadHolds, GotoOnwards DEF EnterBody
  <2>4. CASE \/ ReconcileJournal(p) \/ RestoreLink(p) \/ DropTemporary(p) \/ DropQuarantine(p)
             \/ CloseTransaction(p)
    BY <2>4 DEF ReconcileJournal, RestoreLink, DropTemporary, DropQuarantine, CloseTransaction
  <2> QED
    BY <2>1, <2>2, <2>3, <2>4 DEF Recover
<1> QED
  BY <1>1, <1>2, <1>3 DEF Body

LEMMA OperateBody ==
    ASSUME LockInv, NEW p \in Runs, Operate(p)
    PROVE  Body(p)
<1>1. /\ run[p].pc \in {"stage", "commit", "legacy-bootout", "sweep", "probe", "restart",
                        "bootout", "bootstrap", "rollback", "rebootstrap", "retire", "retired"}
      /\ UNCHANGED locks
  BY DEF Operate, StageJournal, CommitJournal, BootOutLegacy, Sweep, Probe, Restart, BootOut,
         Bootstrap, BootstrapImpossible, Rollback, Rebootstrap, RetireLegacy, DropRetired
<1>2. Holds(p) /\ run[p].pc # "unlock"
  BY <1>1, Places
<1>3. Onwards(p)
  <2>1. CASE StageJournal(p)
    <3>1. run[p].pc = "stage" /\ Goto(p, "commit") /\ "commit" \notin Unlocked
      BY <2>1 DEF StageJournal, Unlocked
    <3>2. run[p].next \notin Unlocked
      BY <3>1 DEF LockInv, RunOK, NextOK
    <3> QED
      BY <3>1, <3>2, GotoAt DEF Onwards, LockInv
  <2>2. CASE CommitJournal(p)
    <3>1. run[p].pc = "commit" /\ Goto(p, run[p].next)
      BY <2>2 DEF CommitJournal
    <3>2. run[p].next \notin Unlocked
      BY <3>1 DEF LockInv, RunOK, NextOK
    <3> QED
      BY <3>1, <3>2, GotoAt DEF Onwards, LockInv
  <2>3. CASE BootOutLegacy(p) \/ Sweep(p) \/ Restart(p) \/ Bootstrap(p) \/ DropRetired(p)
    <3>1. \E pc \in Ahead : Goto(p, pc)
      BY <2>3 DEF BootOutLegacy, Sweep, Restart, Bootstrap, DropRetired, Ahead
    <3> QED
      BY <3>1, AheadHolds, GotoOnwards
  <2>4. \A existing : AfterBootout(p, existing) \in Ahead
    BY DEF AfterBootout, Ahead
  <2>5. CASE Probe(p)
    <3> DEFINE pc == IF service = "none" THEN AfterBootout(p, def)
                     ELSE IF run[p].op = "install" /\ def.body = Build[p] THEN "restart" ELSE "bootout"
    <3>1. pc \in Ahead
      BY <2>4 DEF Ahead
    <3>2. run' = [run EXCEPT ![p].existing = def, ![p].loaded = service # "none",
                             ![p].body = IF run[p].op = "install" THEN Build[p] ELSE "none",
                             ![p].pc = pc]
      BY <2>5 DEF Probe
    <3> HIDE DEF pc
    <3>3. At(p, run'[p]) /\ run'[p].pc = pc /\ run'[p].claimed = run[p].claimed
      BY <3>2 DEF At, LockInv, Shaped, Fields
    <3> QED
      BY <3>1, <3>3, AheadHolds DEF Onwards
  <2>6. CASE BootOut(p)
    <3>1. PICK pc \in Ahead : run' = [run EXCEPT ![p].bootedOut = TRUE, ![p].pc = pc]
      BY <2>4, <2>6 DEF BootOut
    <3>2. At(p, run'[p]) /\ run'[p].pc = pc /\ run'[p].claimed = run[p].claimed
      BY <3>1 DEF At, LockInv, Shaped, Fields
    <3> QED
      BY <3>1, <3>2, AheadHolds DEF Onwards
  <2>7. CASE BootstrapImpossible(p)
    BY <2>7, UndoneOnwards DEF BootstrapImpossible
  <2>8. CASE Rollback(p)
    <3>1. CASE run' = [run EXCEPT ![p].pc = "release", ![p].outcome = "rollback-failed"]
      <4>1. "release" \in Ahead
        BY DEF Ahead
      <4> QED
        BY <3>1, <4>1, AheadHolds, OutcomeOnwards
    <3>2. CASE \E pc \in Ahead : run' = [run EXCEPT ![p].pc = pc]
      BY <3>2, AheadHolds, GotoOnwards DEF Goto
    <3>3. CASE run' = [run EXCEPT ![p].pc = "intend", ![p].body = run[p].existing.body]
      <4>1. "intend" \in Ahead
        BY DEF Ahead
      <4>2. At(p, run'[p]) /\ run'[p].pc = "intend" /\ run'[p].claimed = run[p].claimed
        BY <3>3 DEF At, LockInv, Shaped, Fields
      <4> QED
        BY <4>1, <4>2, AheadHolds DEF Onwards
    <3>4. {"rebootstrap", "remove"} \subseteq Ahead
      BY DEF Ahead
    <3> QED
      BY <2>8, <3>1, <3>2, <3>3, <3>4 DEF Rollback
  <2>9. CASE Rebootstrap(p)
    <3>1. "release" \in Ahead
      BY DEF Ahead
    <3> QED
      BY <2>9, <3>1, AheadHolds, UndoneOnwards, OutcomeOnwards DEF Rebootstrap
  <2>10. CASE RetireLegacy(p)
    <3>1. PICK pc \in Ahead : run' = [run EXCEPT ![p].pc = pc, ![p].outcome = "done"]
      BY <2>10 DEF RetireLegacy, Ahead
    <3> QED
      BY <3>1, AheadHolds, OutcomeOnwards
  <2> QED
    BY <2>1, <2>2, <2>3, <2>5, <2>6, <2>7, <2>8, <2>9, <2>10 DEF Operate
<1> QED
  BY <1>1, <1>2, <1>3 DEF Body

LEMMA PublishBody ==
    ASSUME LockInv, NEW p \in Runs, Publish(p)
    PROVE  Body(p)
<1>1. /\ run[p].pc \in {"intend", "write-temp", "move-old", "rename-old", "put-back", "link-new",
                        "unlink-temp", "drop-old", "undo", "undo-drop", "drop-temp"}
      /\ UNCHANGED locks
  BY DEF Publish, Intend, WriteTemporary, MoveOld, RenameOld, PutBack, LinkNew, UnlinkTemporary,
         DropOld, UndoLink, UndoDrop, DropOwnTemporary
<1>2. Holds(p) /\ run[p].pc # "unlock"
  BY <1>1, Places
<1>3. \A pc \in Ahead : pc \notin Unlocked /\ (Goto(p, pc) => Onwards(p))
  BY AheadHolds, GotoOnwards
<1>4. {"write-temp", "move-old", "link-new", "rename-old", "undo", "undo-drop", "drop-temp",
       "put-back", "unlink-temp", "drop-old", "rebootstrap", "bootstrap"} \subseteq Ahead
  BY DEF Ahead
<1>5. Onwards(p)
  <2>1. CASE Intend(p)
    BY <1>3, <1>4, <2>1, WritingOnwards DEF Intend
  <2>2. CASE WriteTemporary(p)
    BY <1>3, <1>4, <2>2, WritingOnwards DEF WriteTemporary
  <2>3. CASE MoveOld(p)
    BY <1>3, <1>4, <2>3 DEF MoveOld
  <2>4. CASE RenameOld(p)
    BY <1>3, <1>4, <2>4, WritingOnwards DEF RenameOld, Goto
  <2>5. CASE PutBack(p)
    BY <1>3, <1>4, <2>5 DEF PutBack
  <2>6. CASE LinkNew(p)
    BY <1>3, <1>4, <2>6, WritingOnwards DEF LinkNew
  <2>7. CASE UnlinkTemporary(p)
    BY <1>3, <1>4, <2>7, WritingOnwards DEF UnlinkTemporary
  <2>8. CASE DropOld(p)
    <3>1. CASE run' = [run EXCEPT ![p].pc = "rebootstrap"]
      BY <1>3, <1>4, <3>1 DEF Goto
    <3>2. CASE run' = [run EXCEPT ![p].pc = "bootstrap", ![p].published = NewId(p)]
      <4>1. At(p, run'[p]) /\ run'[p].pc = "bootstrap" /\ run'[p].claimed = run[p].claimed
        BY <3>2 DEF At, LockInv, Shaped, Fields
      <4> QED
        BY <1>4, <4>1, AheadHolds DEF Onwards
    <3> QED
      BY <2>8, <3>1, <3>2 DEF DropOld
  <2>9. CASE UndoLink(p) \/ UndoDrop(p)
    BY <1>3, <1>4, <2>9 DEF UndoLink, UndoDrop
  <2>10. CASE DropOwnTemporary(p)
    BY <2>10, UndoneOnwards DEF DropOwnTemporary
  <2> QED
    BY <2>1, <2>2, <2>3, <2>4, <2>5, <2>6, <2>7, <2>8, <2>9, <2>10 DEF Publish
<1> QED
  BY <1>1, <1>2, <1>5 DEF Body

LEMMA WithdrawBody ==
    ASSUME LockInv, NEW p \in Runs, Withdraw(p)
    PROVE  Body(p)
<1>1. run[p].pc \in {"remove", "rename-away", "destroy", "removed"} /\ UNCHANGED locks
  BY DEF Withdraw, BeginRemoval, RenameAway, Destroy, Removed
<1>2. Holds(p) /\ run[p].pc # "unlock"
  BY <1>1, Places
<1>3. \A pc \in Ahead : pc \notin Unlocked /\ (Goto(p, pc) => Onwards(p))
  BY AheadHolds, GotoOnwards
<1>4. {"removed", "rename-away", "destroy", "put-back", "retire", "rebootstrap"} \subseteq Ahead
  BY DEF Ahead
<1>5. Onwards(p)
  <2>1. CASE BeginRemoval(p)
    BY <1>3, <1>4, <2>1, WritingOnwards, UndoneOnwards DEF BeginRemoval
  <2>2. CASE RenameAway(p)
    BY <1>3, <1>4, <2>2, WritingOnwards, UndoneOnwards DEF RenameAway, Goto
  <2>3. CASE Destroy(p)
    BY <1>3, <1>4, <2>3, WritingOnwards DEF Destroy
  <2>4. CASE Removed(p)
    BY <1>3, <1>4, <2>4 DEF Removed
  <2> QED
    BY <2>1, <2>2, <2>3, <2>4 DEF Withdraw
<1> QED
  BY <1>1, <1>2, <1>5 DEF Body

LEMMA CommandFailsBody ==
    ASSUME LockInv, NEW p \in Runs, CommandFails(p)
    PROVE  Body(p)
<1>1. /\ run[p].pc \in {"legacy-bootout", "bootout", "restart", "bootstrap", "rebootstrap"}
      /\ UNCHANGED locks
  BY DEF CommandFails
<1>2. Holds(p) /\ run[p].pc # "unlock"
  BY <1>1, Places
<1>3. {"release", "rollback", "retire"} \subseteq Ahead
  BY DEF Ahead
<1>4. Onwards(p)
  <2>1. CASE run' = [run EXCEPT ![p].pc = "release", ![p].outcome = "rollback-failed"]
    BY <1>3, <2>1, AheadHolds, OutcomeOnwards
  <2>2. CASE run' = Undone(p) \/ run' = Failed(p)
    BY <2>2, UndoneOnwards
  <2>3. CASE run' = [run EXCEPT ![p].bootedOut = TRUE, ![p].pc = "rollback"]
    <3>1. At(p, run'[p]) /\ run'[p].pc = "rollback" /\ run'[p].claimed = run[p].claimed
      BY <2>3 DEF At, LockInv, Shaped, Fields
    <3> QED
      BY <1>3, <3>1, AheadHolds DEF Onwards
  <2>4. CASE Goto(p, "retire")
    BY <1>3, <2>4, AheadHolds, GotoOnwards
  <2> QED
    BY <2>1, <2>2, <2>3, <2>4 DEF CommandFails
<1> QED
  BY <1>1, <1>2, <1>4 DEF Body

LEMMA ReleaseJournalBody ==
    ASSUME LockInv, NEW p \in Runs, ReleaseJournal(p)
    PROVE  Body(p)
<1>1. run[p].pc = "release" /\ UNCHANGED locks /\ Goto(p, "release-claim")
  BY DEF ReleaseJournal
<1>2. Holds(p) /\ run[p].pc # "unlock" /\ "release-claim" \notin Unlocked
  BY <1>1, Places DEF Unlocked
<1> QED
  BY <1>1, <1>2, GotoOnwards DEF Body

LEMMA BodyOf ==
    ASSUME LockInv, NEW p \in Runs,
           \/ Recover(p) \/ Operate(p) \/ Publish(p) \/ Withdraw(p) \/ ReleaseJournal(p)
           \/ CommandFails(p)
    PROVE  Body(p)
BY RecoverBody, OperateBody, PublishBody, WithdrawBody, ReleaseJournalBody, CommandFailsBody

-----------------------------------------------------------------------------
\* The end of a run.

LEMMA ReleaseStep ==
    ASSUME LockInv, NEW p \in Runs, Release(p)
    PROVE  LockInv'
<1>1. CASE ReleaseJournal(p)
  BY <1>1, ReleaseJournalBody, BodyStep
<1>2. CASE ReleaseClaim(p)
  <2>1. /\ run[p].pc = "release-claim" /\ UNCHANGED <<lock, candidate>> /\ Goto(p, "unlock")
        /\ claim' = [q \in Runs |-> IF q = run[p].claimed THEN NoOwner ELSE claim[q]]
    BY <1>2 DEF ReleaseClaim
  <2>2. At(p, run'[p]) /\ run'[p].pc = "unlock"
    BY <2>1, GotoAt DEF LockInv
  <2>3. /\ run[p].claimed \in Runs => claim[run[p].claimed].tx = p
        /\ lock.tx = p
    BY <2>1, RunsAssumption DEF LockInv, RunOK, ClaimOK, LockOK, Holds, Unlocked
  <2>4. claim' = [claim EXCEPT ![run[p].claimed] = NoOwner]
    BY <2>1 DEF LockInv, Shaped
  <2>5. RunOK(p)'
    BY <2>1, <2>2, <2>3 DEF RunOK, SeenOK, CandidateOK, ClaimOK, LockOK, NextOK, LooksBack, Candidates
  <2> QED
    BY <2>1, <2>2, <2>3, <2>4, <2>5, UnclaimStep DEF Dead
<1>3. CASE Unlock(p)
  <2>1. /\ run[p].pc = "unlock" /\ UNCHANGED <<candidate, claim>> /\ lock' = NoOwner
        /\ run' = Ended(p, run[p].outcome)
    BY <1>3 DEF Unlock
  <2>2. At(p, run'[p]) /\ run'[p].pc = "ended"
    BY <2>1, EndedAt DEF LockInv
  <2>3. lock.tx = p /\ ~Dead(p)
    BY <2>1 DEF LockInv, RunOK, LockOK, Holds, Unlocked, Dead
  <2>4. ASSUME NEW q \in Runs \ {p}, ~Dead(q)
        PROVE  lock.tx # q /\ run[q].pc # "replace"
    BY <2>3 DEF LockInv, RunOK, LockOK, SeenOK, LooksBack
  <2>5. RunOK(p)' /\ Started(lock)'
    BY <2>1, <2>2, Unburdened DEF Started
  <2> QED
    BY <2>1, <2>2, <2>3, <2>4, <2>5, LockStep
<1> QED
  BY <1>1, <1>2, <1>3 DEF Release

LEMMA CrashStep ==
    ASSUME LockInv, NEW p \in Runs, Crash(p)
    PROVE  LockInv'
<1>1. UNCHANGED locks /\ ~Dead(p) /\ run' = Killed(p)
  BY DEF Crash, Alive, Dead
<1>2. At(p, run'[p]) /\ run'[p].pc = "crashed"
  BY <1>1 DEF Killed, At, LockInv, Shaped, Fields, Idle
<1> QED
  BY <1>1, <1>2, Unburdened, QuietStep

-----------------------------------------------------------------------------
LEMMA LockInvInit == Init => LockInv
<1> SUFFICES ASSUME Init
             PROVE  LockInv
  OBVIOUS
<1>1. /\ \A p \in Runs : run[p] = Idle /\ candidate[p] = NoOwner /\ claim[p] = NoOwner
      /\ DOMAIN run = Runs /\ lock = NoOwner
      /\ candidate = [p \in Runs |-> candidate[p]] /\ claim = [p \in Runs |-> claim[p]]
  BY DEF Init
<1>2. Shaped /\ NamesOK
  BY <1>1, IdleShape DEF Shaped, NamesOK, Started
<1>3. \A p \in Runs : RunOK(p)
  BY <1>1, IdleShape DEF RunOK, SeenOK, CandidateOK, ClaimOK, LockOK, NextOK, LooksBack,
                         Candidates, Holds, Unlocked
<1> QED
  BY <1>2, <1>3 DEF LockInv

LEMMA LockInvStep == LockInv /\ [Next]_vars => LockInv'
<1> SUFFICES ASSUME LockInv, [Next]_vars
             PROVE  LockInv'
  OBVIOUS
<1>1. ASSUME NEW p \in Runs, NEW op \in Ops[p], Start(p, op)
      PROVE  LockInv'
  BY <1>1, StartStep
<1>2. ASSUME NEW p \in Runs, Acquire(p)
      PROVE  LockInv'
  BY <1>2, ProbeLegacyStep, WriteCandidateStep, LinkLockStep, DropCandidateStep, InspectOwnerStep,
     UnlinkCompanionStep, ClaimStep, LinkClaimStep, ConfirmClaimStep, ContestClaimStep,
     ReplaceLockStep DEF Acquire
<1>3. ASSUME NEW p \in Runs,
             Recover(p) \/ Operate(p) \/ Publish(p) \/ Withdraw(p) \/ Release(p)
      PROVE  LockInv'
  BY <1>3, BodyOf, BodyStep, ReleaseStep
<1>4. ASSUME NEW p \in Runs, CommandFails(p) \/ Crash(p)
      PROVE  LockInv'
  BY <1>4, BodyOf, BodyStep, CrashStep
<1>5. ASSUME UNCHANGED <<locks, run>>
      PROVE  LockInv'
  BY <1>5 DEF LockInv, Shaped, NamesOK, Started, RunOK, SeenOK, CandidateOK, ClaimOK, LockOK,
              NextOK, Dead, Holds, locks
<1>6. ASSUME NEW file, Edit(file)
      PROVE  LockInv'
  BY <1>5, <1>6 DEF Edit
<1>7. CASE UNCHANGED vars
  BY <1>5, <1>7 DEF vars
<1> QED
  BY <1>1, <1>2, <1>3, <1>4, <1>6, <1>7 DEF Next

\* The lock and its companions name runs that started; a run that acts on a dead owner acts on
\* a dead one; and no living run loses its candidate, its claim or its lock to another
\* (acquireOperationLock, resolveExistingSuccessorClaim).
THEOREM LockInvHolds == Spec => []LockInv
<1> QED
  BY LockInvInit, LockInvStep, PTL DEF Spec

\* A run past its acquisition finds its own metadata in the lock: every assertOwned it makes
\* succeeds, for any number of runs and of takeovers, wherever the others are killed.
THEOREM LockIsOwnedHolds == Spec => []LockIsOwned
<1>1. LockInv => LockIsOwned
  BY DEF LockInv, RunOK, LockOK, LockIsOwned
<1> QED
  BY <1>1, LockInvHolds, PTL

\* So two runs never change the service definition at once.
THEOREM OneOperation == Spec => [](\A p, q \in Runs : Holds(p) /\ Holds(q) => p = q)
<1>1. LockInv => \A p, q \in Runs : Holds(p) /\ Holds(q) => p = q
  BY DEF LockInv, RunOK, LockOK
<1> QED
  BY <1>1, LockInvHolds, PTL

-----------------------------------------------------------------------------
\* The legacy takeover.

\* Where a run is, or goes on once the journal it is writing is in place.
Place(p) == IF run[p].pc \in {"stage", "commit"} THEN run[p].next ELSE run[p].pc

\* What an install or an uninstall does once the legacy service is stopped.
Beyond == {"sweep", "probe", "restart", "bootout", "bootstrap", "rollback", "rebootstrap",
           "retire", "retired", "intend", "write-temp", "move-old", "rename-old", "put-back",
           "link-new", "unlink-temp", "drop-old", "undo", "undo-drop", "drop-temp", "remove",
           "rename-away", "destroy", "removed"}

\* Status stays out of all of it, but for the legacy files.
StatusOK(p) ==
    /\ run[p].op = "status" => Place(p) \notin Beyond \ {"sweep", "retire", "retired"}
    /\ run[p].op # "status" /\ Place(p) \in Beyond => ~(legacy.loaded /\ legacy.def)
    /\ run[p].pc \in {"idle", "probe-legacy"} => run[p].handOver = FALSE

\* While the legacy service can still be handed over, the new one has been up since status
\* decided to.
HandOverOK(p) ==
    run[p].op = "status" /\ run[p].handOver /\ legacy.loaded /\ legacy.def => service # "none"

TakeoverInv ==
    /\ LockInv /\ DOMAIN legacy = {"def", "loaded", "artifacts"}
    /\ \A p \in Runs : StatusOK(p) /\ HandOverOK(p)

\* The ways a run goes on: to another place, to write a journal, or not at all.
Same(p) ==
    /\ run'[p].op = run[p].op /\ run'[p].handOver = run[p].handOver
    /\ run'[p].existing = run[p].existing /\ run'[p].loaded = run[p].loaded
    /\ run'[p].body = run[p].body /\ run'[p].published = run[p].published

Went(p, pc) ==
    /\ At(p, run'[p]) /\ run'[p].pc = pc /\ Same(p)
    /\ run'[p].pending = run[p].pending /\ run'[p].next = run[p].next
    /\ run'[p].source = run[p].source /\ run'[p].bootedOut = run[p].bootedOut

Staged(p, j, pc, source) ==
    /\ At(p, run'[p]) /\ run'[p].pc = "stage" /\ Same(p)
    /\ run'[p].pending = j /\ run'[p].next = pc
    /\ run'[p].source = source /\ run'[p].bootedOut = run[p].bootedOut

\* A run that has neither found nor published a definition.
Fresh(p) == run[p].existing = NoFile /\ ~Published(p)

Stopped(p) ==
    /\ At(p, run'[p]) /\ run'[p].pc \in {"ended", "crashed"} /\ run'[p].op = run[p].op
    /\ run'[p].handOver = FALSE /\ run'[p].pending = NoJournal /\ Fresh(p)'

LEMMA GotoWent ==
    ASSUME Shaped, NEW p \in Runs, NEW pc, Goto(p, pc)
    PROVE  Went(p, pc) /\ run'[p].outcome = run[p].outcome
BY DEF Goto, Went, Same, At, Shaped, Fields

LEMMA OutcomeWent ==
    ASSUME Shaped, NEW p \in Runs, NEW pc, NEW outcome,
           run' = [run EXCEPT ![p].pc = pc, ![p].outcome = outcome]
    PROVE  Went(p, pc) /\ run'[p].outcome = outcome
BY DEF Went, Same, At, Shaped, Fields

LEMMA WritingStaged ==
    ASSUME Shaped, NEW p \in Runs, NEW j, NEW pc, run' = Writing(p, j, pc)
    PROVE  Staged(p, j, pc, run[p].source) /\ run'[p].outcome = run[p].outcome
BY DEF Writing, Staged, Same, At, Shaped, Fields

LEMMA SourceStaged ==
    ASSUME Shaped, NEW p \in Runs, NEW j, NEW pc, NEW source,
           run' = [Writing(p, j, pc) EXCEPT ![p].source = source]
    PROVE  Staged(p, j, pc, source) /\ run'[p].outcome = run[p].outcome
<1> DEFINE w == Writing(p, j, pc)
<1>1. /\ DOMAIN w = Runs /\ DOMAIN w[p] = Fields /\ \A q \in Runs \ {p} : w[q] = run[q]
      /\ w[p].pc = "stage" /\ w[p].next = pc /\ w[p].pending = j
      /\ w[p].op = run[p].op /\ w[p].handOver = run[p].handOver
      /\ w[p].existing = run[p].existing /\ w[p].loaded = run[p].loaded
      /\ w[p].body = run[p].body /\ w[p].published = run[p].published
      /\ w[p].bootedOut = run[p].bootedOut /\ w[p].outcome = run[p].outcome
  BY DEF Writing, Shaped, Fields
<1> HIDE DEF w
<1>2. run' = [w EXCEPT ![p].source = source]
  BY DEF w
<1> QED
  BY <1>1, <1>2 DEF Staged, Same, At, Fields

LEMMA UndoneWent ==
    ASSUME Shaped, NEW p \in Runs, run' = Undone(p)
    PROVE  \/ Went(p, "rollback") /\ run[p].op = "install" /\ run'[p].outcome = run[p].outcome
              /\ (Published(p) => run[p].pc = "bootstrap") /\ (Published(p) \/ run[p].bootedOut)
           \/ Went(p, "release") /\ run'[p].outcome = "rollback-failed"
           \/ Went(p, "release") /\ run'[p].outcome = "failed"
              /\ ~(run[p].op = "install" /\ (Published(p) \/ run[p].bootedOut))
<1>1. CASE run' = [run EXCEPT ![p].pc = "release", ![p].outcome = "rollback-failed"]
  BY <1>1, OutcomeWent
<1>2. CASE /\ ~(run[p].op = "install" /\ Published(p) /\ run[p].pc # "bootstrap")
           /\ run[p].op = "install" /\ (Published(p) \/ run[p].bootedOut)
           /\ run' = [run EXCEPT ![p].pc = "rollback"]
  BY <1>2, GotoWent DEF Goto
<1>3. CASE /\ ~(run[p].op = "install" /\ (Published(p) \/ run[p].bootedOut))
           /\ run' = Failed(p)
  BY <1>3, OutcomeWent DEF Failed
<1> QED
  BY <1>1, <1>2, <1>3 DEF Undone

LEMMA EndedStopped ==
    ASSUME Shaped, NEW p \in Runs, NEW outcome, run' = Ended(p, outcome) \/ run' = Killed(p)
    PROVE  Stopped(p)
<1>1. ASSUME NEW l, DOMAIN l = Fields, run' = [run EXCEPT ![p] = l],
             l.pc \in {"ended", "crashed"}, l.op = run[p].op, l.handOver = FALSE,
             l.pending = NoJournal, l.existing = NoFile, l.published = NoFile.id
      PROVE  Stopped(p)
  BY <1>1 DEF Stopped, Fresh, Published, At, Shaped
<1>2. CASE run' = Ended(p, outcome)
  <2> DEFINE l == [Idle EXCEPT !.pc = "ended", !.op = run[p].op, !.outcome = outcome]
  <2>1. /\ DOMAIN l = Fields /\ l.pc = "ended" /\ l.op = run[p].op /\ l.handOver = FALSE
        /\ l.pending = NoJournal /\ l.existing = NoFile /\ l.published = NoFile.id
    BY DEF Idle, Fields
  <2>2. run' = [run EXCEPT ![p] = l]
    BY <1>2 DEF Ended
  <2> HIDE DEF l
  <2> QED
    BY <1>1, <2>1, <2>2
<1>3. CASE run' = Killed(p)
  <2> DEFINE l == [Idle EXCEPT !.pc = "crashed", !.op = run[p].op]
  <2>1. /\ DOMAIN l = Fields /\ l.pc = "crashed" /\ l.op = run[p].op /\ l.handOver = FALSE
        /\ l.pending = NoJournal /\ l.existing = NoFile /\ l.published = NoFile.id
    BY DEF Idle, Fields
  <2>2. run' = [run EXCEPT ![p] = l]
    BY <1>3 DEF Killed
  <2> HIDE DEF l
  <2> QED
    BY <1>1, <2>1, <2>2
<1> QED
  BY <1>2, <1>3

\* A run that waits starts over with what it decided before the lock.
LEMMA BusyWent ==
    ASSUME Shaped, NEW p \in Runs, Busy(p)
    PROVE  \/ Stopped(p)
           \/ /\ At(p, run'[p]) /\ run'[p].pc = "candidate"
              /\ run'[p].op = run[p].op /\ run'[p].handOver = run[p].handOver
              /\ run'[p].pending = NoJournal /\ Fresh(p)'
<1>1. CASE run' = Ended(p, "busy")
  BY <1>1, EndedStopped
<1>2. CASE run' = [run EXCEPT ![p] = [Idle EXCEPT !.pc = "candidate", !.op = run[p].op,
                                                  !.busy = run[p].busy + 1,
                                                  !.handOver = run[p].handOver]]
  BY <1>2 DEF At, Shaped, Fields, Idle, Fresh, Published
<1> QED
  BY <1>1, <1>2 DEF Busy

\* A run under the lock goes on under it, and does not fail as one that found it unsafe to.
NoRefusal(p) == run'[p].outcome \in {run[p].outcome, "done", "failed", "rollback-failed"}

Proceeds(p) ==
    /\ At(p, run'[p]) /\ run'[p].op = run[p].op /\ run'[p].handOver = run[p].handOver
    /\ run'[p].pc \in Ahead \cup {"stage", "commit"} /\ NoRefusal(p)

LEMMA WentProceeds ==
    ASSUME NEW p \in Runs, NoRefusal(p),
           \/ \E pc \in Ahead : Went(p, pc)
           \/ \E j, pc, source : Staged(p, j, pc, source)
    PROVE  Proceeds(p)
BY DEF Proceeds, Went, Staged, Same

\* Where it has no file in hand.
Between == {"legacy-bootout", "sweep", "probe", "restart", "bootout", "bootstrap", "rollback",
            "rebootstrap", "retire", "retired", "intend", "remove", "removed", "release"}

Resumes(p) == Proceeds(p) /\ run'[p].pc \in Between

LEMMA WentResumes ==
    ASSUME NEW p \in Runs, NoRefusal(p), NEW pc \in Between, Went(p, pc)
    PROVE  Resumes(p)
BY WentProceeds DEF Resumes, Between, Ahead, Went

LEMMA GotoResumes ==
    ASSUME Shaped, NEW p \in Runs, NEW pc \in Between,
           \/ Goto(p, pc)
           \/ \E outcome \in {"done", "failed", "rollback-failed"} :
                run' = [run EXCEPT ![p].pc = pc, ![p].outcome = outcome]
    PROVE  Resumes(p)
<1>1. CASE Goto(p, pc)
  BY <1>1, GotoWent, WentResumes DEF NoRefusal
<1>2. CASE \E outcome \in {"done", "failed", "rollback-failed"} :
             run' = [run EXCEPT ![p].pc = pc, ![p].outcome = outcome]
  BY <1>2, OutcomeWent, WentResumes DEF NoRefusal
<1> QED
  BY <1>1, <1>2

LEMMA UndoneProceeds ==
    ASSUME Shaped, NEW p \in Runs, run' = Undone(p) \/ run' = Failed(p)
    PROVE  Resumes(p)
<1>1. {"release", "rollback"} \subseteq Between
  BY DEF Between
<1>2. CASE run' = Undone(p)
  BY <1>1, <1>2, UndoneWent, WentResumes DEF NoRefusal
<1>3. CASE run' = Failed(p)
  BY <1>1, <1>3, GotoResumes DEF Failed
<1> QED
  BY <1>2, <1>3

LEMMA PublishProceeds ==
    ASSUME Shaped, NEW p \in Runs, Publish(p)
    PROVE  Proceeds(p)
<1>1. {"write-temp", "move-old", "link-new", "rename-old", "undo", "undo-drop", "drop-temp",
       "put-back", "unlink-temp", "drop-old", "rebootstrap", "bootstrap"} \subseteq Ahead
  BY DEF Ahead
<1>2. \A pc \in Ahead : Goto(p, pc) => Proceeds(p)
  BY GotoWent, WentProceeds DEF NoRefusal
<1>3. \A j, pc : run' = Writing(p, j, pc) => Proceeds(p)
  BY WritingStaged, WentProceeds DEF NoRefusal
<1>4. CASE Intend(p)
  BY <1>4, SourceStaged, WentProceeds DEF Intend, NoRefusal
<1>5. CASE WriteTemporary(p) \/ MoveOld(p) \/ PutBack(p) \/ LinkNew(p) \/ UnlinkTemporary(p)
  BY <1>1, <1>2, <1>3, <1>5 DEF WriteTemporary, MoveOld, PutBack, LinkNew, UnlinkTemporary
<1>6. CASE RenameOld(p) \/ UndoLink(p) \/ UndoDrop(p)
  BY <1>1, <1>2, <1>3, <1>6 DEF RenameOld, UndoLink, UndoDrop, Goto
<1>7. CASE DropOwnTemporary(p)
  BY <1>7, UndoneProceeds DEF DropOwnTemporary, Resumes
<1>8. CASE DropOld(p)
  <2>1. CASE run' = [run EXCEPT ![p].pc = "rebootstrap"]
    BY <1>1, <1>2, <2>1 DEF Goto
  <2>2. CASE run' = [run EXCEPT ![p].pc = "bootstrap", ![p].published = NewId(p)]
    BY <1>1, <2>2 DEF Proceeds, NoRefusal, At, Shaped, Fields
  <2> QED
    BY <1>8, <2>1, <2>2 DEF DropOld
<1> QED
  BY <1>4, <1>5, <1>6, <1>7, <1>8 DEF Publish

LEMMA WithdrawProceeds ==
    ASSUME Shaped, NEW p \in Runs, Withdraw(p)
    PROVE  Proceeds(p)
<1>1. {"removed", "rename-away", "destroy", "put-back", "retire", "rebootstrap"} \subseteq Ahead
  BY DEF Ahead
<1>2. \A pc \in Ahead : Goto(p, pc) => Proceeds(p)
  BY GotoWent, WentProceeds DEF NoRefusal
<1>3. \A j, pc : run' = Writing(p, j, pc) => Proceeds(p)
  BY WritingStaged, WentProceeds DEF NoRefusal
<1>4. CASE BeginRemoval(p)
  BY <1>1, <1>2, <1>4, UndoneProceeds, SourceStaged, WentProceeds
     DEF BeginRemoval, Resumes, NoRefusal
<1>5. CASE RenameAway(p)
  BY <1>1, <1>2, <1>3, <1>5, UndoneProceeds DEF RenameAway, Goto, Resumes
<1>6. CASE Destroy(p) \/ Removed(p)
  BY <1>1, <1>2, <1>3, <1>6 DEF Destroy, Removed
<1> QED
  BY <1>4, <1>5, <1>6 DEF Withdraw

\* The commands to the service manager.
Command(p) == \/ Probe(p) \/ Restart(p) \/ BootOut(p) \/ Bootstrap(p) \/ BootstrapImpossible(p)
              \/ Rollback(p) \/ Rebootstrap(p)

LEMMA CommandProceeds ==
    ASSUME Shaped, NEW p \in Runs, Command(p)
    PROVE  Resumes(p)
<1>1. {"retire", "release", "rebootstrap", "remove", "intend", "restart", "bootout"} \subseteq Between
  BY DEF Between
<1>2. \A existing : AfterBootout(p, existing) \in Between
  BY DEF AfterBootout, Between
<1>3. \A pc \in Between : Goto(p, pc) => Resumes(p)
  BY GotoResumes
<1>4. CASE Probe(p)
  <2> DEFINE pc == IF service = "none" THEN AfterBootout(p, def)
                   ELSE IF run[p].op = "install" /\ def.body = Build[p] THEN "restart" ELSE "bootout"
             new == IF run[p].op = "install" THEN Build[p] ELSE "none"
             up == service # "none"
  <2>1. pc \in Between
    BY <1>1, <1>2
  <2>2. run' = [run EXCEPT ![p].existing = def, ![p].loaded = up, ![p].body = new, ![p].pc = pc]
    BY <1>4 DEF Probe
  <2> HIDE DEF pc, new, up
  <2> QED
    BY <2>1, <2>2 DEF Resumes, Proceeds, NoRefusal, Between, Ahead, At, Shaped, Fields
<1>5. CASE Restart(p) \/ Bootstrap(p)
  BY <1>1, <1>3, <1>5 DEF Restart, Bootstrap
<1>6. CASE BootOut(p)
  <2>1. PICK pc \in Between : run' = [run EXCEPT ![p].bootedOut = TRUE, ![p].pc = pc]
    BY <1>2, <1>6 DEF BootOut
  <2> QED
    BY <2>1 DEF Resumes, Proceeds, NoRefusal, Between, Ahead, At, Shaped, Fields
<1>7. CASE BootstrapImpossible(p)
  BY <1>7, UndoneProceeds DEF BootstrapImpossible
<1>8. ASSUME run' = [run EXCEPT ![p].pc = "release", ![p].outcome = "rollback-failed"]
      PROVE  Resumes(p)
  BY <1>1, <1>8, GotoResumes
<1>9. CASE Rollback(p)
  <2>1. CASE run' = [run EXCEPT ![p].pc = "intend", ![p].body = run[p].existing.body]
    BY <1>1, <2>1 DEF Resumes, Proceeds, NoRefusal, Between, Ahead, At, Shaped, Fields
  <2> QED
    BY <1>1, <1>3, <1>8, <1>9, <2>1 DEF Rollback, Goto
<1>10. CASE Rebootstrap(p)
  BY <1>8, <1>10, UndoneProceeds DEF Rebootstrap
<1> QED
  BY <1>4, <1>5, <1>6, <1>7, <1>9, <1>10 DEF Command

LEMMA FailureProceeds ==
    ASSUME Shaped, NEW p \in Runs, CommandFails(p)
    PROVE  Resumes(p)
<1>1. {"retire", "release", "rollback"} \subseteq Between
  BY DEF Between
<1>2. CASE run' = [run EXCEPT ![p].pc = "release", ![p].outcome = "rollback-failed"]
  BY <1>1, <1>2, GotoResumes
<1>3. CASE run' = Undone(p) \/ run' = Failed(p)
  BY <1>3, UndoneProceeds
<1>4. CASE run' = [run EXCEPT ![p].bootedOut = TRUE, ![p].pc = "rollback"]
  BY <1>1, <1>4 DEF Resumes, Proceeds, NoRefusal, Between, Ahead, At, Shaped, Fields
<1>5. CASE Goto(p, "retire")
  BY <1>1, <1>5, GotoResumes
<1> QED
  BY <1>2, <1>3, <1>4, <1>5 DEF CommandFails

\* Before it has the lock a run changes nothing but the lock's files.
Outside == {"candidate", "link", "linked", "inspect", "unlink-companion", "claim", "claim-link",
            "contest", "claimed", "replace"}

LEMMA AcquireRun ==
    ASSUME Shaped, NEW p \in Runs, Acquire(p), ~ProbeLegacy(p)
    PROVE  /\ UNCHANGED <<journals, files, manager, history, mishaps>>
           /\ run[p].pc \in Outside
           /\ \/ Stopped(p)
              \/ /\ At(p, run'[p]) /\ run'[p].pc \in Outside \cup {"recover"}
                 /\ run'[p].op = run[p].op /\ run'[p].handOver = run[p].handOver
                 /\ run'[p].pending \in {run[p].pending, NoJournal} /\ (Fresh(p) => Fresh(p)')
<1> DEFINE Out == /\ At(p, run'[p]) /\ run'[p].pc \in Outside \cup {"recover"}
                  /\ run'[p].op = run[p].op /\ run'[p].handOver = run[p].handOver
                  /\ run'[p].pending \in {run[p].pending, NoJournal} /\ (Fresh(p) => Fresh(p)')
<1>1. /\ UNCHANGED <<journals, files, manager, history, mishaps>>
      /\ run[p].pc \in Outside
  BY DEF Acquire, WriteCandidate, LinkLock, DropCandidate, InspectOwner, UnlinkCompanion, Claim,
         LinkClaim, ConfirmClaim, ContestClaim, ReplaceLock, Outside, locks, journals, files,
         manager, history
<1>2. \A pc \in Outside \cup {"recover"} : Goto(p, pc) => Out
  BY GotoWent DEF Went, Same, Fresh, Published
<1>3. "candidate" \in Outside
  BY DEF Outside
<1>4. Busy(p) => Stopped(p) \/ Out
  BY <1>3, BusyWent
<1>5. \A outcome : run' = Ended(p, outcome) => Stopped(p)
  BY EndedStopped
<1>6. CASE WriteCandidate(p) \/ LinkLock(p) \/ DropCandidate(p) \/ ReplaceLock(p) \/ Claim(p)
  BY <1>2, <1>4, <1>5, <1>6 DEF WriteCandidate, LinkLock, DropCandidate, ReplaceLock, Claim, Outside
<1>7. CASE InspectOwner(p)
  <2>1. ASSUME NEW pc \in Outside, run' = [run EXCEPT ![p].pc = pc, ![p].seen = lock]
        PROVE  Out
    BY <2>1 DEF At, Shaped, Fields, Fresh, Published
  <2>2. {"unlink-companion", "claim", "candidate"} \subseteq Outside
    BY DEF Outside
  <2> QED
    BY <1>1, <1>2, <1>4, <1>5, <1>7, <2>1, <2>2 DEF InspectOwner
<1>8. CASE UnlinkCompanion(p) \/ ConfirmClaim(p)
  BY <1>2, <1>5, <1>8 DEF UnlinkCompanion, ConfirmClaim, Outside
<1>9. CASE LinkClaim(p)
  <2>1. ASSUME run' = [run EXCEPT ![p].pc = "claimed", ![p].claimed = run[p].seen.tx]
        PROVE  Out
    BY <2>1 DEF At, Shaped, Fields, Outside, Fresh, Published
  <2>2. "contest" \in Outside
    BY DEF Outside
  <2> QED
    BY <1>1, <1>2, <1>9, <2>1, <2>2 DEF LinkClaim
<1>10. CASE ContestClaim(p)
  <2>1. run' = [run EXCEPT ![p].pc = "candidate"] => Out
    BY <1>2, <1>3 DEF Goto
  <2> QED
    BY <1>1, <1>4, <1>5, <1>10, <2>1 DEF ContestClaim
<1> QED
  BY <1>1, <1>6, <1>7, <1>8, <1>9, <1>10 DEF Acquire

-----------------------------------------------------------------------------
\* What a step of p leaves to the others, and what it must see to itself.
LEMMA TakeoverMoves ==
    ASSUME TakeoverInv, LockInv', NEW p \in Runs, At(p, run'[p]), DOMAIN legacy' = DOMAIN legacy,
           legacy'.loaded /\ legacy'.def => legacy.loaded /\ legacy.def /\ service' = service,
           StatusOK(p)', HandOverOK(p)'
    PROVE  TakeoverInv'
<1>1. ASSUME NEW q \in Runs \ {p}
      PROVE  StatusOK(q)' /\ HandOverOK(q)'
  <2>1. run'[q] = run[q] /\ StatusOK(q) /\ HandOverOK(q)
    BY DEF At, TakeoverInv
  <2>2. Place(q)' = Place(q)
    BY <2>1 DEF Place
  <2> QED
    BY <2>1, <2>2 DEF StatusOK, HandOverOK
<1> QED
  BY <1>1 DEF TakeoverInv

\* Outside the operation, or on the way out of it.
LEMMA TakeoverAside ==
    ASSUME TakeoverInv, LockInv', NEW p \in Runs, At(p, run'[p]), UNCHANGED manager,
           run'[p].op = run[p].op, run'[p].handOver \in {run[p].handOver, FALSE},
           run'[p].pc \notin {"idle", "probe-legacy"}, Place(p)' \notin Beyond
    PROVE  TakeoverInv'
<1>1. StatusOK(p)'
  BY DEF StatusOK
<1>2. HandOverOK(p)'
  BY DEF TakeoverInv, HandOverOK, manager
<1> QED
  BY <1>1, <1>2, TakeoverMoves DEF manager

\* In an operation that is not status.
LEMMA TakeoverBeyond ==
    ASSUME TakeoverInv, LockInv', NEW p \in Runs, Proceeds(p), UNCHANGED legacy,
           Place(p) \in Beyond \ {"sweep", "retire", "retired"}
    PROVE  TakeoverInv'
<1>1. run[p].op # "status" /\ ~(legacy.loaded /\ legacy.def)
  BY DEF TakeoverInv, StatusOK
<1>2. At(p, run'[p]) /\ run'[p].op # "status" /\ run'[p].pc \notin {"idle", "probe-legacy"}
  BY <1>1 DEF Proceeds, Ahead
<1>3. StatusOK(p)' /\ HandOverOK(p)'
  BY <1>1, <1>2 DEF StatusOK, HandOverOK
<1> QED
  BY <1>1, <1>2, <1>3, TakeoverMoves

LEMMA TakeoverStart ==
    ASSUME TakeoverInv, LockInv', NEW p \in Runs, NEW op, Start(p, op)
    PROVE  TakeoverInv'
<1>1. /\ run[p].pc = "idle" /\ UNCHANGED manager
      /\ run' = [run EXCEPT ![p].op = op,
                            ![p].pc = IF op = "status" THEN "probe-legacy" ELSE "candidate"]
  BY DEF Start
<1>2. /\ At(p, run'[p]) /\ run'[p].pc \in {"probe-legacy", "candidate"}
      /\ run'[p].handOver = run[p].handOver
  BY <1>1 DEF At, TakeoverInv, LockInv, Shaped, Fields
<1>3. run'[p].handOver = FALSE
  BY <1>1, <1>2 DEF TakeoverInv, StatusOK
<1>4. StatusOK(p)' /\ HandOverOK(p)'
  BY <1>2, <1>3 DEF StatusOK, HandOverOK, Place, Beyond
<1> QED
  BY <1>1, <1>2, <1>4, TakeoverMoves DEF manager

LEMMA TakeoverProbe ==
    ASSUME TakeoverInv, LockInv', NEW p \in Runs, ProbeLegacy(p)
    PROVE  TakeoverInv'
<1> DEFINE handOver == legacy.def /\ def # NoFile /\ (~legacy.loaded \/ service # "none")
<1>1. Shaped /\ UNCHANGED manager
  BY DEF ProbeLegacy, TakeoverInv, LockInv
<1>2. CASE run' = Ended(p, "done")
  BY <1>1, <1>2, EndedStopped, TakeoverAside DEF Stopped, Place, Beyond
<1>3. CASE run' = [run EXCEPT ![p].pc = "candidate", ![p].handOver = handOver]
  <2>1. legacy.loaded /\ handOver => service # "none"
    OBVIOUS
  <2> HIDE DEF handOver
  <2>2. At(p, run'[p]) /\ run'[p].pc = "candidate" /\ run'[p].handOver = handOver
    BY <1>1, <1>3 DEF At, Shaped, Fields
  <2>3. StatusOK(p)' /\ HandOverOK(p)'
    BY <1>1, <2>1, <2>2 DEF StatusOK, HandOverOK, Place, Beyond, manager
  <2> QED
    BY <1>1, <2>2, <2>3, TakeoverMoves DEF manager
<1> QED
  BY <1>2, <1>3 DEF ProbeLegacy

LEMMA TakeoverAcquire ==
    ASSUME TakeoverInv, LockInv', NEW p \in Runs, Acquire(p)
    PROVE  TakeoverInv'
<1>1. CASE ProbeLegacy(p)
  BY <1>1, TakeoverProbe
<1>2. CASE ~ProbeLegacy(p)
  <2>1. /\ UNCHANGED manager
        /\ \/ Stopped(p)
           \/ /\ At(p, run'[p]) /\ run'[p].pc \in Outside \cup {"recover"}
              /\ run'[p].op = run[p].op /\ run'[p].handOver = run[p].handOver
    BY <1>2, AcquireRun DEF TakeoverInv, LockInv
  <2>2. CASE Stopped(p)
    BY <2>1, <2>2, TakeoverAside DEF Stopped, Place, Beyond
  <2>3. CASE ~Stopped(p)
    BY <2>1, <2>3, TakeoverAside DEF Outside, Place, Beyond
  <2> QED
    BY <2>2, <2>3
<1> QED
  BY <1>1, <1>2

LEMMA TakeoverRecover ==
    ASSUME TakeoverInv, LockInv', NEW p \in Runs, Recover(p)
    PROVE  TakeoverInv'
<1>1. UNCHANGED manager /\ Shaped
  BY DEF Recover, RecoveryRefused, ReconcileJournal, AdoptTemporary, RestoreLink, DropTemporary,
         DropQuarantine, CloseTransaction, EnterBody, TakeoverInv, LockInv, manager
<1>2. CASE RecoveryRefused(p)
  BY <1>1, <1>2, EndedStopped, TakeoverAside DEF RecoveryRefused, Stopped, Place, Beyond
<1>3. CASE AdoptTemporary(p)
  <2>1. PICK j, source : Staged(p, j, "recover", source)
    BY <1>1, <1>3, WritingStaged DEF AdoptTemporary
  <2> QED
    BY <1>1, <2>1, TakeoverAside DEF Staged, Same, Place, Beyond
<1>4. CASE EnterBody(p)
  <2>1. Went(p, "legacy-bootout")
    BY <1>1, <1>4, GotoWent DEF EnterBody
  <2> QED
    BY <1>1, <2>1, TakeoverAside DEF Went, Same, Place, Beyond
<1>5. CASE run' = run
  BY <1>1, <1>5 DEF TakeoverInv, StatusOK, HandOverOK, Place, manager
<1> QED
  BY <1>2, <1>3, <1>4, <1>5 DEF Recover, ReconcileJournal, RestoreLink, DropTemporary,
                                DropQuarantine, CloseTransaction

\* A journal write stays where it is.
LEMMA TakeoverJournal ==
    ASSUME TakeoverInv, LockInv', NEW p \in Runs, StageJournal(p) \/ CommitJournal(p)
    PROVE  TakeoverInv'
<1>1. /\ run[p].pc \in {"stage", "commit"} /\ UNCHANGED manager
      /\ Goto(p, "commit") \/ Goto(p, run[p].next)
  BY DEF StageJournal, CommitJournal, manager
<1>2. Went(p, "commit") \/ Went(p, run[p].next)
  BY <1>1, GotoWent DEF TakeoverInv, LockInv
<1>3. /\ Place(p)' = Place(p) /\ At(p, run'[p])
      /\ run'[p].op = run[p].op /\ run'[p].handOver = run[p].handOver
  BY <1>1, <1>2 DEF Went, Same, Place
<1>4. run'[p].pc \notin {"idle", "probe-legacy"}
  BY <1>1, <1>2 DEF Went, TakeoverInv, LockInv, RunOK, NextOK, Unlocked
<1>5. StatusOK(p)' /\ HandOverOK(p)'
  BY <1>1, <1>3, <1>4 DEF TakeoverInv, StatusOK, HandOverOK, manager
<1> QED
  BY <1>1, <1>3, <1>5, TakeoverMoves DEF manager

\* The steps that look at the legacy installation.
LEMMA TakeoverLegacy ==
    ASSUME TakeoverInv, LockInv', NEW p \in Runs,
           BootOutLegacy(p) \/ Sweep(p) \/ RetireLegacy(p) \/ DropRetired(p)
    PROVE  TakeoverInv'
<1>1. UNCHANGED service /\ Shaped /\ StatusOK(p) /\ HandOverOK(p)
      /\ DOMAIN legacy = {"def", "loaded", "artifacts"}
  BY DEF BootOutLegacy, Sweep, RetireLegacy, DropRetired, TakeoverInv, LockInv
<1>7. DOMAIN legacy' = DOMAIN legacy
  BY DEF BootOutLegacy, Sweep, RetireLegacy, DropRetired
<1>2. CASE BootOutLegacy(p)
  <2>1. Went(p, "sweep")
    BY <1>1, <1>2, GotoWent DEF BootOutLegacy
  <2>2. legacy' = [legacy EXCEPT !.loaded = @ /\ ~(legacy.def /\ (run[p].op # "status" \/ run[p].handOver))]
    BY <1>2 DEF BootOutLegacy
  <2>3. /\ legacy'.loaded /\ legacy'.def => legacy.loaded /\ legacy.def
        /\ run[p].op # "status" => ~(legacy'.loaded /\ legacy'.def)
    BY <1>1, <2>2
  <2>4. StatusOK(p)' /\ HandOverOK(p)'
    BY <1>1, <2>1, <2>3 DEF StatusOK, HandOverOK, Went, Same, Place, Beyond
  <2> QED
    BY <1>1, <1>7, <2>1, <2>3, <2>4, TakeoverMoves DEF Went
<1>3. ASSUME NEW pc, Went(p, pc), pc \in Ahead,
             run[p].op = "status" => pc \notin Beyond \ {"sweep", "retire", "retired"},
             pc \in Beyond => Place(p) \in Beyond,
             legacy'.loaded /\ legacy'.def => legacy.loaded /\ legacy.def
      PROVE  TakeoverInv'
  <2>1. Place(p)' = pc /\ pc \notin {"idle", "probe-legacy"}
    BY <1>3, AheadHolds DEF Went, Place, Unlocked
  <2>2. StatusOK(p)' /\ HandOverOK(p)'
    BY <1>1, <1>3, <2>1 DEF StatusOK, HandOverOK, Went, Same
  <2> QED
    BY <1>1, <1>7, <1>3, <2>2, TakeoverMoves DEF Went
<1>4. CASE Sweep(p)
  <2>1. PICK pc \in {"retire", "probe"} : Goto(p, pc) /\ (run[p].op = "status" => pc = "retire")
    BY <1>4 DEF Sweep
  <2>2. Place(p) \in Beyond /\ pc \in Ahead
    BY <1>4 DEF Sweep, Place, Beyond, Ahead
  <2>3. legacy'.loaded /\ legacy'.def => legacy.loaded /\ legacy.def
    BY <1>1, <1>4 DEF Sweep
  <2> QED
    BY <1>1, <1>3, <2>1, <2>2, <2>3, GotoWent
<1>5. CASE RetireLegacy(p)
  <2>1. PICK pc \in {"retired", "release"} :
          run' = [run EXCEPT ![p].pc = pc, ![p].outcome = "done"]
    BY <1>5 DEF RetireLegacy
  <2>2. Place(p) \in Beyond /\ pc \in Ahead /\ pc \notin Beyond \ {"sweep", "retire", "retired"}
    BY <1>5 DEF RetireLegacy, Place, Beyond, Ahead
  <2>3. legacy'.loaded /\ legacy'.def => legacy.loaded /\ legacy.def
    <3>1. legacy' = legacy \/ legacy' = [legacy EXCEPT !.def = FALSE, !.artifacts = TRUE]
      BY <1>5 DEF RetireLegacy
    <3>2. CASE legacy' = [legacy EXCEPT !.def = FALSE, !.artifacts = TRUE]
      BY <1>1, <3>2
    <3> QED
      BY <3>1, <3>2
  <2> QED
    BY <1>1, <1>3, <2>1, <2>2, <2>3, OutcomeWent
<1>6. CASE DropRetired(p)
  <2>1. Goto(p, "release") /\ "release" \in Ahead /\ "release" \notin Beyond
    BY <1>6 DEF DropRetired, Ahead, Beyond
  <2>2. legacy'.loaded /\ legacy'.def => legacy.loaded /\ legacy.def
    BY <1>1, <1>6 DEF DropRetired
  <2> QED
    BY <1>1, <1>3, <2>1, <2>2, GotoWent
<1> QED
  BY <1>2, <1>4, <1>5, <1>6

LEMMA TakeoverRelease ==
    ASSUME TakeoverInv, LockInv', NEW p \in Runs, Release(p)
    PROVE  TakeoverInv'
<1>1. UNCHANGED manager /\ Shaped
  BY DEF Release, ReleaseJournal, ReleaseClaim, Unlock, TakeoverInv, LockInv, manager
<1>2. CASE Unlock(p)
  BY <1>1, <1>2, EndedStopped, TakeoverAside DEF Unlock, Stopped, Place, Beyond
<1>3. CASE ReleaseJournal(p) \/ ReleaseClaim(p)
  <2>1. PICK pc \in {"release-claim", "unlock"} : Went(p, pc)
    BY <1>1, <1>3, GotoWent DEF ReleaseJournal, ReleaseClaim
  <2> QED
    BY <1>1, <2>1, TakeoverAside DEF Went, Same, Place, Beyond
<1> QED
  BY <1>2, <1>3 DEF Release

LEMMA TakeoverFailure ==
    ASSUME TakeoverInv, LockInv', NEW p \in Runs, CommandFails(p)
    PROVE  TakeoverInv'
<1>1. Shaped /\ UNCHANGED legacy
  BY DEF CommandFails, TakeoverInv, LockInv
<1>2. CASE run[p].pc = "legacy-bootout"
  <2>1. run' = Failed(p) /\ UNCHANGED manager
    BY <1>2 DEF CommandFails, manager
  <2>2. Went(p, "release")
    BY <1>1, <2>1, OutcomeWent DEF Failed
  <2> QED
    BY <2>1, <2>2, TakeoverAside DEF Went, Same, Place, Beyond
<1>3. CASE run[p].pc # "legacy-bootout"
  <2>1. Place(p) \in Beyond \ {"sweep", "retire", "retired"}
    BY <1>3 DEF CommandFails, Place, Beyond
  <2> QED
    BY <1>1, <2>1, FailureProceeds, TakeoverBeyond DEF Resumes
<1> QED
  BY <1>2, <1>3

LEMMA TakeoverOperation ==
    ASSUME TakeoverInv, LockInv', NEW p \in Runs, Command(p) \/ Publish(p) \/ Withdraw(p)
    PROVE  TakeoverInv'
<1>1. Shaped /\ UNCHANGED legacy /\ Place(p) \in Beyond \ {"sweep", "retire", "retired"}
  <2>1. CASE Command(p)
    BY <2>1 DEF Command, Probe, Restart, BootOut, Bootstrap, BootstrapImpossible, Rollback,
                Rebootstrap, manager, TakeoverInv, LockInv, Place, Beyond
  <2>2. CASE Publish(p)
    BY <2>2 DEF Publish, Intend, WriteTemporary, MoveOld, RenameOld, PutBack, LinkNew,
                UnlinkTemporary, DropOld, UndoLink, UndoDrop, DropOwnTemporary, manager,
                TakeoverInv, LockInv, Place, Beyond
  <2>3. CASE Withdraw(p)
    BY <2>3 DEF Withdraw, BeginRemoval, RenameAway, Destroy, Removed, manager, TakeoverInv,
                LockInv, Place, Beyond
  <2> QED
    BY <2>1, <2>2, <2>3
<1> QED
  BY <1>1, CommandProceeds, PublishProceeds, WithdrawProceeds, TakeoverBeyond DEF Resumes

\* Nobody else touches what is left of the legacy installation.
LEMMA ManagerKept ==
    ASSUME Next, legacy' # legacy
    PROVE  \E p \in Runs : BootOutLegacy(p) \/ Sweep(p) \/ RetireLegacy(p) \/ DropRetired(p)
<1>1. \A file : Edit(file) => UNCHANGED legacy
  BY DEF Edit, manager
<1>2. \A p \in Runs : \A op : Start(p, op) => UNCHANGED legacy
  BY DEF Start, manager
<1>3. \A p \in Runs : Acquire(p) => UNCHANGED legacy
  BY DEF Acquire, ProbeLegacy, WriteCandidate, LinkLock, DropCandidate, InspectOwner,
         UnlinkCompanion, Claim, LinkClaim, ConfirmClaim, ContestClaim, ReplaceLock, manager
<1>4. \A p \in Runs : Recover(p) => UNCHANGED legacy
  BY DEF Recover, RecoveryRefused, ReconcileJournal, AdoptTemporary, RestoreLink, DropTemporary,
         DropQuarantine, CloseTransaction, EnterBody, manager
<1>5. \A p \in Runs : Publish(p) => UNCHANGED legacy
  BY DEF Publish, Intend, WriteTemporary, MoveOld, RenameOld, PutBack, LinkNew, UnlinkTemporary,
         DropOld, UndoLink, UndoDrop, DropOwnTemporary, manager
<1>6. \A p \in Runs : Withdraw(p) \/ Release(p) => UNCHANGED legacy
  BY DEF Withdraw, BeginRemoval, RenameAway, Destroy, Removed, Release, ReleaseJournal,
         ReleaseClaim, Unlock, manager
<1>7. \A p \in Runs : CommandFails(p) \/ Crash(p) => UNCHANGED legacy
  BY DEF CommandFails, Crash, manager
<1>8. \A p \in Runs : Operate(p) =>
        \/ UNCHANGED legacy
        \/ BootOutLegacy(p) \/ Sweep(p) \/ RetireLegacy(p) \/ DropRetired(p)
  BY DEF Operate, StageJournal, CommitJournal, Probe, Restart, BootOut, Bootstrap,
         BootstrapImpossible, Rollback, Rebootstrap, manager
<1> QED
  BY <1>1, <1>2, <1>3, <1>4, <1>5, <1>6, <1>7, <1>8 DEF Next

LEMMA TakeoverInvInit == Init => TakeoverInv
<1> SUFFICES ASSUME Init
             PROVE  TakeoverInv
  OBVIOUS
<1>1. DOMAIN legacy = {"def", "loaded", "artifacts"}
  BY OpsAssumption DEF Init
<1>2. \A p \in Runs : run[p].pc = "idle" /\ run[p].op = "none" /\ run[p].handOver = FALSE
  BY DEF Init, Idle
<1>3. \A p \in Runs : StatusOK(p) /\ HandOverOK(p)
  BY <1>2 DEF StatusOK, HandOverOK, Place, Beyond
<1> QED
  BY <1>1, <1>3, LockInvInit DEF TakeoverInv

LEMMA TakeoverInvStep == TakeoverInv /\ [Next]_vars => TakeoverInv'
<1> SUFFICES ASSUME TakeoverInv, [Next]_vars
             PROVE  TakeoverInv'
  OBVIOUS
<1>1. LockInv'
  BY LockInvStep DEF TakeoverInv
<1>2. ASSUME NEW p \in Runs, NEW op \in Ops[p], Start(p, op)
      PROVE  TakeoverInv'
  BY <1>1, <1>2, TakeoverStart
<1>3. ASSUME NEW p \in Runs, Operate(p)
      PROVE  TakeoverInv'
  BY <1>1, <1>3, TakeoverJournal, TakeoverLegacy, TakeoverOperation DEF Operate, Command
<1>4. ASSUME NEW p \in Runs,
             Acquire(p) \/ Recover(p) \/ Publish(p) \/ Withdraw(p) \/ Release(p) \/ CommandFails(p)
      PROVE  TakeoverInv'
  BY <1>1, <1>4, TakeoverAcquire, TakeoverRecover, TakeoverOperation, TakeoverRelease,
     TakeoverFailure
<1>5. ASSUME NEW p \in Runs, Crash(p)
      PROVE  TakeoverInv'
  <2>1. Stopped(p) /\ UNCHANGED manager
    BY <1>5, EndedStopped DEF Crash, TakeoverInv, LockInv
  <2> QED
    BY <1>1, <2>1, TakeoverAside DEF Stopped, Place, Beyond
<1>6. ASSUME UNCHANGED <<manager, run>>
      PROVE  TakeoverInv'
  BY <1>1, <1>6 DEF TakeoverInv, StatusOK, HandOverOK, Place, manager
<1>7. ASSUME NEW file, Edit(file)
      PROVE  TakeoverInv'
  BY <1>6, <1>7 DEF Edit
<1>8. CASE UNCHANGED vars
  BY <1>6, <1>8 DEF vars
<1> QED
  BY <1>2, <1>3, <1>4, <1>5, <1>7, <1>8 DEF Next

\* `status` does not stop the only daemon the user has, although it decides to hand over before
\* it has the lock (finishLegacyLabelMigration): whoever stops the new service in between has
\* stopped the legacy one first.
THEOREM StatusKeepsDaemonHolds == Spec => StatusKeepsDaemon
<1> DEFINE Step == legacy.loaded /\ ~legacy'.loaded
                   /\ (\E p \in Runs : run[p].pc = "legacy-bootout" /\ run[p].op = "status")
                   => service # "none"
<1>1. Spec => []TakeoverInv
  BY TakeoverInvInit, TakeoverInvStep, PTL DEF Spec
<1>2. TakeoverInv /\ [Next]_vars => [Step]_vars
  <2> SUFFICES ASSUME TakeoverInv, Next, legacy.loaded, ~legacy'.loaded,
                      NEW q \in Runs, run[q].pc = "legacy-bootout", run[q].op = "status"
               PROVE  service # "none"
    BY DEF vars
  <2>1. \A p \in Runs : Holds(p) => p = q
    BY DEF TakeoverInv, LockInv, RunOK, LockOK, Holds, Unlocked
  <2>2. PICK p \in Runs : BootOutLegacy(p) \/ Sweep(p) \/ RetireLegacy(p) \/ DropRetired(p)
    BY ManagerKept
  <2>3. p = q
    BY <2>1, <2>2 DEF BootOutLegacy, Sweep, RetireLegacy, DropRetired, Holds, Unlocked
  <2>4. BootOutLegacy(q)
    BY <2>2, <2>3 DEF Sweep, RetireLegacy, DropRetired
  <2>5. legacy.def /\ run[q].handOver
    BY <2>4 DEF BootOutLegacy, TakeoverInv
  <2> QED
    BY <2>5 DEF TakeoverInv, HandOverOK
<1>3. Spec => [][Step]_vars
  BY <1>1, <1>2, PTL DEF Spec
<1> QED
  BY <1>3 DEF StatusKeepsDaemon

-----------------------------------------------------------------------------
\* The files of a transaction.

JournalFields == {"tx", "op", "phase", "original", "replacement", "expected"}

\* A journal of t's publication past the point where the old definition may be moved.
Moving(j, t) == j.tx = t /\ j.op = "publish" /\ j.phase # "preparing"

\* The old definition is in the quarantine, where the journal tells recovery to look for it.
Adrift ==
    LET t == journal.tx
    IN  /\ def = NoFile
        /\ t \in Runs /\ Moving(journal, t) /\ quarantine[t] # NoFile
        /\ journalTmp[t] \in {NoJournal, Torn} \/ Moving(journalTmp[t], t)

\* Where a run may find or leave it there.
MayDrift(p) ==
    \/ run[p].pc \in {"recover", "link-new", "undo", "put-back"}
    \/ run[p].pc \in {"stage", "commit"} /\ run[p].next = "link-new"

SettledFor(p) == Holds(p) /\ ~MayDrift(p) => def.body \in allowed

SettledOK ==
    /\ def.body \in allowed \/ Adrift
    /\ lock = NoOwner => def.body \in allowed

\* A temporary is its transaction's own.  Past its first phase it replaces a journal of the
\* same transaction, and what that transaction keeps in its quarantine may go back.
JournalsOK ==
    /\ journal = NoJournal \/ journal.tx \in Runs
    /\ \A t \in Runs :
        /\ journalTmp[t] \in {NoJournal, Torn} \/ journalTmp[t].tx = t
        /\ Moving(journalTmp[t], t) => journal.tx = t
        /\ Moving(journal, t) \/ Moving(journalTmp[t], t) =>
             quarantine[t] = NoFile \/ quarantine[t].body \in allowed

\* Somebody else's definition comes from an edit.
StrangerOK ==
    /\ \A q \in Runs : tmp[q] # Stranger
    /\ OnDisk(Stranger) => edited

\* What a journal write goes on to.
AfterWrite == {"recover", "write-temp", "move-old", "link-new", "unlink-temp", "drop-old",
               "rename-away", "destroy", "removed"}

\* Where a transaction has nothing in its quarantine.
Clean == {"idle", "probe-legacy", "candidate", "link", "linked", "inspect", "unlink-companion",
          "claim", "claim-link", "contest", "claimed", "replace", "recover", "legacy-bootout",
          "sweep", "probe", "restart", "bootout", "bootstrap", "intend", "write-temp", "move-old",
          "rename-old", "remove", "rename-away"}

\* A run that has not come to its own transaction has left nothing of one; later the journal,
\* if there is one, is its own.
OwnOK(p) ==
    /\ ~Dead(p) /\ (run[p].pc # "commit" \/ run[p].next = "recover") => journalTmp[p] = NoJournal
    /\ ~Dead(p) /\ Place(p) \in Unlocked \cup {"recover"} => journal.tx # p
    /\ Holds(p) /\ Place(p) # "recover" => journal.tx \in {0, p}
    /\ Place(p) \in Clean \/ (Place(p) = "rollback" /\ Published(p)) => quarantine[p] = NoFile

\* What is about to be journalled: by recovery, that a predecessor's temporary is identified.
WriteOK(p) ==
    /\ DOMAIN run[p].pending = JournalFields
    /\ run[p].pc \in {"stage", "commit"} =>
        /\ run[p].next \in AfterWrite
        /\ run[p].next # "recover" => /\ run[p].pending.tx = p
                                      /\ Moving(run[p].pending, p) => journal.tx = p
                                      /\ quarantine[p] = NoFile \/ quarantine[p].body \in allowed
        /\ run[p].next = "recover" => /\ run[p].pending.tx = journal.tx /\ journal.tx \in Runs
                                      /\ quarantine[journal.tx] = NoFile

\* Past the first write of its journal.
Journalled(p) ==
    \/ run[p].pc \in {"write-temp", "rename-away"}
    \/ Place(p) \in {"move-old", "rename-old", "link-new", "unlink-temp", "drop-old", "undo",
                     "destroy"}

\* A transaction that publishes: its journal names what it read, and what it is about to
\* publish is allowed; one that removes allows for no definition.
JournalOK(p) ==
    /\ Place(p) \in {"write-temp", "move-old", "rename-old", "link-new"} =>
         run[p].pending.op = "publish" /\ run[p].body \in allowed
    /\ Place(p) \in {"move-old", "rename-old", "link-new"} =>
         run[p].pending.phase # "preparing" /\ tmp[p].body \in allowed
    /\ Place(p) \in {"write-temp", "move-old", "rename-old", "link-new", "unlink-temp", "drop-old",
                     "rename-away", "destroy"} =>
         run[p].pending.tx = p /\ run[p].pending.original = run[p].source
    /\ run[p].pc \in {"move-old", "rename-old"} => journal = run[p].pending
    /\ Journalled(p) => journal.tx = p /\ journal.original = run[p].source
    /\ Place(p) = "rename-away" => "none" \in allowed

\* What a run has in its quarantine is what it read, or somebody else's file to put back.
CarriedOK(p) ==
    /\ Place(p) \in {"link-new", "unlink-temp", "drop-old", "undo", "put-back"} =>
         quarantine[p] = NoFile \/ quarantine[p].body \in allowed
    /\ Place(p) \in {"link-new", "unlink-temp", "drop-old", "undo", "destroy"} =>
         quarantine[p] = NoFile \/ quarantine[p].id = run[p].source
    /\ Place(p) = "undo-drop" /\ quarantine[p] = Stranger =>
         def = Stranger \/ journal.original = Stranger.id

FilesShaped ==
    /\ DOMAIN journal = JournalFields /\ \A q \in Runs : DOMAIN journalTmp[q] = JournalFields
    /\ journalTmp = [q \in Runs |-> journalTmp[q]]
    /\ tmp = [q \in Runs |-> tmp[q]]
    /\ quarantine = [q \in Runs |-> quarantine[q]]

FilesOK(p) == SettledFor(p) /\ OwnOK(p) /\ WriteOK(p) /\ JournalOK(p) /\ CarriedOK(p)

FileInv ==
    /\ LockInv /\ FilesShaped /\ SettledOK /\ JournalsOK /\ StrangerOK
    /\ \A p \in Runs : FilesOK(p)

-----------------------------------------------------------------------------
LEMMA NoFileShape == NoFile.body = "none"
BY DEF NoFile

LEMMA NoJournalShape ==
    /\ DOMAIN NoJournal = JournalFields /\ NoJournal.tx = 0
    /\ DOMAIN Torn = JournalFields /\ Torn.tx = 0
    /\ \A t \in Runs : t # 0 /\ ~Moving(NoJournal, t) /\ ~Moving(Torn, t)
BY RunsAssumption DEF NoJournal, Torn, JournalFields, Moving

\* What one with the lock does leaves the others where they are.
LEMMA HolderMoves ==
    ASSUME FileInv, LockInv', NEW p \in Runs, Holds(p), At(p, run'[p]),
           UNCHANGED lock \/ def'.body \in allowed',
           \A q \in Runs \ {p} :
              /\ quarantine'[q] \in {quarantine[q], NoFile}
              /\ ~Dead(q) => journalTmp'[q] = journalTmp[q] /\ (journal'.tx = q => journal.tx = q),
           def'.body \in allowed' \/ Adrift', FilesShaped', JournalsOK', StrangerOK', FilesOK(p)'
    PROVE  FileInv'
<1>1. lock.tx = p /\ lock # NoOwner
  BY RunsAssumption, NoOwnerShape DEF FileInv, LockInv, RunOK, LockOK
<1>2. SettledOK'
  BY <1>1 DEF SettledOK
<1>3. ASSUME NEW q \in Runs \ {p}
      PROVE  FilesOK(q)'
  <2>1. run'[q] = run[q] /\ FilesOK(q) /\ ~Holds(q)
    BY <1>1 DEF At, FileInv, LockInv, RunOK, LockOK
  <2>2. run[q].pc \in Unlocked /\ run[q].pc \notin {"stage", "commit"}
    BY <2>1 DEF Holds, Unlocked
  <2>3. Place(q) = run[q].pc /\ Place(q)' = run[q].pc /\ ~Holds(q)'
    BY <2>1, <2>2 DEF Place, Holds
  <2>4. SettledFor(q)' /\ WriteOK(q)'
    BY <2>1, <2>2, <2>3 DEF SettledFor, FilesOK, WriteOK
  <2>5. OwnOK(q)'
    BY <2>1, <2>2, <2>3 DEF OwnOK, FilesOK, Dead, Unlocked
  <2>6. JournalOK(q)' /\ CarriedOK(q)'
    BY <2>1, <2>2, <2>3 DEF JournalOK, CarriedOK, Journalled, Unlocked
  <2> QED
    BY <2>4, <2>5, <2>6 DEF FilesOK
<1> QED
  BY <1>2, <1>3 DEF FileInv

\* One that leaves the files alone.
LEMMA HolderGoes ==
    ASSUME FileInv, LockInv', NEW p \in Runs, Holds(p), At(p, run'[p]),
           UNCHANGED lock \/ def.body \in allowed,
           UNCHANGED <<journals, files, allowed, edited>>, FilesOK(p)'
    PROVE  FileInv'
<1>1. def'.body \in allowed' \/ Adrift'
  BY DEF FileInv, SettledOK, Adrift, journals, files
<1>2. FilesShaped' /\ JournalsOK' /\ StrangerOK'
  BY DEF FileInv, FilesShaped, JournalsOK, StrangerOK, OnDisk, journals, files
<1> QED
  BY <1>1, <1>2, HolderMoves DEF journals, files

\* Where there is nothing to know but that the definition is settled.
Plain == {"legacy-bootout", "sweep", "probe", "restart", "bootout", "bootstrap", "rebootstrap",
          "retire", "retired", "intend", "remove", "removed", "drop-temp", "rollback", "release",
          "release-claim", "unlock"}

LEMMA PlainOK ==
    ASSUME NEW p \in Runs, run'[p].pc \in Plain, def'.body \in allowed',
           journalTmp'[p] = NoJournal, journal'.tx \in {0, p},
           DOMAIN run'[p].pending = JournalFields,
           run'[p].pc \in Clean \/ (run'[p].pc = "rollback" /\ Published(p)') =>
             quarantine'[p] = NoFile
    PROVE  FilesOK(p)'
<1>1. /\ Place(p)' = run'[p].pc
      /\ run'[p].pc \notin Unlocked \cup {"recover", "stage", "commit", "write-temp", "rename-away"}
  BY DEF Place, Plain, Unlocked
<1>2. SettledFor(p)' /\ WriteOK(p)'
  BY <1>1 DEF SettledFor, WriteOK
<1>3. OwnOK(p)'
  BY <1>1 DEF OwnOK
<1>4. JournalOK(p)' /\ CarriedOK(p)'
  BY <1>1 DEF JournalOK, CarriedOK, Journalled, Plain
<1> QED
  BY <1>2, <1>3, <1>4 DEF FilesOK

\* What a run in its own transaction knows.
LEMMA HolderKnows ==
    ASSUME FileInv, NEW p \in Runs, Holds(p), run[p].pc \notin {"stage", "commit", "recover"}
    PROVE  /\ Shaped /\ ~Dead(p) /\ p # 0 /\ Place(p) = run[p].pc
           /\ journalTmp[p] = NoJournal /\ journal.tx \in {0, p}
           /\ DOMAIN run[p].pending = JournalFields
           /\ ~MayDrift(p) => def.body \in allowed
           /\ run[p].pc \in Clean \/ (run[p].pc = "rollback" /\ Published(p)) => quarantine[p] = NoFile
           /\ JournalOK(p) /\ CarriedOK(p)
<1>1. ~Dead(p) /\ Place(p) = run[p].pc /\ p # 0
  BY RunsAssumption DEF Holds, Unlocked, Dead, Place
<1>2. FilesOK(p) /\ Shaped
  BY DEF FileInv, LockInv
<1> QED
  BY <1>1, <1>2 DEF FilesOK, OwnOK, WriteOK, SettledFor

-----------------------------------------------------------------------------
\* Outside the lock.

LEMMA OutsideMoves ==
    ASSUME FileInv, LockInv', NEW p \in Runs, At(p, run'[p]), run[p].pc \in Unlocked, ~Dead(p),
           UNCHANGED <<journals, files, allowed, edited>>, lock' = NoOwner => lock = NoOwner,
           run'[p].pc \in (Unlocked \ {"idle"}) \cup {"recover"},
           run'[p].pending \in {run[p].pending, NoJournal}
    PROVE  FileInv'
<1>1. FilesShaped' /\ JournalsOK' /\ StrangerOK'
  BY DEF FileInv, FilesShaped, JournalsOK, StrangerOK, OnDisk, journals, files
<1>2. SettledOK'
  BY DEF FileInv, SettledOK, Adrift, journals, files
<1>3. ASSUME NEW q \in Runs \ {p}
      PROVE  FilesOK(q)'
  <2>1. run'[q] = run[q] /\ FilesOK(q)
    BY DEF At, FileInv
  <2>2. Place(q)' = Place(q) /\ Holds(q)' = Holds(q) /\ Dead(q)' = Dead(q) /\ MayDrift(q)' = MayDrift(q)
        /\ Journalled(q)' = Journalled(q) /\ Published(q)' = Published(q)
    BY <2>1 DEF Place, Holds, Dead, MayDrift, Journalled, Published
  <2>3. SettledFor(q)' /\ OwnOK(q)'
    BY <2>1, <2>2 DEF FilesOK, SettledFor, OwnOK, journals, files
  <2>4. WriteOK(q)' /\ JournalOK(q)' /\ CarriedOK(q)'
    BY <2>1, <2>2 DEF FilesOK, WriteOK, JournalOK, CarriedOK, Moving, journals, files
  <2> QED
    BY <2>3, <2>4 DEF FilesOK
<1>4. FilesOK(p)'
  <2>1. FilesOK(p)
    BY DEF FileInv
  <2>2. Place(p) = run[p].pc /\ run[p].pc \in Clean /\ run[p].pc # "commit"
    BY DEF Place, Unlocked, Dead, Clean
  <2>3. journalTmp[p] = NoJournal /\ journal.tx # p /\ quarantine[p] = NoFile
    BY <2>1, <2>2 DEF FilesOK, OwnOK
  <2>4. Place(p)' = run'[p].pc /\ run'[p].pc \notin {"stage", "commit"}
    BY DEF Place, Unlocked
  <2>5. OwnOK(p)' /\ SettledFor(p)'
    BY <2>3, <2>4 DEF OwnOK, SettledFor, Holds, MayDrift, journals, files
  <2>6. WriteOK(p)'
    BY <2>1, <2>4, NoJournalShape DEF FilesOK, WriteOK
  <2>7. JournalOK(p)' /\ CarriedOK(p)'
    BY <2>4 DEF JournalOK, CarriedOK, Journalled, Unlocked
  <2> QED
    BY <2>5, <2>6, <2>7 DEF FilesOK
<1> QED
  BY <1>1, <1>2, <1>3, <1>4 DEF FileInv

LEMMA FilesStart ==
    ASSUME FileInv, LockInv', NEW p \in Runs, NEW op, Start(p, op)
    PROVE  FileInv'
<1>1. /\ run[p].pc = "idle" /\ UNCHANGED <<lock, journals, files, allowed, edited>>
      /\ run' = [run EXCEPT ![p].op = op,
                            ![p].pc = IF op = "status" THEN "probe-legacy" ELSE "candidate"]
  BY DEF Start, locks
<1>2. /\ At(p, run'[p]) /\ run'[p].pc \in {"probe-legacy", "candidate"}
      /\ run'[p].pending = run[p].pending
  BY <1>1 DEF At, FileInv, LockInv, Shaped, Fields
<1> QED
  BY <1>1, <1>2, OutsideMoves DEF Unlocked, Dead

LEMMA FilesAcquire ==
    ASSUME FileInv, LockInv', NEW p \in Runs, Acquire(p)
    PROVE  FileInv'
<1>1. UNCHANGED <<journals, files, allowed, edited>> /\ Shaped
  BY DEF Acquire, ProbeLegacy, WriteCandidate, LinkLock, DropCandidate, InspectOwner,
         UnlinkCompanion, Claim, LinkClaim, ConfirmClaim, ContestClaim, ReplaceLock, history,
         FileInv, LockInv
<1>2. lock' = NoOwner => lock = NoOwner
  <2>1. run[p].pc \in Candidates => candidate[p] # NoOwner
    BY DEF FileInv, LockInv, RunOK, CandidateOK
  <2> QED
    BY <2>1 DEF Acquire, ProbeLegacy, WriteCandidate, LinkLock, DropCandidate, InspectOwner,
                UnlinkCompanion, Claim, LinkClaim, ConfirmClaim, ContestClaim, ReplaceLock,
                Candidates, locks
<1>3. CASE ProbeLegacy(p)
  <2>1. run[p].pc = "probe-legacy"
    BY <1>3 DEF ProbeLegacy
  <2>2. CASE run' = Ended(p, "done")
    BY <1>1, <1>2, <2>1, <2>2, EndedStopped, OutsideMoves DEF Stopped, Unlocked, Dead
  <2>3. ASSUME NEW handOver, run' = [run EXCEPT ![p].pc = "candidate", ![p].handOver = handOver]
        PROVE  FileInv'
    <3>1. At(p, run'[p]) /\ run'[p].pc = "candidate" /\ run'[p].pending = run[p].pending
      BY <1>1, <2>3 DEF At, Shaped, Fields
    <3> QED
      BY <1>1, <1>2, <2>1, <3>1, OutsideMoves DEF Unlocked, Dead
  <2> QED
    BY <1>3, <2>2, <2>3 DEF ProbeLegacy
<1>4. CASE ~ProbeLegacy(p)
  <2>1. /\ run[p].pc \in Outside
        /\ \/ Stopped(p)
           \/ /\ At(p, run'[p]) /\ run'[p].pc \in Outside \cup {"recover"}
              /\ run'[p].pending \in {run[p].pending, NoJournal}
    BY <1>1, <1>4, AcquireRun
  <2>2. /\ At(p, run'[p]) /\ run'[p].pending \in {run[p].pending, NoJournal}
        /\ run'[p].pc \in (Unlocked \ {"idle"}) \cup {"recover"}
    BY <2>1 DEF Stopped, Outside, Unlocked
  <2>3. run[p].pc \in Unlocked /\ ~Dead(p)
    BY <2>1 DEF Outside, Unlocked, Dead
  <2> QED
    BY <1>1, <1>2, <2>2, <2>3, OutsideMoves
<1> QED
  BY <1>3, <1>4

\* A run that is done has nothing to lose.
LEMMA StoppedOK ==
    ASSUME NEW p \in Runs, Stopped(p)
    PROVE  FilesOK(p)'
<1>1. /\ Place(p)' \in {"ended", "crashed"} /\ Dead(p)' /\ ~Holds(p)'
      /\ run'[p].pc \notin {"stage", "commit", "write-temp", "rename-away", "move-old", "rename-old"}
  BY DEF Stopped, Place, Dead, Holds, Unlocked
<1>2. SettledFor(p)' /\ OwnOK(p)'
  BY <1>1 DEF SettledFor, OwnOK, Clean
<1>3. WriteOK(p)' /\ JournalOK(p)' /\ CarriedOK(p)'
  BY <1>1, NoJournalShape DEF WriteOK, JournalOK, CarriedOK, Journalled, Stopped
<1> QED
  BY <1>2, <1>3 DEF FilesOK

-----------------------------------------------------------------------------
\* Recovery.

\* A run in recovery goes on with it.
LEMMA StillRecovering ==
    ASSUME FileInv, NEW p \in Runs, run[p].pc = "recover", run' = run,
           journalTmp'[p] = NoJournal, journal'.tx # p, quarantine'[p] = NoFile
    PROVE  /\ At(p, run'[p]) /\ FilesOK(p)' /\ Holds(p)
<1>1. FilesOK(p) /\ Shaped
  BY DEF FileInv, LockInv
<1>2. Place(p)' = "recover" /\ run'[p].pc = "recover"
  BY DEF Place
<1>3. SettledFor(p)' /\ OwnOK(p)' /\ WriteOK(p)'
  BY <1>1, <1>2 DEF SettledFor, MayDrift, OwnOK, WriteOK, FilesOK
<1>4. JournalOK(p)' /\ CarriedOK(p)'
  BY <1>2 DEF JournalOK, CarriedOK, Journalled
<1> QED
  BY <1>1, <1>3, <1>4 DEF FilesOK, At, Shaped, Holds, Unlocked

LEMMA RecoveringKnows ==
    ASSUME FileInv, NEW p \in Runs, run[p].pc = "recover"
    PROVE  /\ Holds(p) /\ ~Dead(p) /\ Shaped /\ Place(p) = "recover"
           /\ journalTmp[p] = NoJournal /\ journal.tx # p /\ quarantine[p] = NoFile
           /\ journal # NoJournal => journal.tx \in Runs
<1>1. Holds(p) /\ ~Dead(p) /\ Place(p) = "recover" /\ "recover" \in Clean
  BY DEF Holds, Unlocked, Dead, Place, Clean
<1> QED
  BY <1>1 DEF FileInv, LockInv, FilesOK, OwnOK, JournalsOK

LEMMA FilesReconcile ==
    ASSUME FileInv, LockInv', NEW p \in Runs, ReconcileJournal(p)
    PROVE  FileInv'
<1>1. /\ run[p].pc = "recover" /\ ~Unrecoverable /\ run' = run
      /\ UNCHANGED <<lock, files, allowed, edited>>
  BY DEF ReconcileJournal, locks, history
<1>2. PICK t \in Runs : /\ IF journal # NoJournal THEN t = journal.tx ELSE Outstanding(t)
                        /\ journalTmp[t] # NoJournal /\ journal' = journalTmp[t]
                        /\ journalTmp' = IF journal = NoJournal THEN journalTmp
                                         ELSE [journalTmp EXCEPT ![t] = NoJournal]
  BY DEF ReconcileJournal
<1>3. /\ journalTmp' = [q \in Runs |-> journalTmp'[q]]
      /\ \A q \in Runs \ {t} : journalTmp'[q] = journalTmp[q]
      /\ journalTmp'[t] = IF journal = NoJournal THEN journalTmp[t] ELSE NoJournal
      /\ UNCHANGED <<def, tmp, quarantine>>
  BY <1>1, <1>2 DEF FileInv, FilesShaped, files
<1>4. journalTmp[t] # Torn
  <2>1. t \in ToSet(lock.preds)
    <3>1. CASE journal # NoJournal
      BY <1>1, <1>2, <3>1 DEF Unrecoverable
    <3>2. CASE journal = NoJournal
      BY <1>2, <3>2 DEF Outstanding, ToSet
    <3> QED
      BY <3>1, <3>2
  <2> QED
    BY <1>1, <2>1 DEF Unrecoverable
<1>5. /\ journalTmp[p] = NoJournal /\ journal.tx # p /\ quarantine[p] = NoFile /\ t # p
      /\ journal'.tx = t /\ Holds(p)
  BY <1>1, <1>2, <1>4, RecoveringKnows DEF FileInv, JournalsOK
<1>6. JournalsOK'
  <2>1. ASSUME NEW u \in Runs
        PROVE  /\ journalTmp'[u] \in {NoJournal, Torn} \/ journalTmp'[u].tx = u
               /\ Moving(journalTmp'[u], u) => journal'.tx = u
               /\ Moving(journal', u) \/ Moving(journalTmp'[u], u) =>
                    quarantine[u] = NoFile \/ quarantine[u].body \in allowed
    <3>1. /\ journalTmp[u] \in {NoJournal, Torn} \/ journalTmp[u].tx = u
          /\ Moving(journalTmp[u], u) => journal.tx = u
          /\ Moving(journal, u) \/ Moving(journalTmp[u], u) =>
                    quarantine[u] = NoFile \/ quarantine[u].body \in allowed
      BY DEF FileInv, JournalsOK
    <3>2. CASE u = t
      BY <1>2, <1>3, <1>5, <3>1, <3>2, NoJournalShape
    <3>3. CASE u # t
      <4>1. ~Moving(journalTmp[u], u)
        BY <1>2, <3>1, <3>3, NoJournalShape
      <4>2. ~Moving(journal', u)
        BY <1>5, <3>3 DEF Moving
      <4> QED
        BY <1>3, <3>1, <3>3, <4>1, <4>2
    <3> QED
      BY <3>2, <3>3
  <2> QED
    BY <1>1, <1>3, <1>5, <2>1 DEF JournalsOK
<1>7. FilesShaped' /\ StrangerOK'
  BY <1>1, <1>2, <1>3, NoJournalShape DEF FileInv, FilesShaped, StrangerOK, OnDisk
<1>8. def'.body \in allowed' \/ Adrift'
  <2>1. CASE def.body \in allowed
    BY <1>1, <1>3, <2>1
  <2>2. CASE Adrift
    <3>1. journal # NoJournal /\ t = journal.tx
      BY <1>2, <2>2, NoJournalShape, RunsAssumption DEF Adrift
    <3>2. Moving(journalTmp[t], t) /\ def = NoFile /\ quarantine[t] # NoFile
      BY <1>2, <1>4, <2>2, <3>1 DEF Adrift
    <3> QED
      BY <1>2, <1>3, <1>5, <3>1, <3>2 DEF Adrift
  <2> QED
    BY <2>1, <2>2 DEF FileInv, SettledOK
<1>9. At(p, run'[p]) /\ FilesOK(p)'
  BY <1>1, <1>3, <1>5, StillRecovering
<1>10. ASSUME NEW q \in Runs \ {p}
       PROVE  /\ quarantine'[q] \in {quarantine[q], NoFile}
              /\ ~Dead(q) => journalTmp'[q] = journalTmp[q] /\ (journal'.tx = q => journal.tx = q)
  <2>1. ~Holds(q) /\ FilesOK(q)
    BY <1>5 DEF FileInv, LockInv, RunOK, LockOK
  <2>2. ~Dead(q) => journalTmp[q] = NoJournal
    BY <2>1 DEF FilesOK, OwnOK, Holds, Unlocked
  <2> QED
    BY <1>2, <1>3, <1>5, <2>2
<1> QED
  BY <1>1, <1>5, <1>6, <1>7, <1>8, <1>9, <1>10, HolderMoves

\* The other steps of recovery: a file goes, or the old definition goes back.
LEMMA FilesTidied ==
    ASSUME FileInv, LockInv', NEW p \in Runs, run[p].pc = "recover", ~Unrecoverable, Reconciled,
           \/ RestoreLink(p) \/ DropTemporary(p) \/ DropQuarantine(p) \/ CloseTransaction(p)
    PROVE  FileInv'
<1> DEFINE t == journal.tx
<1>1. /\ run' = run /\ UNCHANGED <<lock, journalTmp, allowed, edited>>
      /\ journal' \in {journal, NoJournal}
  BY DEF RestoreLink, DropTemporary, DropQuarantine, CloseTransaction, locks, journals, history
<1>2. /\ Holds(p) /\ journalTmp[p] = NoJournal /\ t # p /\ quarantine[p] = NoFile /\ t \in Runs
      /\ journalTmp[t] = NoJournal /\ journal # NoJournal
  BY RecoveringKnows DEF Reconciled
<1>3. /\ tmp' \in {tmp, [tmp EXCEPT ![t] = NoFile]}
      /\ quarantine' \in {quarantine, [quarantine EXCEPT ![t] = NoFile]}
      /\ def' \in {def, quarantine[t]}
  BY DEF RestoreLink, DropTemporary, DropQuarantine, CloseTransaction, Quarantined, files
<1>4. /\ tmp' = [q \in Runs |-> tmp'[q]] /\ quarantine' = [q \in Runs |-> quarantine'[q]]
      /\ \A q \in Runs : tmp'[q] \in {tmp[q], NoFile} /\ quarantine'[q] \in {quarantine[q], NoFile}
  BY <1>2, <1>3 DEF FileInv, FilesShaped
<1>5. quarantine[t] = NoFile \/ ~Moving(journal, t) \/ quarantine[t].body \in allowed
  BY <1>2 DEF FileInv, JournalsOK
<1>6. def'.body \in allowed' \/ Adrift'
  <2>1. CASE RestoreLink(p)
    <3>1. def' = quarantine[t] /\ quarantine[t] # NoFile /\ Moving(journal, t)
      BY <2>1 DEF RestoreLink, Quarantined, Late, Moving
    <3> QED
      BY <1>1, <1>5, <3>1
  <2>2. CASE DropTemporary(p)
    <3>1. UNCHANGED <<journal, def, quarantine>>
      BY <2>2 DEF DropTemporary, journals
    <3> QED
      BY <1>1, <3>1 DEF FileInv, SettledOK, Adrift
  <2>3. CASE DropQuarantine(p) \/ CloseTransaction(p)
    <3>1. def' = def /\ ~Adrift
      BY <2>3 DEF DropQuarantine, CloseTransaction, Adrift, Moving, Quarantined, Late, files
    <3> QED
      BY <1>1, <3>1 DEF FileInv, SettledOK
  <2> QED
    BY <2>1, <2>2, <2>3
<1>7. FilesShaped' /\ JournalsOK'
  <2>1. \A u \in Runs : Moving(journalTmp[u], u) => u = t /\ FALSE
    BY <1>2, NoJournalShape DEF FileInv, JournalsOK
  <2>2. FilesShaped'
    BY <1>1, <1>4, NoJournalShape DEF FileInv, FilesShaped
  <2> QED
    BY <1>1, <1>2, <1>4, <2>1, <2>2, NoJournalShape DEF FileInv, JournalsOK
<1>8. StrangerOK'
  <2>1. NoFile # Stranger
    BY DEF NoFile, Stranger
  <2> QED
    BY <1>1, <1>2, <1>3, <1>4, <2>1 DEF FileInv, StrangerOK, OnDisk
<1>9. At(p, run'[p]) /\ FilesOK(p)'
  <2>1. journal'.tx # p /\ journalTmp'[p] = NoJournal /\ quarantine'[p] = NoFile
    BY <1>1, <1>2, <1>4, NoJournalShape
  <2> QED
    BY <1>1, <2>1, StillRecovering
<1>10. \A q \in Runs \ {p} :
          /\ quarantine'[q] \in {quarantine[q], NoFile}
          /\ ~Dead(q) => journalTmp'[q] = journalTmp[q] /\ (journal'.tx = q => journal.tx = q)
  BY <1>1, <1>4, NoJournalShape
<1> QED
  BY <1>1, <1>2, <1>6, <1>7, <1>8, <1>9, <1>10, HolderMoves

LEMMA FilesRecover ==
    ASSUME FileInv, LockInv', NEW p \in Runs, Recover(p)
    PROVE  FileInv'
<1>1. run[p].pc = "recover"
  BY DEF Recover, RecoveryRefused, ReconcileJournal, AdoptTemporary, RestoreLink, DropTemporary,
         DropQuarantine, CloseTransaction, EnterBody
<1>2. /\ Holds(p) /\ Shaped /\ journalTmp[p] = NoJournal /\ journal.tx # p /\ quarantine[p] = NoFile
      /\ journal # NoJournal => journal.tx \in Runs
      /\ FilesOK(p)
  BY <1>1, RecoveringKnows DEF FileInv
<1>3. CASE RecoveryRefused(p)
  <2>1. UNCHANGED <<lock, journals, files, allowed, edited>> /\ Stopped(p)
    BY <1>2, <1>3, EndedStopped DEF RecoveryRefused, locks, history
  <2>2. FilesOK(p)'
    BY <2>1, StoppedOK
  <2> QED
    BY <1>2, <2>1, <2>2, HolderGoes DEF Stopped
<1>4. CASE ReconcileJournal(p)
  BY <1>4, FilesReconcile
<1>5. CASE RestoreLink(p) \/ DropTemporary(p) \/ DropQuarantine(p) \/ CloseTransaction(p)
  <2>1. ~Unrecoverable /\ Reconciled
    BY <1>5 DEF RestoreLink, DropTemporary, DropQuarantine, CloseTransaction
  <2> QED
    BY <1>1, <1>5, <2>1, FilesTidied
<1>6. CASE AdoptTemporary(p)
  <2> DEFINE j == [journal EXCEPT !.phase = "prepared", !.replacement = Temporary.id]
  <2>1. /\ UNCHANGED <<lock, journals, files, allowed, edited>> /\ ~Unrecoverable /\ Reconciled
        /\ journal.phase = "preparing" /\ run' = Writing(p, j, "recover")
    BY <1>6 DEF AdoptTemporary, locks, history
  <2>2. DOMAIN j = JournalFields /\ j.tx = journal.tx
    BY DEF FileInv, FilesShaped, JournalFields
  <2> HIDE DEF j
  <2>3. Staged(p, j, "recover", run[p].source)
    BY <1>2, <2>1, WritingStaged
  <2>4. def.body \in allowed /\ journal # NoJournal /\ quarantine[journal.tx] = NoFile
    BY <2>1 DEF FileInv, SettledOK, Adrift, Moving, Unrecoverable, Reconciled, Quarantined
  <2>5. Place(p)' = "recover" /\ ~Dead(p)
    BY <1>1, <2>3 DEF Staged, Place, Dead
  <2>6. SettledFor(p)' /\ OwnOK(p)'
    BY <1>2, <2>1, <2>3, <2>4, <2>5 DEF SettledFor, OwnOK, Staged, journals, files
  <2>7. WriteOK(p)'
    BY <1>2, <2>1, <2>2, <2>3, <2>4 DEF WriteOK, Staged, AfterWrite, journals, files
  <2>8. JournalOK(p)' /\ CarriedOK(p)'
    BY <2>3, <2>5 DEF JournalOK, CarriedOK, Journalled, Staged
  <2> QED
    BY <1>2, <2>1, <2>3, <2>6, <2>7, <2>8, HolderGoes DEF Staged, FilesOK
<1>7. CASE EnterBody(p)
  <2>1. /\ UNCHANGED <<lock, journals, files, allowed, edited>> /\ journal = NoJournal
        /\ Went(p, "legacy-bootout")
    BY <1>2, <1>7, GotoWent DEF EnterBody, locks, history
  <2>2. def.body \in allowed
    BY <2>1, NoJournalShape, RunsAssumption DEF FileInv, SettledOK, Adrift
  <2>3. FilesOK(p)'
    BY <1>2, <2>1, <2>2, NoJournalShape, PlainOK DEF Went, Plain, FilesOK, WriteOK, journals, files
  <2> QED
    BY <1>2, <2>1, <2>3, HolderGoes DEF Went
<1> QED
  BY <1>3, <1>4, <1>5, <1>6, <1>7 DEF Recover

-----------------------------------------------------------------------------
\* Journal writes.

LEMMA FilesStage ==
    ASSUME FileInv, LockInv', NEW p \in Runs, StageJournal(p)
    PROVE  FileInv'
<1> DEFINE j == run[p].pending
<1>1. /\ run[p].pc = "stage" /\ Went(p, "commit") /\ journalTmp[j.tx] = NoJournal
      /\ journalTmp' = [journalTmp EXCEPT ![j.tx] = j]
      /\ UNCHANGED <<lock, journal, files, allowed, edited>>
  BY GotoWent DEF StageJournal, FileInv, LockInv, locks, history
<1>2. Holds(p) /\ ~Dead(p) /\ FilesOK(p) /\ Place(p) = run[p].next /\ Place(p)' = run[p].next
  BY <1>1 DEF Holds, Unlocked, Dead, Place, Went, FileInv
<1>3. /\ j.tx \in Runs /\ DOMAIN j = JournalFields
      /\ Moving(j, j.tx) => journal.tx = j.tx
                            /\ (quarantine[j.tx] = NoFile \/ quarantine[j.tx].body \in allowed)
      /\ j.tx = p \/ (j.tx = journal.tx /\ run[p].next = "recover")
      /\ run[p].next # "recover" => j.tx = p
  BY <1>1, <1>2 DEF FilesOK, WriteOK
<1> HIDE DEF j
<1>4. /\ journalTmp' = [q \in Runs |-> journalTmp'[q]] /\ journalTmp'[j.tx] = j
      /\ \A q \in Runs \ {j.tx} : journalTmp'[q] = journalTmp[q]
  BY <1>1, <1>3 DEF FileInv, FilesShaped
<1>5. FilesShaped' /\ StrangerOK' /\ JournalsOK'
  <2>1. FilesShaped' /\ StrangerOK'
    BY <1>1, <1>3, <1>4 DEF FileInv, FilesShaped, StrangerOK, OnDisk, files
  <2>2. \A t \in Runs :
           /\ journalTmp'[t] \in {NoJournal, Torn} \/ journalTmp'[t].tx = t
           /\ Moving(journalTmp'[t], t) => journal.tx = t
           /\ Moving(journal, t) \/ Moving(journalTmp'[t], t) =>
                quarantine[t] = NoFile \/ quarantine[t].body \in allowed
    BY <1>3, <1>4 DEF FileInv, JournalsOK
  <2> QED
    BY <1>1, <2>1, <2>2 DEF FileInv, JournalsOK, files
<1>6. def'.body \in allowed' \/ Adrift'
  <2>1. CASE def.body \in allowed
    BY <1>1, <2>1 DEF files
  <2>2. CASE def.body \notin allowed
    <3>1. run[p].next = "link-new" /\ Adrift
      BY <1>1, <1>2, <2>2 DEF FilesOK, SettledFor, MayDrift, FileInv, SettledOK
    <3>2. j.tx = p /\ journal.tx = p /\ Moving(j, p)
      BY <1>2, <3>1 DEF FilesOK, JournalOK, Journalled, Moving, j
    <3> QED
      BY <1>1, <1>4, <3>1, <3>2 DEF Adrift, files
  <2> QED
    BY <2>1, <2>2
<1>7. FilesOK(p)'
  <2>1. /\ run'[p].pc = "commit" /\ run'[p].next = run[p].next /\ run'[p].pending = run[p].pending
        /\ run'[p].source = run[p].source /\ run'[p].body = run[p].body
        /\ UNCHANGED <<def, tmp, quarantine>> /\ Published(p)' = Published(p)
    BY <1>1 DEF Went, Same, Published, files
  <2>2. SettledFor(p)'
    BY <1>1, <1>2, <2>1 DEF FilesOK, SettledFor, MayDrift
  <2>3. OwnOK(p)'
    <3>1. run[p].next = "recover" => j.tx # p
      BY <1>1, <1>2, <1>3 DEF FilesOK, OwnOK, WriteOK, j
    <3> QED
      BY <1>1, <1>2, <1>4, <2>1, <3>1 DEF FilesOK, OwnOK, Holds, Unlocked, Dead
  <2>4. WriteOK(p)'
    BY <1>1, <1>2, <2>1 DEF FilesOK, WriteOK
  <2>5. JournalOK(p)'
    BY <1>1, <1>2, <2>1 DEF FilesOK, JournalOK, Journalled
  <2>6. CarriedOK(p)'
    BY <1>1, <1>2, <2>1 DEF FilesOK, CarriedOK
  <2> QED
    BY <2>2, <2>3, <2>4, <2>5, <2>6 DEF FilesOK
<1>8. ASSUME NEW q \in Runs \ {p}
      PROVE  /\ quarantine'[q] \in {quarantine[q], NoFile}
             /\ ~Dead(q) => journalTmp'[q] = journalTmp[q] /\ (journal'.tx = q => journal.tx = q)
  <2>1. ~Holds(q) /\ FilesOK(q)
    BY <1>2 DEF FileInv, LockInv, RunOK, LockOK
  <2>2. ~Dead(q) => journal.tx # q
    BY <2>1 DEF FilesOK, OwnOK, Holds, Unlocked, Place
  <2> QED
    BY <1>1, <1>3, <1>4, <2>2 DEF files
<1> QED
  BY <1>1, <1>2, <1>5, <1>6, <1>7, <1>8, HolderMoves DEF Went

LEMMA FilesCommit ==
    ASSUME FileInv, LockInv', NEW p \in Runs, CommitJournal(p)
    PROVE  FileInv'
<1> DEFINE j == run[p].pending
<1>1. /\ run[p].pc = "commit" /\ Went(p, run[p].next) /\ journal' = j
      /\ journalTmp' = [journalTmp EXCEPT ![j.tx] = NoJournal]
      /\ UNCHANGED <<lock, files, allowed, edited>>
  BY GotoWent DEF CommitJournal, FileInv, LockInv, locks, history
<1>2. Holds(p) /\ ~Dead(p) /\ FilesOK(p) /\ Place(p) = run[p].next
  BY <1>1 DEF Holds, Unlocked, Dead, Place, FileInv
<1>3. /\ j.tx \in Runs /\ DOMAIN j = JournalFields
      /\ Moving(j, j.tx) => quarantine[j.tx] = NoFile \/ quarantine[j.tx].body \in allowed
      /\ run[p].next = "recover" => j.tx = journal.tx /\ j.tx # p
      /\ run[p].next # "recover" => j.tx = p /\ journal.tx \in {0, p}
      /\ run[p].next \in AfterWrite
  BY <1>1, <1>2 DEF FilesOK, WriteOK, OwnOK
<1>4. Place(p)' = run[p].next /\ run'[p].pc = run[p].next /\ run'[p].pc \notin {"stage", "commit"}
  BY <1>1, <1>3 DEF Place, Went, AfterWrite
<1> HIDE DEF j
<1>5. /\ journalTmp' = [q \in Runs |-> journalTmp'[q]] /\ journalTmp'[j.tx] = NoJournal
      /\ \A q \in Runs \ {j.tx} : journalTmp'[q] = journalTmp[q]
  BY <1>1, <1>3 DEF FileInv, FilesShaped
<1>6. FilesShaped' /\ StrangerOK' /\ JournalsOK'
  <2>1. FilesShaped' /\ StrangerOK'
    BY <1>1, <1>3, <1>5, NoJournalShape DEF FileInv, FilesShaped, StrangerOK, OnDisk, files
  <2>2. ASSUME NEW t \in Runs
        PROVE  /\ journalTmp'[t] \in {NoJournal, Torn} \/ journalTmp'[t].tx = t
               /\ Moving(journalTmp'[t], t) => journal'.tx = t
               /\ Moving(journal', t) \/ Moving(journalTmp'[t], t) =>
                    quarantine[t] = NoFile \/ quarantine[t].body \in allowed
    <3>1. CASE t = j.tx
      BY <1>1, <1>3, <1>5, <3>1, NoJournalShape
    <3>2. CASE t # j.tx
      <4>1. ~Moving(journalTmp[t], t)
        BY <1>2, <1>3, <3>2, NoJournalShape DEF FileInv, JournalsOK
      <4>2. ~Moving(journal', t)
        BY <1>1, <3>2 DEF Moving
      <4> QED
        BY <1>5, <3>2, <4>1, <4>2 DEF FileInv, JournalsOK
    <3> QED
      BY <3>1, <3>2
  <2> QED
    BY <1>1, <1>3, <2>1, <2>2 DEF JournalsOK, files
<1>7. def'.body \in allowed' \/ Adrift'
  <2>1. CASE def.body \in allowed
    BY <1>1, <2>1 DEF files
  <2>2. CASE def.body \notin allowed
    <3>1. run[p].next = "link-new" /\ Adrift
      BY <1>1, <1>2, <2>2 DEF FilesOK, SettledFor, MayDrift, FileInv, SettledOK
    <3>2. j.tx = p /\ journal.tx = p /\ Moving(j, p)
      BY <1>2, <3>1 DEF FilesOK, JournalOK, Journalled, Moving, j
    <3> QED
      BY <1>1, <1>5, <3>1, <3>2 DEF Adrift, files
  <2> QED
    BY <2>1, <2>2
<1>8. FilesOK(p)'
  <2>1. /\ run'[p].pending = run[p].pending /\ run'[p].source = run[p].source
        /\ run'[p].body = run[p].body
        /\ UNCHANGED <<def, tmp, quarantine>> /\ Published(p)' = Published(p)
    BY <1>1 DEF Went, Same, Published, files
  <2>2. SettledFor(p)'
    <3>1. CASE run[p].next \in {"recover", "link-new"}
      BY <1>4, <3>1 DEF SettledFor, MayDrift
    <3>2. CASE run[p].next \notin {"recover", "link-new"}
      BY <1>1, <1>2, <2>1, <3>2 DEF FilesOK, SettledFor, MayDrift
    <3> QED
      BY <3>1, <3>2
  <2>3. OwnOK(p)'
    <3>1. journalTmp'[p] = NoJournal
      BY <1>1, <1>2, <1>3, <1>5 DEF FilesOK, OwnOK
    <3>2. journal'.tx = j.tx
      BY <1>1
    <3>3. run[p].next \notin Unlocked
      BY <1>3 DEF AfterWrite, Unlocked
    <3> QED
      BY <1>2, <1>3, <1>4, <2>1, <3>1, <3>2, <3>3 DEF FilesOK, OwnOK
  <2>4. WriteOK(p)'
    BY <1>2, <1>4, <2>1 DEF FilesOK, WriteOK
  <2>5. JournalOK(p)'
    <3>1. JournalOK(p) /\ journal' = run[p].pending
      BY <1>1, <1>2 DEF FilesOK, j
    <3>2. Journalled(p)' => journal'.tx = p /\ journal'.original = run'[p].source
      BY <1>2, <1>3, <1>4, <2>1, <3>1 DEF JournalOK, Journalled, AfterWrite
    <3> QED
      BY <1>1, <1>2, <1>4, <2>1, <3>1, <3>2 DEF JournalOK
  <2>6. CarriedOK(p)'
    <3>1. run[p].next # "undo-drop"
      BY <1>3 DEF AfterWrite
    <3> QED
      BY <1>1, <1>2, <1>4, <2>1, <3>1 DEF FilesOK, CarriedOK
  <2> QED
    BY <2>2, <2>3, <2>4, <2>5, <2>6 DEF FilesOK
<1>9. ASSUME NEW q \in Runs \ {p}
      PROVE  /\ quarantine'[q] \in {quarantine[q], NoFile}
             /\ ~Dead(q) => journalTmp'[q] = journalTmp[q] /\ (journal'.tx = q => journal.tx = q)
  <2>1. ~Holds(q) /\ FilesOK(q)
    BY <1>2 DEF FileInv, LockInv, RunOK, LockOK
  <2>2. ~Dead(q) => journal.tx # q
    BY <2>1 DEF FilesOK, OwnOK, Holds, Unlocked, Place
  <2> QED
    BY <1>1, <1>3, <1>5, <2>2 DEF files
<1> QED
  BY <1>1, <1>2, <1>6, <1>7, <1>8, <1>9, HolderMoves DEF Went

-----------------------------------------------------------------------------
\* The service manager, and the end of an operation.

\* A step that leaves the files alone and goes on to a plain place.
LEMMA PlainStep ==
    ASSUME FileInv, LockInv', NEW p \in Runs, Holds(p), UNCHANGED <<lock, journals, files, allowed, edited>>,
           run[p].pc \notin {"stage", "commit", "recover"}, ~MayDrift(p),
           At(p, run'[p]), run'[p].pc \in Plain, run'[p].pending = run[p].pending,
           run'[p].pc \in Clean \/ (run'[p].pc = "rollback" /\ Published(p)') =>
             quarantine[p] = NoFile
    PROVE  FileInv'
<1>1. /\ def.body \in allowed /\ journalTmp[p] = NoJournal /\ journal.tx \in {0, p}
      /\ DOMAIN run[p].pending = JournalFields
  BY HolderKnows
<1>2. FilesOK(p)'
  BY <1>1, PlainOK DEF journals, files
<1> QED
  BY <1>2, HolderGoes

LEMMA FilesCommand ==
    ASSUME FileInv, LockInv', NEW p \in Runs,
           \/ Command(p) \/ BootOutLegacy(p) \/ Sweep(p) \/ RetireLegacy(p) \/ DropRetired(p)
           \/ CommandFails(p)
    PROVE  FileInv'
<1>1. /\ run[p].pc \in {"legacy-bootout", "sweep", "probe", "restart", "bootout", "bootstrap",
                        "rollback", "rebootstrap", "retire", "retired"}
      /\ UNCHANGED <<lock, journals, files, edited>>
  BY DEF Command, Probe, Restart, BootOut, Bootstrap, BootstrapImpossible, Rollback, Rebootstrap,
         BootOutLegacy, Sweep, RetireLegacy, DropRetired, CommandFails, locks, history
<1>2. /\ Holds(p) /\ ~MayDrift(p) /\ run[p].pc \notin {"stage", "commit", "recover"}
  BY <1>1 DEF Holds, Unlocked, MayDrift
<1>3. /\ Shaped /\ journalTmp[p] = NoJournal /\ journal.tx \in {0, p} /\ p # 0
      /\ DOMAIN run[p].pending = JournalFields
      /\ run[p].pc \in Clean \/ (run[p].pc = "rollback" /\ Published(p)) => quarantine[p] = NoFile
  BY <1>2, HolderKnows
<1>4. ASSUME ~Probe(p), NEW pc \in Plain, Went(p, pc), UNCHANGED allowed,
             pc \in Clean \/ (pc = "rollback" /\ Published(p)) => quarantine[p] = NoFile
      PROVE  FileInv'
  <2>1. Published(p)' = Published(p)
    BY <1>4 DEF Went, Same, Published
  <2> QED
    BY <1>1, <1>2, <1>4, <2>1, PlainStep DEF Went
<1>5. ~Probe(p) => UNCHANGED allowed
  BY DEF Command, Restart, BootOut, Bootstrap, BootstrapImpossible, Rollback, Rebootstrap,
         BootOutLegacy, Sweep, RetireLegacy, DropRetired, CommandFails, history
<1>6. CASE Probe(p)
  <2> DEFINE pc == IF service = "none" THEN AfterBootout(p, def)
                   ELSE IF run[p].op = "install" /\ def.body = Build[p] THEN "restart" ELSE "bootout"
             new == IF run[p].op = "install" THEN Build[p] ELSE "none"
             up == service # "none"
  <2>1. pc \in Plain /\ run[p].pc = "probe" /\ allowed' = {def.body}
    BY <1>6 DEF Probe, AfterBootout, Plain
  <2>2. run' = [run EXCEPT ![p].existing = def, ![p].loaded = up, ![p].body = new, ![p].pc = pc]
    BY <1>6 DEF Probe
  <2> HIDE DEF pc, new, up
  <2>3. At(p, run'[p]) /\ run'[p].pc = pc /\ run'[p].pending = run[p].pending
    BY <1>3, <2>2 DEF At, Shaped, Fields
  <2>4. quarantine[p] = NoFile
    BY <1>3, <2>1 DEF Clean
  <2>5. FilesOK(p)'
    BY <1>1, <1>3, <2>1, <2>3, <2>4, PlainOK DEF journals, files
  <2>6. JournalsOK'
    <3>1. \A t \in Runs : t # p => ~Moving(journal, t) /\ ~Moving(journalTmp[t], t)
      BY <1>3, NoJournalShape DEF FileInv, JournalsOK, Moving
    <3>2. ~Moving(journalTmp[p], p)
      BY <1>3, NoJournalShape
    <3> QED
      BY <1>1, <2>4, <3>1, <3>2 DEF FileInv, JournalsOK, journals, files
  <2>7. FilesShaped' /\ StrangerOK' /\ def'.body \in allowed'
    BY <1>1, <2>1 DEF FileInv, FilesShaped, StrangerOK, OnDisk, journals, files
  <2> QED
    BY <1>1, <1>2, <2>3, <2>5, <2>6, <2>7, HolderMoves DEF journals, files
<1>7. CASE ~Probe(p) /\ \E pc \in {"retire", "retired", "release", "rebootstrap"} : Went(p, pc)
  BY <1>4, <1>5, <1>7 DEF Plain, Clean
<1>8. CASE Restart(p) \/ Bootstrap(p) \/ DropRetired(p)
  <2>1. \E pc \in {"retire", "release"} : Went(p, pc)
    BY <1>3, <1>8, GotoWent DEF Restart, Bootstrap, DropRetired
  <2> QED
    BY <1>7, <1>6, <2>1
<1>9. CASE BootOutLegacy(p) \/ Sweep(p)
  <2>1. PICK pc \in {"sweep", "retire", "probe"} : Went(p, pc)
    BY <1>3, <1>9, GotoWent DEF BootOutLegacy, Sweep
  <2>2. quarantine[p] = NoFile /\ ~Probe(p) /\ pc \in Plain
    BY <1>3, <1>9 DEF BootOutLegacy, Sweep, Clean, Probe, Plain
  <2> QED
    BY <1>4, <1>5, <2>1, <2>2
<1>10. CASE RetireLegacy(p)
  <2>1. PICK pc \in {"retired", "release"} : run' = [run EXCEPT ![p].pc = pc, ![p].outcome = "done"]
    BY <1>10 DEF RetireLegacy
  <2> QED
    BY <1>3, <1>6, <1>7, <2>1, OutcomeWent
<1>11. ASSUME ~Probe(p), run' = Undone(p), run[p].pc \in Clean
       PROVE  FileInv'
  <2>1. \E pc \in {"rollback", "release"} : Went(p, pc)
    BY <1>3, <1>11, UndoneWent
  <2> QED
    BY <1>3, <1>4, <1>5, <1>11, <2>1 DEF Plain
<1>12. ASSUME ~Probe(p), NEW pc \in Plain, run' = [run EXCEPT ![p].bootedOut = TRUE, ![p].pc = pc],
              run[p].pc \in Clean
       PROVE  FileInv'
  <2>1. At(p, run'[p]) /\ run'[p].pc = pc /\ run'[p].pending = run[p].pending
    BY <1>3, <1>12 DEF At, Shaped, Fields
  <2> QED
    BY <1>1, <1>2, <1>3, <1>5, <1>12, <2>1, PlainStep
<1>13. CASE BootOut(p)
  <2>1. ~Probe(p) /\ run[p].pc \in Clean /\ AfterBootout(p, run[p].existing) \in Plain
    BY <1>13 DEF BootOut, Probe, Clean, AfterBootout, Plain
  <2> QED
    BY <1>12, <1>13, <2>1 DEF BootOut
<1>14. CASE BootstrapImpossible(p)
  BY <1>11, <1>14 DEF BootstrapImpossible, Probe, Clean
<1>15. ASSUME ~Probe(p), run' = [run EXCEPT ![p].pc = "release", ![p].outcome = "rollback-failed"]
       PROVE  FileInv'
  BY <1>3, <1>7, <1>15, OutcomeWent
<1>16. ASSUME ~Probe(p), run' = Failed(p)
       PROVE  FileInv'
  BY <1>3, <1>7, <1>16, OutcomeWent DEF Failed
<1>17. CASE Rollback(p)
  <2>1. run[p].pc = "rollback" /\ ~Probe(p)
    BY <1>17 DEF Rollback, Probe
  <2>2. CASE ~Published(p) /\ run' = [run EXCEPT ![p].pc = "rebootstrap"]
    BY <1>3, <1>7, <2>1, <2>2, GotoWent DEF Goto
  <2>3. CASE Published(p) /\ run' = [run EXCEPT ![p].pc = "remove"]
    <3>1. Went(p, "remove") /\ quarantine[p] = NoFile /\ "remove" \in Plain
      BY <1>3, <2>1, <2>3, GotoWent DEF Goto, Plain
    <3> QED
      BY <1>4, <1>5, <2>1, <3>1
  <2>4. CASE Published(p) /\ run' = [run EXCEPT ![p].pc = "intend", ![p].body = run[p].existing.body]
    <3>1. /\ At(p, run'[p]) /\ run'[p].pc = "intend" /\ run'[p].pending = run[p].pending
          /\ quarantine[p] = NoFile /\ "intend" \in Plain
      BY <1>3, <2>1, <2>4 DEF At, Shaped, Fields, Plain
    <3> QED
      BY <1>1, <1>2, <1>5, <2>1, <3>1, PlainStep
  <2> QED
    BY <1>15, <1>17, <2>1, <2>2, <2>3, <2>4 DEF Rollback
<1>18. CASE Rebootstrap(p)
  <2>1. ~Probe(p)
    BY <1>18 DEF Rebootstrap, Probe
  <2> QED
    BY <1>15, <1>16, <1>18, <2>1 DEF Rebootstrap
<1>19. CASE CommandFails(p)
  <2>1. ~Probe(p) /\ "rollback" \in Plain
    BY <1>19 DEF CommandFails, Probe, Plain
  <2>2. run[p].pc \in {"bootout", "bootstrap"} => run[p].pc \in Clean
    BY DEF Clean
  <2>3. Goto(p, "retire") => FileInv'
    BY <1>3, <1>7, <2>1, GotoWent
  <2> QED
    BY <1>11, <1>12, <1>15, <1>16, <1>19, <2>1, <2>2, <2>3 DEF CommandFails
<1> QED
  BY <1>6, <1>8, <1>9, <1>10, <1>13, <1>14, <1>17, <1>18, <1>19 DEF Command

-----------------------------------------------------------------------------
\* A transaction of one's own.

LEMMA OwnMoves ==
    ASSUME FileInv, LockInv', NEW p \in Runs, Holds(p), run[p].pc \notin {"stage", "commit", "recover"},
           At(p, run'[p]), UNCHANGED <<lock, journals, edited>>,
           tmp' = [q \in Runs |-> tmp'[q]], quarantine' = [q \in Runs |-> quarantine'[q]],
           \A q \in Runs \ {p} : tmp'[q] = tmp[q] /\ quarantine'[q] = quarantine[q],
           tmp'[p] # Stranger, OnDisk(Stranger)' => OnDisk(Stranger),
           quarantine'[p] = NoFile \/ quarantine'[p].body \in allowed' \/ UNCHANGED <<quarantine, allowed>>,
           def'.body \in allowed' \/ Adrift', FilesOK(p)'
    PROVE  FileInv'
<1>1. journalTmp[p] = NoJournal /\ journal.tx \in {0, p} /\ p # 0
  BY HolderKnows
<1>2. JournalsOK'
  <2>1. \A t \in Runs : t # p => ~Moving(journal, t) /\ ~Moving(journalTmp[t], t)
    BY <1>1, NoJournalShape DEF FileInv, JournalsOK, Moving
  <2>2. ~Moving(journalTmp[p], p)
    BY <1>1, NoJournalShape
  <2> QED
    BY <2>1, <2>2 DEF FileInv, JournalsOK, journals
<1>3. FilesShaped' /\ StrangerOK'
  BY DEF FileInv, FilesShaped, StrangerOK, journals
<1> QED
  BY <1>2, <1>3, HolderMoves DEF journals

\* On the way to a journal write.
LEMMA StagedOK ==
    ASSUME NEW p \in Runs, NEW j, NEW pc \in AfterWrite \ {"recover"}, NEW source,
           Staged(p, j, pc, source), DOMAIN j = JournalFields, j.tx = p,
           journalTmp'[p] = NoJournal, journal'.tx \in {0, p}, Moving(j, p) => journal'.tx = p,
           quarantine'[p] = NoFile \/ (pc \notin Clean /\ quarantine'[p].body \in allowed'),
           pc = "link-new" \/ def'.body \in allowed', JournalOK(p)', CarriedOK(p)'
    PROVE  FilesOK(p)'
<1>1. /\ Place(p)' = pc /\ run'[p].pc = "stage" /\ run'[p].next = pc /\ run'[p].pending = j
      /\ pc \notin Unlocked \cup {"recover", "rollback"}
  BY DEF Place, Staged, AfterWrite, Unlocked
<1>2. SettledFor(p)' /\ OwnOK(p)' /\ WriteOK(p)'
  BY <1>1 DEF SettledFor, MayDrift, OwnOK, WriteOK
<1> QED
  BY <1>2 DEF FilesOK

\* Where the old definition may be in the quarantine.
LEMMA CarryingOK ==
    ASSUME NEW p \in Runs, run'[p].pc \in {"link-new", "rename-old", "undo", "put-back", "undo-drop"},
           DOMAIN run'[p].pending = JournalFields, journalTmp'[p] = NoJournal, journal'.tx \in {0, p},
           run'[p].pc \notin {"rename-old", "undo-drop"} \/ def'.body \in allowed',
           run'[p].pc = "rename-old" => quarantine'[p] = NoFile,
           JournalOK(p)', CarriedOK(p)'
    PROVE  FilesOK(p)'
<1>1. Place(p)' = run'[p].pc /\ run'[p].pc \notin Unlocked \cup {"recover", "rollback", "stage", "commit"}
  BY DEF Place, Unlocked
<1>2. SettledFor(p)' /\ OwnOK(p)' /\ WriteOK(p)'
  BY <1>1 DEF SettledFor, MayDrift, OwnOK, WriteOK, Clean
<1> QED
  BY <1>2 DEF FilesOK

LEMMA FilesIntend ==
    ASSUME FileInv, LockInv', NEW p \in Runs, Intend(p)
    PROVE  FileInv'
<1> DEFINE j == [tx |-> p, op |-> "publish", phase |-> "preparing", original |-> def.id,
                 replacement |-> NoFile.id, expected |-> run[p].body]
<1>1. /\ run[p].pc = "intend" /\ run' = [Writing(p, j, "write-temp") EXCEPT ![p].source = def.id]
      /\ allowed' = {def.body, run[p].body} /\ UNCHANGED <<lock, journals, files, edited>>
  BY DEF Intend, locks
<1>2. Holds(p) /\ run[p].pc \notin {"stage", "commit", "recover"} /\ run[p].pc \in Clean
  BY <1>1 DEF Holds, Unlocked, Clean
<1>3. Shaped /\ journalTmp[p] = NoJournal /\ journal.tx \in {0, p} /\ quarantine[p] = NoFile
  BY <1>2, HolderKnows
<1>4. /\ DOMAIN j = JournalFields /\ j.tx = p /\ j.op = "publish" /\ j.original = def.id
      /\ ~Moving(j, p)
  BY DEF JournalFields, Moving
<1> HIDE DEF j
<1>5. Staged(p, j, "write-temp", def.id)
  BY <1>1, <1>3, SourceStaged
<1>6. Place(p)' = "write-temp" /\ run'[p].pc = "stage" /\ run'[p].source = def.id
      /\ run'[p].pending = j /\ run'[p].body = run[p].body
  BY <1>5 DEF Staged, Same, Place
<1>7. JournalOK(p)' /\ CarriedOK(p)'
  BY <1>1, <1>4, <1>6 DEF JournalOK, CarriedOK, Journalled
<1>8. FilesOK(p)'
  BY <1>1, <1>3, <1>4, <1>5, <1>7, StagedOK DEF AfterWrite, journals, files
<1>9. /\ tmp' = [q \in Runs |-> tmp'[q]] /\ quarantine' = [q \in Runs |-> quarantine'[q]]
      /\ tmp'[p] # Stranger /\ (OnDisk(Stranger)' => OnDisk(Stranger))
  BY <1>1 DEF FileInv, FilesShaped, StrangerOK, OnDisk, files
<1> QED
  BY <1>1, <1>2, <1>3, <1>5, <1>8, <1>9, OwnMoves DEF Staged, files

LEMMA FilesWriteTemporary ==
    ASSUME FileInv, LockInv', NEW p \in Runs, WriteTemporary(p)
    PROVE  FileInv'
<1> DEFINE j == [Phase(p, "prepared") EXCEPT !.replacement = NewId(p)]
           file == [id |-> NewId(p), body |-> run[p].body]
<1>1. /\ run[p].pc = "write-temp" /\ run' = Writing(p, j, "move-old")
      /\ tmp' = [tmp EXCEPT ![p] = file]
      /\ UNCHANGED <<lock, journals, def, quarantine, allowed, edited>>
  BY DEF WriteTemporary, locks, history
<1>2. /\ Holds(p) /\ run[p].pc \notin {"stage", "commit", "recover"} /\ run[p].pc \in Clean
      /\ ~MayDrift(p)
  BY <1>1 DEF Holds, Unlocked, Clean, MayDrift
<1>3. /\ Shaped /\ journalTmp[p] = NoJournal /\ journal.tx \in {0, p} /\ quarantine[p] = NoFile
      /\ JournalOK(p) /\ def.body \in allowed /\ DOMAIN run[p].pending = JournalFields
      /\ Place(p) = "write-temp" /\ p # 0
  BY <1>1, <1>2, HolderKnows
<1>4. /\ run[p].pending.op = "publish" /\ run[p].body \in allowed
      /\ run[p].pending.tx = p /\ run[p].pending.original = run[p].source
      /\ journal.tx = p /\ journal.original = run[p].source
  BY <1>1, <1>3 DEF JournalOK, Journalled
<1>5. /\ DOMAIN j = JournalFields /\ j.tx = p /\ j.op = "publish" /\ j.original = run[p].source
      /\ j.phase = "prepared"
  BY <1>3, <1>4 DEF JournalFields, Phase
<1>6. file # Stranger /\ file.body = run[p].body
  <2>1. NewId(p) # <<0, 2>>
    BY <1>3 DEF NewId
  <2> QED
    BY <2>1 DEF Stranger
<1> HIDE DEF j, file
<1>7. Staged(p, j, "move-old", run[p].source)
  BY <1>1, <1>3, WritingStaged
<1>8. /\ tmp' = [q \in Runs |-> tmp'[q]] /\ quarantine' = [q \in Runs |-> quarantine'[q]]
      /\ tmp'[p] = file /\ \A q \in Runs \ {p} : tmp'[q] = tmp[q]
  BY <1>1 DEF FileInv, FilesShaped
<1>9. /\ Place(p)' = "move-old" /\ run'[p].pc = "stage" /\ run'[p].source = run[p].source
      /\ run'[p].pending = j /\ run'[p].body = run[p].body
  BY <1>7 DEF Staged, Same, Place
<1>10. JournalOK(p)' /\ CarriedOK(p)'
  BY <1>1, <1>4, <1>5, <1>6, <1>8, <1>9 DEF JournalOK, CarriedOK, Journalled, journals
<1>11. FilesOK(p)'
  BY <1>1, <1>3, <1>4, <1>5, <1>7, <1>10, StagedOK DEF AfterWrite, journals
<1>12. OnDisk(Stranger)' => OnDisk(Stranger)
  BY <1>1 DEF OnDisk
<1> QED
  BY <1>1, <1>2, <1>3, <1>6, <1>7, <1>8, <1>11, <1>12, OwnMoves DEF Staged

LEMMA FilesMoveOld ==
    ASSUME FileInv, LockInv', NEW p \in Runs, MoveOld(p)
    PROVE  FileInv'
<1>1. PICK pc \in {"undo", "link-new", "rename-old"} :
         run[p].pc = "move-old" /\ Goto(p, pc) /\ UNCHANGED <<lock, journals, files, allowed, edited>>
  BY DEF MoveOld, locks, history
<1>2. /\ Holds(p) /\ run[p].pc \notin {"stage", "commit", "recover"} /\ run[p].pc \in Clean
      /\ ~MayDrift(p)
  BY <1>1 DEF Holds, Unlocked, Clean, MayDrift
<1>3. /\ Shaped /\ journalTmp[p] = NoJournal /\ journal.tx \in {0, p} /\ quarantine[p] = NoFile
      /\ JournalOK(p) /\ def.body \in allowed /\ DOMAIN run[p].pending = JournalFields
      /\ Place(p) = "move-old"
  BY <1>1, <1>2, HolderKnows
<1>4. Went(p, pc)
  BY <1>1, <1>3, GotoWent
<1>5. /\ Place(p)' = pc /\ run'[p].pc = pc /\ run'[p].source = run[p].source
      /\ run'[p].pending = run[p].pending /\ run'[p].body = run[p].body
  BY <1>4 DEF Went, Same, Place
<1>6. JournalOK(p)' /\ CarriedOK(p)'
  BY <1>1, <1>3, <1>5 DEF JournalOK, CarriedOK, Journalled, journals, files
<1>7. FilesOK(p)'
  BY <1>1, <1>3, <1>5, <1>6, CarryingOK DEF journals, files
<1> QED
  BY <1>1, <1>2, <1>4, <1>7, HolderGoes DEF Went

\* What is in the definition and not settled is in the quarantine of this run.
LEMMA Unsettled ==
    ASSUME FileInv, NEW p \in Runs, Holds(p), run[p].pc \notin {"stage", "commit", "recover"},
           def.body \notin allowed
    PROVE  def = NoFile /\ quarantine[p] # NoFile /\ journal.tx = p
<1>1. Adrift /\ journal.tx \in {0, p}
  BY HolderKnows DEF FileInv, SettledOK
<1> QED
  BY <1>1, RunsAssumption DEF Adrift

LEMMA FilesRenameOld ==
    ASSUME FileInv, LockInv', NEW p \in Runs, RenameOld(p)
    PROVE  FileInv'
<1>1. run[p].pc = "rename-old" /\ UNCHANGED <<lock, journals, tmp, allowed, edited>>
  BY DEF RenameOld, locks, history
<1>2. /\ Holds(p) /\ run[p].pc \notin {"stage", "commit", "recover"} /\ run[p].pc \in Clean
      /\ ~MayDrift(p)
  BY <1>1 DEF Holds, Unlocked, Clean, MayDrift
<1>3. /\ Shaped /\ journalTmp[p] = NoJournal /\ journal.tx \in {0, p} /\ quarantine[p] = NoFile
      /\ JournalOK(p) /\ def.body \in allowed /\ DOMAIN run[p].pending = JournalFields
      /\ Place(p) = "rename-old"
  BY <1>1, <1>2, HolderKnows
<1>4. /\ run[p].pending.op = "publish" /\ run[p].body \in allowed
      /\ run[p].pending.phase # "preparing" /\ tmp[p].body \in allowed
      /\ run[p].pending.tx = p /\ run[p].pending.original = run[p].source
      /\ journal = run[p].pending
  BY <1>1, <1>3 DEF JournalOK
<1>5. CASE def = NoFile
  <2>1. Went(p, "undo") /\ UNCHANGED <<def, quarantine>>
    BY <1>3, <1>5, GotoWent DEF RenameOld
  <2>2. /\ Place(p)' = "undo" /\ run'[p].pc = "undo" /\ run'[p].source = run[p].source
        /\ run'[p].pending = run[p].pending
    BY <2>1 DEF Went, Place
  <2>3. JournalOK(p)' /\ CarriedOK(p)'
    BY <1>1, <1>3, <1>4, <2>1, <2>2 DEF JournalOK, CarriedOK, Journalled, journals
  <2>4. FilesOK(p)'
    BY <1>1, <1>3, <2>2, <2>3, CarryingOK DEF journals
  <2> QED
    BY <1>1, <1>2, <2>1, <2>4, HolderGoes DEF Went, files
<1>6. CASE def # NoFile
  <2>1. /\ quarantine' = [quarantine EXCEPT ![p] = def] /\ def' = NoFile
        /\ run' = IF def.id = run[p].source THEN Writing(p, Phase(p, "old-quarantined"), "link-new")
                  ELSE [run EXCEPT ![p].pc = "put-back"]
    BY <1>6 DEF RenameOld
  <2>2. /\ tmp' = [q \in Runs |-> tmp'[q]] /\ quarantine' = [q \in Runs |-> quarantine'[q]]
        /\ quarantine'[p] = def /\ \A q \in Runs \ {p} : quarantine'[q] = quarantine[q]
    BY <1>1, <2>1 DEF FileInv, FilesShaped
  <2>3. Adrift'
    BY <1>1, <1>3, <1>4, <1>6, <2>1, <2>2 DEF Adrift, Moving, journals
  <2>4. tmp'[p] # Stranger /\ (OnDisk(Stranger)' => OnDisk(Stranger))
    <3>1. NoFile # Stranger
      BY DEF NoFile, Stranger
    <3> QED
      BY <1>1, <2>1, <2>2, <3>1 DEF FileInv, StrangerOK, OnDisk
  <2>5. At(p, run'[p]) /\ FilesOK(p)'
    <3>1. CASE def.id = run[p].source
      <4> DEFINE j == Phase(p, "old-quarantined")
      <4>1. /\ DOMAIN j = JournalFields /\ j.tx = p /\ j.op = "publish"
            /\ j.original = run[p].source /\ j.phase # "preparing"
        BY <1>3, <1>4 DEF JournalFields, Phase
      <4> HIDE DEF j
      <4>2. Staged(p, j, "link-new", run[p].source)
        BY <1>3, <2>1, <3>1, WritingStaged DEF j
      <4>3. /\ Place(p)' = "link-new" /\ run'[p].pc = "stage" /\ run'[p].source = run[p].source
            /\ run'[p].pending = j /\ run'[p].body = run[p].body
        BY <4>2 DEF Staged, Same, Place
      <4>4. JournalOK(p)' /\ CarriedOK(p)'
        BY <1>1, <1>3, <1>4, <2>2, <3>1, <4>1, <4>3 DEF JournalOK, CarriedOK, Journalled, journals
      <4>5. FilesOK(p)'
        BY <1>1, <1>3, <1>4, <2>2, <4>1, <4>2, <4>4, StagedOK DEF AfterWrite, Clean, journals
      <4> QED
        BY <4>2, <4>5 DEF Staged
    <3>2. CASE def.id # run[p].source
      <4>1. Went(p, "put-back")
        BY <1>3, <2>1, <3>2, GotoWent DEF Goto
      <4>2. Place(p)' = "put-back" /\ run'[p].pc = "put-back" /\ run'[p].pending = run[p].pending
        BY <4>1 DEF Went, Place
      <4>3. JournalOK(p)' /\ CarriedOK(p)'
        BY <1>1, <1>3, <2>2, <4>2 DEF JournalOK, CarriedOK, Journalled
      <4>4. FilesOK(p)'
        BY <1>1, <1>3, <4>2, <4>3, CarryingOK DEF journals
      <4> QED
        BY <4>1, <4>4 DEF Went
    <3> QED
      BY <3>1, <3>2
  <2> QED
    BY <1>1, <1>2, <1>3, <2>2, <2>3, <2>4, <2>5, OwnMoves
<1> QED
  BY <1>5, <1>6

\* The old definition goes back, if its name is free.
LEMMA FilesPutBack ==
    ASSUME FileInv, LockInv', NEW p \in Runs, PutBack(p) \/ UndoLink(p)
    PROVE  FileInv'
<1>1. /\ run[p].pc \in {"put-back", "undo"}
      /\ UNCHANGED <<lock, journals, tmp, quarantine, allowed, edited>>
  BY DEF PutBack, UndoLink, locks, history
<1>2. Holds(p) /\ run[p].pc \notin {"stage", "commit", "recover"}
  BY <1>1 DEF Holds, Unlocked
<1>3. /\ Shaped /\ journalTmp[p] = NoJournal /\ journal.tx \in {0, p}
      /\ JournalOK(p) /\ CarriedOK(p) /\ DOMAIN run[p].pending = JournalFields
      /\ Place(p) = run[p].pc
  BY <1>1, <1>2, HolderKnows
<1>4. /\ quarantine[p] = NoFile \/ quarantine[p].body \in allowed
      /\ run[p].pc = "undo" => quarantine[p] = NoFile \/ quarantine[p].id = journal.original
  BY <1>1, <1>3 DEF CarriedOK, JournalOK, Journalled
<1>5. PICK pc \in {"undo-drop", "drop-temp"} : /\ Went(p, pc)
                                               /\ def' = def \/ (def = NoFile /\ def' = quarantine[p])
                                               /\ def' = NoFile => quarantine[p] = NoFile
                                               /\ run[p].pc = "put-back" /\ pc = "undo-drop" => def' = quarantine[p]
  BY <1>1, <1>3, GotoWent DEF PutBack, UndoLink
<1>6. def'.body \in allowed'
  <2>1. CASE def' = def
    BY <1>1, <1>2, <1>5, <2>1, Unsettled
  <2>2. CASE def' # def
    BY <1>1, <1>4, <1>5, <2>2
  <2> QED
    BY <2>1, <2>2
<1>7. /\ Place(p)' = pc /\ run'[p].pc = pc /\ run'[p].pending = run[p].pending
  BY <1>5 DEF Went, Place
<1>8. FilesOK(p)'
  <2>1. CASE pc = "drop-temp"
    BY <1>1, <1>3, <1>6, <1>7, <2>1, PlainOK DEF Plain, Clean, journals
  <2>2. CASE pc = "undo-drop"
    <3>1. quarantine[p] = Stranger => def' = Stranger \/ journal.original = Stranger.id
      <4>1. NoFile # Stranger
        BY DEF NoFile, Stranger
      <4> QED
        BY <1>1, <1>4, <1>5, <2>2, <4>1
    <3>2. JournalOK(p)' /\ CarriedOK(p)'
      BY <1>1, <1>7, <2>2, <3>1 DEF JournalOK, CarriedOK, Journalled, journals
    <3> QED
      BY <1>1, <1>3, <1>6, <1>7, <2>2, <3>2, CarryingOK DEF journals
  <2> QED
    BY <2>1, <2>2
<1>9. /\ tmp' = [q \in Runs |-> tmp'[q]] /\ quarantine' = [q \in Runs |-> quarantine'[q]]
      /\ tmp'[p] # Stranger
  BY <1>1 DEF FileInv, FilesShaped, StrangerOK
<1>10. OnDisk(Stranger)' => OnDisk(Stranger)
  BY <1>1, <1>5 DEF OnDisk
<1> QED
  BY <1>1, <1>2, <1>5, <1>6, <1>8, <1>9, <1>10, OwnMoves DEF Went

\* The new definition takes the name, and loses its temporary one.
LEMMA FilesLinkNew ==
    ASSUME FileInv, LockInv', NEW p \in Runs, LinkNew(p) \/ UnlinkTemporary(p)
    PROVE  FileInv'
<1>1. /\ run[p].pc \in {"link-new", "unlink-temp"}
      /\ UNCHANGED <<lock, journals, quarantine, allowed, edited>>
  BY DEF LinkNew, UnlinkTemporary, locks, history
<1>2. /\ Holds(p) /\ run[p].pc \notin {"stage", "commit", "recover"}
      /\ run[p].pc = "unlink-temp" => ~MayDrift(p)
  BY <1>1 DEF Holds, Unlocked, MayDrift
<1>3. /\ Shaped /\ journalTmp[p] = NoJournal
      /\ JournalOK(p) /\ CarriedOK(p) /\ DOMAIN run[p].pending = JournalFields
      /\ Place(p) = run[p].pc /\ (run[p].pc = "unlink-temp" => def.body \in allowed)
  BY <1>1, <1>2, HolderKnows
<1>4. /\ run[p].pending.tx = p /\ run[p].pending.original = run[p].source
      /\ journal.tx = p /\ journal.original = run[p].source
      /\ run[p].pc = "link-new" => tmp[p].body \in allowed
  BY <1>1, <1>3 DEF JournalOK, Journalled
<1>5. /\ quarantine[p] = NoFile \/ quarantine[p].body \in allowed
      /\ quarantine[p] = NoFile \/ quarantine[p].id = run[p].source
  BY <1>1, <1>3 DEF CarriedOK
<1>6. CASE Goto(p, "undo") /\ UNCHANGED <<def, tmp>>
  <2>1. Went(p, "undo")
    BY <1>3, <1>6, GotoWent
  <2>2. /\ Place(p)' = "undo" /\ run'[p].pc = "undo" /\ run'[p].source = run[p].source
        /\ run'[p].pending = run[p].pending
    BY <2>1 DEF Went, Place
  <2>3. JournalOK(p)' /\ CarriedOK(p)'
    BY <1>1, <1>4, <1>5, <2>2 DEF JournalOK, CarriedOK, Journalled, journals
  <2>4. FilesOK(p)'
    BY <1>1, <1>3, <1>4, <2>2, <2>3, CarryingOK DEF journals
  <2> QED
    BY <1>1, <1>2, <1>6, <2>1, <2>4, HolderGoes DEF Went, files
<1>7. ASSUME NEW phase, NEW pc \in {"unlink-temp", "drop-old"}, run' = Writing(p, Phase(p, phase), pc),
             def'.body \in allowed, tmp' = [q \in Runs |-> tmp'[q]],
             \A q \in Runs \ {p} : tmp'[q] = tmp[q], tmp'[p] # Stranger,
             OnDisk(Stranger)' => OnDisk(Stranger)
      PROVE  FileInv'
  <2> DEFINE j == Phase(p, phase)
  <2>1. DOMAIN j = JournalFields /\ j.tx = p /\ j.original = run[p].source
    BY <1>3, <1>4 DEF JournalFields, Phase
  <2> HIDE DEF j
  <2>2. Staged(p, j, pc, run[p].source)
    BY <1>3, <1>7, WritingStaged DEF j
  <2>3. /\ Place(p)' = pc /\ run'[p].pc = "stage" /\ run'[p].source = run[p].source
        /\ run'[p].pending = j
    BY <2>2 DEF Staged, Place
  <2>4. JournalOK(p)' /\ CarriedOK(p)'
    BY <1>1, <1>4, <1>5, <1>7, <2>1, <2>3 DEF JournalOK, CarriedOK, Journalled, journals
  <2>5. FilesOK(p)'
    BY <1>1, <1>3, <1>4, <1>5, <1>7, <2>1, <2>2, <2>4, StagedOK DEF AfterWrite, Clean, journals
  <2>6. quarantine' = [q \in Runs |-> quarantine'[q]]
    BY <1>1 DEF FileInv, FilesShaped
  <2> QED
    BY <1>1, <1>2, <1>7, <2>2, <2>5, <2>6, OwnMoves DEF Staged
<1>8. tmp = [q \in Runs |-> tmp[q]] /\ tmp[p] # Stranger /\ NoFile # Stranger
  BY DEF FileInv, FilesShaped, StrangerOK, NoFile, Stranger
<1>9. CASE LinkNew(p)
  <2>1. CASE def # NoFile
    BY <1>6, <1>9, <2>1 DEF LinkNew
  <2>2. CASE def = NoFile
    <3>1. /\ def' = tmp[p] /\ UNCHANGED tmp
          /\ run' = Writing(p, Phase(p, "new-linked"), "unlink-temp")
      BY <1>9, <2>2 DEF LinkNew
    <3>2. OnDisk(Stranger)' => OnDisk(Stranger)
      BY <1>1, <1>8, <3>1 DEF OnDisk
    <3>3. run[p].pc = "link-new"
      BY <1>9 DEF LinkNew
    <3> QED
      BY <1>4, <1>7, <1>8, <3>1, <3>2, <3>3
  <2> QED
    BY <2>1, <2>2
<1>10. CASE UnlinkTemporary(p)
  <2>1. CASE def.id # tmp[p].id
    BY <1>6, <1>10, <2>1 DEF UnlinkTemporary
  <2>2. CASE def.id = tmp[p].id
    <3>1. /\ UNCHANGED def /\ tmp' = [tmp EXCEPT ![p] = NoFile] /\ run[p].pc = "unlink-temp"
          /\ run' = Writing(p, Phase(p, "temporary-unlinked"), "drop-old")
      BY <1>10, <2>2 DEF UnlinkTemporary
    <3>2. OnDisk(Stranger)' => OnDisk(Stranger)
      BY <1>1, <3>1 DEF OnDisk
    <3>3. /\ tmp' = [q \in Runs |-> tmp'[q]] /\ tmp'[p] = NoFile
          /\ \A q \in Runs \ {p} : tmp'[q] = tmp[q]
      BY <1>8, <3>1
    <3> QED
      BY <1>3, <1>7, <1>8, <3>1, <3>2, <3>3
  <2> QED
    BY <2>1, <2>2
<1> QED
  BY <1>9, <1>10

\* What is not needed any more goes, and the transaction is over.
LEMMA FilesDropOwn ==
    ASSUME FileInv, LockInv', NEW p \in Runs, DropOld(p) \/ UndoDrop(p) \/ DropOwnTemporary(p)
    PROVE  FileInv'
<1>1. /\ run[p].pc \in {"drop-old", "undo-drop", "drop-temp"}
      /\ UNCHANGED <<lock, journals, def, allowed, edited>>
      /\ tmp' \in {tmp, [tmp EXCEPT ![p] = NoFile]}
      /\ quarantine' \in {quarantine, [quarantine EXCEPT ![p] = NoFile]}
      /\ run[p].pc = "drop-old" => quarantine' = [quarantine EXCEPT ![p] = NoFile]
  BY DEF DropOld, UndoDrop, DropOwnTemporary, locks, history
<1>2. Holds(p) /\ run[p].pc \notin {"stage", "commit", "recover"} /\ ~MayDrift(p)
  BY <1>1 DEF Holds, Unlocked, MayDrift
<1>3. /\ Shaped /\ journalTmp[p] = NoJournal /\ journal.tx \in {0, p}
      /\ DOMAIN run[p].pending = JournalFields /\ def.body \in allowed
  BY <1>2, HolderKnows
<1>4. /\ tmp' = [q \in Runs |-> tmp'[q]] /\ quarantine' = [q \in Runs |-> quarantine'[q]]
      /\ tmp'[p] \in {tmp[p], NoFile} /\ quarantine'[p] \in {quarantine[p], NoFile}
      /\ run[p].pc = "drop-old" => quarantine'[p] = NoFile
      /\ quarantine'[p] = NoFile \/ quarantine' = quarantine
      /\ \A q \in Runs \ {p} : tmp'[q] = tmp[q] /\ quarantine'[q] = quarantine[q]
  BY <1>1 DEF FileInv, FilesShaped
<1>5. /\ At(p, run'[p]) /\ run'[p].pending = run[p].pending
      /\ run'[p].pc \in {"bootstrap", "rebootstrap", "drop-temp", "rollback", "release"}
      /\ run'[p].pc = "bootstrap" => quarantine'[p] = NoFile
      /\ run'[p].pc = "rollback" => ~Published(p)'
  <2>1. CASE DropOld(p)
    <3>1. CASE run' = [run EXCEPT ![p].pc = "rebootstrap"]
      <4>1. Went(p, "rebootstrap")
        BY <1>3, <3>1, GotoWent DEF Goto
      <4> QED
        BY <4>1 DEF Went
    <3>2. CASE run' = [run EXCEPT ![p].pc = "bootstrap", ![p].published = NewId(p)]
      <4>1. At(p, run'[p]) /\ run'[p].pending = run[p].pending /\ run'[p].pc = "bootstrap"
        BY <1>3, <3>2 DEF At, Shaped, Fields
      <4> QED
        BY <1>4, <2>1, <4>1 DEF DropOld
    <3> QED
      BY <2>1, <3>1, <3>2 DEF DropOld
  <2>2. CASE UndoDrop(p)
    BY <1>3, <2>2, GotoWent DEF UndoDrop, Went
  <2>3. CASE DropOwnTemporary(p)
    <3>1. run[p].pc = "drop-temp" /\ run' = Undone(p)
      BY <2>3 DEF DropOwnTemporary
    <3>2. Went(p, "release") \/ (Went(p, "rollback") /\ ~Published(p))
      BY <1>3, <3>1, UndoneWent
    <3> QED
      BY <3>2 DEF Went, Same, Published
  <2> QED
    BY <2>1, <2>2, <2>3
<1>6. FilesOK(p)'
  <2>1. run'[p].pc \in Plain /\ (run'[p].pc \in Clean => run'[p].pc = "bootstrap")
    BY <1>5 DEF Plain, Clean
  <2> QED
    BY <1>1, <1>3, <1>5, <2>1, PlainOK DEF journals
<1>7. tmp'[p] # Stranger /\ (OnDisk(Stranger)' => OnDisk(Stranger))
  <2>1. NoFile # Stranger
    BY DEF NoFile, Stranger
  <2> QED
    BY <1>1, <1>4, <2>1 DEF FileInv, StrangerOK, OnDisk
<1> QED
  BY <1>1, <1>2, <1>3, <1>4, <1>5, <1>6, <1>7, OwnMoves

LEMMA FilesPublish ==
    ASSUME FileInv, LockInv', NEW p \in Runs, Publish(p)
    PROVE  FileInv'
BY FilesIntend, FilesWriteTemporary, FilesMoveOld, FilesRenameOld, FilesPutBack, FilesLinkNew,
   FilesDropOwn DEF Publish

-----------------------------------------------------------------------------
\* Removal.

LEMMA FilesWithdraw ==
    ASSUME FileInv, LockInv', NEW p \in Runs, Withdraw(p)
    PROVE  FileInv'
<1>1. /\ run[p].pc \in {"remove", "rename-away", "destroy", "removed"}
      /\ UNCHANGED <<lock, journals, tmp, edited>>
  BY DEF Withdraw, BeginRemoval, RenameAway, Destroy, Removed, locks, files, history
<1>2. Holds(p) /\ run[p].pc \notin {"stage", "commit", "recover"} /\ ~MayDrift(p)
  BY <1>1 DEF Holds, Unlocked, MayDrift
<1>3. /\ Shaped /\ journalTmp[p] = NoJournal /\ journal.tx \in {0, p}
      /\ DOMAIN run[p].pending = JournalFields /\ def.body \in allowed
      /\ JournalOK(p) /\ CarriedOK(p) /\ Place(p) = run[p].pc
      /\ run[p].pc \in Clean => quarantine[p] = NoFile
  BY <1>2, HolderKnows
<1>4. /\ tmp' = [q \in Runs |-> tmp'[q]] /\ tmp'[p] # Stranger /\ NoFile # Stranger
      /\ quarantine = [q \in Runs |-> quarantine[q]]
  BY <1>1 DEF FileInv, FilesShaped, StrangerOK, NoFile, Stranger
<1>5. ASSUME NEW pc \in {"removed", "retire", "rebootstrap"}, Went(p, pc),
             UNCHANGED <<files, allowed>>
      PROVE  FileInv'
  <2>1. run'[p].pc \in Plain /\ run'[p].pc \notin Clean \cup {"rollback"}
    BY <1>5 DEF Went, Plain, Clean
  <2> QED
    BY <1>1, <1>2, <1>5, <2>1, PlainStep DEF Went
<1>6. ASSUME run' = Undone(p), run[p].pc # "bootstrap", UNCHANGED <<files, allowed>>
      PROVE  FileInv'
  <2>1. Went(p, "release") \/ (Went(p, "rollback") /\ ~Published(p))
    BY <1>3, <1>6, UndoneWent
  <2>2. /\ At(p, run'[p]) /\ run'[p].pc \in Plain /\ run'[p].pc \notin Clean
        /\ run'[p].pending = run[p].pending /\ (run'[p].pc = "rollback" => ~Published(p)')
    BY <2>1 DEF Went, Same, Published, Plain, Clean
  <2> QED
    BY <1>1, <1>2, <1>6, <2>2, PlainStep
<1>7. CASE BeginRemoval(p)
  <2> DEFINE j == [tx |-> p, op |-> "remove", phase |-> "prepared", original |-> def.id,
                   replacement |-> NoFile.id, expected |-> "none"]
  <2>1. CASE Goto(p, "removed") /\ UNCHANGED allowed
    BY <1>3, <1>5, <1>7, <2>1, GotoWent DEF BeginRemoval
  <2>2. CASE run' = Undone(p) /\ UNCHANGED allowed
    BY <1>6, <1>7, <2>2 DEF BeginRemoval
  <2>3. CASE /\ run' = [Writing(p, j, "rename-away") EXCEPT ![p].source = def.id]
             /\ allowed' = {def.body, "none"}
    <3>1. DOMAIN j = JournalFields /\ j.tx = p /\ j.original = def.id /\ ~Moving(j, p)
      BY DEF JournalFields, Moving
    <3>2. run' = [Writing(p, j, "rename-away") EXCEPT ![p].source = def.id]
      BY <2>3
    <3> HIDE DEF j
    <3>3. Staged(p, j, "rename-away", def.id)
      BY <1>3, <3>2, SourceStaged
    <3>4. /\ Place(p)' = "rename-away" /\ run'[p].pc = "stage" /\ run'[p].source = def.id
          /\ run'[p].pending = j
      BY <3>3 DEF Staged, Place
    <3>5. run[p].pc = "remove" /\ UNCHANGED files /\ quarantine[p] = NoFile
      BY <1>3, <1>7 DEF BeginRemoval, Clean
    <3>6. JournalOK(p)' /\ CarriedOK(p)'
      BY <2>3, <3>1, <3>4 DEF JournalOK, CarriedOK, Journalled
    <3>7. FilesOK(p)'
      BY <1>1, <1>3, <2>3, <3>1, <3>3, <3>5, <3>6, StagedOK DEF AfterWrite, journals, files
    <3>8. OnDisk(Stranger)' => OnDisk(Stranger)
      BY <3>5 DEF OnDisk, files
    <3> QED
      BY <1>1, <1>2, <1>4, <2>3, <3>3, <3>5, <3>7, <3>8, OwnMoves DEF Staged, files
  <2> QED
    BY <1>7, <2>1, <2>2, <2>3 DEF BeginRemoval
<1>8. CASE RenameAway(p)
  <2>1. run[p].pc = "rename-away" /\ UNCHANGED allowed
    BY <1>8 DEF RenameAway, history
  <2>2. CASE def = NoFile
    BY <1>1, <1>6, <1>8, <2>1, <2>2 DEF RenameAway, files
  <2>3. CASE def # NoFile
    <3>1. /\ quarantine' = [quarantine EXCEPT ![p] = def] /\ def' = NoFile
          /\ run' = IF def.id = run[p].source
                    THEN Writing(p, Phase(p, "removal-quarantined"), "destroy")
                    ELSE [run EXCEPT ![p].pc = "put-back"]
      BY <1>8, <2>3 DEF RenameAway
    <3>2. /\ quarantine' = [q \in Runs |-> quarantine'[q]]
          /\ quarantine'[p] = def /\ \A q \in Runs \ {p} : quarantine'[q] = quarantine[q]
      BY <1>4, <3>1
    <3>3. /\ "none" \in allowed /\ run[p].pending.tx = p /\ run[p].pending.original = run[p].source
          /\ journal.tx = p /\ journal.original = run[p].source
      BY <1>3, <2>1 DEF JournalOK, Journalled
    <3>4. def'.body \in allowed'
      BY <2>1, <3>1, <3>3, NoFileShape
    <3>5. At(p, run'[p]) /\ FilesOK(p)'
      <4>1. CASE def.id = run[p].source
        <5> DEFINE j == Phase(p, "removal-quarantined")
        <5>1. DOMAIN j = JournalFields /\ j.tx = p /\ j.original = run[p].source
          BY <1>3, <3>3 DEF JournalFields, Phase
        <5> HIDE DEF j
        <5>2. Staged(p, j, "destroy", run[p].source)
          BY <1>3, <3>1, <4>1, WritingStaged DEF j
        <5>3. /\ Place(p)' = "destroy" /\ run'[p].pc = "stage" /\ run'[p].source = run[p].source
              /\ run'[p].pending = j
          BY <5>2 DEF Staged, Place
        <5>4. JournalOK(p)' /\ CarriedOK(p)'
          BY <1>1, <3>2, <3>3, <4>1, <5>1, <5>3 DEF JournalOK, CarriedOK, Journalled, journals
        <5>5. FilesOK(p)'
          BY <1>1, <1>3, <2>1, <3>2, <3>3, <3>4, <5>1, <5>2, <5>4, StagedOK
             DEF AfterWrite, Clean, journals
        <5> QED
          BY <5>2, <5>5 DEF Staged
      <4>2. CASE def.id # run[p].source
        <5>1. Went(p, "put-back")
          BY <1>3, <3>1, <4>2, GotoWent DEF Goto
        <5>2. Place(p)' = "put-back" /\ run'[p].pc = "put-back" /\ run'[p].pending = run[p].pending
          BY <5>1 DEF Went, Place
        <5>3. JournalOK(p)' /\ CarriedOK(p)'
          BY <1>3, <2>1, <3>2, <5>2 DEF JournalOK, CarriedOK, Journalled
        <5>4. FilesOK(p)'
          BY <1>1, <1>3, <5>2, <5>3, CarryingOK DEF journals
        <5> QED
          BY <5>1, <5>4 DEF Went
      <4> QED
        BY <4>1, <4>2
    <3>6. OnDisk(Stranger)' => OnDisk(Stranger)
      BY <1>4, <3>1, <3>2 DEF OnDisk
    <3> QED
      BY <1>1, <1>2, <1>3, <1>4, <2>1, <3>2, <3>4, <3>5, <3>6, OwnMoves
  <2> QED
    BY <2>2, <2>3
<1>9. CASE Destroy(p)
  <2> DEFINE j == Phase(p, "removal-cleaned")
  <2>1. /\ run[p].pc = "destroy" /\ quarantine' = [quarantine EXCEPT ![p] = NoFile]
        /\ run' = Writing(p, j, "removed") /\ UNCHANGED <<def, allowed>>
    BY <1>9 DEF Destroy, history
  <2>2. run[p].pending.tx = p /\ journal.tx = p
    BY <1>3, <2>1 DEF JournalOK, Journalled
  <2>3. DOMAIN j = JournalFields /\ j.tx = p
    BY <1>3, <2>2 DEF JournalFields, Phase
  <2> HIDE DEF j
  <2>4. Staged(p, j, "removed", run[p].source)
    BY <1>3, <2>1, WritingStaged
  <2>5. Place(p)' = "removed" /\ run'[p].pc = "stage"
    BY <2>4 DEF Staged, Place
  <2>6. /\ quarantine' = [q \in Runs |-> quarantine'[q]]
        /\ quarantine'[p] = NoFile /\ \A q \in Runs \ {p} : quarantine'[q] = quarantine[q]
    BY <1>4, <2>1
  <2>7. JournalOK(p)' /\ CarriedOK(p)'
    BY <2>5 DEF JournalOK, CarriedOK, Journalled
  <2>8. FilesOK(p)'
    BY <1>1, <1>3, <2>1, <2>2, <2>3, <2>4, <2>6, <2>7, StagedOK DEF AfterWrite, journals
  <2>9. OnDisk(Stranger)' => OnDisk(Stranger)
    BY <1>4, <2>1, <2>6 DEF OnDisk
  <2> QED
    BY <1>1, <1>2, <1>3, <1>4, <2>1, <2>4, <2>6, <2>8, <2>9, OwnMoves DEF Staged
<1>10. CASE Removed(p)
  <2>1. \E pc \in {"retire", "rebootstrap"} : Goto(p, pc)
    BY <1>10 DEF Removed
  <2> QED
    BY <1>3, <1>5, <1>10, <2>1, GotoWent DEF Removed, history
<1> QED
  BY <1>7, <1>8, <1>9, <1>10 DEF Withdraw

-----------------------------------------------------------------------------
\* The end of an operation, and the environment.

LEMMA FilesRelease ==
    ASSUME FileInv, LockInv', NEW p \in Runs, Release(p)
    PROVE  FileInv'
<1>1. /\ run[p].pc \in {"release", "release-claim", "unlock"}
      /\ UNCHANGED <<journalTmp, files, allowed, edited>>
  BY DEF Release, ReleaseJournal, ReleaseClaim, Unlock, journals, history
<1>2. Holds(p) /\ run[p].pc \notin {"stage", "commit", "recover"} /\ ~MayDrift(p)
  BY <1>1 DEF Holds, Unlocked, MayDrift
<1>3. /\ Shaped /\ journalTmp[p] = NoJournal /\ journal.tx \in {0, p} /\ p # 0
      /\ DOMAIN run[p].pending = JournalFields /\ def.body \in allowed
  BY <1>2, HolderKnows
<1>4. CASE ReleaseJournal(p)
  <2>1. UNCHANGED lock /\ Went(p, "release-claim") /\ journal' \in {journal, NoJournal}
        /\ journal'.tx # p
    BY <1>3, <1>4, GotoWent, NoJournalShape DEF ReleaseJournal, locks
  <2>2. journal'.tx = 0 /\ \A t \in Runs : ~Moving(journalTmp[t], t) /\ ~Moving(journal', t)
    BY <1>3, <2>1, NoJournalShape DEF FileInv, JournalsOK, Moving
  <2>3. JournalsOK' /\ FilesShaped' /\ StrangerOK'
    BY <1>1, <2>1, <2>2, NoJournalShape DEF FileInv, JournalsOK, FilesShaped, StrangerOK, OnDisk, files
  <2>4. run'[p].pc \in Plain /\ run'[p].pc \notin Clean \cup {"rollback"}
        /\ run'[p].pending = run[p].pending
    BY <2>1 DEF Went, Plain, Clean
  <2>5. FilesOK(p)'
    BY <1>1, <1>3, <2>2, <2>4, PlainOK DEF files
  <2> QED
    BY <1>1, <1>2, <1>3, <2>1, <2>2, <2>3, <2>5, HolderMoves, RunsAssumption DEF Went, files
<1>5. CASE ReleaseClaim(p)
  <2>1. UNCHANGED <<lock, journals>> /\ Went(p, "unlock")
    BY <1>3, <1>5, GotoWent DEF ReleaseClaim
  <2>2. run'[p].pc \in Plain /\ run'[p].pc \notin Clean \cup {"rollback"}
    BY <2>1 DEF Went, Plain, Clean
  <2> QED
    BY <1>1, <1>2, <2>1, <2>2, PlainStep DEF Went
<1>6. CASE Unlock(p)
  <2>1. Stopped(p) /\ UNCHANGED journals
    BY <1>3, <1>6, EndedStopped DEF Unlock
  <2>2. FilesOK(p)'
    BY <2>1, StoppedOK
  <2> QED
    BY <1>1, <1>2, <1>3, <2>1, <2>2, HolderGoes DEF Stopped
<1> QED
  BY <1>4, <1>5, <1>6 DEF Release

\* A crash leaves the files as they are, or a new one empty.
LEMMA FilesCrash ==
    ASSUME FileInv, LockInv', NEW p \in Runs, Crash(p)
    PROVE  FileInv'
<1> DEFINE t == run[p].pending.tx
<1>1. /\ ~Dead(p) /\ run[p].pc # "idle" /\ run' = Killed(p)
      /\ UNCHANGED <<lock, journal, def, quarantine, allowed, edited>>
      /\ \/ journalTmp' = journalTmp
         \/ run[p].pc = "stage" /\ journalTmp' = [journalTmp EXCEPT ![t] = Torn]
      /\ \/ tmp' = tmp
         \/ run[p].pc = "write-temp" /\ tmp' = [tmp EXCEPT ![p] = [id |-> NewId(p), body |-> "torn"]]
  BY DEF Crash, Alive, Dead, locks, history
<1>2. Shaped /\ FilesOK(p)
  BY DEF FileInv, LockInv
<1>3. Stopped(p)
  BY <1>1, <1>2, EndedStopped
<1>4. FilesOK(p)'
  BY <1>3, StoppedOK
<1>5. CASE run[p].pc \in Unlocked
  <2>1. UNCHANGED <<journals, files>>
    BY <1>1, <1>5 DEF Unlocked, journals, files
  <2>2. run'[p].pc \in (Unlocked \ {"idle"}) \cup {"recover"}
    BY <1>3 DEF Stopped, Unlocked
  <2> QED
    BY <1>1, <1>3, <1>5, <2>1, <2>2, OutsideMoves DEF Stopped
<1>6. CASE run[p].pc \notin Unlocked
  <2>1. Holds(p)
    BY <1>6 DEF Holds
  <2>2. /\ run[p].pc = "stage" => t \in Runs /\ t \in {p, journal.tx}
    BY <1>2 DEF FilesOK, WriteOK
  <2> HIDE DEF t
  <2>3. /\ journalTmp' = [q \in Runs |-> journalTmp'[q]]
        /\ \A q \in Runs : \/ journalTmp'[q] = journalTmp[q]
                           \/ journalTmp'[q] = Torn /\ q \in {p, journal.tx}
    BY <1>1, <2>2 DEF FileInv, FilesShaped
  <2>4. /\ tmp' = [q \in Runs |-> tmp'[q]]
        /\ \A q \in Runs : tmp'[q] # Stranger
    <3>1. [id |-> NewId(p), body |-> "torn"] # Stranger
      BY DEF Stranger
    <3> QED
      BY <1>1, <3>1 DEF FileInv, FilesShaped, StrangerOK
  <2>5. FilesShaped' /\ StrangerOK'
    BY <1>1, <2>3, <2>4, NoJournalShape DEF FileInv, FilesShaped, StrangerOK, OnDisk
  <2>6. JournalsOK'
    BY <1>1, <2>3, NoJournalShape DEF FileInv, JournalsOK
  <2>7. def'.body \in allowed' \/ Adrift'
    BY <1>1, <2>3 DEF FileInv, SettledOK, Adrift
  <2>8. ASSUME NEW q \in Runs \ {p}
        PROVE  /\ quarantine'[q] \in {quarantine[q], NoFile}
               /\ ~Dead(q) => journalTmp'[q] = journalTmp[q] /\ (journal'.tx = q => journal.tx = q)
    <3>1. ~Holds(q) /\ FilesOK(q)
      BY <2>1 DEF FileInv, LockInv, RunOK, LockOK
    <3>2. ~Dead(q) => journal.tx # q
      BY <3>1 DEF FilesOK, OwnOK, Holds, Unlocked, Place
    <3> QED
      BY <1>1, <2>3, <3>2
  <2> QED
    BY <1>1, <1>3, <1>4, <2>1, <2>5, <2>6, <2>7, <2>8, HolderMoves DEF Stopped
<1> QED
  BY <1>5, <1>6

\* An edit is allowed wherever it comes.
LEMMA FilesEdit ==
    ASSUME FileInv, LockInv', NEW file, Edit(file)
    PROVE  FileInv'
<1>1. /\ ~edited /\ edited' /\ def' = file /\ allowed' = allowed \cup {file.body}
      /\ UNCHANGED <<lock, journal, journalTmp, tmp, quarantine, run>>
  BY DEF Edit, locks, journals
<1>2. FilesShaped' /\ SettledOK' /\ JournalsOK' /\ StrangerOK'
  <2>1. FilesShaped' /\ StrangerOK'
    BY <1>1 DEF FileInv, FilesShaped, StrangerOK, OnDisk
  <2>2. SettledOK'
    BY <1>1 DEF SettledOK
  <2>3. JournalsOK'
    BY <1>1 DEF FileInv, JournalsOK
  <2> QED
    BY <2>1, <2>2, <2>3
<1>3. ASSUME NEW q \in Runs
      PROVE  FilesOK(q)'
  <2>1. run'[q] = run[q] /\ FilesOK(q) /\ quarantine[q] # Stranger
    BY <1>1 DEF FileInv, StrangerOK, OnDisk
  <2>2. Place(q)' = Place(q) /\ Holds(q)' = Holds(q) /\ Dead(q)' = Dead(q)
        /\ Journalled(q)' = Journalled(q) /\ Published(q)' = Published(q)
    BY <2>1 DEF Place, Holds, Dead, Journalled, Published
  <2>3. SettledFor(q)' /\ OwnOK(q)'
    BY <1>1, <2>1, <2>2 DEF FilesOK, SettledFor, OwnOK
  <2>4. WriteOK(q)' /\ JournalOK(q)' /\ CarriedOK(q)'
    BY <1>1, <2>1, <2>2 DEF FilesOK, WriteOK, JournalOK, CarriedOK, Moving
  <2> QED
    BY <2>3, <2>4 DEF FilesOK
<1> QED
  BY <1>2, <1>3 DEF FileInv

-----------------------------------------------------------------------------
LEMMA FileInvInit == Init => FileInv
<1> SUFFICES ASSUME Init
             PROVE  FileInv
  OBVIOUS
<1>1. LockInv
  BY LockInvInit
<1>2. /\ journal = NoJournal /\ journalTmp = [q \in Runs |-> NoJournal]
      /\ tmp = [q \in Runs |-> NoFile] /\ quarantine = [q \in Runs |-> NoFile]
      /\ run = [q \in Runs |-> Idle] /\ def \in {NoFile, OldFile} /\ allowed = {def.body}
  BY DEF Init
<1>3. NoFile # Stranger /\ OldFile # Stranger
  BY DEF NoFile, OldFile, Stranger
<1>4. FilesShaped /\ SettledOK /\ JournalsOK /\ StrangerOK
  BY <1>2, <1>3, NoJournalShape DEF FilesShaped, SettledOK, JournalsOK, StrangerOK, OnDisk
<1>5. ASSUME NEW p \in Runs
      PROVE  FilesOK(p)
  <2>1. run[p].pc = "idle" /\ Place(p) = "idle" /\ ~Holds(p) /\ run[p].pending = NoJournal /\ p # 0
    BY <1>2, RunsAssumption DEF Idle, Place, Holds, Unlocked
  <2>2. SettledFor(p) /\ OwnOK(p) /\ WriteOK(p)
    BY <1>2, <2>1, NoJournalShape DEF SettledFor, OwnOK, WriteOK
  <2>3. JournalOK(p) /\ CarriedOK(p)
    BY <2>1 DEF JournalOK, CarriedOK, Journalled
  <2> QED
    BY <2>2, <2>3 DEF FilesOK
<1> QED
  BY <1>1, <1>4, <1>5 DEF FileInv

LEMMA FileInvStep == FileInv /\ [Next]_vars => FileInv'
<1> SUFFICES ASSUME FileInv, [Next]_vars
             PROVE  FileInv'
  OBVIOUS
<1>1. LockInv'
  BY LockInvStep DEF FileInv
<1>2. CASE UNCHANGED vars
  <2>1. UNCHANGED <<lock, journal, journalTmp, def, tmp, quarantine, run, allowed, edited>>
    BY <1>2 DEF vars, locks, journals, files, history
  <2>2. FilesShaped' /\ SettledOK' /\ JournalsOK' /\ StrangerOK'
    BY <2>1 DEF FileInv, FilesShaped, SettledOK, Adrift, JournalsOK, StrangerOK, OnDisk
  <2>3. ASSUME NEW q \in Runs
        PROVE  FilesOK(q)'
    <3>1. run'[q] = run[q] /\ FilesOK(q)
      BY <2>1 DEF FileInv
    <3>2. Place(q)' = Place(q) /\ Holds(q)' = Holds(q) /\ Dead(q)' = Dead(q) /\ MayDrift(q)' = MayDrift(q)
          /\ Journalled(q)' = Journalled(q) /\ Published(q)' = Published(q)
      BY <3>1 DEF Place, Holds, Dead, MayDrift, Journalled, Published
    <3>3. SettledFor(q)' /\ OwnOK(q)'
      BY <2>1, <3>1, <3>2 DEF FilesOK, SettledFor, OwnOK
    <3>4. WriteOK(q)' /\ JournalOK(q)' /\ CarriedOK(q)'
      BY <2>1, <3>1, <3>2 DEF FilesOK, WriteOK, JournalOK, CarriedOK, Moving
    <3> QED
      BY <3>3, <3>4 DEF FilesOK
  <2> QED
    BY <1>1, <2>2, <2>3 DEF FileInv
<1>3. ASSUME NEW p \in Runs, Operate(p)
      PROVE  FileInv'
  BY <1>1, <1>3, FilesStage, FilesCommit, FilesCommand DEF Operate, Command
<1>4. ASSUME NEW p \in Runs,
             \/ \E op \in Ops[p] : Start(p, op)
             \/ Acquire(p) \/ Recover(p) \/ Publish(p) \/ Withdraw(p) \/ Release(p)
             \/ CommandFails(p) \/ Crash(p)
      PROVE  FileInv'
  BY <1>1, <1>4, FilesStart, FilesAcquire, FilesRecover, FilesPublish, FilesWithdraw, FilesRelease,
     FilesCommand, FilesCrash
<1>5. ASSUME NEW file, Edit(file)
      PROVE  FileInv'
  BY <1>1, <1>5, FilesEdit
<1> QED
  BY <1>2, <1>3, <1>4, <1>5 DEF Next

\* Wherever a run is killed, the journal, its temporary and the quarantine together still say
\* what the definition was: it is allowed, or it is in the quarantine the journal names.
THEOREM FileInvHolds == Spec => []FileInv
BY FileInvInit, FileInvStep, PTL DEF Spec

\* Once the lock is free, and once the next operation starts to work, the definition is one the
\* last operation read or published, wherever that one was killed and however often its
\* recovery was.
THEOREM DefinitionSurvivesHolds == Spec => []DefinitionSurvives
<1>1. ASSUME FileInv
      PROVE  DefinitionSurvives
  <2>1. ASSUME NEW p \in Runs, run[p].pc = "legacy-bootout"
        PROVE  def.body \in allowed
    BY <1>1, <2>1 DEF FileInv, FilesOK, SettledFor, Holds, Unlocked, MayDrift
  <2> QED
    BY <1>1, <2>1 DEF DefinitionSurvives, FileInv, SettledOK
<1> QED
  BY <1>1, FileInvHolds, PTL

\* What an operation deletes from its quarantine, it had read.
LEMMA StrangerStays ==
    ASSUME FileInv, NEW p \in Runs,
           Recover(p) \/ Operate(p) \/ Publish(p) \/ Withdraw(p),
           OnDisk(Stranger), ~OnDisk(Stranger)'
    PROVE  journal.original = Stranger.id
<1>1. NoFile # Stranger /\ (def = Stranger \/ \E q \in Runs : quarantine[q] = Stranger)
  BY DEF NoFile, Stranger, OnDisk
<1>2. def' # Stranger /\ \A q \in Runs : quarantine'[q] # Stranger
  BY DEF OnDisk
<1>3. ~(def' = def /\ quarantine' = quarantine)
  BY <1>1, <1>2
<1>4. ~Operate(p)
  BY <1>3 DEF Operate, StageJournal, CommitJournal, BootOutLegacy, Sweep, Probe, Restart, BootOut,
              Bootstrap, BootstrapImpossible, Rollback, Rebootstrap, RetireLegacy, DropRetired, files
<1>5. quarantine = [q \in Runs |-> quarantine[q]]
  BY DEF FileInv, FilesShaped
<1>6. ~(def = NoFile /\ quarantine' = quarantine)
  BY <1>1, <1>2
<1>7. CASE Recover(p)
  <2>1. DropQuarantine(p)
    BY <1>3, <1>6, <1>7 DEF Recover, RecoveryRefused, ReconcileJournal, AdoptTemporary, RestoreLink,
                            DropTemporary, CloseTransaction, EnterBody, files
  <2>2. /\ ~Unrecoverable /\ Reconciled /\ Quarantined # NoFile /\ def' = def
        /\ journal.op = "remove" \/ Late
        /\ quarantine' = [quarantine EXCEPT ![journal.tx] = NoFile]
    BY <2>1 DEF DropQuarantine
  <2>3. Quarantined.id = journal.original
    BY <2>2 DEF Unrecoverable
  <2>4. Quarantined = Stranger
    BY <1>1, <1>2, <1>5, <2>2 DEF Quarantined
  <2> QED
    BY <2>3, <2>4
<1>8. ASSUME run[p].pc \in {"drop-old", "undo-drop", "destroy"}, def' = def,
             quarantine' = [quarantine EXCEPT ![p] = NoFile]
      PROVE  journal.original = Stranger.id
  <2>1. quarantine[p] = Stranger /\ def # Stranger
    BY <1>1, <1>2, <1>5, <1>8
  <2>2. Holds(p) /\ run[p].pc \notin {"stage", "commit", "recover"}
    BY <1>8 DEF Holds, Unlocked
  <2>3. JournalOK(p) /\ CarriedOK(p) /\ Place(p) = run[p].pc
    BY <2>2, HolderKnows
  <2>4. CASE run[p].pc = "undo-drop"
    BY <2>1, <2>3, <2>4 DEF CarriedOK
  <2>5. CASE run[p].pc \in {"drop-old", "destroy"}
    BY <1>1, <2>1, <2>3, <2>5 DEF CarriedOK, JournalOK, Journalled
  <2> QED
    BY <1>8, <2>4, <2>5
<1>9. ASSUME run[p].pc \in {"rename-old", "rename-away"}, quarantine' = [quarantine EXCEPT ![p] = def]
      PROVE  FALSE
  <2>1. Holds(p) /\ run[p].pc \notin {"stage", "commit", "recover"} /\ run[p].pc \in Clean
    BY <1>9 DEF Holds, Unlocked, Clean
  <2>2. quarantine[p] = NoFile
    BY <2>1, HolderKnows
  <2>3. /\ quarantine'[p] = def /\ \A q \in Runs \ {p} : quarantine'[q] = quarantine[q]
    BY <1>5, <1>9
  <2> QED
    BY <1>1, <1>2, <2>2, <2>3
<1>10. CASE Publish(p)
  <2>1. CASE RenameOld(p)
    BY <1>3, <1>9, <2>1 DEF RenameOld
  <2>2. CASE DropOld(p) \/ UndoDrop(p)
    BY <1>8, <2>2 DEF DropOld, UndoDrop
  <2> QED
    BY <1>3, <1>6, <1>10, <2>1, <2>2
       DEF Publish, Intend, WriteTemporary, MoveOld, PutBack, LinkNew, UnlinkTemporary, UndoLink,
           DropOwnTemporary, files
<1>11. CASE Withdraw(p)
  <2>1. CASE RenameAway(p)
    BY <1>3, <1>9, <2>1 DEF RenameAway
  <2>2. CASE Destroy(p)
    BY <1>8, <2>2 DEF Destroy
  <2> QED
    BY <1>3, <1>11, <2>1, <2>2 DEF Withdraw, BeginRemoval, Removed, files
<1> QED
  BY <1>4, <1>7, <1>10, <1>11

\* A definition that somebody else wrote is only deleted by an operation, or the recovery of one,
\* that had read it: whatever it moves aside without having read it, it puts back or leaves.
THEOREM StrangerSurvivesHolds == Spec => StrangerSurvives
<1> DEFINE Step == OnDisk(Stranger) /\ ~OnDisk(Stranger)' /\ edited' = edited /\ mishaps' = mishaps
                   => journal.original = Stranger.id
<1>1. ASSUME FileInv, [Next]_vars
      PROVE  Step
  <2>1. CASE UNCHANGED <<def, quarantine>>
    BY <2>1 DEF OnDisk
  <2>2. CASE UNCHANGED vars
    BY <2>1, <2>2 DEF vars, files
  <2>3. ASSUME NEW p \in Runs,
               \/ \E op \in Ops[p] : Start(p, op)
               \/ Acquire(p) \/ Release(p) \/ CommandFails(p) \/ Crash(p)
        PROVE  Step
    <3>1. UNCHANGED <<def, quarantine>>
      BY <2>3 DEF Start, Acquire, ProbeLegacy, WriteCandidate, LinkLock, DropCandidate,
                  InspectOwner, UnlinkCompanion, Claim, LinkClaim, ConfirmClaim, ContestClaim,
                  ReplaceLock, Release, ReleaseJournal, ReleaseClaim, Unlock, CommandFails, Crash,
                  files
    <3> QED
      BY <2>1, <3>1
  <2>4. ASSUME NEW p \in Runs, Recover(p) \/ Operate(p) \/ Publish(p) \/ Withdraw(p)
        PROVE  Step
    BY <1>1, <2>4, StrangerStays
  <2>5. ASSUME NEW file, Edit(file)
        PROVE  Step
    BY <2>5 DEF Edit
  <2> QED
    BY <1>1, <2>2, <2>3, <2>4, <2>5 DEF Next
<1>2. Spec => [][Step]_vars
  BY <1>1, FileInvHolds, PTL DEF Spec
<1> QED
  BY <1>2 DEF StrangerSurvives

-----------------------------------------------------------------------------
\* The rollback of an install.

\* Before its probe a run is fresh.
Unprobed == Unlocked \cup {"recover", "legacy-bootout", "sweep", "probe"}

\* Where there is no service: it was down when the run looked, or the run stopped it.
Stopping == {"bootstrap", "rollback", "rebootstrap", "intend", "write-temp", "move-old",
             "rename-old", "put-back", "link-new", "unlink-temp", "drop-old", "undo", "undo-drop",
             "drop-temp", "remove", "rename-away", "destroy", "removed"}

Publishing == {"intend", "write-temp", "move-old", "rename-old", "link-new", "unlink-temp", "drop-old"}

\* Nobody but the run changes the definition it found, so its first publication never has
\* to be undone, and what it publishes second, if it publishes twice, is what it found.
InstallOK(p) ==
    /\ Place(p) \in {"restart", "bootout"} =>
         def = run[p].existing /\ ~Published(p) /\ (run[p].loaded => service # "none")
    /\ Place(p) \in Stopping => (run[p].loaded => run[p].bootedOut)
    /\ ~Published(p) =>
         /\ Place(p) \in {"bootstrap", "intend", "write-temp", "move-old", "rename-old", "rollback"} =>
              def = run[p].existing
         /\ Place(p) \in {"write-temp", "move-old", "rename-old"} => run[p].source = def.id
         /\ Place(p) = "rename-old" => def # NoFile
         /\ Place(p) = "link-new" => def = NoFile
         /\ Place(p) \notin {"put-back", "undo", "undo-drop", "drop-temp"}
    /\ Place(p) \in {"remove", "rename-away", "destroy", "removed"} =>
         Published(p) /\ run[p].existing = NoFile
    /\ Place(p) \in {"move-old", "rename-old", "link-new", "unlink-temp"} =>
         tmp[p].id = NewId(p) /\ tmp[p].body = run[p].body
    /\ Place(p) = "unlink-temp" => def = tmp[p]
    /\ Place(p) = "drop-old" => def.body = run[p].body
    /\ Published(p) /\ Place(p) \in Publishing => run[p].body = run[p].existing.body
    /\ Place(p) = "rebootstrap" /\ run[p].existing # NoFile => def.body = run[p].existing.body
    /\ Place(p) = "retired" => run[p].outcome # "failed"
    /\ Place(p) \in {"release", "release-claim", "unlock"} /\ run[p].outcome = "failed"
         /\ run[p].existing # NoFile =>
         def.body = run[p].existing.body /\ (run[p].loaded => service = def.body)

RollbackOK(p) ==
    /\ Place(p) \in Unprobed => Fresh(p)
    /\ Place(p) \in Stopping => service = "none"
    /\ run[p].op = "install" /\ ~edited => InstallOK(p)

\* A service runs the definition that is there.
ServiceOK == ~edited /\ service # "none" => service = def.body

RollbackInv == FileInv /\ ServiceOK /\ \A p \in Runs : RollbackOK(p)

-----------------------------------------------------------------------------
\* Where there is nothing to know of an install.
LEMMA FreshOK ==
    ASSUME NEW p \in Runs, Place(p)' \in Unprobed, Fresh(p)'
    PROVE  RollbackOK(p)'
<1>1. /\ Place(p)' \notin Stopping \cup Publishing \cup {"restart", "bootout", "retired", "release",
                                                        "release-claim", "unlock"}
  BY DEF Unprobed, Unlocked, Stopping, Publishing
<1>2. InstallOK(p)'
  BY <1>1 DEF InstallOK, Fresh, Stopping
<1> QED
  BY <1>1, <1>2 DEF RollbackOK

\* What one with the lock does leaves the others fresh.
LEMMA RollbackMoves ==
    ASSUME RollbackInv, FileInv', NEW p \in Runs, Holds(p), At(p, run'[p]), ServiceOK', RollbackOK(p)'
    PROVE  RollbackInv'
<1>1. ASSUME NEW q \in Runs \ {p}
      PROVE  RollbackOK(q)'
  <2>1. run'[q] = run[q] /\ RollbackOK(q) /\ ~Holds(q)
    BY DEF At, RollbackInv, FileInv, LockInv, RunOK, LockOK
  <2>2. Place(q) \in Unprobed /\ Place(q)' = Place(q)
    BY <2>1 DEF Holds, Place, Unlocked, Unprobed
  <2>3. Fresh(q)'
    BY <2>1, <2>2 DEF RollbackOK, Fresh, Published
  <2> QED
    BY <2>2, <2>3, FreshOK
<1> QED
  BY <1>1 DEF RollbackInv

\* The step of a run under the lock that has probed.
LEMMA InstallMoves ==
    ASSUME RollbackInv, FileInv', NEW p \in Runs, Holds(p), At(p, run'[p]), UNCHANGED edited,
           run'[p].op = run[p].op, Place(p)' \notin Unprobed, ServiceOK',
           Place(p)' \in Stopping => service' = "none",
           run[p].op = "install" /\ ~edited => InstallOK(p)'
    PROVE  RollbackInv'
BY RollbackMoves DEF RollbackOK

\* Outside the lock only the locals change.
LEMMA RollbackOutside ==
    ASSUME RollbackInv, FileInv', NEW p \in Runs, run[p].pc \in Unlocked, At(p, run'[p]),
           UNCHANGED <<service, def, tmp, edited>>, run'[p].pc \in Unlocked \cup {"recover"}, Fresh(p)'
    PROVE  RollbackInv'
<1>1. Place(p)' \in Unprobed
  BY DEF Place, Unlocked, Unprobed
<1>2. RollbackOK(p)'
  BY <1>1, FreshOK
<1>3. ASSUME NEW q \in Runs \ {p}
      PROVE  RollbackOK(q)'
  <2>1. run'[q] = run[q] /\ RollbackOK(q)
    BY DEF At, RollbackInv
  <2>2. Place(q)' = Place(q) /\ Published(q)' = Published(q) /\ NewId(q)' = NewId(q)
    BY <2>1 DEF Place, Published, NewId
  <2> QED
    BY <2>1, <2>2 DEF RollbackOK, Fresh, InstallOK
<1> QED
  BY <1>2, <1>3 DEF RollbackInv, ServiceOK

LEMMA RollbackAcquire ==
    ASSUME RollbackInv, FileInv', NEW p \in Runs, Acquire(p) \/ \E op : Start(p, op)
    PROVE  RollbackInv'
<1>1. Shaped /\ RollbackOK(p)
  BY DEF RollbackInv, FileInv, LockInv
<1>2. run[p].pc \in Unlocked => Fresh(p)
  BY <1>1 DEF RollbackOK, Place, Unprobed, Unlocked
<1>3. CASE \E op : Start(p, op)
  <2>1. PICK op : Start(p, op)
    BY <1>3
  <2>2. /\ run[p].pc = "idle" /\ UNCHANGED <<service, def, tmp, edited>>
        /\ run' = [run EXCEPT ![p].op = op,
                              ![p].pc = IF op = "status" THEN "probe-legacy" ELSE "candidate"]
    BY <2>1 DEF Start, files, manager
  <2>3. /\ At(p, run'[p]) /\ run'[p].pc \in {"probe-legacy", "candidate"}
        /\ run'[p].existing = run[p].existing /\ run'[p].published = run[p].published
    BY <1>1, <2>2 DEF At, Shaped, Fields
  <2> QED
    BY <1>2, <2>2, <2>3, RollbackOutside DEF Unlocked, Fresh, Published
<1>4. CASE ProbeLegacy(p)
  <2>1. run[p].pc = "probe-legacy" /\ UNCHANGED <<service, def, tmp, edited>>
    BY <1>4 DEF ProbeLegacy, files, manager, history
  <2>2. CASE run' = Ended(p, "done")
    BY <1>1, <2>1, <2>2, EndedStopped, RollbackOutside DEF Stopped, Unlocked
  <2>3. ASSUME NEW handOver, run' = [run EXCEPT ![p].pc = "candidate", ![p].handOver = handOver]
        PROVE  RollbackInv'
    <3>1. /\ At(p, run'[p]) /\ run'[p].pc = "candidate"
          /\ run'[p].existing = run[p].existing /\ run'[p].published = run[p].published
      BY <1>1, <2>3 DEF At, Shaped, Fields
    <3> QED
      BY <1>2, <2>1, <3>1, RollbackOutside DEF Unlocked, Fresh, Published
  <2> QED
    BY <1>4, <2>2, <2>3 DEF ProbeLegacy
<1>5. CASE Acquire(p) /\ ~ProbeLegacy(p)
  <2>1. /\ UNCHANGED <<service, def, tmp, edited>> /\ run[p].pc \in Unlocked /\ At(p, run'[p])
        /\ run'[p].pc \in Unlocked \cup {"recover"} /\ (Fresh(p) => Fresh(p)')
    BY <1>1, <1>5, AcquireRun DEF Stopped, Outside, Unlocked, files, manager, history
  <2> QED
    BY <1>2, <2>1, RollbackOutside
<1> QED
  BY <1>3, <1>4, <1>5

\* A run that is over is fresh.
LEMMA RollbackStops ==
    ASSUME RollbackInv, FileInv', NEW p \in Runs, Stopped(p), UNCHANGED <<service, def, edited>>,
           Holds(p) \/ UNCHANGED tmp
    PROVE  RollbackInv'
<1>1. Place(p)' \in Unprobed /\ run'[p].pc \in Unlocked
  BY DEF Stopped, Place, Unprobed, Unlocked
<1>2. RollbackOK(p)' /\ ServiceOK'
  BY <1>1, FreshOK DEF Stopped, RollbackInv, ServiceOK
<1>3. CASE Holds(p)
  BY <1>2, <1>3, RollbackMoves DEF Stopped
<1>4. CASE ~Holds(p)
  BY <1>1, <1>4, RollbackOutside DEF Stopped, Holds
<1> QED
  BY <1>3, <1>4

\* Recovery puts a definition back where there was none, so there was no service.
LEMMA RollbackRecover ==
    ASSUME RollbackInv, FileInv', NEW p \in Runs, Recover(p)
    PROVE  RollbackInv'
<1>1. run[p].pc = "recover" /\ UNCHANGED <<service, edited>>
  BY DEF Recover, RecoveryRefused, ReconcileJournal, AdoptTemporary, RestoreLink, DropTemporary,
         DropQuarantine, CloseTransaction, EnterBody, manager, history
<1>2. Shaped /\ Holds(p) /\ Fresh(p)
  BY <1>1 DEF RollbackInv, FileInv, LockInv, RollbackOK, Holds, Unlocked, Unprobed, Place
<1>3. ServiceOK'
  <2>1. CASE def' = def
    BY <1>1, <2>1 DEF RollbackInv, ServiceOK
  <2>2. CASE def' # def
    <3>1. def = NoFile
      BY <2>2 DEF Recover, RecoveryRefused, ReconcileJournal, AdoptTemporary, RestoreLink,
                  DropTemporary, DropQuarantine, CloseTransaction, EnterBody, files
    <3> QED
      BY <1>1, <3>1, NoFileShape DEF RollbackInv, ServiceOK
  <2> QED
    BY <2>1, <2>2
<1>4. At(p, run'[p]) /\ Place(p)' \in Unprobed /\ Fresh(p)'
  <2>1. CASE run' = run
    BY <1>1, <1>2, <2>1 DEF At, Shaped, Place, Unprobed, Fresh, Published
  <2>2. CASE RecoveryRefused(p)
    BY <1>2, <2>2, EndedStopped DEF RecoveryRefused, Stopped, Place, Unprobed, Unlocked
  <2>3. CASE AdoptTemporary(p)
    <3>1. \E j : Staged(p, j, "recover", run[p].source)
      BY <1>2, <2>3, WritingStaged DEF AdoptTemporary
    <3> QED
      BY <1>2, <3>1 DEF Staged, Same, Place, Unprobed, Fresh, Published
  <2>4. CASE EnterBody(p)
    <3>1. Went(p, "legacy-bootout")
      BY <1>2, <2>4, GotoWent DEF EnterBody
    <3> QED
      BY <1>2, <3>1 DEF Went, Same, Place, Unprobed, Fresh, Published
  <2> QED
    BY <2>1, <2>2, <2>3, <2>4
       DEF Recover, ReconcileJournal, RestoreLink, DropTemporary, DropQuarantine, CloseTransaction
<1> QED
  BY <1>2, <1>3, <1>4, FreshOK, RollbackMoves

\* Writing a journal changes nothing of this.
LEMMA RollbackJournal ==
    ASSUME RollbackInv, FileInv', NEW p \in Runs, StageJournal(p) \/ CommitJournal(p)
    PROVE  RollbackInv'
<1>1. /\ run[p].pc \in {"stage", "commit"} /\ UNCHANGED <<service, def, tmp, edited>>
  BY DEF StageJournal, CommitJournal, files, manager, history
<1>2. Shaped /\ Holds(p) /\ run[p].next \in AfterWrite /\ RollbackOK(p)
  BY <1>1 DEF RollbackInv, FileInv, LockInv, FilesOK, WriteOK, Holds, Unlocked
<1>3. \E pc \in {"commit", run[p].next} : Went(p, pc) /\ run'[p].outcome = run[p].outcome
  BY <1>2, GotoWent DEF StageJournal, CommitJournal
<1>4. Place(p)' = Place(p)
  BY <1>1, <1>2, <1>3 DEF Place, Went, AfterWrite
<1>5. RollbackOK(p)'
  <2>1. Published(p)' = Published(p) /\ NewId(p)' = NewId(p)
    BY <1>3 DEF Went, Same, Published, NewId
  <2> QED
    BY <1>1, <1>2, <1>3, <1>4, <2>1 DEF RollbackOK, Fresh, InstallOK, Went, Same
<1>6. ServiceOK'
  BY <1>1 DEF RollbackInv, ServiceOK
<1> QED
  BY <1>2, <1>3, <1>5, <1>6, RollbackMoves DEF Went

-----------------------------------------------------------------------------
\* What an install knows in the middle of its operation.
LEMMA InstallKnows ==
    ASSUME RollbackInv, NEW p \in Runs, Holds(p), run[p].pc \notin {"stage", "commit", "recover"}
    PROVE  /\ Shaped /\ Place(p) = run[p].pc
           /\ run[p].pc \in Unprobed => Fresh(p)
           /\ run[p].pc \in Stopping => service = "none"
           /\ run[p].op = "install" /\ ~edited => InstallOK(p)
           /\ ~edited /\ service # "none" => service = def.body
<1>1. Place(p) = run[p].pc /\ RollbackOK(p)
  BY DEF Place, Holds, Unlocked, RollbackInv
<1> QED
  BY <1>1 DEF RollbackOK, RollbackInv, FileInv, LockInv, ServiceOK

\* An operation that fails has left what it found.
LEMMA RollbackFailed ==
    ASSUME RollbackInv, FileInv', NEW p \in Runs, Holds(p), UNCHANGED <<def, edited>>, ServiceOK',
           Went(p, "release"),
           \/ run'[p].outcome # "failed"
           \/ run[p].op = "install" /\ ~edited /\ run[p].existing # NoFile =>
                def.body = run[p].existing.body /\ (run[p].loaded => service' = def.body)
    PROVE  RollbackInv'
<1>1. /\ Place(p)' = "release" /\ At(p, run'[p]) /\ run'[p].op = run[p].op
      /\ run'[p].existing = run[p].existing /\ run'[p].loaded = run[p].loaded
  BY DEF Went, Same, Place
<1>2. Place(p)' \notin Unprobed \cup Stopping \cup Publishing
  BY <1>1 DEF Unprobed, Unlocked, Stopping, Publishing
<1>3. run[p].op = "install" /\ ~edited => InstallOK(p)'
  BY <1>1, <1>2 DEF InstallOK, Stopping
<1> QED
  BY <1>1, <1>2, <1>3, InstallMoves

\* From one place to the next, by a step that leaves the definition alone.
LEMMA RollbackGoes ==
    ASSUME RollbackInv, FileInv', NEW p \in Runs, Holds(p), UNCHANGED <<def, edited>>, ServiceOK',
           NEW pc \in {"retire", "retired", "release-claim", "unlock"}, Went(p, pc),
           pc = "retired" => run'[p].outcome # "failed",
           pc \in {"release-claim", "unlock"} =>
             /\ run[p].pc \in {"release", "release-claim"} /\ service' = service
             /\ run'[p].outcome = run[p].outcome
    PROVE  RollbackInv'
<1>1. /\ Place(p)' = pc /\ At(p, run'[p]) /\ run'[p].op = run[p].op
      /\ run'[p].existing = run[p].existing /\ run'[p].loaded = run[p].loaded
  BY DEF Went, Same, Place
<1>2. Place(p)' \notin Unprobed \cup Stopping \cup Publishing
  BY <1>1 DEF Unprobed, Unlocked, Stopping, Publishing
<1>3. run[p].op = "install" /\ ~edited => InstallOK(p)'
  <2>1. CASE pc \in {"retire", "retired"}
    BY <1>1, <1>2, <2>1 DEF InstallOK, Stopping
  <2>2. CASE pc \in {"release-claim", "unlock"}
    <3>1. run[p].op = "install" /\ ~edited => InstallOK(p) /\ Place(p) = run[p].pc
      BY <2>2, InstallKnows
    <3> QED
      BY <1>1, <1>2, <2>2, <3>1 DEF InstallOK, Stopping
  <2> QED
    BY <2>1, <2>2
<1> QED
  BY <1>1, <1>2, <1>3, InstallMoves

LEMMA RollbackLegacy ==
    ASSUME RollbackInv, FileInv', NEW p \in Runs,
           BootOutLegacy(p) \/ Sweep(p) \/ RetireLegacy(p) \/ DropRetired(p)
    PROVE  RollbackInv'
<1>1. /\ run[p].pc \in {"legacy-bootout", "sweep", "retire", "retired"}
      /\ UNCHANGED <<service, def, edited>>
  BY DEF BootOutLegacy, Sweep, RetireLegacy, DropRetired, files, history
<1>2. Holds(p) /\ run[p].pc \notin {"stage", "commit", "recover"} /\ ServiceOK'
  BY <1>1 DEF Holds, Unlocked, RollbackInv, ServiceOK
<1>3. Shaped /\ Place(p) = run[p].pc /\ (run[p].pc \in Unprobed => Fresh(p))
      /\ (run[p].op = "install" /\ ~edited => InstallOK(p))
  BY <1>2, InstallKnows
<1>4. ASSUME NEW pc \in {"sweep", "probe"}, Went(p, pc), run[p].pc \in {"legacy-bootout", "sweep"}
      PROVE  RollbackInv'
  <2>1. Place(p)' \in Unprobed /\ Fresh(p)' /\ At(p, run'[p])
    BY <1>3, <1>4 DEF Went, Same, Place, Unprobed, Fresh, Published
  <2> QED
    BY <1>2, <2>1, FreshOK, RollbackMoves
<1>5. CASE BootOutLegacy(p)
  BY <1>3, <1>4, <1>5, GotoWent DEF BootOutLegacy
<1>6. CASE Sweep(p)
  <2>1. PICK pc \in {"retire", "probe"} : Went(p, pc)
    BY <1>3, <1>6, GotoWent DEF Sweep
  <2>2. run[p].pc = "sweep"
    BY <1>6 DEF Sweep
  <2> QED
    BY <1>1, <1>2, <1>4, <2>1, <2>2, RollbackGoes
<1>7. CASE RetireLegacy(p)
  <2>1. PICK pc \in {"retired", "release"} : run' = [run EXCEPT ![p].pc = pc, ![p].outcome = "done"]
    BY <1>7 DEF RetireLegacy
  <2>2. Went(p, pc) /\ run'[p].outcome = "done"
    BY <1>3, <2>1, OutcomeWent
  <2> QED
    BY <1>1, <1>2, <2>2, RollbackGoes, RollbackFailed
<1>8. CASE DropRetired(p)
  <2>1. run[p].pc = "retired" /\ Went(p, "release") /\ run'[p].outcome = run[p].outcome
    BY <1>3, <1>8, GotoWent DEF DropRetired
  <2>2. run[p].op = "install" /\ ~edited => run'[p].outcome # "failed"
    BY <1>3, <2>1 DEF InstallOK
  <2> QED
    BY <1>1, <1>2, <2>1, <2>2, RollbackFailed
<1> QED
  BY <1>5, <1>6, <1>7, <1>8

\* To a place without a service.
LEMMA RollbackStopping ==
    ASSUME RollbackInv, FileInv', NEW p \in Runs, Holds(p), At(p, run'[p]), UNCHANGED edited,
           run'[p].op = run[p].op, Place(p)' \in Stopping, service' = "none",
           run[p].op = "install" /\ ~edited => InstallOK(p)'
    PROVE  RollbackInv'
<1>1. Place(p)' \notin Unprobed
  BY DEF Stopping, Unprobed, Unlocked
<1> QED
  BY <1>1, InstallMoves DEF ServiceOK

\* The manager refused, or there was nothing to load: a run that stopped the service or published
\* rolls back, another one had found no service.
LEMMA RollbackBootstrap ==
    ASSUME RollbackInv, FileInv', NEW p \in Runs, run[p].pc = "bootstrap",
           UNCHANGED <<service, def, edited>>, run' = Undone(p)
    PROVE  RollbackInv'
<1>1. Holds(p) /\ run[p].pc \notin {"stage", "commit", "recover"} /\ ServiceOK'
      /\ "bootstrap" \in Stopping
  BY DEF Holds, Unlocked, RollbackInv, ServiceOK, Stopping
<1>2. /\ Shaped /\ Place(p) = "bootstrap" /\ service = "none"
      /\ (run[p].op = "install" /\ ~edited => InstallOK(p))
  BY <1>1, InstallKnows
<1>3. CASE Went(p, "rollback")
  <2>1. /\ Place(p)' = "rollback" /\ Place(p)' \in Stopping /\ At(p, run'[p]) /\ run'[p].op = run[p].op
        /\ Published(p)' = Published(p) /\ run'[p].existing = run[p].existing
        /\ run'[p].loaded = run[p].loaded /\ run'[p].bootedOut = run[p].bootedOut
    BY <1>3 DEF Went, Same, Place, Stopping, Published
  <2>2. InstallOK(p) => InstallOK(p)'
    BY <1>1, <1>2, <2>1 DEF InstallOK, Publishing
  <2> QED
    BY <1>1, <1>2, <2>1, <2>2, RollbackStopping
<1>4. CASE Went(p, "release") /\ run'[p].outcome = "rollback-failed"
  BY <1>1, <1>4, RollbackFailed
<1>5. CASE Went(p, "release") /\ ~(run[p].op = "install" /\ (Published(p) \/ run[p].bootedOut))
  <2>1. run[p].op = "install" /\ ~edited => def = run[p].existing /\ ~run[p].loaded
    BY <1>1, <1>2, <1>5 DEF InstallOK
  <2> QED
    BY <1>1, <1>5, <2>1, RollbackFailed
<1> QED
  BY <1>2, <1>3, <1>4, <1>5, UndoneWent

LEMMA RollbackProbe ==
    ASSUME RollbackInv, FileInv', NEW p \in Runs, Probe(p)
    PROVE  RollbackInv'
<1> DEFINE pc == IF service = "none" THEN AfterBootout(p, def)
                 ELSE IF run[p].op = "install" /\ def.body = Build[p] THEN "restart" ELSE "bootout"
           new == IF run[p].op = "install" THEN Build[p] ELSE "none"
           up == service # "none"
<1>1. run[p].pc = "probe" /\ UNCHANGED <<service, def, edited>>
  BY DEF Probe, files, manager
<1>2. Holds(p) /\ run[p].pc \notin {"stage", "commit", "recover"} /\ ServiceOK'
      /\ run[p].pc \in Unprobed
  BY <1>1 DEF Holds, Unlocked, RollbackInv, ServiceOK, Unprobed
<1>3. Shaped /\ Fresh(p)
  BY <1>2, InstallKnows
<1>4. run' = [run EXCEPT ![p].existing = def, ![p].loaded = up, ![p].body = new, ![p].pc = pc]
  BY DEF Probe
<1>5. /\ service = "none" => pc \in {"retire", "remove", "bootstrap", "intend"}
                             /\ (run[p].op = "install" => pc \in {"bootstrap", "intend"}) /\ up = FALSE
      /\ service # "none" => pc \in {"restart", "bootout"}
  BY DEF AfterBootout
<1> HIDE DEF pc, new, up
<1>6. /\ At(p, run'[p]) /\ run'[p].pc = pc /\ run'[p].op = run[p].op
      /\ run'[p].existing = def /\ run'[p].loaded = up /\ run'[p].published = run[p].published
  BY <1>3, <1>4 DEF At, Shaped, Fields
<1>7. Place(p)' = pc /\ ~Published(p)'
  BY <1>3, <1>5, <1>6 DEF Place, Fresh, Published
<1>8. pc \notin Unprobed /\ (pc \in Stopping => service' = "none")
  BY <1>1, <1>5 DEF Unprobed, Unlocked, Stopping
<1>9. run[p].op = "install" => InstallOK(p)'
  <2>1. CASE service = "none" /\ run[p].op = "install"
    BY <1>1, <1>5, <1>6, <1>7, <2>1 DEF InstallOK, Publishing
  <2>2. CASE service # "none"
    BY <1>1, <1>5, <1>6, <1>7, <2>2 DEF InstallOK, Publishing, Stopping
  <2> QED
    BY <2>1, <2>2
<1> QED
  BY <1>1, <1>2, <1>6, <1>7, <1>8, <1>9, InstallMoves

\* The service is stopped, as it should be or though the manager reports that it is not.
LEMMA RollbackStopped ==
    ASSUME RollbackInv, FileInv', NEW p \in Runs, run[p].pc = "bootout", service' = "none",
           UNCHANGED <<def, edited>>,
           NEW pc \in {"retire", "remove", "bootstrap", "intend", "rollback"},
           run[p].op = "install" => pc \in {"bootstrap", "intend", "rollback"},
           run' = [run EXCEPT ![p].bootedOut = TRUE, ![p].pc = pc]
    PROVE  RollbackInv'
<1>1. Holds(p) /\ run[p].pc \notin {"stage", "commit", "recover"} /\ ServiceOK'
  BY DEF Holds, Unlocked, ServiceOK
<1>2. /\ Shaped /\ Place(p) = "bootout" /\ (run[p].op = "install" /\ ~edited => InstallOK(p))
  BY <1>1, InstallKnows
<1>3. /\ At(p, run'[p]) /\ run'[p].pc = pc /\ run'[p].op = run[p].op /\ run'[p].bootedOut = TRUE
      /\ run'[p].existing = run[p].existing /\ run'[p].published = run[p].published
  BY <1>2 DEF At, Shaped, Fields
<1>4. Place(p)' = pc /\ pc \notin Unprobed /\ Published(p)' = Published(p)
  BY <1>3 DEF Place, Published, Unprobed, Unlocked
<1>5. run[p].op = "install" /\ ~edited => InstallOK(p)'
  BY <1>2, <1>3, <1>4 DEF InstallOK, Publishing
<1> QED
  BY <1>1, <1>3, <1>4, <1>5, InstallMoves

\* A command that fails while the service that was there still is.
LEMMA RollbackUntouched ==
    ASSUME RollbackInv, FileInv', NEW p \in Runs, run[p].pc \in {"legacy-bootout", "bootout", "restart"},
           UNCHANGED <<service, def, edited>>, run' = Failed(p)
    PROVE  RollbackInv'
<1>1. Holds(p) /\ run[p].pc \notin {"stage", "commit", "recover"} /\ ServiceOK'
  BY DEF Holds, Unlocked, RollbackInv, ServiceOK
<1>2. /\ Shaped /\ Place(p) = run[p].pc
      /\ (run[p].op = "install" /\ ~edited => InstallOK(p))
      /\ (run[p].pc \in Unprobed => Fresh(p)) /\ (~edited /\ service # "none" => service = def.body)
  BY <1>1, InstallKnows
<1>3. Went(p, "release")
  BY <1>2, OutcomeWent DEF Failed
<1>4. run[p].op = "install" /\ ~edited /\ run[p].existing # NoFile =>
        def.body = run[p].existing.body /\ (run[p].loaded => service = def.body)
  BY <1>2 DEF InstallOK, Unprobed, Fresh
<1> QED
  BY <1>1, <1>3, <1>4, RollbackFailed

LEMMA RollbackRebootstrap ==
    ASSUME RollbackInv, FileInv', NEW p \in Runs, Rebootstrap(p)
    PROVE  RollbackInv'
<1>1. run[p].pc = "rebootstrap" /\ UNCHANGED <<def, edited>>
  BY DEF Rebootstrap, files, history
<1>2. Holds(p) /\ run[p].pc \notin {"stage", "commit", "recover"} /\ "rebootstrap" \in Stopping
  BY <1>1 DEF Holds, Unlocked, Stopping
<1>3. /\ Shaped /\ Place(p) = "rebootstrap" /\ service = "none"
      /\ (run[p].op = "install" /\ ~edited => InstallOK(p))
  BY <1>1, <1>2, InstallKnows
<1>4. run[p].op = "install" /\ ~edited =>
        /\ run[p].loaded => run[p].bootedOut
        /\ run[p].existing # NoFile => def.body = run[p].existing.body
  BY <1>1, <1>2, <1>3 DEF InstallOK
<1>5. ServiceOK'
  BY <1>1, <1>3 DEF Rebootstrap, ServiceOK
<1>6. CASE run' = [run EXCEPT ![p].pc = "release", ![p].outcome = "rollback-failed"]
  <2>1. Went(p, "release") /\ run'[p].outcome = "rollback-failed"
    BY <1>3, <1>6, OutcomeWent
  <2> QED
    BY <1>1, <1>2, <1>5, <2>1, RollbackFailed
<1>7. CASE run' = Failed(p) /\ (~run[p].bootedOut \/ service' = def.body)
  <2>1. Went(p, "release")
    BY <1>3, <1>7, OutcomeWent DEF Failed
  <2> QED
    BY <1>1, <1>2, <1>4, <1>5, <1>7, <2>1, RollbackFailed
<1> QED
  BY <1>6, <1>7 DEF Rebootstrap

LEMMA RollbackRollback ==
    ASSUME RollbackInv, FileInv', NEW p \in Runs, Rollback(p)
    PROVE  RollbackInv'
<1>1. run[p].pc = "rollback" /\ UNCHANGED <<service, def, edited>>
  BY DEF Rollback, files, manager, history
<1>2. Holds(p) /\ run[p].pc \notin {"stage", "commit", "recover"} /\ "rollback" \in Stopping /\ ServiceOK'
  BY <1>1 DEF Holds, Unlocked, Stopping, RollbackInv, ServiceOK
<1>3. /\ Shaped /\ Place(p) = "rollback" /\ service = "none"
      /\ (run[p].op = "install" /\ ~edited => InstallOK(p))
  BY <1>1, <1>2, InstallKnows
<1>4. CASE run' = [run EXCEPT ![p].pc = "release", ![p].outcome = "rollback-failed"]
  <2>1. Went(p, "release") /\ run'[p].outcome = "rollback-failed"
    BY <1>3, <1>4, OutcomeWent
  <2> QED
    BY <1>1, <1>2, <2>1, RollbackFailed
<1>5. ASSUME NEW pc \in {"rebootstrap", "remove", "intend"}, At(p, run'[p]), run'[p].pc = pc,
             run'[p].op = run[p].op, run'[p].existing = run[p].existing,
             run'[p].loaded = run[p].loaded, run'[p].bootedOut = run[p].bootedOut,
             run'[p].published = run[p].published,
             pc = "rebootstrap" => ~Published(p),
             pc = "remove" => Published(p) /\ run[p].existing = NoFile,
             pc = "intend" => Published(p) /\ run'[p].body = run[p].existing.body
      PROVE  RollbackInv'
  <2>1. Place(p)' = pc /\ pc \in Stopping /\ Published(p)' = Published(p)
    BY <1>5 DEF Place, Stopping, Published
  <2>2. InstallOK(p) => InstallOK(p)'
    BY <1>1, <1>2, <1>3, <1>5, <2>1 DEF InstallOK, Publishing
  <2> QED
    BY <1>1, <1>2, <1>3, <1>5, <2>1, <2>2, RollbackStopping
<1>6. CASE ~Published(p) /\ run' = [run EXCEPT ![p].pc = "rebootstrap"]
  BY <1>3, <1>5, <1>6, GotoWent DEF Goto, Went, Same
<1>7. CASE Published(p) /\ run[p].existing = NoFile /\ run' = [run EXCEPT ![p].pc = "remove"]
  BY <1>3, <1>5, <1>7, GotoWent DEF Goto, Went, Same
<1>8. CASE Published(p) /\ run' = [run EXCEPT ![p].pc = "intend", ![p].body = run[p].existing.body]
  <2>1. /\ At(p, run'[p]) /\ run'[p].pc = "intend" /\ run'[p].op = run[p].op
        /\ run'[p].existing = run[p].existing /\ run'[p].loaded = run[p].loaded
        /\ run'[p].bootedOut = run[p].bootedOut /\ run'[p].published = run[p].published
        /\ run'[p].body = run[p].existing.body
    BY <1>3, <1>8 DEF At, Shaped, Fields
  <2> QED
    BY <1>5, <1>8, <2>1
<1> QED
  BY <1>4, <1>6, <1>7, <1>8 DEF Rollback

LEMMA RollbackCommand ==
    ASSUME RollbackInv, FileInv', NEW p \in Runs, Command(p) \/ CommandFails(p)
    PROVE  RollbackInv'
<1>1. Shaped
  BY DEF RollbackInv, FileInv, LockInv
<1>2. CASE \/ Restart(p) \/ Bootstrap(p)
           \/ CommandFails(p) /\ run[p].pc = "bootstrap" /\ service' = def.body /\ Goto(p, "retire")
  <2>1. /\ run[p].pc \in {"restart", "bootstrap"} /\ Goto(p, "retire") /\ UNCHANGED <<def, edited>>
        /\ service' \in {service, def.body}
    BY <1>2 DEF Restart, Bootstrap, CommandFails, files, manager, history
  <2>2. Holds(p) /\ Went(p, "retire") /\ ServiceOK'
    BY <1>1, <2>1, GotoWent DEF Holds, Unlocked, RollbackInv, ServiceOK
  <2> QED
    BY <2>1, <2>2, RollbackGoes
<1>3. CASE BootOut(p)
  <2>1. /\ run[p].pc = "bootout" /\ service' = "none" /\ UNCHANGED <<def, edited>>
        /\ run' = [run EXCEPT ![p].bootedOut = TRUE, ![p].pc = AfterBootout(p, run[p].existing)]
    BY <1>3 DEF BootOut, files, history
  <2>2. /\ AfterBootout(p, run[p].existing) \in {"retire", "remove", "bootstrap", "intend"}
        /\ run[p].op = "install" => AfterBootout(p, run[p].existing) \in {"bootstrap", "intend"}
    BY DEF AfterBootout
  <2> QED
    BY <2>1, <2>2, RollbackStopped
<1>4. CASE BootstrapImpossible(p)
  BY <1>4, RollbackBootstrap DEF BootstrapImpossible, files, manager, history
<1>5. CASE CommandFails(p)
  <2>1. UNCHANGED <<def, edited>>
    BY <1>5 DEF CommandFails, files, history
  <2>2. CASE run[p].pc \in {"legacy-bootout", "bootout", "restart"} /\ run' = Failed(p) /\ UNCHANGED service
    BY <2>1, <2>2, RollbackUntouched
  <2>3. CASE run[p].pc = "bootstrap" /\ run' = Undone(p) /\ UNCHANGED service
    BY <2>1, <2>3, RollbackBootstrap
  <2>4. CASE /\ run[p].pc = "rebootstrap" /\ UNCHANGED service
             /\ run' = [run EXCEPT ![p].pc = "release", ![p].outcome = "rollback-failed"]
    <3>1. Holds(p) /\ ServiceOK' /\ Went(p, "release") /\ run'[p].outcome = "rollback-failed"
      BY <1>1, <2>1, <2>4, OutcomeWent DEF Holds, Unlocked, RollbackInv, ServiceOK
    <3> QED
      BY <2>1, <3>1, RollbackFailed
  <2>5. CASE /\ run[p].pc = "bootout" /\ service' = "none"
             /\ run' = [run EXCEPT ![p].bootedOut = TRUE, ![p].pc = "rollback"]
    BY <2>1, <2>5, RollbackStopped
  <2>6. CASE run[p].pc = "bootout" /\ service' = "none" /\ run[p].op # "install" /\ run' = Failed(p)
    <3>1. Holds(p) /\ ServiceOK' /\ Went(p, "release")
      BY <1>1, <2>6, OutcomeWent DEF Holds, Unlocked, ServiceOK, Failed
    <3> QED
      BY <2>1, <2>6, <3>1, RollbackFailed
  <2> QED
    BY <1>2, <1>5, <2>2, <2>3, <2>4, <2>5, <2>6 DEF CommandFails
<1> QED
  BY <1>2, <1>3, <1>4, <1>5, RollbackProbe, RollbackRebootstrap, RollbackRollback DEF Command

-----------------------------------------------------------------------------
\* An install publishes and withdraws while there is no service.
LEMMA RollbackKeeps ==
    ASSUME NEW p \in Runs, At(p, run'[p]), Same(p)
    PROVE  Published(p)' = Published(p) /\ NewId(p)' = NewId(p)
BY DEF Same, Published, NewId

LEMMA RollbackPublish ==
    ASSUME RollbackInv, FileInv', NEW p \in Runs, Publish(p)
    PROVE  RollbackInv'
<1>1. /\ run[p].pc \in {"intend", "write-temp", "move-old", "rename-old", "put-back", "link-new",
                        "unlink-temp", "drop-old", "undo", "undo-drop", "drop-temp"}
      /\ UNCHANGED <<service, edited>>
  BY DEF Publish, Intend, WriteTemporary, MoveOld, RenameOld, PutBack, LinkNew, UnlinkTemporary,
         DropOld, UndoLink, UndoDrop, DropOwnTemporary, manager, history
<1>2. Holds(p) /\ run[p].pc \notin {"stage", "commit", "recover"} /\ run[p].pc \in Stopping
  BY <1>1 DEF Holds, Unlocked, Stopping
<1>3. /\ Shaped /\ Place(p) = run[p].pc /\ service = "none" /\ p # 0
      /\ (run[p].op = "install" /\ ~edited => InstallOK(p))
  BY <1>2, InstallKnows, RunsAssumption
<1>4. ServiceOK' /\ service' = "none"
  BY <1>1, <1>3 DEF ServiceOK
<1>5. tmp = [q \in Runs |-> tmp[q]]
  BY DEF RollbackInv, FileInv, FilesShaped
<1>6. ASSUME NEW pc \in Stopping, Same(p), At(p, run'[p]), Place(p)' = pc,
             run'[p].bootedOut = run[p].bootedOut,
             run[p].op = "install" /\ ~edited => InstallOK(p)'
      PROVE  RollbackInv'
  <2>1. run'[p].op = run[p].op
    BY <1>6 DEF Same
  <2> QED
    BY <1>1, <1>2, <1>4, <1>6, <2>1, RollbackStopping
<1>7. CASE Intend(p)
  <2>1. UNCHANGED <<def, tmp>> /\ run[p].pc = "intend"
    BY <1>7 DEF Intend, files
  <2>2. \E j : Staged(p, j, "write-temp", def.id)
    BY <1>3, <1>7, SourceStaged DEF Intend
  <2>3. /\ Place(p)' = "write-temp" /\ At(p, run'[p]) /\ Same(p) /\ run'[p].source = def.id
        /\ run'[p].bootedOut = run[p].bootedOut /\ "write-temp" \in Stopping
    BY <2>2 DEF Staged, Place, Stopping
  <2>4. InstallOK(p) => InstallOK(p)'
    BY <1>2, <1>3, <2>1, <2>3, RollbackKeeps DEF InstallOK, Publishing, Same
  <2> QED
    BY <1>3, <1>6, <2>3, <2>4
<1>8. CASE WriteTemporary(p)
  <2>1. /\ UNCHANGED def /\ run[p].pc = "write-temp"
        /\ tmp' = [tmp EXCEPT ![p] = [id |-> NewId(p), body |-> run[p].body]]
    BY <1>8 DEF WriteTemporary
  <2>2. \E j : Staged(p, j, "move-old", run[p].source)
    BY <1>3, <1>8, WritingStaged DEF WriteTemporary
  <2>3. /\ Place(p)' = "move-old" /\ At(p, run'[p]) /\ Same(p) /\ run'[p].source = run[p].source
        /\ run'[p].bootedOut = run[p].bootedOut /\ "move-old" \in Stopping
    BY <2>2 DEF Staged, Place, Stopping
  <2>4. tmp'[p].id = NewId(p) /\ tmp'[p].body = run[p].body
    BY <1>5, <2>1
  <2>5. InstallOK(p) => InstallOK(p)'
    BY <1>2, <1>3, <2>1, <2>3, <2>4, RollbackKeeps DEF InstallOK, Publishing, Same
  <2> QED
    BY <1>3, <1>6, <2>3, <2>5
<1>9. CASE MoveOld(p)
  <2>1. UNCHANGED <<def, tmp>> /\ run[p].pc = "move-old"
    BY <1>9 DEF MoveOld, files
  <2>2. PICK pc \in {"undo", "link-new", "rename-old"} :
           /\ Went(p, pc) /\ (pc = "undo" => def.id # run[p].source)
           /\ (pc = "link-new" => def = NoFile) /\ (pc = "rename-old" => def # NoFile)
    BY <1>3, <1>9, GotoWent DEF MoveOld
  <2>3. /\ Place(p)' = pc /\ At(p, run'[p]) /\ Same(p) /\ run'[p].source = run[p].source
        /\ run'[p].bootedOut = run[p].bootedOut /\ pc \in Stopping
    BY <2>2 DEF Went, Place, Stopping
  <2>4. InstallOK(p) => InstallOK(p)'
    BY <1>2, <1>3, <2>1, <2>2, <2>3, RollbackKeeps DEF InstallOK, Publishing, Same
  <2> QED
    BY <1>3, <1>6, <2>3, <2>4
<1>10. CASE RenameOld(p)
  <2>1. run[p].pc = "rename-old" /\ UNCHANGED tmp
    BY <1>10 DEF RenameOld
  <2>2. /\ At(p, run'[p]) /\ Same(p) /\ run'[p].bootedOut = run[p].bootedOut
        /\ \/ Place(p)' = "undo" /\ def = NoFile
           \/ Place(p)' = "link-new" /\ def' = NoFile
           \/ Place(p)' = "put-back" /\ def.id # run[p].source
    <3>1. CASE def = NoFile
      BY <1>3, <1>10, <3>1, GotoWent DEF RenameOld, Went, Place
    <3>2. CASE def # NoFile /\ run' = Writing(p, Phase(p, "old-quarantined"), "link-new")
      <4>1. Staged(p, Phase(p, "old-quarantined"), "link-new", run[p].source)
        BY <1>3, <3>2, WritingStaged
      <4> QED
        BY <1>10, <3>2, <4>1 DEF RenameOld, Staged, Place
    <3>3. CASE def # NoFile /\ def.id # run[p].source /\ run' = [run EXCEPT ![p].pc = "put-back"]
      BY <1>3, <3>3, GotoWent DEF Goto, Went, Place
    <3> QED
      BY <1>10, <3>1, <3>2, <3>3 DEF RenameOld
  <2>3. Place(p)' \in Stopping
    BY <2>2 DEF Stopping
  <2>4. InstallOK(p) => InstallOK(p)'
    BY <1>2, <1>3, <2>1, <2>2, RollbackKeeps DEF InstallOK, Publishing, Same
  <2> QED
    BY <1>3, <1>6, <2>2, <2>3, <2>4
<1>11. CASE PutBack(p) \/ UndoLink(p) \/ UndoDrop(p)
  <2>1. PICK pc \in {"undo-drop", "drop-temp"} : Went(p, pc)
    BY <1>3, <1>11, GotoWent DEF PutBack, UndoLink, UndoDrop
  <2>2. run[p].pc \in {"put-back", "undo", "undo-drop"}
    BY <1>11 DEF PutBack, UndoLink, UndoDrop
  <2>3. /\ Place(p)' = pc /\ At(p, run'[p]) /\ Same(p)
        /\ run'[p].bootedOut = run[p].bootedOut /\ pc \in Stopping
    BY <2>1 DEF Went, Place, Stopping
  <2>4. InstallOK(p) => InstallOK(p)'
    BY <1>2, <1>3, <2>2, <2>3, RollbackKeeps DEF InstallOK, Publishing, Same
  <2> QED
    BY <1>3, <1>6, <2>3, <2>4
<1>12. CASE LinkNew(p)
  <2>1. run[p].pc = "link-new" /\ UNCHANGED tmp
    BY <1>12 DEF LinkNew
  <2>2. /\ At(p, run'[p]) /\ Same(p) /\ run'[p].bootedOut = run[p].bootedOut
        /\ \/ Place(p)' = "undo" /\ def # NoFile
           \/ Place(p)' = "unlink-temp" /\ def' = tmp[p]
    <3>1. CASE def # NoFile
      BY <1>3, <1>12, <3>1, GotoWent DEF LinkNew, Went, Place
    <3>2. CASE def = NoFile
      <4>1. Staged(p, Phase(p, "new-linked"), "unlink-temp", run[p].source)
        BY <1>3, <1>12, <3>2, WritingStaged DEF LinkNew
      <4> QED
        BY <1>12, <3>2, <4>1 DEF LinkNew, Staged, Place
    <3> QED
      BY <3>1, <3>2
  <2>3. Place(p)' \in Stopping
    BY <2>2 DEF Stopping
  <2>4. InstallOK(p) => InstallOK(p)'
    BY <1>2, <1>3, <2>1, <2>2, RollbackKeeps DEF InstallOK, Publishing, Same
  <2> QED
    BY <1>3, <1>6, <2>2, <2>3, <2>4
<1>13. CASE UnlinkTemporary(p)
  <2>1. run[p].pc = "unlink-temp" /\ UNCHANGED def
    BY <1>13 DEF UnlinkTemporary
  <2>2. /\ At(p, run'[p]) /\ Same(p) /\ run'[p].bootedOut = run[p].bootedOut
        /\ \/ Place(p)' = "undo" /\ def.id # tmp[p].id
           \/ Place(p)' = "drop-old"
    <3>1. CASE def.id # tmp[p].id
      BY <1>3, <1>13, <3>1, GotoWent DEF UnlinkTemporary, Went, Place
    <3>2. CASE def.id = tmp[p].id
      <4>1. Staged(p, Phase(p, "temporary-unlinked"), "drop-old", run[p].source)
        BY <1>3, <1>13, <3>2, WritingStaged DEF UnlinkTemporary
      <4> QED
        BY <4>1 DEF Staged, Place
    <3> QED
      BY <3>1, <3>2
  <2>3. Place(p)' \in Stopping
    BY <2>2 DEF Stopping
  <2>4. InstallOK(p) => InstallOK(p)'
    BY <1>2, <1>3, <2>1, <2>2, RollbackKeeps DEF InstallOK, Publishing, Same
  <2> QED
    BY <1>3, <1>6, <2>2, <2>3, <2>4
<1>14. CASE DropOld(p)
  <2>1. run[p].pc = "drop-old" /\ UNCHANGED def
    BY <1>14 DEF DropOld
  <2>2. CASE Published(p) /\ run' = [run EXCEPT ![p].pc = "rebootstrap"]
    <3>1. /\ Place(p)' = "rebootstrap" /\ At(p, run'[p]) /\ Same(p)
          /\ run'[p].bootedOut = run[p].bootedOut /\ "rebootstrap" \in Stopping
      BY <1>3, <2>2, GotoWent DEF Goto, Went, Place, Stopping
    <3>2. InstallOK(p) => InstallOK(p)'
      BY <1>2, <1>3, <2>1, <2>2, <3>1, RollbackKeeps DEF InstallOK, Publishing, Same
    <3> QED
      BY <1>3, <1>6, <3>1, <3>2
  <2>3. CASE run' = [run EXCEPT ![p].pc = "bootstrap", ![p].published = NewId(p)]
    <3>1. /\ At(p, run'[p]) /\ run'[p].pc = "bootstrap" /\ run'[p].op = run[p].op
          /\ run'[p].published = NewId(p) /\ run'[p].loaded = run[p].loaded
          /\ run'[p].bootedOut = run[p].bootedOut
      BY <1>3, <2>3 DEF At, Shaped, Fields
    <3>2. Place(p)' = "bootstrap" /\ "bootstrap" \in Stopping /\ Published(p)'
      BY <1>3, <3>1 DEF Place, Stopping, Published, NewId, NoFile
    <3>3. InstallOK(p) => InstallOK(p)'
      BY <1>2, <1>3, <3>1, <3>2 DEF InstallOK, Publishing
    <3> QED
      BY <1>1, <1>2, <1>3, <1>4, <3>1, <3>2, <3>3, RollbackStopping
  <2> QED
    BY <1>14, <2>2, <2>3 DEF DropOld
<1>15. CASE DropOwnTemporary(p)
  <2>1. run[p].pc = "drop-temp" /\ run' = Undone(p) /\ UNCHANGED def
    BY <1>15 DEF DropOwnTemporary
  <2>2. run[p].op = "install" /\ ~edited => Published(p)
    BY <1>3, <2>1 DEF InstallOK
  <2>3. CASE Went(p, "rollback") /\ run[p].op = "install" /\ ~Published(p)
    <3>1. Place(p)' = "rollback" /\ At(p, run'[p]) /\ run'[p].op = run[p].op /\ "rollback" \in Stopping
      BY <2>3 DEF Went, Same, Place, Stopping
    <3> QED
      BY <1>1, <1>2, <1>4, <2>2, <2>3, <3>1, RollbackStopping
  <2>4. CASE Went(p, "release") /\ (run'[p].outcome = "rollback-failed" \/ run[p].op # "install" \/ ~Published(p))
    BY <1>1, <1>2, <1>4, <2>1, <2>2, <2>4, RollbackFailed
  <2> QED
    BY <1>3, <2>1, <2>3, <2>4, UndoneWent
<1> QED
  BY <1>7, <1>8, <1>9, <1>10, <1>11, <1>12, <1>13, <1>14, <1>15 DEF Publish

LEMMA RollbackWithdraw ==
    ASSUME RollbackInv, FileInv', NEW p \in Runs, Withdraw(p)
    PROVE  RollbackInv'
<1>1. /\ run[p].pc \in {"remove", "rename-away", "destroy", "removed"}
      /\ UNCHANGED <<service, edited>>
  BY DEF Withdraw, BeginRemoval, RenameAway, Destroy, Removed, manager, history
<1>2. Holds(p) /\ run[p].pc \notin {"stage", "commit", "recover"} /\ run[p].pc \in Stopping
  BY <1>1 DEF Holds, Unlocked, Stopping
<1>3. /\ Shaped /\ Place(p) = run[p].pc /\ service = "none"
      /\ (run[p].op = "install" /\ ~edited =>
            /\ Published(p) /\ run[p].existing = NoFile
            /\ run[p].loaded => run[p].bootedOut)
  BY <1>1, <1>2, InstallKnows DEF InstallOK
<1>4. ServiceOK' /\ service' = "none"
  BY <1>1, <1>3 DEF ServiceOK
<1>5. ASSUME NEW pc \in {"rename-away", "put-back", "destroy", "removed", "rebootstrap"},
             Same(p), At(p, run'[p]), Place(p)' = pc, run'[p].bootedOut = run[p].bootedOut
      PROVE  RollbackInv'
  <2>1. /\ run'[p].op = run[p].op /\ run'[p].existing = run[p].existing /\ run'[p].loaded = run[p].loaded
        /\ Published(p)' = Published(p)
    BY <1>5, RollbackKeeps DEF Same
  <2>2. pc \in Stopping /\ pc \notin Publishing
    BY DEF Stopping, Publishing
  <2>3. run[p].op = "install" /\ ~edited => InstallOK(p)'
    BY <1>3, <1>5, <2>1, <2>2 DEF InstallOK
  <2> QED
    BY <1>1, <1>2, <1>4, <1>5, <2>1, <2>2, <2>3, RollbackStopping
<1>6. ASSUME run' = Undone(p), UNCHANGED def
      PROVE  RollbackInv'
  <2>1. CASE Went(p, "rollback") /\ run[p].op = "install" /\ ~Published(p)
    <3>1. Place(p)' = "rollback" /\ At(p, run'[p]) /\ run'[p].op = run[p].op /\ "rollback" \in Stopping
      BY <2>1 DEF Went, Same, Place, Stopping
    <3> QED
      BY <1>1, <1>2, <1>3, <1>4, <2>1, <3>1, RollbackStopping
  <2>2. CASE Went(p, "release") /\ (run'[p].outcome = "rollback-failed" \/ run[p].op # "install" \/ ~Published(p))
    BY <1>1, <1>2, <1>3, <1>4, <1>6, <2>2, RollbackFailed
  <2> QED
    BY <1>1, <1>3, <1>6, <2>1, <2>2, UndoneWent
<1>7. CASE BeginRemoval(p)
  <2>1. CASE Goto(p, "removed")
    <3>1. Went(p, "removed")
      BY <1>3, <2>1, GotoWent
    <3> QED
      BY <1>5, <3>1 DEF Went, Place
  <2>2. CASE run' = Undone(p)
    BY <1>6, <1>7, <2>2 DEF BeginRemoval, files
  <2>3. ASSUME NEW j, run' = [Writing(p, j, "rename-away") EXCEPT ![p].source = def.id]
        PROVE  RollbackInv'
    <3>1. Staged(p, j, "rename-away", def.id)
      BY <1>3, <2>3, SourceStaged
    <3> QED
      BY <1>5, <3>1 DEF Staged, Place
  <2> QED
    BY <1>7, <2>1, <2>2, <2>3 DEF BeginRemoval
<1>8. CASE RenameAway(p)
  <2>1. CASE def = NoFile
    BY <1>6, <1>8, <2>1 DEF RenameAway
  <2>2. CASE run' = Writing(p, Phase(p, "removal-quarantined"), "destroy")
    <3>1. Staged(p, Phase(p, "removal-quarantined"), "destroy", run[p].source)
      BY <1>3, <2>2, WritingStaged
    <3> QED
      BY <1>5, <3>1 DEF Staged, Place
  <2>3. CASE run' = [run EXCEPT ![p].pc = "put-back"]
    <3>1. Went(p, "put-back")
      BY <1>3, <2>3, GotoWent DEF Goto
    <3> QED
      BY <1>5, <3>1 DEF Went, Place
  <2> QED
    BY <1>8, <2>1, <2>2, <2>3 DEF RenameAway
<1>9. CASE Destroy(p)
  <2>1. Staged(p, Phase(p, "removal-cleaned"), "removed", run[p].source)
    BY <1>3, <1>9, WritingStaged DEF Destroy
  <2> QED
    BY <1>5, <2>1 DEF Staged, Place
<1>10. CASE Removed(p)
  <2>1. PICK pc \in {"retire", "rebootstrap"} : Went(p, pc)
    BY <1>3, <1>10, GotoWent DEF Removed
  <2>2. UNCHANGED <<def, edited>>
    BY <1>10 DEF Removed, files, history
  <2>3. CASE pc = "retire"
    BY <1>2, <1>4, <2>1, <2>2, <2>3, RollbackGoes
  <2>4. CASE pc = "rebootstrap"
    BY <1>5, <2>1, <2>4 DEF Went, Place
  <2> QED
    BY <2>3, <2>4
<1> QED
  BY <1>7, <1>8, <1>9, <1>10 DEF Withdraw

LEMMA RollbackRelease ==
    ASSUME RollbackInv, FileInv', NEW p \in Runs, Release(p)
    PROVE  RollbackInv'
<1>1. /\ run[p].pc \in {"release", "release-claim", "unlock"} /\ UNCHANGED <<service, def, tmp, edited>>
  BY DEF Release, ReleaseJournal, ReleaseClaim, Unlock, files, manager, history
<1>2. Shaped /\ Holds(p) /\ ServiceOK'
  BY <1>1 DEF RollbackInv, FileInv, LockInv, ServiceOK, Holds, Unlocked
<1>3. CASE ReleaseJournal(p)
  <2>1. run[p].pc = "release" /\ Went(p, "release-claim") /\ run'[p].outcome = run[p].outcome
    BY <1>2, <1>3, GotoWent DEF ReleaseJournal
  <2> QED
    BY <1>1, <1>2, <2>1, RollbackGoes
<1>4. CASE ReleaseClaim(p)
  <2>1. run[p].pc = "release-claim" /\ Went(p, "unlock") /\ run'[p].outcome = run[p].outcome
    BY <1>2, <1>4, GotoWent DEF ReleaseClaim
  <2> QED
    BY <1>1, <1>2, <2>1, RollbackGoes
<1>5. CASE Unlock(p)
  <2>1. Stopped(p)
    BY <1>2, <1>5, EndedStopped DEF Unlock
  <2> QED
    BY <1>1, <1>2, <2>1, RollbackStops
<1> QED
  BY <1>3, <1>4, <1>5 DEF Release

\* A killed run is fresh, and what it leaves is not an install's any more.
LEMMA RollbackCrash ==
    ASSUME RollbackInv, FileInv', NEW p \in Runs, Crash(p)
    PROVE  RollbackInv'
<1>1. UNCHANGED <<service, def, edited>> /\ run' = Killed(p) /\ (Holds(p) \/ UNCHANGED tmp)
  BY DEF Crash, Holds, Unlocked, manager, history
<1>2. Stopped(p)
  BY <1>1, EndedStopped DEF RollbackInv, FileInv, LockInv
<1> QED
  BY <1>1, <1>2, RollbackStops

\* After an edit nothing is promised of the definition, and where there is no service there
\* is still none.
LEMMA RollbackEdit ==
    ASSUME RollbackInv, FileInv', NEW file, Edit(file)
    PROVE  RollbackInv'
<1>1. UNCHANGED <<run, service>> /\ edited'
  BY DEF Edit, manager
<1>2. ASSUME NEW q \in Runs
      PROVE  RollbackOK(q)'
  BY <1>1 DEF RollbackInv, RollbackOK, Place, Fresh, Published
<1> QED
  BY <1>1, <1>2 DEF RollbackInv, ServiceOK

LEMMA RollbackInvInit == Init => RollbackInv
<1> SUFFICES ASSUME Init
             PROVE  RollbackInv
  OBVIOUS
<1>1. run = [q \in Runs |-> Idle] /\ service \in {"none", def.body}
  BY DEF Init
<1>2. ASSUME NEW p \in Runs
      PROVE  RollbackOK(p)
  <2>1. Place(p) = "idle" /\ Fresh(p) /\ run[p].op = "none"
    BY <1>1 DEF Idle, Place, Fresh, Published
  <2> QED
    BY <2>1 DEF RollbackOK, Stopping
<1> QED
  BY <1>1, <1>2, FileInvInit DEF RollbackInv, ServiceOK

LEMMA RollbackInvStep == RollbackInv /\ [Next]_vars => RollbackInv'
<1> SUFFICES ASSUME RollbackInv, [Next]_vars
             PROVE  RollbackInv'
  OBVIOUS
<1>1. FileInv'
  BY FileInvStep DEF RollbackInv
<1>2. CASE UNCHANGED vars
  <2>1. UNCHANGED <<def, tmp, service, run, edited>>
    BY <1>2 DEF vars, files, manager, history
  <2>2. ASSUME NEW q \in Runs
        PROVE  RollbackOK(q)'
    <3>1. run'[q] = run[q] /\ RollbackOK(q)
      BY <2>1 DEF RollbackInv
    <3>2. Place(q)' = Place(q) /\ Published(q)' = Published(q) /\ NewId(q)' = NewId(q)
      BY <3>1 DEF Place, Published, NewId
    <3> QED
      BY <2>1, <3>1, <3>2 DEF RollbackOK, Fresh, InstallOK
  <2> QED
    BY <1>1, <2>1, <2>2 DEF RollbackInv, ServiceOK
<1>3. ASSUME NEW p \in Runs, Operate(p)
      PROVE  RollbackInv'
  BY <1>1, <1>3, RollbackJournal, RollbackLegacy, RollbackCommand DEF Operate, Command
<1>4. ASSUME NEW p \in Runs,
             \/ \E op \in Ops[p] : Start(p, op)
             \/ Acquire(p) \/ Recover(p) \/ Publish(p) \/ Withdraw(p) \/ Release(p)
             \/ CommandFails(p) \/ Crash(p)
      PROVE  RollbackInv'
  BY <1>1, <1>4, RollbackAcquire, RollbackRecover, RollbackPublish, RollbackWithdraw,
     RollbackRelease, RollbackCommand, RollbackCrash
<1>5. ASSUME NEW file, Edit(file)
      PROVE  RollbackInv'
  BY <1>1, <1>5, RollbackEdit
<1> QED
  BY <1>2, <1>3, <1>4, <1>5 DEF Next

\* An install before its probe knows nothing, one that changes files has no service running
\* beside it, and one that releases its lock has kept or given back what it found.
THEOREM RollbackInvHolds == Spec => []RollbackInv
BY RollbackInvInit, RollbackInvStep, PTL DEF Spec

\* An install that fails and claims to have rolled back leaves the definition it found, and
\* the service that ran before it running it, as long as nobody else edits the definition:
\* whichever of its commands was refused and however many crashed predecessors it recovered.
THEOREM FailedInstallRollsBackHolds == Spec => FailedInstallRollsBack
<1> DEFINE Restored(p) ==
             /\ run[p].pc = "unlock" /\ run'[p].pc = "ended" /\ run[p].op = "install"
             /\ run[p].outcome = "failed" /\ ~edited /\ run[p].existing # NoFile
             => def.body = run[p].existing.body /\ (run[p].loaded => service = def.body)
<1>1. RollbackInv => \A p \in Runs : Restored(p)
  <2> SUFFICES ASSUME RollbackInv, NEW p \in Runs, run[p].pc = "unlock", run[p].op = "install", ~edited,
                      run[p].outcome = "failed", run[p].existing # NoFile
               PROVE  def.body = run[p].existing.body /\ (run[p].loaded => service = def.body)
    OBVIOUS
  <2>1. Place(p) = "unlock" /\ InstallOK(p)
    BY DEF RollbackInv, RollbackOK, Place
  <2> QED
    BY <2>1 DEF InstallOK
<1>2. RollbackInv => [\A p \in Runs : Restored(p)]_vars
  BY <1>1
<1>3. Spec => [][\A p \in Runs : Restored(p)]_vars
  BY <1>2, RollbackInvHolds, PTL
<1> QED
  BY <1>3 DEF FailedInstallRollsBack

-----------------------------------------------------------------------------
\* Who is refused.

Owners == [tx : Runs \cup {0}, preds : Seq(Runs)]

\* The transactions an owner's metadata names.
Named(owner) == {owner.tx} \cup ToSet(owner.preds)

Claimant(p) == Dead(p) \/ Holds(p) \/ run[p].pc \in {"claimed", "replace"}

\* A claim is one on a dead owner, by a run that inherits from it and, if it lives, has come
\* to claim; and a run has one.
ClaimsOK ==
    /\ \A x \in Runs : claim[x] # NoOwner =>
        Dead(x) /\ claim[x].preds # <<>> /\ Claimant(claim[x].tx)
    /\ \A x, y \in Runs : claim[x] # NoOwner /\ claim[x].tx = claim[y].tx => x = y

\* While the lock it claims is still there, the claimant has its candidate.
BackedOK == \A x \in Runs : claim[x] # NoOwner /\ lock.tx = x => HasCandidate(claim[x])

\* One that inherits and still has its candidate never had the lock, and nobody saw it there.
UnseenOK ==
    \A o \in Runs : candidate[o].preds # <<>> =>
        /\ lock.tx # o /\ claim[o] = NoOwner
        /\ \A q \in Runs : run[q].pc \in LooksBack => run[q].seen.tx # o

\* What a run's candidate says, and that the lock it saw is still itself if its owner is.
CandidatesOK(p) ==
    /\ run[p].pc \in {"link", "linked"} => candidate[p] = [tx |-> p, preds |-> <<>>]
    /\ run[p].pc \in {"claim", "claim-link", "claimed", "replace"} => candidate[p].preds # <<>>
    /\ run[p].pc \in LooksBack /\ lock.tx = run[p].seen.tx => lock = run[p].seen

OwnersOK ==
    /\ lock \in Owners
    /\ candidate \in [Runs -> Owners] /\ claim \in [Runs -> Owners]
    /\ \A p \in Runs : run[p].pc \in LooksBack => run[p].seen \in Owners

CompanionInv ==
    /\ LockInv /\ OwnersOK /\ ClaimsOK /\ BackedOK /\ UnseenOK
    /\ \A p \in Runs : CandidatesOK(p)

\* Transactions that left a journal or a temporary of one.
Left(t) == journal.tx = t \/ journalTmp[t] # NoJournal

\* An owner's metadata names whoever did.
Covers(owner) == \A t \in Runs : Left(t) => t \in Named(owner)

OneLeft == \A t, u \in Runs : Left(t) /\ Left(u) => t = u

\* Whoever may replace the lock inherits what its owner has to recover.
Heirs == {"claim", "claim-link", "claimed", "replace"}

HeirOK(p) == run[p].pc \in Heirs /\ lock.tx = run[p].seen.tx => Covers(candidate[p])

HeirsOK ==
    /\ \A p \in Runs : HeirOK(p)
    /\ \A x \in Runs : claim[x] # NoOwner /\ lock.tx = x => Covers(claim[x])

\* In its own transaction a run has nobody else's to recover, and in the end not its own.
OwnLeftOK(p) ==
    /\ Holds(p) /\ Place(p) # "recover" => \A t \in Runs : Left(t) => t = p
    /\ run[p].pc \in {"release-claim", "unlock"} => journal.tx # p

LineageInv ==
    /\ FileInv /\ CompanionInv
    /\ \A t \in Runs : journalTmp[t] # Torn
    /\ Covers(lock) /\ OneLeft /\ HeirsOK
    /\ \A p \in Runs : OwnLeftOK(p)

\* What recovery can act on: the files are as journal j says they may be.
Fits(j) ==
    LET t == j.tx
    IN  /\ j.phase = "preparing" =>
             /\ quarantine[t] = NoFile /\ def.id = j.original
             /\ tmp[t] = NoFile \/ tmp[t].body = j.expected
        /\ j.op = "publish" /\ j.phase # "preparing" =>
             /\ tmp[t] = NoFile \/ tmp[t].id = j.replacement
             /\ quarantine[t] = NoFile \/ quarantine[t].id = j.original
             /\ def = NoFile /\ quarantine[t] = NoFile => j.original = NoFile.id
        /\ j.op = "remove" => quarantine[t] = NoFile \/ quarantine[t].id = j.original

FitOK ==
    /\ journal # NoJournal => Fits(journal)
    /\ \A t \in Runs : journalTmp[t] # NoJournal => Fits(journalTmp[t])
    /\ \A p \in Runs : run[p].pc \in {"stage", "commit"} => Fits(run[p].pending)

\* Where a run's transaction has a temporary.
Temporaries == {"move-old", "rename-old", "put-back", "link-new", "unlink-temp", "undo",
                "undo-drop", "drop-temp"}

BareOK(p) == ~Dead(p) /\ Place(p) \notin Temporaries => tmp[p] = NoFile

\* What a run has written of its transaction, and what it will find.
Writes == {"write-temp", "move-old", "rename-old", "link-new", "unlink-temp", "drop-old"}

Steps(p) ==
    /\ Place(p) \in Writes \cup {"rename-away", "destroy"} =>
         run[p].pending.tx = p /\ run[p].pending.original = run[p].source
    /\ Place(p) \in Writes => run[p].pending.op = "publish"
    /\ Place(p) = "write-temp" =>
         run[p].pending.phase = "preparing" /\ run[p].pending.expected = run[p].body
    /\ Place(p) \in Writes \ {"write-temp"} => run[p].pending.phase # "preparing"
    /\ Place(p) \in {"move-old", "rename-old", "link-new", "unlink-temp"} =>
         run[p].pending.replacement = NewId(p) /\ tmp[p].id = NewId(p)
    /\ Place(p) \in {"rename-away", "destroy"} =>
         run[p].pending.op = "remove" /\ run[p].pending.phase # "preparing"
    /\ run[p].pc \in Writes \cup {"rename-away", "destroy"} => journal = run[p].pending

Finds(p) ==
    /\ Place(p) \in {"write-temp", "move-old", "rename-old", "rename-away"} =>
         run[p].source = def.id
    /\ Place(p) = "rename-old" => def # NoFile
    /\ Place(p) = "link-new" => def = NoFile
    /\ Place(p) = "unlink-temp" => def = tmp[p]
    /\ Place(p) = "drop-old" => def # NoFile
    /\ Place(p) \notin {"put-back", "undo", "undo-drop", "drop-temp"}

RecoverableInv ==
    /\ LineageInv
    /\ \A p \in Runs : BareOK(p) /\ Steps(p)
    /\ ~edited => FitOK /\ \A p \in Runs : Finds(p)

\* Runs that are there together know of it; one that is alone finds what it saw.
Together == \A p, q \in Runs : p # q /\ Alive(p) /\ Alive(q) => met[p]

FindsLock(p) ==
    Alive(p) /\ ~met[p] =>
        /\ run[p].pc \in LooksBack => lock = run[p].seen
        /\ run[p].pc = "unlink-companion" => HasCandidate(lock) \/ HasClaim(lock)
        /\ run[p].pc = "contest" => claim[lock.tx] # NoOwner

AloneInv ==
    /\ RecoverableInv
    /\ Together
    /\ \A p \in Runs : FindsLock(p)
    /\ AloneNeverRefused

-----------------------------------------------------------------------------
\* The rank of an index among those it is kept with.
Rank(at, i) == Cardinality({j \in at : j <= i})

\* A rank is a place among those kept, and no two indices have the same one.
LEMMA RankBounds ==
    ASSUME NEW at, IsFiniteSet(at), at \subseteq Nat
    PROVE  /\ \A i \in at : Rank(at, i) \in 1..Cardinality(at)
           /\ \A i, k \in at : Rank(at, i) = Rank(at, k) => i = k
<1>1. ASSUME NEW i \in at
      PROVE  /\ IsFiniteSet({j \in at : j <= i}) /\ Rank(at, i) \in Nat
             /\ Rank(at, i) <= Cardinality(at) /\ Rank(at, i) # 0
  <2>1. IsFiniteSet({j \in at : j <= i}) /\ Rank(at, i) <= Cardinality(at)
    BY FS_Subset DEF Rank
  <2>2. Rank(at, i) \in Nat
    BY <2>1, FS_CardinalityType DEF Rank
  <2>3. i \in {j \in at : j <= i}
    OBVIOUS
  <2>4. {j \in at : j <= i} # {}
    BY <2>3
  <2>5. Rank(at, i) # 0
    BY <2>1, <2>4, FS_EmptySet DEF Rank
  <2> QED
    BY <2>1, <2>2, <2>5
<1>2. Cardinality(at) \in Nat
  BY FS_CardinalityType
<1>3. ASSUME NEW i \in at, NEW k \in at, i < k
      PROVE  Rank(at, i) # Rank(at, k)
  <2> DEFINE I == {j \in at : j <= i}
             K == {j \in at : j <= k}
  <2>1. I \in SUBSET K /\ k \in K /\ k \notin I
    <3>1. \A j \in at : j <= i => j <= k
      BY <1>3
    <3>2. k <= k /\ ~(k <= i)
      BY <1>3
    <3> QED
      BY <3>1, <3>2
  <2>2. I # K
    BY <2>1
  <2>3. IsFiniteSet(K)
    BY <1>1
  <2>4. Cardinality(K) # Cardinality(I)
    BY <2>1, <2>2, <2>3, FS_Subset
  <2> QED
    BY <2>4 DEF Rank
<1>4. \A i, k \in at : i # k => i < k \/ k < i
  OBVIOUS
<1>5. ASSUME NEW i \in at
      PROVE  Rank(at, i) \in 1..Cardinality(at)
  <2>1. PICK r \in Nat : r = Rank(at, i)
    BY <1>1
  <2>2. r <= Cardinality(at) /\ r # 0
    BY <1>1, <2>1
  <2>3. r \in 1..Cardinality(at)
    BY <1>2, <2>2
  <2> QED
    BY <2>1, <2>3
<1>6. \A i, k \in at : Rank(at, i) = Rank(at, k) => i = k
  BY <1>3, <1>4
<1> QED
  BY <1>5, <1>6

\* Every rank up to the number of indices is one's.
LEMMA RankOnto ==
    ASSUME NEW at, IsFiniteSet(at), at \subseteq Nat
    PROVE  \A n \in 1..Cardinality(at) : \E i \in at : Rank(at, i) = n
<1> DEFINE rank == [i \in at |-> Rank(at, i)]
           ranks == 1..Cardinality(at)
<1>1. rank \in [at -> ranks] /\ \A i, k \in at : rank[i] = rank[k] => i = k
  BY RankBounds
<1>2. rank \in Injection(at, ranks)
  BY <1>1 DEF Injection, IsInjective
<1>3. Cardinality(at) \in Nat
  BY FS_CardinalityType
<1>4. IsFiniteSet(ranks) /\ Cardinality(ranks) = Cardinality(at)
  BY <1>3, FS_Interval
<1>5. rank \in Surjection(at, ranks)
  BY <1>2, <1>4, FS_Injection
<1>6. \A n \in ranks : \E i \in at : rank[i] = n
  BY <1>5 DEF Surjection
<1> QED
  BY <1>6

\* What is kept of a sequence: the elements it has of the set, in a sequence of its own.
LEMMA AmongKeeps ==
    ASSUME NEW T, NEW s \in Seq(T), NEW S
    PROVE  Among(s, S) \in Seq(T) /\ ToSet(Among(s, S)) = ToSet(s) \cap S
<1> DEFINE at == {i \in DOMAIN s : s[i] \in S}
           Nth(k) == CHOOSE i \in at : Rank(at, i) = k
<1>1. DOMAIN s = 1..Len(s) /\ Len(s) \in Nat /\ \A i \in DOMAIN s : s[i] \in T
  OBVIOUS
<1>2. IsFiniteSet(at) /\ at \subseteq Nat
  <2>1. IsFiniteSet(1..Len(s)) /\ at \in SUBSET (1..Len(s))
    BY <1>1, FS_Interval
  <2> QED
    BY <2>1, <1>1, FS_Subset
<1>3. Cardinality(at) \in Nat
  BY <1>2, FS_CardinalityType
<1>4. Among(s, S) = [k \in 1..Cardinality(at) |-> s[Nth(k)]]
  BY DEF Among, Rank
<1>5. \A k \in 1..Cardinality(at) : Nth(k) \in at /\ Rank(at, Nth(k)) = k
  BY <1>2, RankOnto
<1>6. \A i \in at : Rank(at, i) \in 1..Cardinality(at) /\ Nth(Rank(at, i)) = i
  <2>1. \A i, k \in at : Rank(at, i) = Rank(at, k) => i = k
    BY <1>2, RankBounds
  <2>2. \A i \in at : Rank(at, i) \in 1..Cardinality(at)
    BY <1>2, RankBounds
  <2> QED
    BY <1>5, <2>1, <2>2
<1> HIDE DEF Nth
<1>7. Among(s, S) \in [1..Cardinality(at) -> T]
  BY <1>1, <1>4, <1>5
<1>8. Among(s, S) \in Seq(T)
  <2>1. PICK n \in Nat : n = Cardinality(at)
    BY <1>3
  <2>2. Among(s, S) \in [1..n -> T]
    BY <1>7, <2>1
  <2>3. [1..n -> T] \subseteq Seq(T)
    OBVIOUS
  <2> QED
    BY <2>2, <2>3
<1>9. DOMAIN Among(s, S) = 1..Cardinality(at)
  BY <1>4
<1>10. ASSUME NEW e \in ToSet(Among(s, S))
       PROVE  e \in ToSet(s) \cap S
  <2>1. PICK k \in 1..Cardinality(at) : e = s[Nth(k)]
    BY <1>4, <1>9 DEF ToSet
  <2> QED
    BY <1>5, <2>1 DEF ToSet
<1>11. ASSUME NEW e \in ToSet(s) \cap S
       PROVE  e \in ToSet(Among(s, S))
  <2>1. PICK i \in at : e = s[i]
    BY DEF ToSet
  <2>2. Among(s, S)[Rank(at, i)] = e
    BY <1>4, <1>6, <2>1
  <2> QED
    BY <1>6, <1>9, <2>2 DEF ToSet
<1> QED
  BY <1>8, <1>10, <1>11

\* A lineage is never empty and keeps whoever left something.
LEMMA InheritedKeeps ==
    ASSUME NEW owner \in Owners, owner.tx \in Runs
    PROVE  /\ Inherited(owner) \in Seq(Runs) /\ Inherited(owner) # <<>>
           /\ owner.tx \in ToSet(Inherited(owner))
           /\ Unfinished(Named(owner)) \subseteq ToSet(Inherited(owner))
<1> DEFINE available == <<owner.tx>> \o owner.preds
           needed == {owner.tx} \cup Unfinished(ToSet(available))
<1>1. owner.preds \in Seq(Runs) /\ <<owner.tx>> \in Seq(Runs)
  BY DEF Owners
<1>2. available \in Seq(Runs)
  BY <1>1
<1>3. ToSet(available) = Named(owner)
  <2>1. \A e \in ToSet(available) : e \in Named(owner)
    BY <1>1, <1>2 DEF ToSet, Named
  <2>2. owner.tx \in ToSet(available)
    <3>1. 1 \in DOMAIN available /\ available[1] = owner.tx
      BY <1>1
    <3> QED
      BY <3>1 DEF ToSet
  <2>3. ASSUME NEW e \in ToSet(owner.preds)
        PROVE  e \in ToSet(available)
    <3>1. PICK i \in DOMAIN owner.preds : e = owner.preds[i]
      BY DEF ToSet
    <3>2. i + 1 \in DOMAIN available /\ available[i + 1] = e
      BY <1>1, <3>1
    <3> QED
      BY <3>2 DEF ToSet
  <2> QED
    BY <2>1, <2>2, <2>3 DEF Named
<1>4. needed \subseteq ToSet(available)
  BY <1>3 DEF Unfinished, Named
<1>5. Inherited(owner) \in Seq(Runs) /\ needed \subseteq ToSet(Inherited(owner))
  <2>1. CASE Len(available) <= MaxPredecessors
    BY <1>2, <1>4, <2>1 DEF Inherited
  <2>2. CASE ~(Len(available) <= MaxPredecessors)
    <3>1. PICK S : S = Newest(available, needed) \cup needed
      OBVIOUS
    <3>2. Inherited(owner) = Among(available, S)
      BY <2>2, <3>1 DEF Inherited
    <3> HIDE DEF available, needed
    <3> QED
      BY <1>2, <1>4, <3>1, <3>2, AmongKeeps
  <2> QED
    BY <2>1, <2>2
<1>6. owner.tx \in ToSet(Inherited(owner))
  BY <1>5
<1>7. Inherited(owner) # <<>>
  BY <1>6 DEF ToSet
<1> QED
  BY <1>3, <1>5, <1>6, <1>7

\* The first place of an element of a sequence.
LEMMA FirstPlace ==
    ASSUME NEW T, NEW s \in Seq(T), NEW e \in ToSet(s)
    PROVE  \E i \in DOMAIN s : s[i] = e /\ \A k \in 1..(i - 1) : s[k] # e
<1> DEFINE at == {i \in DOMAIN s : s[i] = e}
<1>1. DOMAIN s = 1..Len(s) /\ Len(s) \in Nat
  OBVIOUS
<1>2. at \subseteq Nat /\ at # {}
  BY <1>1 DEF ToSet
<1>3. PICK i \in at : \A k \in at : ~(<<k, i>> \in OpToRel(<, Nat))
  BY <1>2, WFMin, NatLessThanWellFounded
<1>4. \A k \in at : ~(k < i)
  BY <1>2, <1>3 DEF OpToRel
<1>5. \A k \in 1..(i - 1) : k \in DOMAIN s /\ k < i
  BY <1>1
<1> QED
  BY <1>4, <1>5
-----------------------------------------------------------------------------
LEMMA NoOwnerOwner == NoOwner \in Owners /\ NoOwner.preds = <<>> /\ NoOwner.tx = 0
BY DEF NoOwner, Owners

\* What run p looks back on: what it saw, or what is there.
LooksAt(p) ==
    /\ Claimant(p) => Claimant(p)'
    /\ run'[p].pc \in LooksBack => \/ run'[p].seen = lock
                                   \/ run[p].pc \in LooksBack /\ run'[p].seen = run[p].seen

\* What a step of p leaves of what the others know.
LEMMA CompanionMoves ==
    ASSUME CompanionInv, LockInv', NEW p \in Runs, At(p, run'[p]),
           \A q \in Runs \ {p} : Dead(q) \/ candidate'[q] = candidate[q],
           lock' = lock \/ \A q \in Runs : run[q].pc \in LooksBack => run[q].seen.tx # lock'.tx,
           OwnersOK', ClaimsOK', BackedOK', UnseenOK', CandidatesOK(p)'
    PROVE  CompanionInv'
<1>1. ASSUME NEW q \in Runs \ {p}
      PROVE  CandidatesOK(q)'
  <2>1. run'[q] = run[q] /\ CandidatesOK(q)
    BY DEF At, CompanionInv
  <2>2. run[q].pc \in {"link", "linked", "claim", "claim-link", "claimed", "replace"} =>
          candidate'[q] = candidate[q]
    BY DEF Dead
  <2> QED
    BY <2>1, <2>2 DEF CandidatesOK
<1> QED
  BY <1>1 DEF CompanionInv

\* One that changes nothing, or only removes companions that no claim depends on.
LEMMA CompanionsShrink ==
    ASSUME CompanionInv, LockInv', NEW p \in Runs, At(p, run'[p]), ~Dead(p), lock' = lock,
           candidate' = [q \in Runs |-> candidate'[q]], claim' = [x \in Runs |-> claim'[x]],
           \A x \in Runs : claim'[x] \in {claim[x], NoOwner},
           \A q \in Runs : candidate'[q] \in {candidate[q], NoOwner},
           \A q \in Runs : candidate'[q] # candidate[q] =>
             /\ q = p \/ Dead(q)
             /\ \A x \in Runs : claim'[x] # NoOwner /\ lock.tx = x => claim'[x] # candidate[q],
           LooksAt(p), CandidatesOK(p)'
    PROVE  CompanionInv'
<1>1. Shaped /\ \A x \in Runs : Dead(x) => Dead(x)'
  BY DEF CompanionInv, LockInv, At, Dead
<1>2. OwnersOK'
  <2>1. \A x \in Runs : claim'[x] \in Owners /\ candidate'[x] \in Owners
    BY NoOwnerOwner DEF CompanionInv, OwnersOK
  <2>2. \A q \in Runs : run'[q].pc \in LooksBack => run'[q].seen \in Owners
    BY DEF LooksAt, At, CompanionInv, OwnersOK
  <2> QED
    BY <2>1, <2>2 DEF OwnersOK, CompanionInv
<1>3. \A q \in Runs : Claimant(q) => Claimant(q)'
  BY DEF At, LooksAt, Claimant, Dead, Holds
<1>4. \A x \in Runs : claim[x] # NoOwner => claim[x].tx \in Runs
  BY DEF CompanionInv, LockInv, NamesOK, Started
<1>5. ClaimsOK'
  BY <1>1, <1>3, <1>4 DEF CompanionInv, ClaimsOK
<1>6. BackedOK'
  <2> SUFFICES ASSUME NEW x \in Runs, claim'[x] # NoOwner, lock.tx = x
               PROVE  HasCandidate(claim[x])'
    BY DEF BackedOK
  <2>1. claim'[x] = claim[x] /\ HasCandidate(claim[x]) /\ claim[x].tx \in Runs
    BY <1>4 DEF CompanionInv, BackedOK
  <2>2. candidate'[claim[x].tx] = candidate[claim[x].tx]
    BY <2>1 DEF HasCandidate
  <2> QED
    BY <2>1, <2>2 DEF HasCandidate
<1>7. UnseenOK'
  <2> SUFFICES ASSUME NEW o \in Runs, candidate'[o].preds # <<>>
               PROVE  /\ lock.tx # o /\ claim'[o] = NoOwner
                      /\ \A q \in Runs : run'[q].pc \in LooksBack => run'[q].seen.tx # o
    BY DEF UnseenOK
  <2>1. candidate[o].preds # <<>>
    BY NoOwnerOwner
  <2>2. /\ lock.tx # o /\ claim[o] = NoOwner
        /\ \A q \in Runs : run[q].pc \in LooksBack => run[q].seen.tx # o
    BY <2>1 DEF CompanionInv, UnseenOK
  <2> QED
    BY <2>2 DEF LooksAt, At
<1> QED
  BY <1>2, <1>5, <1>6, <1>7, CompanionMoves

\* One that leaves the lock's files alone.
LEMMA CompanionsStay ==
    ASSUME CompanionInv, LockInv', NEW p \in Runs, At(p, run'[p]), ~Dead(p), UNCHANGED locks,
           LooksAt(p), CandidatesOK(p)'
    PROVE  CompanionInv'
<1>1. /\ candidate' = [q \in Runs |-> candidate'[q]] /\ claim' = [x \in Runs |-> claim'[x]]
      /\ lock' = lock /\ claim' = claim /\ candidate' = candidate
  BY DEF CompanionInv, LockInv, Shaped, locks
<1> QED
  BY <1>1, CompanionsShrink

\* One that removes its own candidate before it has claimed anything, or a dead owner's.
LEMMA CandidateGoes ==
    ASSUME CompanionInv, LockInv', NEW p \in Runs, At(p, run'[p]), ~Dead(p),
           UNCHANGED <<lock, claim>>,
           NEW c \in Runs, candidate' = [candidate EXCEPT ![c] = NoOwner],
           \/ c = p /\ ~Claimant(p)
           \/ Dead(c) /\ candidate[c].preds = <<>>,
           LooksAt(p), CandidatesOK(p)'
    PROVE  CompanionInv'
<1>1. /\ candidate' = [q \in Runs |-> candidate'[q]] /\ candidate'[c] = NoOwner
      /\ claim' = [x \in Runs |-> claim'[x]]
      /\ \A q \in Runs \ {c} : candidate'[q] = candidate[q]
  BY DEF CompanionInv, LockInv, Shaped
<1>2. ASSUME NEW x \in Runs, claim[x] # NoOwner
      PROVE  claim[x] # candidate[c]
  <2>1. claim[x].preds # <<>> /\ claim[x].tx \in Runs /\ Claimant(claim[x].tx)
    BY <1>2 DEF CompanionInv, ClaimsOK, LockInv, NamesOK, Started
  <2>2. candidate[c] = NoOwner \/ candidate[c].tx = c
    BY DEF CompanionInv, LockInv, NamesOK
  <2> QED
    BY <2>1, <2>2, NoOwnerOwner
<1> QED
  BY <1>1, <1>2, CompanionsShrink

\* One that writes its candidate.
LEMMA CandidateComes ==
    ASSUME CompanionInv, LockInv', NEW p \in Runs, At(p, run'[p]), ~Dead(p), ~Claimant(p),
           UNCHANGED <<lock, claim>>,
           NEW owner \in Owners, candidate' = [candidate EXCEPT ![p] = owner],
           owner.preds # <<>> => lock.tx # p,
           LooksAt(p), CandidatesOK(p)'
    PROVE  CompanionInv'
<1>1. /\ candidate' = [q \in Runs |-> candidate'[q]] /\ candidate'[p] = owner
      /\ \A q \in Runs \ {p} : candidate'[q] = candidate[q]
  BY DEF CompanionInv, LockInv, Shaped
<1>2. \A x \in Runs : Dead(x) => Dead(x)'
  BY DEF At, Dead
<1>3. OwnersOK'
  <2>1. \A q \in Runs : run'[q].pc \in LooksBack => run'[q].seen \in Owners
    BY DEF LooksAt, At, CompanionInv, OwnersOK
  <2> QED
    BY <1>1, <2>1 DEF OwnersOK, CompanionInv
<1>4. \A q \in Runs : Claimant(q) => Claimant(q)'
  BY DEF At, LooksAt, Claimant, Dead, Holds
<1>5. \A x \in Runs : claim[x] # NoOwner => claim[x].tx \in Runs /\ claim[x].tx # p
  BY DEF CompanionInv, LockInv, NamesOK, Started, ClaimsOK
<1>6. ClaimsOK'
  BY <1>2, <1>4, <1>5 DEF CompanionInv, ClaimsOK
<1>7. BackedOK'
  BY <1>1, <1>5 DEF CompanionInv, BackedOK, HasCandidate
<1>8. UnseenOK'
  <2> SUFFICES ASSUME NEW o \in Runs, candidate'[o].preds # <<>>
               PROVE  /\ lock.tx # o /\ claim[o] = NoOwner
                      /\ \A q \in Runs : run'[q].pc \in LooksBack => run'[q].seen.tx # o
    BY DEF UnseenOK
  <2>1. CASE o = p
    <3>1. lock.tx # p /\ claim[p] = NoOwner
      BY <1>1, <2>1 DEF CompanionInv, ClaimsOK
    <3>2. \A q \in Runs : run[q].pc \in LooksBack => run[q].seen.tx # p
      BY DEF CompanionInv, LockInv, RunOK, SeenOK
    <3> QED
      BY <2>1, <3>1, <3>2 DEF LooksAt, At
  <2>2. CASE o # p
    <3>1. /\ lock.tx # o /\ claim[o] = NoOwner
          /\ \A q \in Runs : run[q].pc \in LooksBack => run[q].seen.tx # o
      BY <1>1, <2>2 DEF CompanionInv, UnseenOK
    <3> QED
      BY <3>1 DEF LooksAt, At
  <2> QED
    BY <2>1, <2>2
<1> QED
  BY <1>1, <1>3, <1>6, <1>7, <1>8, CompanionMoves

\* One that gives the lock to an owner nobody has seen there, or to none.
LEMMA LockGoes ==
    ASSUME CompanionInv, LockInv', NEW p \in Runs, At(p, run'[p]), ~Dead(p), claim' = claim,
           candidate' = [q \in Runs |-> candidate'[q]],
           \A q \in Runs : candidate'[q] \in {candidate[q], NoOwner},
           \A q \in Runs \ {p} : Dead(q) \/ candidate'[q] = candidate[q],
           lock' \in Owners,
           lock'.tx \in Runs => claim[lock'.tx] = NoOwner /\ candidate'[lock'.tx].preds = <<>>,
           \A q \in Runs : run[q].pc \in LooksBack => run[q].seen.tx # lock'.tx,
           run'[p].pc \notin LooksBack, Claimant(p) => Claimant(p)', CandidatesOK(p)'
    PROVE  CompanionInv'
<1>1. \A x \in Runs : Dead(x) => Dead(x)'
  BY DEF At, Dead
<1>2. OwnersOK'
  <2>1. \A x \in Runs : candidate'[x] \in Owners
    BY NoOwnerOwner DEF CompanionInv, OwnersOK
  <2>2. \A q \in Runs : run'[q].pc \in LooksBack => run'[q].seen \in Owners
    BY DEF At, CompanionInv, OwnersOK
  <2> QED
    BY <2>1, <2>2 DEF OwnersOK, CompanionInv
<1>3. \A q \in Runs : Claimant(q) => Claimant(q)'
  BY DEF At, Claimant, Dead, Holds
<1>4. \A x \in Runs : claim[x] # NoOwner => claim[x].tx \in Runs
  BY DEF CompanionInv, LockInv, NamesOK, Started
<1>5. ClaimsOK'
  BY <1>1, <1>3, <1>4 DEF CompanionInv, ClaimsOK
<1>6. BackedOK'
  BY DEF BackedOK
<1>7. UnseenOK'
  <2> SUFFICES ASSUME NEW o \in Runs, candidate'[o].preds # <<>>
               PROVE  /\ lock'.tx # o /\ claim[o] = NoOwner
                      /\ \A q \in Runs : run'[q].pc \in LooksBack => run'[q].seen.tx # o
    BY DEF UnseenOK
  <2>1. candidate[o].preds # <<>>
    BY NoOwnerOwner
  <2>2. claim[o] = NoOwner /\ \A q \in Runs : run[q].pc \in LooksBack => run[q].seen.tx # o
    BY <2>1 DEF CompanionInv, UnseenOK
  <2> QED
    BY <2>2 DEF At
<1> QED
  BY <1>2, <1>5, <1>6, <1>7, CompanionMoves
-----------------------------------------------------------------------------
LEMMA AsideOK ==
    ASSUME NEW p \in Runs, run'[p].pc \notin LooksBack \cup {"link", "linked"}
    PROVE  CandidatesOK(p)' /\ ((Claimant(p) => Claimant(p)') => LooksAt(p))
BY DEF CandidatesOK, LooksAt, LooksBack

LEMMA CompanionUnchanged ==
    ASSUME CompanionInv, LockInv', UNCHANGED <<locks, run>>
    PROVE  CompanionInv'
<1>1. lock' = lock /\ candidate' = candidate /\ claim' = claim /\ run' = run
  BY DEF locks
<1>2. \A q \in Runs : Claimant(q)' = Claimant(q) /\ Dead(q)' = Dead(q) /\ CandidatesOK(q)' = CandidatesOK(q)
  BY <1>1 DEF Claimant, Dead, Holds, CandidatesOK
<1>3. \A x \in Runs : claim[x] # NoOwner => claim[x].tx \in Runs
  BY DEF CompanionInv, LockInv, NamesOK, Started
<1>4. ClaimsOK'
  BY <1>1, <1>2, <1>3 DEF CompanionInv, ClaimsOK
<1>5. BackedOK' /\ UnseenOK' /\ OwnersOK'
  BY <1>1 DEF CompanionInv, BackedOK, UnseenOK, OwnersOK, HasCandidate
<1> QED
  BY <1>2, <1>4, <1>5 DEF CompanionInv

\* Outside the lock, and under it, the companions stay as they are.
LEMMA CompanionStart ==
    ASSUME CompanionInv, LockInv', NEW p \in Runs, NEW op, Start(p, op)
    PROVE  CompanionInv'
<1>1. /\ run[p].pc = "idle" /\ UNCHANGED locks
      /\ run' = [run EXCEPT ![p].op = op,
                            ![p].pc = IF op = "status" THEN "probe-legacy" ELSE "candidate"]
  BY DEF Start
<1>2. At(p, run'[p]) /\ run'[p].pc \in {"probe-legacy", "candidate"}
  BY <1>1 DEF At, CompanionInv, LockInv, Shaped, Fields
<1>3. ~Claimant(p) /\ ~Dead(p) /\ run'[p].pc \notin LooksBack \cup {"link", "linked"}
  BY <1>1, <1>2 DEF Claimant, Dead, Holds, Unlocked, LooksBack
<1> QED
  BY <1>1, <1>2, <1>3, AsideOK, CompanionsStay

LEMMA CompanionProbeLegacy ==
    ASSUME CompanionInv, LockInv', NEW p \in Runs, ProbeLegacy(p)
    PROVE  CompanionInv'
<1>1. run[p].pc = "probe-legacy" /\ UNCHANGED locks
  BY DEF ProbeLegacy
<1>2. At(p, run'[p]) /\ run'[p].pc \in {"ended", "candidate"}
  <2>1. CASE run' = Ended(p, "done")
    BY <2>1, EndedAt DEF CompanionInv, LockInv
  <2>2. CASE run' # Ended(p, "done")
    <3>1. PICK h : run' = [run EXCEPT ![p].pc = "candidate", ![p].handOver = h]
      BY <2>2 DEF ProbeLegacy
    <3> QED
      BY <3>1 DEF At, CompanionInv, LockInv, Shaped, Fields
  <2> QED
    BY <2>1, <2>2
<1>3. ~Claimant(p) /\ ~Dead(p) /\ run'[p].pc \notin LooksBack \cup {"link", "linked"}
  BY <1>1, <1>2 DEF Claimant, Dead, Holds, Unlocked, LooksBack
<1> QED
  BY <1>1, <1>2, <1>3, AsideOK, CompanionsStay

LEMMA CompanionBody ==
    ASSUME CompanionInv, LockInv', NEW p \in Runs, Body(p)
    PROVE  CompanionInv'
<1>1. CASE run' = run
  BY <1>1, CompanionUnchanged DEF Body
<1>2. CASE Onwards(p)
  <2>1. /\ At(p, run'[p]) /\ Claimant(p)' /\ ~Dead(p)
        /\ run'[p].pc \notin LooksBack \cup {"link", "linked"}
    BY <1>2 DEF Body, Onwards, Claimant, Dead, Holds, Unlocked, LooksBack
  <2> QED
    BY <2>1, AsideOK, CompanionsStay DEF Body
<1> QED
  BY <1>1, <1>2 DEF Body

LEMMA CompanionCrash ==
    ASSUME CompanionInv, LockInv', NEW p \in Runs, Crash(p)
    PROVE  CompanionInv'
<1>1. UNCHANGED locks /\ ~Dead(p) /\ run' = Killed(p)
  BY DEF Crash, Alive, Dead
<1>2. At(p, run'[p]) /\ run'[p].pc = "crashed"
  BY <1>1 DEF Killed, At, CompanionInv, LockInv, Shaped, Fields, Idle
<1>3. Claimant(p)' /\ run'[p].pc \notin LooksBack \cup {"link", "linked"}
  BY <1>2 DEF Claimant, Dead, LooksBack
<1> QED
  BY <1>1, <1>2, <1>3, AsideOK, CompanionsStay

-----------------------------------------------------------------------------
\* A candidate, the link, a look at the owner.

LEMMA CompanionWriteCandidate ==
    ASSUME CompanionInv, LockInv', NEW p \in Runs, WriteCandidate(p)
    PROVE  CompanionInv'
<1> DEFINE owner == [tx |-> p, preds |-> <<>>]
<1>1. /\ run[p].pc = "candidate" /\ UNCHANGED <<lock, claim>> /\ Goto(p, "link")
      /\ candidate' = [candidate EXCEPT ![p] = owner]
  BY DEF WriteCandidate
<1>2. At(p, run'[p]) /\ run'[p].pc = "link"
  BY <1>1, GotoAt DEF CompanionInv, LockInv
<1>3. ~Claimant(p) /\ ~Dead(p)
  BY <1>1 DEF Claimant, Dead, Holds, Unlocked
<1>4. owner \in Owners /\ owner.preds = <<>> /\ candidate'[p] = owner
  BY <1>1 DEF Owners, CompanionInv, LockInv, Shaped
<1>5. LooksAt(p) /\ CandidatesOK(p)'
  BY <1>2, <1>3, <1>4 DEF LooksAt, CandidatesOK, LooksBack
<1> HIDE DEF owner
<1> QED
  BY <1>1, <1>2, <1>3, <1>4, <1>5, CandidateComes

LEMMA CompanionLinkLock ==
    ASSUME CompanionInv, LockInv', NEW p \in Runs, LinkLock(p)
    PROVE  CompanionInv'
<1>1. run[p].pc = "link" /\ claim' = claim
  BY DEF LinkLock
<1>2. /\ ~Claimant(p) /\ ~Dead(p) /\ candidate[p] = [tx |-> p, preds |-> <<>>]
      /\ candidate[p].tx = p /\ candidate[p].preds = <<>>
  BY <1>1 DEF Claimant, Dead, Holds, Unlocked, CompanionInv, CandidatesOK
<1>3. CASE lock = NoOwner /\ lock' = candidate[p] /\ Goto(p, "linked") /\ UNCHANGED candidate
  <2>1. At(p, run'[p]) /\ run'[p].pc = "linked"
    BY <1>3, GotoAt DEF CompanionInv, LockInv
  <2>2. CandidatesOK(p)' /\ run'[p].pc \notin LooksBack
    BY <1>2, <1>3, <2>1 DEF CandidatesOK, LooksBack
  <2>3. candidate' = [q \in Runs |-> candidate'[q]]
    BY <1>3 DEF CompanionInv, LockInv, Shaped
  <2>4. claim[p] = NoOwner /\ \A q \in Runs : run[q].pc \in LooksBack => run[q].seen.tx # p
    BY <1>2 DEF CompanionInv, ClaimsOK, LockInv, RunOK, SeenOK
  <2>5. lock' \in Owners
    BY <1>3 DEF CompanionInv, OwnersOK
  <2> QED
    BY <1>1, <1>2, <1>3, <2>1, <2>2, <2>3, <2>4, <2>5, LockGoes
<1>4. CASE /\ lock # NoOwner /\ candidate' = [candidate EXCEPT ![p] = NoOwner]
           /\ Goto(p, "inspect") /\ UNCHANGED lock
  <2>1. At(p, run'[p]) /\ run'[p].pc = "inspect"
    BY <1>4, GotoAt DEF CompanionInv, LockInv
  <2>2. run'[p].pc \notin LooksBack \cup {"link", "linked"}
    BY <2>1 DEF LooksBack
  <2> QED
    BY <1>1, <1>2, <1>4, <2>1, <2>2, AsideOK, CandidateGoes
<1> QED
  BY <1>3, <1>4 DEF LinkLock

LEMMA CompanionDropCandidate ==
    ASSUME CompanionInv, LockInv', NEW p \in Runs, DropCandidate(p)
    PROVE  CompanionInv'
<1>1. /\ run[p].pc = "linked" /\ UNCHANGED <<lock, claim>> /\ Goto(p, "recover")
      /\ candidate' = [candidate EXCEPT ![p] = NoOwner]
  BY DEF DropCandidate
<1>2. At(p, run'[p]) /\ run'[p].pc = "recover"
  BY <1>1, GotoAt DEF CompanionInv, LockInv
<1>3. ~Claimant(p) /\ ~Dead(p) /\ run'[p].pc \notin LooksBack \cup {"link", "linked"}
  BY <1>1, <1>2 DEF Claimant, Dead, Holds, Unlocked, LooksBack
<1> QED
  BY <1>1, <1>2, <1>3, AsideOK, CandidateGoes

\* A run that goes back to the start without a claim, or ends.
LEMMA BackAtStart ==
    ASSUME CompanionInv, NEW p \in Runs,
           Busy(p) \/ (\E outcome : run' = Ended(p, outcome)) \/ Goto(p, "candidate")
    PROVE  /\ At(p, run'[p]) /\ run'[p].pc \in {"ended", "candidate"}
           /\ run'[p].pc \notin LooksBack \cup {"link", "linked"}
           /\ (\E outcome : run' = Ended(p, outcome)) => run'[p].pc = "ended"
<1>1. At(p, run'[p]) /\ run'[p].pc \in {"ended", "candidate"}
  BY BusyAt, EndedAt, GotoAt DEF CompanionInv, LockInv
<1>2. (\E outcome : run' = Ended(p, outcome)) => run'[p].pc = "ended"
  BY EndedAt DEF CompanionInv, LockInv
<1> QED
  BY <1>1, <1>2 DEF LooksBack

LEMMA CompanionInspectOwner ==
    ASSUME CompanionInv, LockInv', NEW p \in Runs, InspectOwner(p)
    PROVE  CompanionInv'
<1>1. run[p].pc = "inspect" /\ UNCHANGED <<lock, claim>>
  BY DEF InspectOwner
<1>2. ~Claimant(p) /\ ~Dead(p) /\ Alive(p)
  BY <1>1 DEF Claimant, Dead, Holds, Unlocked, Alive
<1>3. CASE /\ Goto(p, "candidate") \/ Busy(p) \/ run' = Ended(p, "unsafe")
           /\ UNCHANGED candidate
  BY <1>1, <1>2, <1>3, BackAtStart, AsideOK, CompanionsStay DEF locks
<1>4. CASE /\ run' = [run EXCEPT ![p].pc = "unlink-companion", ![p].seen = lock]
           /\ UNCHANGED candidate
  <2>1. At(p, run'[p]) /\ run'[p].pc = "unlink-companion" /\ run'[p].seen = lock
    BY <1>4 DEF At, CompanionInv, LockInv, Shaped, Fields
  <2>2. LooksAt(p) /\ CandidatesOK(p)'
    BY <1>1, <1>2, <2>1 DEF LooksAt, CandidatesOK
  <2> QED
    BY <1>1, <1>2, <1>4, <2>1, <2>2, CompanionsStay DEF locks
<1>5. CASE /\ lock # NoOwner /\ ~Alive(lock.tx)
           /\ candidate' = [candidate EXCEPT ![p] = [tx |-> p, preds |-> Inherited(lock)]]
           /\ run' = [run EXCEPT ![p].pc = "claim", ![p].seen = lock]
  <2> DEFINE owner == [tx |-> p, preds |-> Inherited(lock)]
  <2>1. At(p, run'[p]) /\ run'[p].pc = "claim" /\ run'[p].seen = lock
    BY <1>5 DEF At, CompanionInv, LockInv, Shaped, Fields
  <2>2. lock \in Owners /\ lock.tx \in Runs /\ lock.tx # p
    BY <1>2, <1>5 DEF CompanionInv, OwnersOK, LockInv, NamesOK, Started
  <2>3. Inherited(lock) \in Seq(Runs) /\ Inherited(lock) # <<>>
    BY <2>2, InheritedKeeps
  <2>4. owner \in Owners /\ owner.preds # <<>> /\ candidate'[p] = owner
    BY <1>5, <2>3 DEF Owners, CompanionInv, LockInv, Shaped
  <2>5. LooksAt(p) /\ CandidatesOK(p)'
    BY <1>1, <1>2, <2>1, <2>4 DEF LooksAt, CandidatesOK
  <2>6. candidate' = [candidate EXCEPT ![p] = owner]
    BY <1>5
  <2> HIDE DEF owner
  <2> QED
    BY <1>1, <1>2, <2>1, <2>2, <2>4, <2>5, <2>6, CandidateComes
<1> QED
  BY <1>3, <1>4, <1>5 DEF InspectOwner
-----------------------------------------------------------------------------
\* A takeover.

LEMMA CompanionUnlink ==
    ASSUME CompanionInv, LockInv', NEW p \in Runs, UnlinkCompanion(p)
    PROVE  CompanionInv'
<1>1. /\ run[p].pc = "unlink-companion" /\ run[p].pc \in LooksBack /\ lock' = lock
      /\ run[p].seen.tx \in Runs /\ Dead(run[p].seen.tx) /\ ~Dead(p) /\ ~Claimant(p)
  BY LookingBack DEF UnlinkCompanion, LooksBack, CompanionInv, Claimant, Holds, Unlocked
<1>2. /\ At(p, run'[p]) /\ LooksAt(p) /\ CandidatesOK(p)'
  <2>1. At(p, run'[p]) /\ run'[p].pc \notin LooksBack \cup {"link", "linked"}
    BY BackAtStart DEF UnlinkCompanion
  <2> QED
    BY <1>1, <2>1, AsideOK
<1>3. CASE /\ HasCandidate(run[p].seen) /\ UNCHANGED claim
           /\ candidate' = [candidate EXCEPT ![run[p].seen.tx] = NoOwner]
  \* What was seen in the lock and is a candidate's other name is a first attempt's.
  <2>1. candidate[run[p].seen.tx].preds = <<>>
    BY <1>1 DEF CompanionInv, UnseenOK
  <2> QED
    BY <1>1, <1>2, <1>3, <2>1, CandidateGoes
<1>4. CASE /\ UNCHANGED candidate
           /\ claim' = [claim EXCEPT ![Head(run[p].seen.preds)] = NoOwner]
  <2>1. /\ claim' = [x \in Runs |-> claim'[x]] /\ candidate' = [q \in Runs |-> candidate'[q]]
        /\ \A x \in Runs : claim'[x] \in {claim[x], NoOwner}
    BY <1>4 DEF CompanionInv, LockInv, Shaped
  <2> QED
    BY <1>1, <1>2, <1>4, <2>1, CompanionsShrink
<1>5. CASE UNCHANGED <<candidate, claim>>
  BY <1>1, <1>2, <1>5, CompanionsStay DEF locks
<1> QED
  BY <1>3, <1>4, <1>5 DEF UnlinkCompanion

LEMMA CompanionClaim ==
    ASSUME CompanionInv, LockInv', NEW p \in Runs, Claim(p)
    PROVE  CompanionInv'
<1>1. /\ run[p].pc = "claim" /\ run[p].pc \in LooksBack /\ UNCHANGED <<lock, claim>>
      /\ ~Dead(p) /\ ~Claimant(p)
  BY DEF Claim, LooksBack, Claimant, Dead, Holds, Unlocked
<1>2. CASE /\ Busy(p) \/ run' = Ended(p, "unsafe")
           /\ candidate' = [candidate EXCEPT ![p] = NoOwner] \/ UNCHANGED candidate
  <2>1. At(p, run'[p]) /\ run'[p].pc \notin LooksBack \cup {"link", "linked"}
    BY <1>2, BackAtStart
  <2>2. LooksAt(p) /\ CandidatesOK(p)'
    BY <1>1, <2>1, AsideOK
  <2> QED
    BY <1>1, <1>2, <2>1, <2>2, CandidateGoes, CompanionsStay DEF locks
<1>3. CASE Goto(p, "claim-link") /\ UNCHANGED candidate
  <2>1. At(p, run'[p]) /\ run'[p].pc = "claim-link" /\ run'[p].seen = run[p].seen
    BY <1>3, GotoAt DEF CompanionInv, LockInv
  <2>2. LooksAt(p) /\ CandidatesOK(p)'
    BY <1>1, <1>3, <2>1 DEF LooksAt, CandidatesOK, CompanionInv
  <2> QED
    BY <1>1, <1>3, <2>1, <2>2, CompanionsStay DEF locks
<1> QED
  BY <1>2, <1>3 DEF Claim

LEMMA CompanionLinkClaim ==
    ASSUME CompanionInv, LockInv', NEW p \in Runs, LinkClaim(p)
    PROVE  CompanionInv'
<1>1. /\ run[p].pc = "claim-link" /\ run[p].pc \in LooksBack /\ lock' = lock
      /\ run[p].seen.tx \in Runs /\ Dead(run[p].seen.tx) /\ ~Dead(p) /\ ~Claimant(p)
      /\ candidate[p] # NoOwner /\ candidate[p].tx = p /\ candidate[p].preds # <<>>
  BY LookingBack DEF LinkClaim, LooksBack, Candidates, CompanionInv, CandidatesOK, Claimant,
                     Holds, Unlocked
<1>2. claim' = [x \in Runs |-> claim'[x]]
  BY DEF LockInv, Shaped
<1>3. CASE /\ claim' = [claim EXCEPT ![run[p].seen.tx] = candidate[p]]
           /\ run' = [run EXCEPT ![p].pc = "claimed", ![p].claimed = run[p].seen.tx]
           /\ UNCHANGED candidate
  <2>1. PICK s \in Runs : s = run[p].seen.tx
    BY <1>1
  <2>2. /\ At(p, run'[p]) /\ run'[p].pc = "claimed" /\ run'[p].seen = run[p].seen
    BY <1>3 DEF At, CompanionInv, LockInv, Shaped, Fields
  <2>3. claim'[s] = candidate[p] /\ \A x \in Runs \ {s} : claim'[x] = claim[x]
    BY <1>3, <2>1 DEF CompanionInv, LockInv, Shaped
  <2>4. \A x \in Runs : Dead(x) => Dead(x)'
    BY <1>1, <2>2 DEF At, Dead
  <2>5. (\A q \in Runs : Claimant(q) => Claimant(q)') /\ Claimant(p)'
    BY <1>1, <2>2 DEF At, Claimant, Dead, Holds
  \* It has claimed nothing else.
  <2>6. \A x \in Runs : claim[x] # NoOwner => claim[x].tx \in Runs /\ claim[x].tx # p
    BY <1>1 DEF CompanionInv, LockInv, NamesOK, Started, ClaimsOK
  <2>7. OwnersOK'
    <3>1. \A q \in Runs : run'[q].pc \in LooksBack => run'[q].seen \in Owners
      BY <1>1, <2>2 DEF At, CompanionInv, OwnersOK
    <3>2. \A x \in Runs : claim'[x] \in Owners
      BY <2>3 DEF CompanionInv, OwnersOK
    <3> QED
      BY <1>1, <1>2, <1>3, <3>1, <3>2 DEF OwnersOK, CompanionInv
  <2>8. ClaimsOK'
    <3>1. ASSUME NEW x \in Runs, claim'[x] # NoOwner
          PROVE  (Dead(x) /\ claim[x].preds # <<>> /\ Claimant(claim[x].tx))'
      BY <1>1, <2>1, <2>3, <2>4, <2>5, <2>6, <3>1 DEF CompanionInv, ClaimsOK
    <3>2. ASSUME NEW x \in Runs, NEW y \in Runs, claim'[x] # NoOwner, claim'[x].tx = claim'[y].tx
          PROVE  x = y
      <4>1. claim[y] = NoOwner => claim[y].tx = 0
        BY NoOwnerOwner
      <4>2. claim'[x].tx # 0
        BY <1>1, <2>3, <2>6, <3>2, RunsAssumption
      <4> QED
        BY <1>1, <2>3, <2>6, <3>2, <4>1, <4>2 DEF CompanionInv, ClaimsOK
    <3> QED
      BY <3>1, <3>2 DEF ClaimsOK
  <2>9. BackedOK'
    <3> SUFFICES ASSUME NEW x \in Runs, claim'[x] # NoOwner, lock.tx = x
                 PROVE  claim'[x].tx # 0 /\ candidate[claim'[x].tx] = claim'[x]
      BY <1>1, <1>3 DEF BackedOK, HasCandidate
    <3>1. CASE x = s
      BY <1>1, <2>3, <3>1, RunsAssumption
    <3>2. CASE x # s
      BY <2>3, <3>2 DEF CompanionInv, BackedOK, HasCandidate
    <3> QED
      BY <3>1, <3>2
  <2>10. UnseenOK'
    <3> SUFFICES ASSUME NEW o \in Runs, candidate[o].preds # <<>>
                 PROVE  /\ lock.tx # o /\ claim'[o] = NoOwner
                        /\ \A q \in Runs : run'[q].pc \in LooksBack => run'[q].seen.tx # o
      BY <1>1, <1>3 DEF UnseenOK
    <3>1. /\ lock.tx # o /\ claim[o] = NoOwner
          /\ \A q \in Runs : run[q].pc \in LooksBack => run[q].seen.tx # o
      BY DEF CompanionInv, UnseenOK
    <3>2. o # s
      BY <1>1, <2>1, <3>1
    <3> QED
      BY <1>1, <2>2, <2>3, <3>1, <3>2 DEF At
  <2>11. CandidatesOK(p)'
    BY <1>1, <1>3, <2>2 DEF CandidatesOK, CompanionInv
  <2> QED
    BY <1>1, <1>3, <2>2, <2>7, <2>8, <2>9, <2>10, <2>11, CompanionMoves
<1>4. CASE candidate' = [candidate EXCEPT ![p] = NoOwner] /\ Goto(p, "contest") /\ UNCHANGED claim
  <2>1. At(p, run'[p]) /\ run'[p].pc = "contest" /\ run'[p].seen = run[p].seen
    BY <1>4, GotoAt DEF CompanionInv, LockInv
  <2>2. LooksAt(p) /\ CandidatesOK(p)'
    BY <1>1, <2>1 DEF LooksAt, CandidatesOK, CompanionInv
  <2> QED
    BY <1>1, <1>4, <2>1, <2>2, CandidateGoes
<1> QED
  BY <1>3, <1>4 DEF LinkClaim

LEMMA CompanionConfirmClaim ==
    ASSUME CompanionInv, LockInv', NEW p \in Runs, ConfirmClaim(p)
    PROVE  CompanionInv'
<1>1. /\ run[p].pc = "claimed" /\ run[p].pc \in LooksBack /\ lock' = lock
      /\ run[p].seen.tx \in Runs /\ ~Dead(p) /\ Claimant(p) /\ candidate[p].tx = p
      /\ run[p].claimed = run[p].seen.tx /\ claim[run[p].claimed].tx = p
  BY LookingBack, RunsAssumption
     DEF ConfirmClaim, LooksBack, Candidates, CompanionInv, Claimant, LockInv, RunOK, ClaimOK
<1>2. CASE lock = run[p].seen /\ Goto(p, "replace") /\ UNCHANGED <<candidate, claim>>
  <2>1. At(p, run'[p]) /\ run'[p].pc = "replace" /\ run'[p].seen = run[p].seen
    BY <1>2, GotoAt DEF CompanionInv, LockInv
  <2>2. LooksAt(p) /\ CandidatesOK(p)'
    BY <1>1, <1>2, <2>1 DEF LooksAt, CandidatesOK, CompanionInv, Claimant
  <2> QED
    BY <1>1, <1>2, <2>1, <2>2, CompanionsStay DEF locks
<1>3. CASE /\ claim' = [claim EXCEPT ![run[p].claimed] = NoOwner]
           /\ candidate' = [candidate EXCEPT ![p] = NoOwner]
           /\ run' = Ended(p, "unsafe")
  <2>1. /\ At(p, run'[p]) /\ run'[p].pc = "ended" /\ run'[p].pc \notin LooksBack \cup {"link", "linked"}
    BY <1>3, BackAtStart DEF LooksBack
  <2>2. LooksAt(p) /\ CandidatesOK(p)'
    BY <2>1, AsideOK DEF Claimant, Dead
  <2>3. PICK s \in Runs : s = run[p].claimed
    BY <1>1
  <2>4. /\ claim' = [x \in Runs |-> claim'[x]] /\ candidate' = [q \in Runs |-> candidate'[q]]
        /\ claim'[s] = NoOwner /\ \A x \in Runs \ {s} : claim'[x] = claim[x]
        /\ candidate'[p] = NoOwner /\ \A q \in Runs \ {p} : candidate'[q] = candidate[q]
    BY <1>3, <2>3 DEF CompanionInv, LockInv, Shaped
  <2>5. \A x \in Runs \ {s} : claim[x].tx # p
    BY <1>1, <2>3, NoOwnerOwner, RunsAssumption DEF CompanionInv, ClaimsOK
  <2> QED
    BY <1>1, <2>1, <2>2, <2>4, <2>5, CompanionsShrink
<1> QED
  BY <1>2, <1>3 DEF ConfirmClaim

LEMMA CompanionContestClaim ==
    ASSUME CompanionInv, LockInv', NEW p \in Runs, ContestClaim(p)
    PROVE  CompanionInv'
<1>1. /\ run[p].pc = "contest" /\ run[p].pc \in LooksBack /\ claim' = claim
      /\ run[p].seen.tx \in Runs /\ ~Dead(p) /\ ~Claimant(p)
  BY LookingBack DEF ContestClaim, LooksBack, CompanionInv, Claimant, Holds, Unlocked
<1>2. At(p, run'[p]) /\ run'[p].pc \notin LooksBack \cup {"link", "linked"}
  BY BackAtStart DEF ContestClaim, Goto
<1>3. LooksAt(p) /\ CandidatesOK(p)'
  BY <1>1, <1>2, AsideOK
<1>4. CASE UNCHANGED <<lock, candidate>>
  BY <1>1, <1>2, <1>3, <1>4, CompanionsStay DEF locks
<1>5. PICK other : other = claim[run[p].seen.tx]
  OBVIOUS
<1>6. CASE /\ other # NoOwner /\ ~Alive(other.tx) /\ HasCandidate(other) /\ lock' = other
           /\ candidate' = [candidate EXCEPT ![other.tx] = NoOwner]
  <2>1. other \in Owners /\ other.tx \in Runs /\ Dead(other.tx)
    BY <1>1, <1>5, <1>6 DEF CompanionInv, OwnersOK, LockInv, NamesOK, Started, Alive, Dead
  <2>2. other.preds # <<>> /\ candidate[other.tx] = other
    BY <1>1, <1>5, <1>6 DEF CompanionInv, ClaimsOK, HasCandidate
  \* Its claimant's candidate is there still: nobody saw that one in the lock.
  <2>3. /\ claim[other.tx] = NoOwner
        /\ \A q \in Runs : run[q].pc \in LooksBack => run[q].seen.tx # other.tx
    BY <2>1, <2>2 DEF CompanionInv, UnseenOK
  <2>4. /\ candidate' = [q \in Runs |-> candidate'[q]] /\ candidate'[other.tx] = NoOwner
        /\ \A q \in Runs \ {other.tx} : candidate'[q] = candidate[q]
    BY <1>6, <2>1 DEF CompanionInv, LockInv, Shaped
  <2> QED
    BY <1>1, <1>2, <1>3, <1>6, <2>1, <2>3, <2>4, NoOwnerOwner, LockGoes
<1> QED
  BY <1>4, <1>5, <1>6 DEF ContestClaim

LEMMA CompanionReplaceLock ==
    ASSUME CompanionInv, LockInv', NEW p \in Runs, ReplaceLock(p)
    PROVE  CompanionInv'
<1>1. /\ run[p].pc = "replace" /\ run[p].pc \in LooksBack /\ claim' = claim
      /\ lock' = candidate[p] /\ candidate' = [candidate EXCEPT ![p] = NoOwner]
      /\ Goto(p, "recover")
  BY DEF ReplaceLock, LooksBack
<1>2. ~Dead(p) /\ candidate[p].tx = p
  BY <1>1, LookingBack DEF CompanionInv, Candidates
<1>3. At(p, run'[p]) /\ run'[p].pc = "recover" /\ run'[p].pc \notin LooksBack \cup {"link", "linked"}
  BY <1>1, GotoAt DEF CompanionInv, LockInv, LooksBack
<1>4. CandidatesOK(p)' /\ Claimant(p)'
  BY <1>3, AsideOK DEF Claimant, Holds, Unlocked
<1>5. /\ candidate' = [q \in Runs |-> candidate'[q]] /\ candidate'[p] = NoOwner
      /\ \A q \in Runs \ {p} : candidate'[q] = candidate[q]
  BY <1>1 DEF CompanionInv, LockInv, Shaped
<1>6. claim[p] = NoOwner /\ \A q \in Runs : run[q].pc \in LooksBack => run[q].seen.tx # p
  BY <1>2 DEF CompanionInv, ClaimsOK, LockInv, RunOK, SeenOK
<1>7. lock' \in Owners /\ lock'.tx = p
  BY <1>1, <1>2 DEF CompanionInv, OwnersOK
<1> QED
  BY <1>1, <1>2, <1>3, <1>4, <1>5, <1>6, <1>7, NoOwnerOwner, LockGoes

LEMMA CompanionRelease ==
    ASSUME CompanionInv, LockInv', NEW p \in Runs, ReleaseClaim(p) \/ Unlock(p)
    PROVE  CompanionInv'
<1>1. ~Dead(p) /\ Claimant(p) /\ candidate' = candidate
  BY DEF ReleaseClaim, Unlock, Dead, Claimant, Holds, Unlocked
<1>2. candidate' = [q \in Runs |-> candidate'[q]] /\ claim' = [x \in Runs |-> claim'[x]]
  BY DEF LockInv, Shaped
<1>3. CASE ReleaseClaim(p)
  <2>1. At(p, run'[p]) /\ run'[p].pc = "unlock"
    BY <1>3, GotoAt DEF ReleaseClaim, CompanionInv, LockInv
  <2>2. LooksAt(p) /\ CandidatesOK(p)'
    BY <2>1, AsideOK DEF Claimant, Holds, Unlocked, LooksBack
  <2>3. lock' = lock /\ \A x \in Runs : claim'[x] \in {claim[x], NoOwner}
    BY <1>3 DEF ReleaseClaim
  <2> QED
    BY <1>1, <1>2, <2>1, <2>2, <2>3, CompanionsShrink
<1>4. CASE Unlock(p)
  <2>1. At(p, run'[p]) /\ run'[p].pc = "ended" /\ run'[p].pc \notin LooksBack \cup {"link", "linked"}
    BY <1>4, EndedAt DEF Unlock, CompanionInv, LockInv, LooksBack
  <2>2. CandidatesOK(p)' /\ Claimant(p)'
    BY <2>1, AsideOK DEF Claimant, Dead
  <2>3. lock' = NoOwner /\ claim' = claim
    BY <1>4 DEF Unlock
  <2>4. \A q \in Runs : run[q].pc \in LooksBack => run[q].seen.tx # 0
    BY RunsAssumption DEF CompanionInv, LockInv, RunOK, SeenOK
  <2>5. lock' \in Owners /\ lock'.tx = 0 /\ 0 \notin Runs
    BY <2>3, NoOwnerOwner, RunsAssumption
  <2> QED
    BY <1>1, <1>2, <2>1, <2>2, <2>3, <2>4, <2>5, LockGoes
<1> QED
  BY <1>3, <1>4

-----------------------------------------------------------------------------
LEMMA CompanionInvInit == Init => CompanionInv
<1> SUFFICES ASSUME Init
             PROVE  CompanionInv
  OBVIOUS
<1>1. /\ \A p \in Runs : run[p] = Idle /\ candidate[p] = NoOwner /\ claim[p] = NoOwner
      /\ lock = NoOwner
      /\ candidate = [p \in Runs |-> NoOwner] /\ claim = [p \in Runs |-> NoOwner]
  BY DEF Init
<1>2. \A p \in Runs : run[p].pc \notin LooksBack \cup {"link", "linked"}
  BY <1>1, IdleShape DEF LooksBack
<1>3. \A p \in Runs : CandidatesOK(p)
  BY <1>2 DEF CandidatesOK, LooksBack
<1>4. OwnersOK
  BY <1>1, <1>2, NoOwnerOwner DEF OwnersOK
<1>5. ClaimsOK /\ BackedOK /\ UnseenOK
  BY <1>1, <1>2, NoOwnerOwner, RunsAssumption DEF ClaimsOK, BackedOK, UnseenOK
<1> QED
  BY <1>3, <1>4, <1>5, LockInvInit DEF CompanionInv

LEMMA CompanionInvStep == CompanionInv /\ [Next]_vars => CompanionInv'
<1> SUFFICES ASSUME CompanionInv, [Next]_vars
             PROVE  CompanionInv'
  OBVIOUS
<1>1. LockInv'
  BY LockInvStep DEF CompanionInv
<1>2. ASSUME NEW p \in Runs, NEW op \in Ops[p], Start(p, op)
      PROVE  CompanionInv'
  BY <1>1, <1>2, CompanionStart
<1>3. ASSUME NEW p \in Runs, Acquire(p)
      PROVE  CompanionInv'
  BY <1>1, <1>3, CompanionProbeLegacy, CompanionWriteCandidate, CompanionLinkLock,
     CompanionDropCandidate, CompanionInspectOwner, CompanionUnlink, CompanionClaim,
     CompanionLinkClaim, CompanionConfirmClaim, CompanionContestClaim, CompanionReplaceLock
     DEF Acquire
<1>4. ASSUME NEW p \in Runs,
             Recover(p) \/ Operate(p) \/ Publish(p) \/ Withdraw(p) \/ Release(p) \/ CommandFails(p)
      PROVE  CompanionInv'
  <2>1. CASE ReleaseClaim(p) \/ Unlock(p)
    BY <1>1, <2>1, CompanionRelease
  <2>2. CASE ~(ReleaseClaim(p) \/ Unlock(p))
    <3>1. Body(p)
      BY <1>4, <2>2, BodyOf DEF Release, CompanionInv
    <3> QED
      BY <1>1, <3>1, CompanionBody
  <2> QED
    BY <2>1, <2>2
<1>5. ASSUME NEW p \in Runs, Crash(p)
      PROVE  CompanionInv'
  BY <1>1, <1>5, CompanionCrash
<1>6. ASSUME NEW file, Edit(file)
      PROVE  CompanionInv'
  BY <1>1, <1>6, CompanionUnchanged DEF Edit
<1>7. CASE UNCHANGED vars
  BY <1>1, <1>7, CompanionUnchanged DEF vars
<1> QED
  BY <1>2, <1>3, <1>4, <1>5, <1>6, <1>7 DEF Next

\* A claim is held by one run and on one dead owner, and while that owner's lock is still
\* there its claimant still has the candidate to replace it with; so whoever finds a dead
\* claimant can finish its takeover (resolveExistingSuccessorClaim).
THEOREM CompanionInvHolds == Spec => []CompanionInv
<1> QED
  BY CompanionInvInit, CompanionInvStep, PTL DEF Spec
-----------------------------------------------------------------------------
\* What the dead left.

\* A step that leaves the journals alone.
LEMMA LineageMoves ==
    ASSUME LineageInv, FileInv', CompanionInv', NEW p \in Runs, At(p, run'[p]),
           UNCHANGED journals, Covers(lock)', HeirsOK', OwnLeftOK(p)'
    PROVE  LineageInv'
<1>1. journal' = journal /\ journalTmp' = journalTmp
  BY DEF journals
<1>2. \A t \in Runs : Left(t)' = Left(t)
  BY <1>1 DEF Left
<1>3. OneLeft' /\ \A t \in Runs : journalTmp'[t] # Torn
  BY <1>1, <1>2 DEF LineageInv, OneLeft
<1>4. ASSUME NEW q \in Runs \ {p}
      PROVE  OwnLeftOK(q)'
  <2>1. run'[q] = run[q] /\ OwnLeftOK(q)
    BY DEF At, LineageInv
  <2>2. Holds(q)' = Holds(q) /\ Place(q)' = Place(q)
    BY <2>1 DEF Holds, Place
  <2> QED
    BY <1>1, <1>2, <2>1, <2>2 DEF OwnLeftOK
<1> QED
  BY <1>3, <1>4 DEF LineageInv

\* One that leaves the lock, too, and takes no candidate from the living.
LEMMA LineageStays ==
    ASSUME LineageInv, FileInv', CompanionInv', NEW p \in Runs, At(p, run'[p]),
           UNCHANGED journals, lock' = lock,
           \A x \in Runs : claim'[x] \in {claim[x], NoOwner},
           \A q \in Runs \ {p} : Dead(q) \/ candidate'[q] = candidate[q],
           HeirOK(p)', OwnLeftOK(p)'
    PROVE  LineageInv'
<1>1. \A t \in Runs : Left(t)' = Left(t)
  BY DEF Left, journals
<1>2. Covers(lock)'
  BY <1>1 DEF Covers, Named, LineageInv
<1>3. ASSUME NEW q \in Runs \ {p}
      PROVE  HeirOK(q)'
  <2>1. run'[q] = run[q] /\ HeirOK(q)
    BY DEF At, LineageInv, HeirsOK
  <2>2. run[q].pc \in Heirs => candidate'[q] = candidate[q]
    BY DEF Heirs, Dead
  <2> QED
    BY <1>1, <2>1, <2>2 DEF HeirOK, Covers, Named
<1>4. ASSUME NEW x \in Runs, claim'[x] # NoOwner, lock'.tx = x
      PROVE  Covers(claim[x])'
  BY <1>1, <1>4 DEF LineageInv, HeirsOK, Covers, Named
<1>5. HeirsOK'
  BY <1>3, <1>4 DEF HeirsOK
<1> QED
  BY <1>2, <1>5, LineageMoves

\* Outside the lock, and where it is got, there is nothing left of one's own to know.
LEMMA OutsideLeft ==
    ASSUME NEW p \in Runs, run'[p].pc \in Unlocked \cup {"recover"}
    PROVE  OwnLeftOK(p)' /\ (run'[p].pc \notin Heirs => HeirOK(p)')
BY DEF OwnLeftOK, HeirOK, Place, Holds, Unlocked

LEMMA LineageUnchanged ==
    ASSUME LineageInv, FileInv', CompanionInv', UNCHANGED <<locks, journals, run>>
    PROVE  LineageInv'
<1>1. /\ lock' = lock /\ candidate' = candidate /\ claim' = claim /\ run' = run
      /\ journal' = journal /\ journalTmp' = journalTmp
  BY DEF locks, journals
<1>2. \A t \in Runs : Left(t)' = Left(t)
  BY <1>1 DEF Left
<1>3. Covers(lock)' /\ OneLeft' /\ \A t \in Runs : journalTmp'[t] # Torn
  BY <1>1, <1>2 DEF LineageInv, OneLeft, Covers, Named
<1>4. HeirsOK'
  BY <1>1, <1>2 DEF LineageInv, HeirsOK, HeirOK, Covers, Named
<1>5. \A q \in Runs : OwnLeftOK(q)'
  <2>1. \A q \in Runs : Holds(q)' = Holds(q) /\ Place(q)' = Place(q)
    BY <1>1 DEF Holds, Place
  <2> QED
    BY <1>1, <1>2, <2>1 DEF LineageInv, OwnLeftOK
<1> QED
  BY <1>3, <1>4, <1>5 DEF LineageInv

\* A run that starts, ends or is killed.
LEMMA LineageAside ==
    ASSUME LineageInv, FileInv', CompanionInv', NEW p \in Runs, At(p, run'[p]),
           UNCHANGED <<locks, journals>>,
           run'[p].pc \in {"probe-legacy", "candidate", "ended", "crashed"}
    PROVE  LineageInv'
<1>1. run'[p].pc \in Unlocked \cup {"recover"} /\ run'[p].pc \notin Heirs
  BY DEF Unlocked, Heirs
<1> QED
  BY <1>1, OutsideLeft, LineageStays DEF locks

-----------------------------------------------------------------------------
\* The lock changes hands.

\* Nobody inherits from a living owner.
LEMMA NoHeirs ==
    ASSUME CompanionInv', \A x \in Runs : lock'.tx = x => ~Dead(x)'
    PROVE  HeirsOK'
<1>1. \A q \in Runs : SeenOK(q)'
  BY DEF CompanionInv, LockInv, RunOK
<1>2. \A q \in Runs : HeirOK(q)'
  BY <1>1 DEF HeirOK, SeenOK, LooksBack, Heirs, Dead
<1>3. \A x \in Runs : (claim[x] # NoOwner => Dead(x))'
  BY DEF CompanionInv, ClaimsOK
<1> QED
  BY <1>2, <1>3 DEF HeirsOK

LEMMA LineageWriteCandidate ==
    ASSUME LineageInv, FileInv', CompanionInv', NEW p \in Runs, Acquire(p), ~ProbeLegacy(p),
           WriteCandidate(p) \/ DropCandidate(p) \/ UnlinkCompanion(p)
    PROVE  LineageInv'
<1>1. UNCHANGED journals
  BY DEF WriteCandidate, DropCandidate, UnlinkCompanion
<1>2. At(p, run'[p]) /\ run'[p].pc \in Unlocked \cup {"recover"} /\ run'[p].pc \notin Heirs
  <2>1. \A pc : Goto(p, pc) => At(p, run'[p]) /\ run'[p].pc = pc
    BY GotoAt DEF LineageInv, CompanionInv, LockInv
  <2>2. UnlinkCompanion(p) => At(p, run'[p]) /\ run'[p].pc \in {"ended", "candidate"}
    BY BackAtStart DEF UnlinkCompanion, LineageInv
  <2> QED
    BY <2>1, <2>2 DEF WriteCandidate, DropCandidate, Unlocked, Heirs
<1>3. /\ lock' = lock /\ \A x \in Runs : claim'[x] \in {claim[x], NoOwner}
      /\ \A q \in Runs \ {p} : Dead(q) \/ candidate'[q] = candidate[q]
  <2>1. UnlinkCompanion(p) => Dead(run[p].seen.tx)
    BY LookingBack DEF UnlinkCompanion, LooksBack, LineageInv, CompanionInv
  <2>2. DOMAIN candidate = Runs /\ DOMAIN claim = Runs
    BY DEF LineageInv, CompanionInv, LockInv, Shaped
  <2> QED
    BY <2>1, <2>2 DEF WriteCandidate, DropCandidate, UnlinkCompanion
<1> QED
  BY <1>1, <1>2, <1>3, OutsideLeft, LineageStays

LEMMA LineageLinkLock ==
    ASSUME LineageInv, FileInv', CompanionInv', NEW p \in Runs, LinkLock(p)
    PROVE  LineageInv'
<1>1. run[p].pc = "link" /\ claim' = claim /\ UNCHANGED journals /\ Shaped
  BY DEF LinkLock, LineageInv, CompanionInv, LockInv
<1>2. CASE lock = NoOwner /\ lock' = candidate[p] /\ Goto(p, "linked") /\ UNCHANGED candidate
  <2>1. At(p, run'[p]) /\ run'[p].pc = "linked"
    BY <1>1, <1>2, GotoAt
  <2>2. lock'.tx = p /\ ~Dead(p)'
    <3>1. CandidatesOK(p)
      BY DEF LineageInv, CompanionInv
    <3> QED
      BY <1>1, <1>2, <2>1, <3>1 DEF CandidatesOK, Dead
  \* Nobody holds the lock, so nobody left anything.
  <2>3. \A t \in Runs : ~Left(t)
    BY <1>2, NoOwnerOwner, RunsAssumption DEF LineageInv, Covers, Named, ToSet, NoOwner
  <2>4. Covers(lock)'
    BY <1>1, <2>3 DEF Covers, Left, journals
  <2>5. OwnLeftOK(p)'
    BY <2>1, OutsideLeft DEF Unlocked
  <2> QED
    BY <1>1, <2>1, <2>2, <2>4, <2>5, NoHeirs, LineageMoves
<1>3. CASE /\ candidate' = [candidate EXCEPT ![p] = NoOwner]
           /\ Goto(p, "inspect") /\ UNCHANGED lock
  <2>1. At(p, run'[p]) /\ run'[p].pc \in Unlocked \cup {"recover"} /\ run'[p].pc \notin Heirs
    BY <1>1, <1>3, GotoAt DEF Unlocked, Heirs
  <2>2. \A q \in Runs \ {p} : candidate'[q] = candidate[q]
    BY <1>1, <1>3 DEF Shaped
  <2> QED
    BY <1>1, <1>3, <2>1, <2>2, OutsideLeft, LineageStays
<1> QED
  BY <1>2, <1>3 DEF LinkLock

\* The owner's lineage is inherited with all that one of it left.
LEMMA LineageInspectOwner ==
    ASSUME LineageInv, FileInv', CompanionInv', NEW p \in Runs, InspectOwner(p)
    PROVE  LineageInv'
<1>1. run[p].pc = "inspect" /\ UNCHANGED <<lock, claim, journals>> /\ Shaped
  BY DEF InspectOwner, LineageInv, CompanionInv, LockInv
<1>2. CASE /\ Goto(p, "candidate") \/ Busy(p) \/ run' = Ended(p, "unsafe")
           /\ UNCHANGED candidate
  <2>1. At(p, run'[p]) /\ run'[p].pc \in {"ended", "candidate"}
    BY <1>2, BackAtStart DEF LineageInv
  <2> QED
    BY <1>1, <1>2, <2>1, LineageAside DEF locks
<1>3. CASE /\ run' = [run EXCEPT ![p].pc = "unlink-companion", ![p].seen = lock]
           /\ UNCHANGED candidate
  <2>1. At(p, run'[p]) /\ run'[p].pc = "unlink-companion"
    BY <1>1, <1>3 DEF At, Shaped, Fields
  <2>2. run'[p].pc \in Unlocked \cup {"recover"} /\ run'[p].pc \notin Heirs
    BY <2>1 DEF Unlocked, Heirs
  <2> QED
    BY <1>1, <1>3, <2>1, <2>2, OutsideLeft, LineageStays
<1>4. CASE /\ lock # NoOwner /\ ~Alive(lock.tx)
           /\ candidate' = [candidate EXCEPT ![p] = [tx |-> p, preds |-> Inherited(lock)]]
           /\ run' = [run EXCEPT ![p].pc = "claim", ![p].seen = lock]
  <2>1. At(p, run'[p]) /\ run'[p].pc = "claim"
    BY <1>1, <1>4 DEF At, Shaped, Fields
  <2>2. lock \in Owners /\ lock.tx \in Runs
    BY <1>4 DEF LineageInv, CompanionInv, OwnersOK, LockInv, NamesOK, Started
  <2>3. \A t \in Runs : Left(t) => t \in ToSet(Inherited(lock))
    <3>1. \A t \in Runs : Left(t) => t \in Unfinished(Named(lock))
      BY DEF LineageInv, Covers, Unfinished, Left
    <3> QED
      BY <2>2, <3>1, InheritedKeeps
  <2>4. PICK lineage : lineage = Inherited(lock)
    OBVIOUS
  <2>5. candidate'[p].preds = lineage /\ \A q \in Runs \ {p} : candidate'[q] = candidate[q]
    BY <1>1, <1>4, <2>4 DEF Shaped
  <2>6. \A t \in Runs : Left(t)' => t \in ToSet(lineage)
    BY <1>1, <2>3, <2>4 DEF Left, journals
  <2>7. Covers(candidate[p])'
    BY <2>5, <2>6 DEF Covers, Named, ToSet
  <2>8. OwnLeftOK(p)' /\ HeirOK(p)'
    BY <2>1, <2>7, OutsideLeft DEF HeirOK, Unlocked
  <2> QED
    BY <1>1, <2>1, <2>5, <2>8, LineageStays
<1> QED
  BY <1>2, <1>3, <1>4 DEF InspectOwner
-----------------------------------------------------------------------------
\* A takeover passes on what its candidate or its claim inherited.

LEMMA LineageClaim ==
    ASSUME LineageInv, FileInv', CompanionInv', NEW p \in Runs, Claim(p)
    PROVE  LineageInv'
<1>1. run[p].pc = "claim" /\ UNCHANGED <<lock, claim, journals>> /\ Shaped
  BY DEF Claim, LineageInv, CompanionInv, LockInv
<1>2. CASE /\ Busy(p) \/ run' = Ended(p, "unsafe")
           /\ candidate' = [candidate EXCEPT ![p] = NoOwner] \/ UNCHANGED candidate
  <2>1. At(p, run'[p]) /\ run'[p].pc \in {"ended", "candidate"}
    BY <1>2, BackAtStart DEF LineageInv
  <2>2. run'[p].pc \in Unlocked \cup {"recover"} /\ run'[p].pc \notin Heirs
    BY <2>1 DEF Unlocked, Heirs
  <2>3. \A q \in Runs \ {p} : candidate'[q] = candidate[q]
    BY <1>1, <1>2 DEF Shaped
  <2> QED
    BY <1>1, <2>1, <2>2, <2>3, OutsideLeft, LineageStays
<1>3. CASE Goto(p, "claim-link") /\ UNCHANGED candidate
  <2>1. At(p, run'[p]) /\ run'[p].pc = "claim-link" /\ run'[p].seen = run[p].seen
    BY <1>1, <1>3, GotoAt
  <2>2. HeirOK(p)
    BY DEF LineageInv, HeirsOK
  <2>3. HeirOK(p)'
    BY <1>1, <1>3, <2>1, <2>2 DEF HeirOK, Heirs, Covers, Left, Named, journals
  <2>4. OwnLeftOK(p)'
    BY <2>1, OutsideLeft DEF Unlocked
  <2> QED
    BY <1>1, <1>3, <2>1, <2>3, <2>4, LineageStays
<1> QED
  BY <1>2, <1>3 DEF Claim

LEMMA LineageLinkClaim ==
    ASSUME LineageInv, FileInv', CompanionInv', NEW p \in Runs, LinkClaim(p)
    PROVE  LineageInv'
<1>1. run[p].pc = "claim-link" /\ UNCHANGED <<lock, journals>> /\ Shaped
  BY DEF LinkClaim, LineageInv, CompanionInv, LockInv
<1>2. CASE /\ claim' = [claim EXCEPT ![run[p].seen.tx] = candidate[p]]
           /\ run' = [run EXCEPT ![p].pc = "claimed", ![p].claimed = run[p].seen.tx]
           /\ UNCHANGED candidate
  <2>1. At(p, run'[p]) /\ run'[p].pc = "claimed" /\ run'[p].seen = run[p].seen
    BY <1>1, <1>2 DEF At, Shaped, Fields
  <2>2. \A t \in Runs : Left(t)' = Left(t)
    BY <1>1 DEF Left, journals
  <2>3. HeirOK(p) /\ Covers(lock)
    BY DEF LineageInv, HeirsOK
  <2>4. Covers(lock)'
    BY <1>1, <2>2, <2>3 DEF Covers, Named
  <2>5. HeirOK(p)'
    BY <1>1, <1>2, <2>1, <2>2, <2>3 DEF HeirOK, Heirs, Covers, Named
  <2>6. ASSUME NEW q \in Runs \ {p}
        PROVE  HeirOK(q)'
    <3>1. run'[q] = run[q] /\ HeirOK(q)
      BY <2>1 DEF At, LineageInv, HeirsOK
    <3> QED
      BY <1>1, <1>2, <2>2, <3>1 DEF HeirOK, Covers, Named
  <2>7. ASSUME NEW x \in Runs, claim'[x] # NoOwner, lock'.tx = x
        PROVE  Covers(claim[x])'
    <3>1. CASE x = run[p].seen.tx
      <4>1. claim'[x] = candidate[p] /\ Covers(candidate[p])
        BY <1>1, <1>2, <2>3, <2>7, <3>1 DEF HeirOK, Heirs, Shaped
      <4> QED
        BY <2>2, <4>1 DEF Covers, Named
    <3>2. CASE x # run[p].seen.tx
      <4>1. claim'[x] = claim[x] /\ Covers(claim[x])
        BY <1>1, <1>2, <2>7, <3>2 DEF LineageInv, HeirsOK, Shaped
      <4> QED
        BY <2>2, <4>1 DEF Covers, Named
    <3> QED
      BY <3>1, <3>2
  <2>8. HeirsOK'
    BY <2>5, <2>6, <2>7 DEF HeirsOK
  <2>9. OwnLeftOK(p)'
    BY <2>1, OutsideLeft DEF Unlocked
  <2> QED
    BY <1>1, <2>1, <2>4, <2>8, <2>9, LineageMoves
<1>3. CASE candidate' = [candidate EXCEPT ![p] = NoOwner] /\ Goto(p, "contest") /\ UNCHANGED claim
  <2>1. At(p, run'[p]) /\ run'[p].pc \in Unlocked \cup {"recover"} /\ run'[p].pc \notin Heirs
    BY <1>1, <1>3, GotoAt DEF Unlocked, Heirs
  <2>2. \A q \in Runs \ {p} : candidate'[q] = candidate[q]
    BY <1>1, <1>3 DEF Shaped
  <2> QED
    BY <1>1, <1>3, <2>1, <2>2, OutsideLeft, LineageStays
<1> QED
  BY <1>2, <1>3 DEF LinkClaim

LEMMA LineageConfirmClaim ==
    ASSUME LineageInv, FileInv', CompanionInv', NEW p \in Runs, ConfirmClaim(p)
    PROVE  LineageInv'
<1>1. run[p].pc = "claimed" /\ UNCHANGED <<lock, journals>> /\ Shaped
  BY DEF ConfirmClaim, LineageInv, CompanionInv, LockInv
<1>2. CASE Goto(p, "replace") /\ UNCHANGED <<candidate, claim>>
  <2>1. At(p, run'[p]) /\ run'[p].pc = "replace" /\ run'[p].seen = run[p].seen
    BY <1>1, <1>2, GotoAt
  <2>2. HeirOK(p)
    BY DEF LineageInv, HeirsOK
  <2>3. HeirOK(p)'
    BY <1>1, <1>2, <2>1, <2>2 DEF HeirOK, Heirs, Covers, Left, Named, journals
  <2>4. OwnLeftOK(p)'
    BY <2>1, OutsideLeft DEF Unlocked
  <2> QED
    BY <1>1, <1>2, <2>1, <2>3, <2>4, LineageStays
<1>3. CASE /\ claim' = [claim EXCEPT ![run[p].claimed] = NoOwner]
           /\ candidate' = [candidate EXCEPT ![p] = NoOwner]
           /\ run' = Ended(p, "unsafe")
  <2>1. At(p, run'[p]) /\ run'[p].pc \in Unlocked \cup {"recover"} /\ run'[p].pc \notin Heirs
    BY <1>1, <1>3, EndedAt DEF Unlocked, Heirs
  <2>2. /\ \A q \in Runs \ {p} : candidate'[q] = candidate[q]
        /\ \A x \in Runs : claim'[x] \in {claim[x], NoOwner}
    BY <1>1, <1>3 DEF Shaped
  <2> QED
    BY <1>1, <2>1, <2>2, OutsideLeft, LineageStays
<1> QED
  BY <1>2, <1>3 DEF ConfirmClaim

LEMMA LineageContestClaim ==
    ASSUME LineageInv, FileInv', CompanionInv', NEW p \in Runs, ContestClaim(p)
    PROVE  LineageInv'
<1>1. /\ run[p].pc \in LooksBack /\ UNCHANGED <<claim, journals>> /\ Shaped
      /\ run[p].seen.tx \in Runs
  BY LookingBack DEF ContestClaim, LineageInv, CompanionInv, LockInv, LooksBack
<1>2. At(p, run'[p]) /\ run'[p].pc \in {"ended", "candidate"}
  BY BackAtStart DEF ContestClaim, Goto, LineageInv
<1>3. run'[p].pc \in Unlocked \cup {"recover"} /\ run'[p].pc \notin Heirs
  BY <1>2 DEF Unlocked, Heirs
<1>4. CASE UNCHANGED <<lock, candidate>>
  BY <1>1, <1>2, <1>4, LineageAside DEF locks
<1>5. PICK other : other = claim[run[p].seen.tx]
  OBVIOUS
<1>6. CASE /\ other # NoOwner /\ ~Alive(other.tx) /\ HasCandidate(other) /\ lock = run[p].seen
           /\ lock' = other
           /\ candidate' = [candidate EXCEPT ![other.tx] = NoOwner]
  <2>1. other.tx \in Runs /\ Dead(other.tx)
    BY <1>1, <1>5, <1>6 DEF LineageInv, CompanionInv, LockInv, NamesOK, Started, Alive, Dead
  <2>2. candidate[other.tx].preds # <<>>
    BY <1>1, <1>5, <1>6 DEF LineageInv, CompanionInv, ClaimsOK, HasCandidate
  <2>3. UnseenOK
    BY DEF LineageInv, CompanionInv
  <2>4. /\ claim[other.tx] = NoOwner
        /\ \A q \in Runs : run[q].pc \in LooksBack => run[q].seen.tx # other.tx
    BY <2>1, <2>2, <2>3 DEF UnseenOK
  <2>5. \A t \in Runs : Left(t)' = Left(t)
    BY <1>1 DEF Left, journals
  <2>6. Covers(other)
    BY <1>1, <1>5, <1>6 DEF LineageInv, HeirsOK
  <2>7. Covers(lock)'
    BY <1>6, <2>5, <2>6 DEF Covers, Named
  <2>8. HeirsOK'
    <3>1. \A q \in Runs : HeirOK(q)'
      BY <1>2, <1>3, <1>6, <2>4 DEF HeirOK, LooksBack, Heirs, At
    <3> QED
      BY <1>1, <1>6, <2>4, <3>1 DEF HeirsOK
  <2> QED
    BY <1>1, <1>2, <1>3, <2>7, <2>8, OutsideLeft, LineageMoves
<1> QED
  BY <1>4, <1>5, <1>6 DEF ContestClaim

LEMMA LineageReplaceLock ==
    ASSUME LineageInv, FileInv', CompanionInv', NEW p \in Runs, ReplaceLock(p)
    PROVE  LineageInv'
<1>1. /\ run[p].pc = "replace" /\ lock' = candidate[p] /\ Goto(p, "recover") /\ UNCHANGED journals
      /\ Shaped
  BY DEF ReplaceLock, LineageInv, CompanionInv, LockInv
<1>2. At(p, run'[p]) /\ run'[p].pc = "recover"
  BY <1>1, GotoAt
<1>3. candidate[p].tx = p /\ lock = run[p].seen
  BY <1>1, LookingBack DEF LineageInv, CompanionInv, LockInv, RunOK, LockOK, LooksBack, Candidates
<1>4. HeirOK(p)
  BY DEF LineageInv, HeirsOK
<1>5. Covers(lock)'
  BY <1>1, <1>3, <1>4 DEF HeirOK, Heirs, Covers, Left, Named, journals
<1>6. HeirsOK'
  BY <1>1, <1>2, <1>3, NoHeirs DEF Dead
<1> QED
  BY <1>1, <1>2, <1>5, <1>6, OutsideLeft, LineageMoves

LEMMA LineageAcquire ==
    ASSUME LineageInv, FileInv', CompanionInv', NEW p \in Runs, Acquire(p)
    PROVE  LineageInv'
<1>1. CASE ProbeLegacy(p)
  <2>1. UNCHANGED <<locks, journals>> /\ Shaped
    BY <1>1 DEF ProbeLegacy, LineageInv, CompanionInv, LockInv
  <2>2. At(p, run'[p]) /\ run'[p].pc \in {"ended", "candidate"}
    <3>1. CASE run' = Ended(p, "done")
      BY <2>1, <3>1, EndedAt
    <3>2. CASE run' # Ended(p, "done")
      <4>1. PICK h : run' = [run EXCEPT ![p].pc = "candidate", ![p].handOver = h]
        BY <1>1, <3>2 DEF ProbeLegacy
      <4> QED
        BY <2>1, <4>1 DEF At, Shaped, Fields
    <3> QED
      BY <3>1, <3>2
  <2> QED
    BY <2>1, <2>2, LineageAside
<1>2. CASE ~ProbeLegacy(p)
  BY <1>2, LineageWriteCandidate, LineageLinkLock, LineageInspectOwner, LineageClaim,
     LineageLinkClaim, LineageConfirmClaim, LineageContestClaim, LineageReplaceLock DEF Acquire
<1> QED
  BY <1>1, <1>2
-----------------------------------------------------------------------------
\* Under the lock: what is left shrinks, or is the holder's own.

LEMMA LineageUnder ==
    ASSUME LineageInv, FileInv', CompanionInv', NEW p \in Runs, Holds(p), At(p, run'[p]),
           UNCHANGED locks, run'[p].pc \notin {"ended", "crashed"},
           \A t \in Runs : journalTmp'[t] # Torn,
           \A t \in Runs : Left(t)' => Left(t) \/ (t = p /\ Place(p) # "recover"),
           OwnLeftOK(p)'
    PROVE  LineageInv'
<1>1. lock.tx = p /\ lock' = lock
  BY DEF LineageInv, CompanionInv, LockInv, RunOK, LockOK, locks
<1>2. Covers(lock) /\ OneLeft /\ OwnLeftOK(p)
  BY DEF LineageInv
<1>3. Covers(lock)'
  BY <1>1, <1>2 DEF Covers, Named
<1>4. OneLeft'
  BY <1>2 DEF OneLeft, OwnLeftOK
<1>5. HeirsOK'
  BY <1>1, NoHeirs DEF Dead
<1>6. ASSUME NEW q \in Runs \ {p}
      PROVE  OwnLeftOK(q)'
  <2>1. run'[q] = run[q] /\ ~Holds(q)
    BY <1>1 DEF At, LineageInv, CompanionInv, LockInv, RunOK, LockOK
  <2>2. ~Holds(q)' /\ run'[q].pc \notin {"release-claim", "unlock"}
    BY <2>1 DEF Holds, Unlocked
  <2> QED
    BY <2>2 DEF OwnLeftOK
<1> QED
  BY <1>3, <1>4, <1>5, <1>6 DEF LineageInv

\* What is not a journal write and not recovery.
LEMMA LineageOperation ==
    ASSUME LineageInv, FileInv', CompanionInv', NEW p \in Runs, run[p].pc \in Ahead, Proceeds(p),
           UNCHANGED <<locks, journals>>
    PROVE  LineageInv'
<1>1. Holds(p) /\ Place(p) # "recover"
  BY AheadHolds DEF Holds, Place, Ahead
<1>2. /\ At(p, run'[p])
      /\ run'[p].pc \notin {"ended", "crashed", "release-claim", "unlock"}
  BY DEF Proceeds, Ahead
<1>3. (\A t \in Runs : Left(t)' = Left(t)) /\ \A t \in Runs : journalTmp'[t] # Torn
  BY DEF Left, journals, LineageInv
<1>4. OwnLeftOK(p)
  BY DEF LineageInv
<1>5. OwnLeftOK(p)'
  BY <1>1, <1>2, <1>3, <1>4 DEF OwnLeftOK
<1> QED
  BY <1>1, <1>2, <1>3, <1>5, LineageUnder

LEMMA LineageOperate ==
    ASSUME LineageInv, FileInv', CompanionInv', NEW p \in Runs,
           Operate(p) \/ Publish(p) \/ Withdraw(p) \/ CommandFails(p),
           ~StageJournal(p), ~CommitJournal(p)
    PROVE  LineageInv'
<1>1. Shaped
  BY DEF LineageInv, CompanionInv, LockInv
<1>2. CASE Publish(p)
  <2>1. run[p].pc \in Ahead /\ UNCHANGED <<locks, journals>>
    BY <1>2 DEF Publish, Intend, WriteTemporary, MoveOld, RenameOld, PutBack, LinkNew,
                UnlinkTemporary, DropOld, UndoLink, UndoDrop, DropOwnTemporary, Ahead
  <2> QED
    BY <1>1, <1>2, <2>1, PublishProceeds, LineageOperation
<1>3. CASE Withdraw(p)
  <2>1. run[p].pc \in Ahead /\ UNCHANGED <<locks, journals>>
    BY <1>3 DEF Withdraw, BeginRemoval, RenameAway, Destroy, Removed, Ahead
  <2> QED
    BY <1>1, <1>3, <2>1, WithdrawProceeds, LineageOperation
<1>4. CASE CommandFails(p)
  <2>1. run[p].pc \in Ahead /\ UNCHANGED <<locks, journals>>
    BY <1>4 DEF CommandFails, Ahead
  <2> QED
    BY <1>1, <1>4, <2>1, FailureProceeds, LineageOperation DEF Resumes
<1>5. CASE Command(p)
  <2>1. run[p].pc \in Ahead /\ UNCHANGED <<locks, journals>>
    BY <1>5 DEF Command, Probe, Restart, BootOut, Bootstrap, BootstrapImpossible, Rollback,
                Rebootstrap, Ahead
  <2> QED
    BY <1>1, <1>5, <2>1, CommandProceeds, LineageOperation DEF Resumes
<1>6. CASE BootOutLegacy(p) \/ Sweep(p) \/ RetireLegacy(p) \/ DropRetired(p)
  <2>1. run[p].pc \in Ahead /\ UNCHANGED <<locks, journals>>
    BY <1>6 DEF BootOutLegacy, Sweep, RetireLegacy, DropRetired, Ahead
  <2>2. {"sweep", "retire", "probe", "retired", "release"} \subseteq Between
    BY DEF Between
  <2>3. Proceeds(p)
    BY <1>1, <1>6, <2>2, GotoResumes DEF BootOutLegacy, Sweep, RetireLegacy, DropRetired, Resumes
  <2> QED
    BY <2>1, <2>3, LineageOperation
<1> QED
  BY <1>2, <1>3, <1>4, <1>5, <1>6 DEF Operate, Command

\* A journal write: a new journal is the holder's, and it has nobody else's.
LEMMA LineageWrite ==
    ASSUME LineageInv, FileInv', CompanionInv', NEW p \in Runs, StageJournal(p) \/ CommitJournal(p)
    PROVE  LineageInv'
<1> DEFINE j == run[p].pending
<1>1. /\ run[p].pc \in {"stage", "commit"} /\ UNCHANGED locks /\ Place(p) = run[p].next
      /\ Holds(p) /\ Shaped
  BY DEF StageJournal, CommitJournal, Place, Holds, Unlocked, LineageInv, CompanionInv, LockInv
<1>2. /\ run[p].next \in AfterWrite
      /\ run[p].next # "recover" => j.tx = p
      /\ run[p].next = "recover" => j.tx = journal.tx /\ journal.tx \in Runs
  <2>1. WriteOK(p)
    BY DEF LineageInv, FileInv, FilesOK
  <2> QED
    BY <1>1, <2>1 DEF WriteOK
<1>3. PICK t0 \in Runs : t0 = j.tx
  BY <1>2
<1>4. t0 # 0 /\ j # Torn /\ \A t \in Runs : journalTmp[t] # Torn
  BY <1>3, RunsAssumption, NoJournalShape DEF LineageInv
<1>5. /\ At(p, run'[p]) /\ run'[p].pc \notin {"ended", "crashed", "release-claim", "unlock"}
      /\ Place(p)' = run[p].next
  <2>1. CASE StageJournal(p)
    BY <1>1, <2>1, GotoAt DEF StageJournal, Place
  <2>2. CASE CommitJournal(p)
    BY <1>1, <1>2, <2>2, GotoAt DEF CommitJournal, Place, AfterWrite
  <2> QED
    BY <2>1, <2>2
<1>6. DOMAIN journalTmp = Runs
  BY DEF LineageInv, FileInv, FilesShaped
<1>7. /\ \A t \in Runs : journalTmp'[t] \in {journalTmp[t], j, NoJournal}
      /\ \A t \in Runs : Left(t)' => Left(t) \/ t = t0
  BY <1>3, <1>6 DEF StageJournal, CommitJournal, Left
<1>8. NoJournal # Torn
  BY DEF Torn, NoJournal
<1>9. \A t \in Runs : Left(t)' => Left(t) \/ (t = p /\ Place(p) # "recover")
  BY <1>1, <1>2, <1>3, <1>7 DEF Left
<1>10. OwnLeftOK(p)
  BY DEF LineageInv
<1>11. OwnLeftOK(p)'
  BY <1>1, <1>5, <1>9, <1>10 DEF OwnLeftOK
<1> HIDE DEF j
<1> QED
  BY <1>1, <1>4, <1>5, <1>7, <1>8, <1>9, <1>11, LineageUnder

-----------------------------------------------------------------------------
\* Recovery ends when nobody left anything.
LEMMA NothingLeft ==
    ASSUME LineageInv, NEW p \in Runs, run[p].pc = "recover", journal = NoJournal,
           \A t \in Runs : ~Outstanding(t)
    PROVE  \A t \in Runs : ~Left(t)
<1> SUFFICES ASSUME NEW t \in Runs, Left(t)
             PROVE  FALSE
  OBVIOUS
<1>1. journalTmp[t] # NoJournal
  BY NoJournalShape, RunsAssumption DEF Left
<1>2. t \in Named(lock) /\ \A u \in Runs : Left(u) => u = t
  BY DEF LineageInv, Covers, OneLeft
<1>3. lock.tx = p /\ lock \in Owners
  BY DEF LineageInv, CompanionInv, OwnersOK, LockInv, RunOK, LockOK, Holds, Unlocked
<1>4. journalTmp[p] = NoJournal
  <2>1. OwnOK(p) /\ ~Dead(p)
    BY DEF LineageInv, FileInv, FilesOK, Dead
  <2> QED
    BY <2>1 DEF OwnOK
<1>5. t \in ToSet(lock.preds) /\ lock.preds \in Seq(Runs)
  BY <1>1, <1>2, <1>3, <1>4 DEF Named, Owners
<1>6. PICK i \in DOMAIN lock.preds : lock.preds[i] = t /\ \A k \in 1..(i - 1) : lock.preds[k] # t
  BY <1>5, FirstPlace
<1>7. ASSUME NEW k \in 1..(i - 1)
      PROVE  journalTmp[lock.preds[k]] = NoJournal
  <2>1. lock.preds[k] \in Runs /\ lock.preds[k] # t
    BY <1>5, <1>6
  <2> QED
    BY <1>2, <2>1 DEF Left
<1>8. Outstanding(t)
  BY <1>1, <1>6, <1>7 DEF Outstanding
<1> QED
  BY <1>8

LEMMA LineageRecover ==
    ASSUME LineageInv, FileInv', CompanionInv', NEW p \in Runs, Recover(p)
    PROVE  LineageInv'
<1>1. run[p].pc = "recover" /\ UNCHANGED locks /\ Holds(p) /\ Shaped
  BY Places DEF Recover, RecoveryRefused, ReconcileJournal, AdoptTemporary, RestoreLink,
         DropTemporary, DropQuarantine, CloseTransaction, EnterBody, LineageInv, CompanionInv, LockInv
<1>2. run' = run => At(p, run'[p]) /\ run'[p].pc = "recover"
  BY <1>1 DEF At, Shaped
<1>3. (run'[p].pc = "recover" \/ (run'[p].pc = "stage" /\ run'[p].next = "recover")) => OwnLeftOK(p)'
  BY DEF OwnLeftOK, Place
<1>4. \A t \in Runs : journalTmp[t] # Torn
  BY DEF LineageInv
<1>5. UNCHANGED journals =>
        (\A t \in Runs : Left(t)' = Left(t)) /\ \A t \in Runs : journalTmp'[t] # Torn
  BY <1>4 DEF Left, journals
<1>6. CASE RecoveryRefused(p)
  <2>1. At(p, run'[p]) /\ run'[p].pc = "ended" /\ UNCHANGED journals
    BY <1>1, <1>6, EndedAt DEF RecoveryRefused
  <2> QED
    BY <1>1, <2>1, LineageAside
<1>7. CASE RestoreLink(p) \/ DropTemporary(p) \/ DropQuarantine(p)
  <2>1. run' = run /\ UNCHANGED journals
    BY <1>7 DEF RestoreLink, DropTemporary, DropQuarantine
  <2> QED
    BY <1>1, <1>2, <1>3, <1>5, <2>1, LineageUnder
<1>8. CASE AdoptTemporary(p)
  <2>1. UNCHANGED journals
    BY <1>8 DEF AdoptTemporary
  <2>2. At(p, run'[p]) /\ run'[p].pc = "stage" /\ run'[p].next = "recover"
    BY <1>1, <1>8, WritingStaged DEF AdoptTemporary, Staged
  <2> QED
    BY <1>1, <1>3, <1>5, <2>1, <2>2, LineageUnder
<1>9. CASE ReconcileJournal(p)
  <2>1. /\ run' = run /\ \A t \in Runs : journalTmp'[t] \in {journalTmp[t], NoJournal}
        /\ DOMAIN journalTmp = Runs
    BY <1>9 DEF ReconcileJournal, LineageInv, FileInv, FilesShaped
  <2>2. PICK t \in Runs : journalTmp[t] # NoJournal /\ journal' = journalTmp[t]
    BY <1>9 DEF ReconcileJournal
  <2>3. journal'.tx = t /\ Left(t)
    BY <1>4, <2>2 DEF LineageInv, FileInv, JournalsOK, Left
  <2>4. \A u \in Runs : Left(u)' => Left(u)
    BY <2>1, <2>3 DEF Left
  <2>5. \A u \in Runs : journalTmp'[u] # Torn
    BY <1>4, <2>1 DEF Torn, NoJournal
  <2> QED
    BY <1>1, <1>2, <1>3, <2>1, <2>4, <2>5, LineageUnder
<1>10. CASE CloseTransaction(p)
  <2>1. run' = run /\ journal' = NoJournal /\ journalTmp' = journalTmp
    BY <1>10 DEF CloseTransaction
  <2>2. \A u \in Runs : Left(u)' => Left(u)
    BY <2>1, NoJournalShape, RunsAssumption DEF Left
  <2> QED
    BY <1>1, <1>2, <1>3, <1>4, <2>1, <2>2, LineageUnder
<1>11. CASE EnterBody(p)
  <2>1. UNCHANGED journals /\ At(p, run'[p]) /\ run'[p].pc = "legacy-bootout"
    BY <1>1, <1>11, GotoAt DEF EnterBody
  <2>2. \A t \in Runs : ~Left(t)
    BY <1>11, NothingLeft DEF EnterBody
  <2>3. OwnLeftOK(p)'
    BY <1>5, <2>1, <2>2 DEF OwnLeftOK
  <2> QED
    BY <1>1, <1>5, <2>1, <2>3, LineageUnder
<1> QED
  BY <1>6, <1>7, <1>8, <1>9, <1>10, <1>11 DEF Recover

-----------------------------------------------------------------------------
LEMMA LineageRelease ==
    ASSUME LineageInv, FileInv', CompanionInv', NEW p \in Runs, Release(p)
    PROVE  LineageInv'
<1>1. Shaped /\ OwnLeftOK(p)
  BY DEF LineageInv, CompanionInv, LockInv
<1>2. CASE ReleaseJournal(p)
  <2>1. /\ run[p].pc = "release" /\ UNCHANGED <<locks, journalTmp>>
        /\ journal' = IF journal.tx = p THEN NoJournal ELSE journal
        /\ At(p, run'[p]) /\ run'[p].pc = "release-claim"
    BY <1>1, <1>2, GotoAt DEF ReleaseJournal
  <2>2. Holds(p) /\ Place(p) # "recover"
    BY <2>1 DEF Holds, Unlocked, Place
  <2>3. journal'.tx # p /\ \A t \in Runs : Left(t)' => Left(t)
    BY <2>1, NoJournalShape, RunsAssumption DEF Left
  <2>4. OwnLeftOK(p)'
    BY <1>1, <2>1, <2>2, <2>3 DEF OwnLeftOK
  <2>5. \A t \in Runs : journalTmp'[t] # Torn
    BY <2>1 DEF LineageInv
  <2> QED
    BY <2>1, <2>2, <2>3, <2>4, <2>5, LineageUnder
<1>3. CASE ReleaseClaim(p)
  <2>1. /\ run[p].pc = "release-claim" /\ UNCHANGED <<lock, candidate, journals>>
        /\ \A x \in Runs : claim'[x] \in {claim[x], NoOwner}
        /\ At(p, run'[p]) /\ run'[p].pc = "unlock"
    BY <1>1, <1>3, GotoAt DEF ReleaseClaim
  <2>2. Holds(p) /\ Place(p) # "recover" /\ \A t \in Runs : Left(t)' = Left(t)
    BY <2>1 DEF Holds, Unlocked, Place, Left, journals
  <2>3. OwnLeftOK(p)' /\ HeirOK(p)'
    BY <1>1, <2>1, <2>2 DEF OwnLeftOK, HeirOK, Heirs, journals
  <2> QED
    BY <2>1, <2>3, LineageStays
<1>4. CASE Unlock(p)
  <2>1. /\ run[p].pc = "unlock" /\ UNCHANGED journals /\ lock' = NoOwner
        /\ At(p, run'[p]) /\ run'[p].pc = "ended"
    BY <1>1, <1>4, EndedAt DEF Unlock
  \* Its own journal is gone, and there was nobody else's.
  <2>2. \A t \in Runs : ~Left(t)
    <3>1. OwnOK(p) /\ ~Dead(p) /\ Holds(p) /\ Place(p) # "recover"
      BY <2>1 DEF LineageInv, FileInv, FilesOK, Dead, Holds, Unlocked, Place
    <3>2. journalTmp[p] = NoJournal
      BY <2>1, <3>1 DEF OwnOK
    <3> QED
      BY <1>1, <2>1, <3>1, <3>2 DEF OwnLeftOK, Left
  <2>3. Covers(lock)'
    BY <2>1, <2>2 DEF Covers, Left, journals
  <2>4. HeirsOK'
    BY <2>1, NoOwnerOwner, RunsAssumption, NoHeirs
  <2>5. run'[p].pc \in Unlocked \cup {"recover"}
    BY <2>1 DEF Unlocked
  <2> QED
    BY <2>1, <2>3, <2>4, <2>5, OutsideLeft, LineageMoves
<1> QED
  BY <1>2, <1>3, <1>4 DEF Release

LEMMA LineageInvInit == Init => LineageInv
<1> SUFFICES ASSUME Init
             PROVE  LineageInv
  OBVIOUS
<1>1. /\ \A p \in Runs : run[p] = Idle /\ journalTmp[p] = NoJournal /\ claim[p] = NoOwner
      /\ journal = NoJournal
  BY DEF Init
<1>2. \A t \in Runs : ~Left(t)
  BY <1>1, NoJournalShape, RunsAssumption DEF Left
<1>3. Covers(lock) /\ OneLeft /\ \A t \in Runs : journalTmp[t] # Torn
  BY <1>1, <1>2 DEF Covers, OneLeft, Torn, NoJournal
<1>4. HeirsOK /\ \A p \in Runs : OwnLeftOK(p)
  BY <1>1, <1>2, IdleShape DEF HeirsOK, HeirOK, Heirs, OwnLeftOK
<1> QED
  BY <1>3, <1>4, FileInvInit, CompanionInvInit DEF LineageInv

LEMMA LineageInvStep == ~TornWrites /\ LineageInv /\ [Next]_vars => LineageInv'
<1> SUFFICES ASSUME ~TornWrites, LineageInv, [Next]_vars
             PROVE  LineageInv'
  OBVIOUS
<1>1. FileInv' /\ CompanionInv' /\ Shaped
  BY FileInvStep, CompanionInvStep DEF LineageInv, CompanionInv, LockInv
<1>2. ASSUME NEW p \in Runs, NEW op \in Ops[p], Start(p, op)
      PROVE  LineageInv'
  <2>1. UNCHANGED <<locks, journals>> /\ At(p, run'[p]) /\ run'[p].pc \in {"probe-legacy", "candidate"}
    BY <1>1, <1>2 DEF Start, At, Shaped, Fields
  <2> QED
    BY <1>1, <2>1, LineageAside
<1>3. ASSUME NEW p \in Runs, Acquire(p) \/ Recover(p) \/ Release(p)
      PROVE  LineageInv'
  BY <1>1, <1>3, LineageAcquire, LineageRecover, LineageRelease
<1>4. ASSUME NEW p \in Runs, Operate(p) \/ Publish(p) \/ Withdraw(p) \/ CommandFails(p)
      PROVE  LineageInv'
  BY <1>1, <1>4, LineageOperate, LineageWrite
<1>5. ASSUME NEW p \in Runs, Crash(p)
      PROVE  LineageInv'
  <2>1. At(p, run'[p]) /\ run'[p].pc = "crashed"
    BY <1>1, <1>5 DEF Crash, Killed, At, Shaped, Fields, Idle
  <2>2. UNCHANGED <<locks, journals>>
    BY <1>5 DEF Crash, journals
  <2> QED
    BY <1>1, <2>1, <2>2, LineageAside
<1>6. ASSUME NEW file, Edit(file)
      PROVE  LineageInv'
  BY <1>1, <1>6, LineageUnchanged DEF Edit
<1>7. CASE UNCHANGED vars
  BY <1>1, <1>7, LineageUnchanged DEF vars
<1> QED
  BY <1>2, <1>3, <1>4, <1>5, <1>6, <1>7 DEF Next

\* However many of its owners were killed, the lock names the one transaction there is to
\* recover, and so does whatever may replace it: what the bound on predecessors drops left
\* nothing (inheritedPredecessorTransactionIds).  Assumed: a file that exists was written.
THEOREM LineageInvHolds == ~TornWrites => (Spec => []LineageInv)
<1> SUFFICES ASSUME ~TornWrites
             PROVE  Spec => []LineageInv
  OBVIOUS
<1>1. LineageInv /\ [Next]_vars => LineageInv'
  BY LineageInvStep
<1> QED
  BY <1>1, LineageInvInit, PTL DEF Spec
-----------------------------------------------------------------------------
\* What recovery can act on.

\* Where a run has written nothing of a transaction that it goes on with.
Resting == Unlocked \cup Between \cup {"recover", "release-claim", "unlock"}

LEMMA RestingOK ==
    ASSUME NEW p \in Runs, run'[p].pc \in Resting, Dead(p)' \/ tmp'[p] = NoFile
    PROVE  /\ BareOK(p)' /\ Steps(p)' /\ Finds(p)'
           /\ run'[p].pc \notin {"stage", "commit"}
<1>1. /\ Place(p)' = run'[p].pc /\ run'[p].pc \notin {"stage", "commit"}
      /\ run'[p].pc \notin Writes \cup Temporaries \cup {"rename-away", "destroy"}
  BY DEF Place, Resting, Unlocked, Between, Writes, Temporaries
<1>2. BareOK(p)'
  BY DEF BareOK
<1>3. Steps(p)'
  BY <1>1 DEF Steps, Writes
<1>4. Finds(p)'
  BY <1>1 DEF Finds, Writes, Temporaries
<1> QED
  BY <1>1, <1>2, <1>3, <1>4

LEMMA FitsSame ==
    ASSUME UNCHANGED files, NEW j
    PROVE  Fits(j)' = Fits(j)
BY DEF Fits, files

\* A step that leaves the files and the journals alone.
LEMMA RecoverableStays ==
    ASSUME RecoverableInv, LineageInv', NEW p \in Runs, At(p, run'[p]),
           UNCHANGED <<journals, files, edited>>, BareOK(p)', Steps(p)',
           ~edited => /\ Finds(p)'
                      /\ run'[p].pc \in {"stage", "commit"} => Fits(run'[p].pending)
    PROVE  RecoverableInv'
<1>1. /\ journal' = journal /\ journalTmp' = journalTmp /\ def' = def /\ tmp' = tmp
      /\ quarantine' = quarantine /\ edited' = edited
  BY DEF journals, files
<1>2. ASSUME NEW q \in Runs \ {p}
      PROVE  BareOK(q)' /\ Steps(q)' /\ (Finds(q) => Finds(q)')
  <2>1. run'[q] = run[q] /\ BareOK(q) /\ Steps(q)
    BY DEF At, RecoverableInv
  <2>2. Dead(q)' = Dead(q) /\ Place(q)' = Place(q) /\ NewId(q)' = NewId(q)
    BY <2>1 DEF Dead, Place, NewId, Published
  <2>3. BareOK(q)'
    BY <1>1, <2>1, <2>2 DEF BareOK
  <2>4. Steps(q)'
    BY <1>1, <2>1, <2>2 DEF Steps
  <2>5. Finds(q) => Finds(q)'
    BY <1>1, <2>1, <2>2 DEF Finds
  <2> QED
    BY <2>3, <2>4, <2>5
<1>3. ASSUME ~edited
      PROVE  FitOK' /\ \A q \in Runs : Finds(q)'
  <2>1. FitOK /\ \A q \in Runs : Finds(q)
    BY <1>3 DEF RecoverableInv
  <2>2. ASSUME NEW q \in Runs, run'[q].pc \in {"stage", "commit"}
        PROVE  Fits(run'[q].pending)
    BY <1>3, <2>1, <2>2 DEF At, FitOK
  <2>3. \A j : Fits(j)' = Fits(j)
    BY FitsSame
  <2>4. FitOK'
    BY <1>1, <2>1, <2>2, <2>3 DEF FitOK
  <2> QED
    BY <1>2, <1>3, <2>1, <2>4
<1> QED
  BY <1>1, <1>2, <1>3 DEF RecoverableInv

\* One of the run that has the lock.
LEMMA RecoverableMoves ==
    ASSUME RecoverableInv, LineageInv', NEW p \in Runs, Holds(p), At(p, run'[p]), edited' = edited,
           \A q \in Runs \ {p} : tmp'[q] \in {tmp[q], NoFile},
           BareOK(p)', Steps(p)', ~edited => FitOK' /\ Finds(p)'
    PROVE  RecoverableInv'
<1>1. ASSUME NEW q \in Runs \ {p}
      PROVE  BareOK(q)' /\ Steps(q)' /\ Finds(q)'
  <2>1. run'[q] = run[q] /\ BareOK(q) /\ run[q].pc \in Unlocked
    BY DEF At, RecoverableInv, LineageInv, CompanionInv, LockInv, RunOK, LockOK, Holds
  <2>2. Place(q) = run[q].pc /\ Dead(q)' = Dead(q)
    BY <2>1 DEF Place, Dead, Unlocked
  <2>3. Dead(q)' \/ tmp'[q] = NoFile
    BY <2>1, <2>2 DEF BareOK, Temporaries, Unlocked
  <2> QED
    BY <2>1, <2>3, RestingOK DEF Resting
<1> QED
  BY <1>1 DEF RecoverableInv

\* Only the holder may be writing a journal.
LEMMA NobodyWrites ==
    ASSUME LineageInv, NEW p \in Runs, Holds(p), At(p, run'[p])
    PROVE  \A q \in Runs \ {p} : run'[q].pc \notin {"stage", "commit"}
BY DEF At, LineageInv, CompanionInv, LockInv, RunOK, LockOK, Holds, Unlocked

\* One in its own transaction, that changes files: no other journal is there.
LEMMA OwnFiles ==
    ASSUME RecoverableInv, LineageInv', NEW p \in Runs, run[p].pc \in Ahead, At(p, run'[p]),
           UNCHANGED <<journals, edited>>,
           \A q \in Runs \ {p} : tmp'[q] = tmp[q],
           BareOK(p)', Steps(p)',
           ~edited => /\ Finds(p)'
                      /\ journal # NoJournal => Fits(journal)'
                      /\ run'[p].pc \in {"stage", "commit"} => Fits(run[p].pending)'
    PROVE  RecoverableInv'
<1>1. Holds(p) /\ Place(p) # "recover" /\ ~Dead(p) /\ run[p].pc \notin {"stage", "commit"}
  BY AheadHolds DEF Holds, Place, Ahead, Dead
<1>2. journal' = journal /\ journalTmp' = journalTmp
  BY DEF journals
<1>3. \A t \in Runs : journalTmp[t] = NoJournal
  <2>1. OwnLeftOK(p) /\ OwnOK(p)
    BY DEF RecoverableInv, LineageInv, FileInv, FilesOK
  <2> QED
    BY <1>1, <2>1 DEF OwnLeftOK, OwnOK, Left
<1>4. \A q \in Runs \ {p} : run'[q].pc \notin {"stage", "commit"}
  BY <1>1, NobodyWrites DEF RecoverableInv
<1>5. ~edited => FitOK'
  BY <1>2, <1>3, <1>4 DEF FitOK
<1> QED
  BY <1>1, <1>5, RecoverableMoves

\* What a run in its own transaction finds.
LEMMA OwnTransaction ==
    ASSUME RecoverableInv, NEW p \in Runs, run[p].pc \in Ahead
    PROVE  /\ Shaped /\ ~Dead(p) /\ p # 0 /\ Place(p) = run[p].pc /\ Holds(p)
           /\ journal # NoJournal => journal.tx = p
           /\ DOMAIN run[p].pending = JournalFields
           /\ tmp = [q \in Runs |-> tmp[q]] /\ quarantine = [q \in Runs |-> quarantine[q]]
           /\ run[p].pc \in Clean => quarantine[p] = NoFile
           /\ run[p].pc \notin Temporaries => tmp[p] = NoFile
           /\ Steps(p) /\ (~edited => Finds(p))
           /\ ~edited /\ journal # NoJournal => Fits(journal)
<1>1. Holds(p) /\ run[p].pc \notin {"stage", "commit", "recover"} /\ FileInv
  BY AheadHolds DEF Holds, Ahead, RecoverableInv, LineageInv
<1>2. BareOK(p) /\ Steps(p) /\ (~edited => FitOK /\ Finds(p))
  BY DEF RecoverableInv
<1> QED
  BY <1>1, <1>2, HolderKnows, RunsAssumption DEF BareOK, FitOK, FileInv, FilesShaped, JournalsOK
-----------------------------------------------------------------------------
\* A publication and a removal, step by step.

LEMMA SameId ==
    ASSUME NEW p \in Runs, Same(p)
    PROVE  NewId(p)' = NewId(p) /\ run'[p].body = run[p].body
BY DEF Same, NewId, Published

LEMMA NewFile ==
    ASSUME NEW p \in Runs, NEW file, file.id = NewId(p)
    PROVE  file # NoFile /\ NewId(p) # NoFile.id
BY RunsAssumption DEF NewId, NoFile

LEMMA RecoverableIntend ==
    ASSUME RecoverableInv, LineageInv', NEW p \in Runs, Intend(p)
    PROVE  RecoverableInv'
<1> DEFINE j == [tx |-> p, op |-> "publish", phase |-> "preparing", original |-> def.id,
                 replacement |-> NoFile.id, expected |-> run[p].body]
<1>1. /\ run[p].pc = "intend" /\ run' = [Writing(p, j, "write-temp") EXCEPT ![p].source = def.id]
      /\ UNCHANGED <<journals, files, edited>>
  BY DEF Intend
<1>2. Shaped /\ quarantine[p] = NoFile /\ tmp[p] = NoFile
  BY <1>1, OwnTransaction DEF Ahead, Clean, Temporaries
<1>3. /\ j.tx = p /\ j.op = "publish" /\ j.original = def.id /\ j.phase = "preparing"
      /\ j.expected = run[p].body
  OBVIOUS
<1> HIDE DEF j
<1>4. Staged(p, j, "write-temp", def.id)
  BY <1>1, <1>2, SourceStaged
<1>5. /\ Place(p)' = "write-temp" /\ run'[p].pc = "stage" /\ run'[p].source = def.id
      /\ run'[p].pending = j /\ run'[p].body = run[p].body /\ At(p, run'[p])
  BY <1>4 DEF Staged, Same, Place
<1>6. /\ tmp' = tmp /\ def' = def
  BY <1>1 DEF files
<1>7. BareOK(p)' /\ Steps(p)' /\ Finds(p)'
  <2>1. BareOK(p)'
    BY <1>2, <1>6 DEF BareOK
  <2>2. Steps(p)'
    BY <1>3, <1>5 DEF Steps, Writes
  <2>3. Finds(p)'
    BY <1>5, <1>6 DEF Finds
  <2> QED
    BY <2>1, <2>2, <2>3
<1>8. Fits(run'[p].pending)
  BY <1>2, <1>3, <1>5 DEF Fits
<1> QED
  BY <1>1, <1>5, <1>7, <1>8, RecoverableStays

LEMMA RecoverableWriteTemporary ==
    ASSUME RecoverableInv, LineageInv', NEW p \in Runs, WriteTemporary(p)
    PROVE  RecoverableInv'
<1> DEFINE j == [Phase(p, "prepared") EXCEPT !.replacement = NewId(p)]
           file == [id |-> NewId(p), body |-> run[p].body]
<1>1. /\ run[p].pc = "write-temp" /\ run' = Writing(p, j, "move-old")
      /\ tmp' = [tmp EXCEPT ![p] = file]
      /\ UNCHANGED <<journals, def, quarantine, edited>>
  BY DEF WriteTemporary, history
<1>2. /\ Shaped /\ quarantine[p] = NoFile /\ DOMAIN run[p].pending = JournalFields
      /\ Steps(p) /\ Place(p) = "write-temp" /\ run[p].pc \in Ahead
      /\ ~edited => Finds(p)
      /\ tmp = [q \in Runs |-> tmp[q]]
  BY <1>1, OwnTransaction DEF Ahead, Clean
<1>3. /\ run[p].pending.tx = p /\ run[p].pending.original = run[p].source
      /\ run[p].pending.op = "publish" /\ run[p].pending.phase = "preparing"
      /\ run[p].pending.expected = run[p].body /\ journal = run[p].pending
      /\ ~edited => run[p].source = def.id
  BY <1>1, <1>2 DEF Steps, Finds, Writes
<1>4. /\ j.tx = p /\ j.op = "publish" /\ j.original = run[p].source /\ j.phase = "prepared"
      /\ j.replacement = NewId(p)
  BY <1>2, <1>3 DEF JournalFields, Phase
<1>5. file.id = NewId(p) /\ file.body = run[p].body
  OBVIOUS
<1> HIDE DEF j, file
<1>6. Staged(p, j, "move-old", run[p].source)
  BY <1>1, <1>2, WritingStaged
<1>7. tmp'[p] = file /\ \A q \in Runs \ {p} : tmp'[q] = tmp[q]
  BY <1>1, <1>2
<1>8. /\ Place(p)' = "move-old" /\ run'[p].pc = "stage" /\ run'[p].source = run[p].source
      /\ run'[p].pending = j /\ At(p, run'[p]) /\ NewId(p)' = NewId(p)
  BY <1>6, SameId DEF Staged, Place
<1>9. BareOK(p)' /\ Steps(p)' /\ (~edited => Finds(p)')
  <2>1. BareOK(p)'
    BY <1>8 DEF BareOK, Temporaries
  <2>2. Steps(p)'
    BY <1>4, <1>5, <1>7, <1>8 DEF Steps, Writes
  <2>3. ~edited => Finds(p)'
    BY <1>1, <1>3, <1>8 DEF Finds
  <2> QED
    BY <2>1, <2>2, <2>3
<1>10. ASSUME ~edited
       PROVE  Fits(journal)' /\ Fits(run[p].pending)'
  <2>1. journal' = journal /\ def' = def /\ quarantine' = quarantine
    BY <1>1 DEF journals
  <2>2. Fits(journal)'
    BY <1>2, <1>3, <1>5, <1>7, <1>10, <2>1 DEF Fits
  <2>3. Fits(run[p].pending)'
    BY <1>2, <1>3, <1>4, <1>5, <1>7, <1>8, <1>10, <2>1 DEF Fits
  <2> QED
    BY <2>2, <2>3
<1> QED
  BY <1>1, <1>2, <1>7, <1>8, <1>9, <1>10, OwnFiles

LEMMA RecoverableMoveOld ==
    ASSUME RecoverableInv, LineageInv', NEW p \in Runs, MoveOld(p)
    PROVE  RecoverableInv'
<1>1. PICK pc \in {"undo", "link-new", "rename-old"} :
         /\ run[p].pc = "move-old" /\ Goto(p, pc) /\ UNCHANGED <<journals, files, edited>>
         /\ pc = "undo" => def.id # run[p].source
         /\ pc = "link-new" => def = NoFile
         /\ pc = "rename-old" => def # NoFile
  BY DEF MoveOld, history
<1>2. Shaped /\ Steps(p) /\ Place(p) = "move-old" /\ (~edited => Finds(p))
  BY <1>1, OwnTransaction DEF Ahead
<1>3. Went(p, pc)
  BY <1>1, <1>2, GotoWent
<1>4. /\ Place(p)' = pc /\ run'[p].pc = pc /\ run'[p].source = run[p].source
      /\ run'[p].pending = run[p].pending /\ At(p, run'[p]) /\ NewId(p)' = NewId(p)
  BY <1>3, SameId DEF Went, Place
<1>5. tmp' = tmp /\ def' = def /\ journal' = journal
  BY <1>1 DEF files, journals
<1>6. BareOK(p)' /\ Steps(p)' /\ (~edited => Finds(p)')
  <2>1. BareOK(p)'
    BY <1>4 DEF BareOK, Temporaries
  <2>2. Steps(p)'
    BY <1>1, <1>2, <1>4, <1>5 DEF Steps, Writes
  <2>3. ~edited => Finds(p)'
    BY <1>1, <1>2, <1>4, <1>5 DEF Finds
  <2> QED
    BY <2>1, <2>2, <2>3
<1> QED
  BY <1>1, <1>4, <1>6, RecoverableStays

LEMMA RecoverableRenameOld ==
    ASSUME RecoverableInv, LineageInv', NEW p \in Runs, RenameOld(p)
    PROVE  RecoverableInv'
<1>1. run[p].pc = "rename-old" /\ UNCHANGED <<journals, tmp, edited>>
  BY DEF RenameOld, history
<1>2. /\ Shaped /\ Steps(p) /\ Place(p) = "rename-old" /\ (~edited => Finds(p))
      /\ DOMAIN run[p].pending = JournalFields /\ run[p].pc \in Ahead
      /\ quarantine = [q \in Runs |-> quarantine[q]]
  BY <1>1, OwnTransaction DEF Ahead
<1>3. /\ run[p].pending.tx = p /\ run[p].pending.original = run[p].source
      /\ run[p].pending.op = "publish" /\ run[p].pending.phase # "preparing"
      /\ run[p].pending.replacement = NewId(p) /\ tmp[p].id = NewId(p)
      /\ journal = run[p].pending
      /\ ~edited => run[p].source = def.id /\ def # NoFile
  BY <1>1, <1>2 DEF Steps, Finds, Writes
<1>4. ASSUME NEW pc \in {"undo", "put-back"}, Goto(p, pc)
      PROVE  At(p, run'[p]) /\ BareOK(p)' /\ Steps(p)'
  <2>1. At(p, run'[p]) /\ run'[p].pc = pc /\ Place(p)' = pc
    BY <1>2, <1>4, GotoAt DEF Place
  <2> QED
    BY <2>1 DEF BareOK, Temporaries, Steps, Writes
<1>5. CASE def = NoFile
  <2>1. Goto(p, "undo") /\ edited /\ UNCHANGED files
    BY <1>1, <1>3, <1>5 DEF RenameOld, files
  <2> QED
    BY <1>1, <1>4, <2>1, RecoverableStays
<1>6. CASE def # NoFile
  <2>1. /\ quarantine' = [quarantine EXCEPT ![p] = def] /\ def' = NoFile
        /\ run' = IF def.id = run[p].source THEN Writing(p, Phase(p, "old-quarantined"), "link-new")
                  ELSE [run EXCEPT ![p].pc = "put-back"]
    BY <1>6 DEF RenameOld
  <2>2. quarantine'[p] = def
    BY <1>2, <2>1
  <2>3. CASE def.id = run[p].source
    <3> DEFINE j == Phase(p, "old-quarantined")
    <3>1. /\ j.tx = p /\ j.op = "publish" /\ j.original = run[p].source
          /\ j.phase # "preparing" /\ j.replacement = NewId(p)
      BY <1>2, <1>3 DEF JournalFields, Phase
    <3> HIDE DEF j
    <3>2. Staged(p, j, "link-new", run[p].source)
      BY <1>2, <2>1, <2>3, WritingStaged DEF j
    <3>3. /\ Place(p)' = "link-new" /\ run'[p].pc = "stage" /\ run'[p].source = run[p].source
          /\ run'[p].pending = j /\ At(p, run'[p]) /\ NewId(p)' = NewId(p)
      BY <3>2, SameId DEF Staged, Place
    <3>4. BareOK(p)' /\ Steps(p)' /\ Finds(p)'
      <4>1. BareOK(p)'
        BY <3>3 DEF BareOK, Temporaries
      <4>2. Steps(p)'
        BY <1>1, <1>3, <3>1, <3>3 DEF Steps, Writes
      <4>3. Finds(p)'
        BY <2>1, <3>3 DEF Finds
      <4> QED
        BY <4>1, <4>2, <4>3
    <3>5. Fits(journal)' /\ Fits(run[p].pending)'
      <4>1. journal' = journal
        BY <1>1 DEF journals
      <4> QED
        BY <1>1, <1>3, <1>6, <2>2, <2>3, <3>1, <3>3, <4>1 DEF Fits
    <3> QED
      BY <1>1, <1>2, <3>3, <3>4, <3>5, OwnFiles
  <2>4. CASE def.id # run[p].source
    <3>1. Goto(p, "put-back") /\ edited
      BY <1>3, <2>1, <2>4 DEF Goto
    <3> QED
      BY <1>1, <1>2, <1>4, <3>1, OwnFiles
  <2> QED
    BY <2>3, <2>4
<1> QED
  BY <1>5, <1>6

LEMMA RecoverableLinkNew ==
    ASSUME RecoverableInv, LineageInv', NEW p \in Runs, LinkNew(p)
    PROVE  RecoverableInv'
<1>1. run[p].pc = "link-new" /\ UNCHANGED <<journals, tmp, quarantine, edited>>
  BY DEF LinkNew, history
<1>2. /\ Shaped /\ Steps(p) /\ Place(p) = "link-new" /\ (~edited => Finds(p))
      /\ DOMAIN run[p].pending = JournalFields /\ run[p].pc \in Ahead
      /\ ~edited /\ journal # NoJournal => Fits(journal)
  BY <1>1, OwnTransaction DEF Ahead
<1>3. /\ run[p].pending.tx = p /\ run[p].pending.original = run[p].source
      /\ run[p].pending.op = "publish" /\ run[p].pending.phase # "preparing"
      /\ run[p].pending.replacement = NewId(p) /\ tmp[p].id = NewId(p)
      /\ journal = run[p].pending
      /\ ~edited => def = NoFile
  BY <1>1, <1>2 DEF Steps, Finds, Writes
<1>4. CASE def # NoFile
  <2>1. Goto(p, "undo") /\ edited /\ UNCHANGED files
    BY <1>1, <1>3, <1>4 DEF LinkNew, files
  <2>2. At(p, run'[p]) /\ run'[p].pc = "undo" /\ Place(p)' = "undo"
    BY <1>2, <2>1, GotoAt DEF Place
  <2>3. BareOK(p)' /\ Steps(p)'
    BY <2>2 DEF BareOK, Temporaries, Steps, Writes
  <2> QED
    BY <1>1, <2>1, <2>2, <2>3, RecoverableStays
<1>5. CASE def = NoFile
  <2> DEFINE j == Phase(p, "new-linked")
  <2>1. def' = tmp[p] /\ run' = Writing(p, j, "unlink-temp")
    BY <1>5 DEF LinkNew
  <2>2. /\ j.tx = p /\ j.op = "publish" /\ j.original = run[p].source
        /\ j.phase # "preparing" /\ j.replacement = NewId(p)
    BY <1>2, <1>3 DEF JournalFields, Phase
  <2> HIDE DEF j
  <2>3. Staged(p, j, "unlink-temp", run[p].source)
    BY <1>2, <2>1, WritingStaged
  <2>4. /\ Place(p)' = "unlink-temp" /\ run'[p].pc = "stage" /\ run'[p].source = run[p].source
        /\ run'[p].pending = j /\ At(p, run'[p]) /\ NewId(p)' = NewId(p)
    BY <2>3, SameId DEF Staged, Place
  <2>5. tmp[p] # NoFile
    BY <1>3, NewFile
  <2>6. BareOK(p)' /\ Steps(p)' /\ Finds(p)'
    <3>1. BareOK(p)'
      BY <2>4 DEF BareOK, Temporaries
    <3>2. Steps(p)'
      BY <1>1, <1>3, <2>2, <2>4 DEF Steps, Writes
    <3>3. Finds(p)'
      BY <1>1, <2>1, <2>4 DEF Finds
    <3> QED
      BY <3>1, <3>2, <3>3
  <2>7. ASSUME ~edited
        PROVE  (journal # NoJournal => Fits(journal)') /\ Fits(run[p].pending)'
    <3>1. journal' = journal /\ journal # NoJournal
      BY <1>1, <1>2, <1>3, RunsAssumption, NoJournalShape DEF journals
    <3>2. quarantine[p] = NoFile \/ quarantine[p].id = run[p].source
      BY <1>2, <1>3, <2>7, <3>1 DEF Fits
    <3> QED
      BY <1>1, <1>3, <2>1, <2>2, <2>4, <2>5, <3>1, <3>2 DEF Fits
  <2> QED
    BY <1>1, <1>2, <2>4, <2>6, <2>7, OwnFiles
<1> QED
  BY <1>4, <1>5

LEMMA RecoverableUnlinkTemporary ==
    ASSUME RecoverableInv, LineageInv', NEW p \in Runs, UnlinkTemporary(p)
    PROVE  RecoverableInv'
<1>1. run[p].pc = "unlink-temp" /\ UNCHANGED <<journals, def, quarantine, edited>>
  BY DEF UnlinkTemporary, history
<1>2. /\ Shaped /\ Steps(p) /\ Place(p) = "unlink-temp" /\ (~edited => Finds(p))
      /\ DOMAIN run[p].pending = JournalFields /\ run[p].pc \in Ahead
      /\ ~edited /\ journal # NoJournal => Fits(journal)
      /\ tmp = [q \in Runs |-> tmp[q]]
  BY <1>1, OwnTransaction DEF Ahead
<1>3. /\ run[p].pending.tx = p /\ run[p].pending.original = run[p].source
      /\ run[p].pending.op = "publish" /\ run[p].pending.phase # "preparing"
      /\ tmp[p].id = NewId(p) /\ journal = run[p].pending
      /\ ~edited => def = tmp[p]
  BY <1>1, <1>2 DEF Steps, Finds, Writes
<1>4. CASE def.id # tmp[p].id
  <2>1. Goto(p, "undo") /\ edited /\ UNCHANGED files
    BY <1>1, <1>3, <1>4 DEF UnlinkTemporary, files
  <2>2. At(p, run'[p]) /\ run'[p].pc = "undo" /\ Place(p)' = "undo"
    BY <1>2, <2>1, GotoAt DEF Place
  <2>3. BareOK(p)' /\ Steps(p)'
    BY <2>2 DEF BareOK, Temporaries, Steps, Writes
  <2> QED
    BY <1>1, <2>1, <2>2, <2>3, RecoverableStays
<1>5. CASE def.id = tmp[p].id
  <2> DEFINE j == Phase(p, "temporary-unlinked")
  <2>1. tmp' = [tmp EXCEPT ![p] = NoFile] /\ run' = Writing(p, j, "drop-old")
    BY <1>5 DEF UnlinkTemporary
  <2>2. /\ j.tx = p /\ j.op = "publish" /\ j.original = run[p].source /\ j.phase # "preparing"
    BY <1>2, <1>3 DEF JournalFields, Phase
  <2> HIDE DEF j
  <2>3. Staged(p, j, "drop-old", run[p].source)
    BY <1>2, <2>1, WritingStaged
  <2>4. /\ Place(p)' = "drop-old" /\ run'[p].pc = "stage" /\ run'[p].source = run[p].source
        /\ run'[p].pending = j /\ At(p, run'[p])
    BY <2>3 DEF Staged, Place
  <2>5. tmp'[p] = NoFile /\ \A q \in Runs \ {p} : tmp'[q] = tmp[q]
    BY <1>2, <2>1
  <2>6. ~edited => def # NoFile
    BY <1>3, NewFile
  <2>7. BareOK(p)' /\ Steps(p)' /\ (~edited => Finds(p)')
    <3>1. BareOK(p)'
      BY <2>5 DEF BareOK
    <3>2. Steps(p)'
      BY <2>2, <2>4 DEF Steps, Writes
    <3>3. ~edited => Finds(p)'
      BY <1>1, <2>4, <2>6 DEF Finds
    <3> QED
      BY <3>1, <3>2, <3>3
  <2>8. ASSUME ~edited
        PROVE  (journal # NoJournal => Fits(journal)') /\ Fits(run[p].pending)'
    <3>1. journal' = journal /\ journal # NoJournal
      BY <1>1, <1>2, <1>3, RunsAssumption, NoJournalShape DEF journals
    <3>2. quarantine[p] = NoFile \/ quarantine[p].id = run[p].source
      BY <1>2, <1>3, <2>8, <3>1 DEF Fits
    <3> QED
      BY <1>1, <1>3, <2>2, <2>4, <2>5, <2>6, <2>8, <3>1, <3>2 DEF Fits
  <2> QED
    BY <1>1, <1>2, <2>4, <2>5, <2>7, <2>8, OwnFiles
<1> QED
  BY <1>4, <1>5

LEMMA RecoverableDropOld ==
    ASSUME RecoverableInv, LineageInv', NEW p \in Runs, DropOld(p)
    PROVE  RecoverableInv'
<1>1. /\ run[p].pc = "drop-old" /\ UNCHANGED <<journals, def, tmp, edited>>
      /\ quarantine' = [quarantine EXCEPT ![p] = NoFile]
  BY DEF DropOld, history
<1>2. /\ Shaped /\ Steps(p) /\ Place(p) = "drop-old" /\ (~edited => Finds(p))
      /\ run[p].pc \in Ahead /\ tmp[p] = NoFile
      /\ quarantine = [q \in Runs |-> quarantine[q]]
  BY <1>1, OwnTransaction DEF Ahead, Temporaries
<1>3. /\ run[p].pending.tx = p /\ run[p].pending.op = "publish"
      /\ run[p].pending.phase # "preparing" /\ journal = run[p].pending
      /\ ~edited => def # NoFile
  BY <1>1, <1>2 DEF Steps, Finds, Writes
<1>4. At(p, run'[p]) /\ run'[p].pc \in {"rebootstrap", "bootstrap"}
  BY <1>2 DEF DropOld, At, Shaped, Fields
<1>5. run'[p].pc \in Resting
  BY <1>4 DEF Resting, Between
<1>6. BareOK(p)' /\ Steps(p)' /\ Finds(p)' /\ run'[p].pc \notin {"stage", "commit"}
  BY <1>1, <1>2, <1>5, RestingOK
<1>7. ~edited => Fits(journal)'
  <2>1. journal' = journal /\ quarantine'[p] = NoFile
    BY <1>1, <1>2 DEF journals
  <2> QED
    BY <1>1, <1>2, <1>3, <2>1 DEF Fits
<1> QED
  BY <1>1, <1>2, <1>4, <1>6, <1>7, OwnFiles

\* What a publication undoes has been edited.
LEMMA RecoverableUndo ==
    ASSUME RecoverableInv, LineageInv', NEW p \in Runs,
           PutBack(p) \/ UndoLink(p) \/ UndoDrop(p) \/ DropOwnTemporary(p)
    PROVE  RecoverableInv'
<1>1. /\ run[p].pc \in {"put-back", "undo", "undo-drop", "drop-temp"}
      /\ UNCHANGED <<journals, edited>>
  BY DEF PutBack, UndoLink, UndoDrop, DropOwnTemporary, history
<1>2. /\ Shaped /\ Place(p) = run[p].pc /\ (~edited => Finds(p)) /\ run[p].pc \in Ahead
      /\ tmp = [q \in Runs |-> tmp[q]]
  BY <1>1, OwnTransaction DEF Ahead
<1>3. edited
  BY <1>1, <1>2 DEF Finds
<1>4. CASE PutBack(p) \/ UndoLink(p) \/ UndoDrop(p)
  <2>1. PICK pc \in {"undo-drop", "drop-temp"} : Goto(p, pc) /\ UNCHANGED tmp
    BY <1>4 DEF PutBack, UndoLink, UndoDrop
  <2>2. At(p, run'[p]) /\ run'[p].pc = pc /\ Place(p)' = pc
    BY <1>2, <2>1, GotoAt DEF Place
  <2>3. BareOK(p)' /\ Steps(p)'
    BY <2>2 DEF BareOK, Temporaries, Steps, Writes
  <2> QED
    BY <1>1, <1>2, <1>3, <2>1, <2>2, <2>3, OwnFiles
<1>5. CASE DropOwnTemporary(p)
  <2>1. Resumes(p) /\ tmp' = [tmp EXCEPT ![p] = NoFile]
    BY <1>2, <1>5, UndoneProceeds DEF DropOwnTemporary
  <2>2. At(p, run'[p]) /\ run'[p].pc \in Resting
    BY <2>1 DEF Resumes, Proceeds, Resting
  <2>3. tmp'[p] = NoFile /\ \A q \in Runs \ {p} : tmp'[q] = tmp[q]
    BY <1>2, <2>1
  <2>4. BareOK(p)' /\ Steps(p)'
    BY <2>2, <2>3, RestingOK
  <2> QED
    BY <1>1, <1>2, <1>3, <2>2, <2>3, <2>4, OwnFiles
<1> QED
  BY <1>4, <1>5

LEMMA RecoverableWithdraw ==
    ASSUME RecoverableInv, LineageInv', NEW p \in Runs, BeginRemoval(p) \/ Removed(p)
    PROVE  RecoverableInv'
<1>1. /\ run[p].pc \in {"remove", "removed"} /\ UNCHANGED <<journals, files, edited>>
  BY DEF BeginRemoval, Removed, history
<1>2. /\ Shaped /\ tmp[p] = NoFile /\ run[p].pc \in Ahead
      /\ run[p].pc = "remove" => quarantine[p] = NoFile
  BY <1>1, OwnTransaction DEF Ahead, Temporaries, Clean
<1>3. tmp' = tmp /\ def' = def
  BY <1>1 DEF files
<1>4. ASSUME Resumes(p)
      PROVE  RecoverableInv'
  <2>1. At(p, run'[p]) /\ run'[p].pc \in Resting
    BY <1>4 DEF Resumes, Proceeds, Resting
  <2>2. BareOK(p)' /\ Steps(p)' /\ Finds(p)' /\ run'[p].pc \notin {"stage", "commit"}
    BY <1>2, <1>3, <2>1, RestingOK
  <2> QED
    BY <1>1, <2>1, <2>2, RecoverableStays
<1> DEFINE j == [tx |-> p, op |-> "remove", phase |-> "prepared", original |-> def.id,
                 replacement |-> NoFile.id, expected |-> "none"]
<1>5. CASE /\ run[p].pc = "remove"
           /\ run' = [Writing(p, j, "rename-away") EXCEPT ![p].source = def.id]
  <2>1. j.tx = p /\ j.op = "remove" /\ j.original = def.id /\ j.phase = "prepared"
    OBVIOUS
  <2> HIDE DEF j
  <2>2. Staged(p, j, "rename-away", def.id)
    BY <1>2, <1>5, SourceStaged
  <2>3. /\ Place(p)' = "rename-away" /\ run'[p].pc = "stage" /\ run'[p].source = def.id
        /\ run'[p].pending = j /\ At(p, run'[p])
    BY <2>2 DEF Staged, Place
  <2>4. BareOK(p)' /\ Steps(p)' /\ Finds(p)'
    <3>1. BareOK(p)'
      BY <1>2, <1>3 DEF BareOK
    <3>2. Steps(p)'
      BY <2>1, <2>3 DEF Steps, Writes
    <3>3. Finds(p)'
      BY <1>3, <2>3 DEF Finds
    <3> QED
      BY <3>1, <3>2, <3>3
  <2>5. Fits(run'[p].pending)
    BY <1>2, <1>5, <2>1, <2>3 DEF Fits
  <2> QED
    BY <1>1, <2>3, <2>4, <2>5, RecoverableStays
<1>6. CASE \/ Goto(p, "removed") \/ run' = Undone(p) \/ Goto(p, "retire") \/ Goto(p, "rebootstrap")
  <2>1. {"removed", "retire", "rebootstrap"} \subseteq Between
    BY DEF Between
  <2> QED
    BY <1>2, <1>4, <1>6, <2>1, GotoResumes, UndoneProceeds
<1> QED
  BY <1>5, <1>6 DEF BeginRemoval, Removed

LEMMA RecoverableRenameAway ==
    ASSUME RecoverableInv, LineageInv', NEW p \in Runs, RenameAway(p)
    PROVE  RecoverableInv'
<1>1. run[p].pc = "rename-away" /\ UNCHANGED <<journals, tmp, edited>>
  BY DEF RenameAway, history
<1>2. /\ Shaped /\ Steps(p) /\ Place(p) = "rename-away" /\ (~edited => Finds(p))
      /\ DOMAIN run[p].pending = JournalFields /\ run[p].pc \in Ahead /\ tmp[p] = NoFile
      /\ quarantine = [q \in Runs |-> quarantine[q]]
  BY <1>1, OwnTransaction DEF Ahead, Temporaries
<1>3. /\ run[p].pending.tx = p /\ run[p].pending.original = run[p].source
      /\ run[p].pending.op = "remove" /\ run[p].pending.phase # "preparing"
      /\ journal = run[p].pending
      /\ ~edited => run[p].source = def.id
  BY <1>1, <1>2 DEF Steps, Finds
<1>4. CASE def = NoFile
  <2>1. Resumes(p) /\ UNCHANGED files
    BY <1>1, <1>2, <1>4, UndoneProceeds DEF RenameAway, files
  <2>2. At(p, run'[p]) /\ run'[p].pc \in Resting
    BY <2>1 DEF Resumes, Proceeds, Resting
  <2>3. BareOK(p)' /\ Steps(p)' /\ Finds(p)' /\ run'[p].pc \notin {"stage", "commit"}
    BY <1>1, <1>2, <2>2, RestingOK
  <2> QED
    BY <1>1, <2>1, <2>2, <2>3, RecoverableStays
<1>5. CASE def # NoFile /\ def.id = run[p].source
  <2> DEFINE j == Phase(p, "removal-quarantined")
  <2>1. /\ quarantine' = [quarantine EXCEPT ![p] = def] /\ def' = NoFile
        /\ run' = Writing(p, j, "destroy")
    BY <1>5 DEF RenameAway
  <2>2. quarantine'[p] = def
    BY <1>2, <2>1
  <2>3. /\ j.tx = p /\ j.op = "remove" /\ j.original = run[p].source /\ j.phase # "preparing"
    BY <1>2, <1>3 DEF JournalFields, Phase
  <2> HIDE DEF j
  <2>4. Staged(p, j, "destroy", run[p].source)
    BY <1>2, <2>1, WritingStaged
  <2>5. /\ Place(p)' = "destroy" /\ run'[p].pc = "stage" /\ run'[p].source = run[p].source
        /\ run'[p].pending = j /\ At(p, run'[p])
    BY <2>4 DEF Staged, Place
  <2>6. BareOK(p)' /\ Steps(p)' /\ Finds(p)'
    <3>1. BareOK(p)'
      BY <1>1, <1>2 DEF BareOK
    <3>2. Steps(p)'
      BY <2>3, <2>5 DEF Steps, Writes
    <3>3. Finds(p)'
      BY <2>5 DEF Finds
    <3> QED
      BY <3>1, <3>2, <3>3
  <2>7. Fits(journal)' /\ Fits(run[p].pending)'
    <3>1. journal' = journal
      BY <1>1 DEF journals
    <3> QED
      BY <1>3, <1>5, <2>2, <2>3, <2>5, <3>1 DEF Fits
  <2> QED
    BY <1>1, <1>2, <2>5, <2>6, <2>7, OwnFiles
<1>6. CASE def # NoFile /\ def.id # run[p].source
  <2>1. Goto(p, "put-back") /\ edited
    BY <1>3, <1>6 DEF RenameAway, Goto
  <2>2. At(p, run'[p]) /\ run'[p].pc = "put-back" /\ Place(p)' = "put-back"
    BY <1>2, <2>1, GotoAt DEF Place
  <2>3. BareOK(p)' /\ Steps(p)'
    BY <2>2 DEF BareOK, Temporaries, Steps, Writes
  <2> QED
    BY <1>1, <1>2, <2>1, <2>2, <2>3, OwnFiles
<1> QED
  BY <1>4, <1>5, <1>6

LEMMA RecoverableDestroy ==
    ASSUME RecoverableInv, LineageInv', NEW p \in Runs, Destroy(p)
    PROVE  RecoverableInv'
<1> DEFINE j == Phase(p, "removal-cleaned")
<1>1. /\ run[p].pc = "destroy" /\ UNCHANGED <<journals, def, tmp, edited>>
      /\ quarantine' = [quarantine EXCEPT ![p] = NoFile] /\ run' = Writing(p, j, "removed")
  BY DEF Destroy, history
<1>2. /\ Shaped /\ Steps(p) /\ Place(p) = "destroy" /\ tmp[p] = NoFile
      /\ DOMAIN run[p].pending = JournalFields /\ run[p].pc \in Ahead
      /\ quarantine = [q \in Runs |-> quarantine[q]]
  BY <1>1, OwnTransaction DEF Ahead, Temporaries
<1>3. /\ run[p].pending.tx = p /\ run[p].pending.op = "remove"
      /\ run[p].pending.phase # "preparing" /\ journal = run[p].pending
  BY <1>1, <1>2 DEF Steps
<1>4. j.tx = p /\ j.op = "remove" /\ j.phase # "preparing"
  BY <1>2, <1>3 DEF JournalFields, Phase
<1> HIDE DEF j
<1>5. Staged(p, j, "removed", run[p].source)
  BY <1>1, <1>2, WritingStaged
<1>6. Place(p)' = "removed" /\ run'[p].pc = "stage" /\ run'[p].pending = j /\ At(p, run'[p])
  BY <1>5 DEF Staged, Place
<1>7. BareOK(p)' /\ Steps(p)' /\ Finds(p)'
  BY <1>1, <1>2, <1>6 DEF BareOK, Steps, Writes, Finds
<1>8. Fits(journal)' /\ Fits(run[p].pending)'
  <2>1. journal' = journal /\ quarantine'[p] = NoFile
    BY <1>1, <1>2 DEF journals
  <2> QED
    BY <1>3, <1>4, <1>6, <2>1 DEF Fits
<1> QED
  BY <1>1, <1>2, <1>6, <1>7, <1>8, OwnFiles

-----------------------------------------------------------------------------
\* A journal write puts down what fits.
LEMMA RecoverableWrite ==
    ASSUME RecoverableInv, LineageInv', NEW p \in Runs, StageJournal(p) \/ CommitJournal(p)
    PROVE  RecoverableInv'
<1> DEFINE j == run[p].pending
<1>1. /\ run[p].pc \in {"stage", "commit"} /\ UNCHANGED <<files, edited>>
      /\ Holds(p) /\ Shaped /\ Place(p) = run[p].next /\ ~Dead(p)
  BY DEF StageJournal, CommitJournal, Place, Holds, Unlocked, RecoverableInv, LineageInv,
         CompanionInv, LockInv, history, Dead
<1>2. run[p].next \in AfterWrite
  BY <1>1 DEF RecoverableInv, LineageInv, FileInv, FilesOK, WriteOK
<1>3. PICK pc \in {"commit", run[p].next} :
         /\ Goto(p, pc)
         /\ pc = "commit" \/ (pc = run[p].next /\ journal' = j)
  BY DEF StageJournal, CommitJournal
<1>4. Went(p, pc)
  BY <1>1, <1>3, GotoWent
<1>5. /\ Place(p)' = run[p].next /\ run'[p].pc = pc /\ run'[p].next = run[p].next
      /\ run'[p].pending = j /\ run'[p].source = run[p].source /\ run'[p].body = run[p].body
      /\ At(p, run'[p]) /\ NewId(p)' = NewId(p) /\ ~Dead(p)'
  <2>1. run'[p].pc = pc /\ run'[p].next = run[p].next /\ At(p, run'[p]) /\ Same(p)
    BY <1>4 DEF Went
  <2> QED
    BY <1>2, <1>4, <2>1, SameId DEF Went, Place, AfterWrite, Dead
<1>6. tmp' = tmp /\ def' = def
  BY <1>1 DEF files
<1>7. BareOK(p) /\ Steps(p) /\ (~edited => FitOK /\ Finds(p))
  BY DEF RecoverableInv
<1>8. BareOK(p)' /\ Steps(p)' /\ (~edited => Finds(p)')
  <2>1. BareOK(p)'
    BY <1>1, <1>5, <1>6, <1>7 DEF BareOK
  <2>2. Steps(p)'
    <3>1. run'[p].pc \in Writes \cup {"rename-away", "destroy"} => journal' = run'[p].pending
      BY <1>3, <1>5 DEF Writes
    <3> QED
      BY <1>1, <1>5, <1>6, <1>7, <3>1 DEF Steps
  <2>3. ~edited => Finds(p)'
    BY <1>1, <1>5, <1>6, <1>7 DEF Finds
  <2> QED
    BY <2>1, <2>2, <2>3
<1>9. ASSUME ~edited
      PROVE  FitOK'
  <2>1. FitOK /\ Fits(j)
    BY <1>1, <1>7, <1>9 DEF FitOK
  <2>2. \A k : Fits(k)' = Fits(k)
    BY <1>1, FitsSame
  <2>3. journal' \in {journal, j} /\ DOMAIN journalTmp = Runs
    BY DEF StageJournal, CommitJournal, RecoverableInv, LineageInv, FileInv, FilesShaped
  <2>4. \A t \in Runs : journalTmp'[t] \in {journalTmp[t], j, NoJournal}
    BY <2>3 DEF StageJournal, CommitJournal
  <2>5. \A q \in Runs \ {p} : run'[q].pc \notin {"stage", "commit"}
    BY <1>1, <1>5, NobodyWrites DEF RecoverableInv
  <2> HIDE DEF j
  <2> QED
    BY <1>5, <2>1, <2>2, <2>3, <2>4, <2>5 DEF FitOK
<1> QED
  BY <1>1, <1>5, <1>6, <1>8, <1>9, RecoverableMoves

-----------------------------------------------------------------------------
\* Recovery.

LEMMA RecoverableRecover ==
    ASSUME RecoverableInv, LineageInv', NEW p \in Runs, Recover(p)
    PROVE  RecoverableInv'
<1>1. /\ run[p].pc = "recover" /\ edited' = edited /\ Holds(p) /\ Shaped /\ Place(p) = "recover"
      /\ tmp[p] = NoFile /\ ~Dead(p)
  <2>1. run[p].pc = "recover" /\ edited' = edited
    BY DEF Recover, RecoveryRefused, ReconcileJournal, AdoptTemporary, RestoreLink,
           DropTemporary, DropQuarantine, CloseTransaction, EnterBody, history
  <2> QED
    BY <2>1 DEF RecoverableInv, LineageInv, CompanionInv, LockInv, Holds, Unlocked, Place, Dead,
                BareOK, Temporaries
<1>2. /\ tmp = [q \in Runs |-> tmp[q]] /\ quarantine = [q \in Runs |-> quarantine[q]]
      /\ DOMAIN journalTmp = Runs /\ DOMAIN journal = JournalFields
      /\ journal # NoJournal => journal.tx \in Runs
  BY DEF RecoverableInv, LineageInv, FileInv, FilesShaped, JournalsOK
<1>3. \A q \in Runs \ {p} : run[q].pc \notin {"stage", "commit"}
  BY <1>1 DEF RecoverableInv, LineageInv, CompanionInv, LockInv, RunOK, LockOK, Holds, Unlocked
\* A run that does not go on to its body.
<1>4. CASE RecoveryRefused(p) \/ EnterBody(p)
  <2>1. At(p, run'[p]) /\ run'[p].pc \in {"ended", "legacy-bootout"}
    BY <1>1, <1>4, EndedAt, GotoAt DEF RecoveryRefused, EnterBody
  <2>2. UNCHANGED <<journals, files>> /\ tmp' = tmp
    BY <1>4 DEF RecoveryRefused, EnterBody, files
  <2>3. run'[p].pc \in Resting
    BY <2>1 DEF Resting, Unlocked, Between
  <2>4. BareOK(p)' /\ Steps(p)' /\ Finds(p)' /\ run'[p].pc \notin {"stage", "commit"}
    BY <1>1, <2>2, <2>3, RestingOK
  <2> QED
    BY <1>1, <2>1, <2>2, <2>4, RecoverableStays
<1>5. CASE AdoptTemporary(p)
  <2> DEFINE j == [journal EXCEPT !.phase = "prepared", !.replacement = Temporary.id]
  <2>1. /\ UNCHANGED <<journals, files>> /\ tmp' = tmp /\ Reconciled
        /\ journal.phase = "preparing" /\ run' = Writing(p, j, "recover")
    BY <1>5 DEF AdoptTemporary, files
  <2>2. /\ j.tx = journal.tx /\ j.op = journal.op /\ j.original = journal.original
        /\ j.phase = "prepared" /\ j.replacement = tmp[journal.tx].id
    BY <1>2 DEF JournalFields, Temporary
  <2> HIDE DEF j
  <2>3. Staged(p, j, "recover", run[p].source)
    BY <1>1, <2>1, WritingStaged
  <2>4. Place(p)' = "recover" /\ run'[p].pc = "stage" /\ run'[p].pending = j /\ At(p, run'[p])
    BY <2>3 DEF Staged, Place
  <2>5. BareOK(p)' /\ Steps(p)' /\ Finds(p)'
    BY <1>1, <2>1, <2>4 DEF BareOK, Steps, Writes, Finds
  <2>6. ASSUME ~edited
        PROVE  Fits(run'[p].pending)
    <3>1. Fits(journal)
      BY <2>1, <2>6 DEF RecoverableInv, FitOK, Reconciled
    <3> QED
      BY <2>1, <2>2, <2>4, <3>1 DEF Fits
  <2> QED
    BY <1>1, <2>1, <2>4, <2>5, <2>6, RecoverableStays
\* One that goes on with recovery.
<1>6. ASSUME run' = run, tmp' = [q \in Runs |-> tmp'[q]],
             \A q \in Runs : tmp'[q] \in {tmp[q], NoFile},
             ~edited => /\ journal' # NoJournal => Fits(journal)'
                        /\ \A t \in Runs : journalTmp'[t] # NoJournal => Fits(journalTmp[t])'
      PROVE  RecoverableInv'
  <2>1. At(p, run'[p]) /\ run'[p].pc = "recover"
    BY <1>1, <1>6 DEF At, Shaped
  <2>2. run'[p].pc \in Resting /\ tmp'[p] = NoFile
    BY <1>1, <1>6, <2>1 DEF Resting
  <2>3. BareOK(p)' /\ Steps(p)' /\ Finds(p)' /\ run'[p].pc \notin {"stage", "commit"}
    BY <2>2, RestingOK
  <2>4. ~edited => FitOK'
    BY <1>3, <1>6, <2>3 DEF FitOK
  <2> QED
    BY <1>1, <1>6, <2>1, <2>3, <2>4, RecoverableMoves
<1>7. CASE ReconcileJournal(p)
  <2>1. run' = run /\ UNCHANGED files /\ tmp' = tmp
    BY <1>7 DEF ReconcileJournal, files
  <2>2. PICK t \in Runs : /\ journalTmp[t] # NoJournal /\ journal' = journalTmp[t]
                          /\ journalTmp' \in {journalTmp, [journalTmp EXCEPT ![t] = NoJournal]}
    BY <1>7 DEF ReconcileJournal
  <2>3. \A u \in Runs : journalTmp'[u] \in {journalTmp[u], NoJournal}
    BY <1>2, <2>2
  <2>4. \A k : Fits(k)' = Fits(k)
    BY <2>1, FitsSame
  <2>5. ~edited => /\ Fits(journal)'
                   /\ \A u \in Runs : journalTmp'[u] # NoJournal => Fits(journalTmp[u])'
    BY <2>2, <2>3, <2>4 DEF RecoverableInv, FitOK
  <2> QED
    BY <1>2, <1>6, <2>1, <2>5
<1>8. CASE RestoreLink(p) \/ DropTemporary(p) \/ DropQuarantine(p) \/ CloseTransaction(p)
  <2>1. PICK t \in Runs : t = journal.tx /\ Reconciled /\ run' = run /\ journalTmp' = journalTmp
    BY <1>2, <1>8 DEF RestoreLink, DropTemporary, DropQuarantine, CloseTransaction, Reconciled,
                      journals
  <2>2. \A u \in Runs : journalTmp'[u] = NoJournal
    <3>1. \A u \in Runs : Left(u) => u = t
      BY <2>1 DEF RecoverableInv, LineageInv, OneLeft, Left
    <3> QED
      BY <2>1, <3>1 DEF Left, Reconciled
  <2>3. /\ tmp' \in {tmp, [tmp EXCEPT ![t] = NoFile]}
        /\ quarantine' \in {quarantine, [quarantine EXCEPT ![t] = NoFile]}
        /\ journal' \in {journal, NoJournal}
    BY <1>8, <2>1 DEF RestoreLink, DropTemporary, DropQuarantine, CloseTransaction, files, journals
  <2>4. /\ tmp' = [q \in Runs |-> tmp'[q]] /\ \A q \in Runs : tmp'[q] \in {tmp[q], NoFile}
        /\ tmp'[t] \in {tmp[t], NoFile} /\ quarantine'[t] \in {quarantine[t], NoFile}
    BY <1>2, <2>3
  <2>5. ASSUME ~edited, journal' # NoJournal
        PROVE  Fits(journal)'
    <3>1. Fits(journal) /\ journal' = journal /\ journal # NoJournal
      BY <2>1, <2>3, <2>5 DEF RecoverableInv, FitOK, Reconciled
    <3>2. CASE RestoreLink(p)
      <4>1. /\ def' = quarantine[t] /\ quarantine[t] # NoFile /\ Late
            /\ tmp' = tmp /\ quarantine' = quarantine
        BY <2>1, <3>2 DEF RestoreLink, Quarantined
      <4> QED
        BY <2>1, <3>1, <4>1 DEF Fits, Late
    <3>3. CASE DropTemporary(p)
      <4>1. Late /\ def' = def /\ quarantine' = quarantine
        BY <3>3 DEF DropTemporary
      <4> QED
        BY <2>1, <2>4, <3>1, <4>1 DEF Fits, Late
    <3>4. CASE DropQuarantine(p)
      <4>1. /\ def' = def /\ tmp' = tmp
            /\ journal.op = "remove" \/ (Late /\ def # NoFile)
        BY <3>4 DEF DropQuarantine
      <4> QED
        BY <2>1, <2>4, <3>1, <4>1 DEF Fits, Late
    <3>5. CASE CloseTransaction(p)
      BY <2>5, <3>5 DEF CloseTransaction
    <3> QED
      BY <1>8, <3>2, <3>3, <3>4, <3>5
  <2> QED
    BY <1>6, <2>1, <2>2, <2>4, <2>5
<1> QED
  BY <1>4, <1>5, <1>7, <1>8 DEF Recover

-----------------------------------------------------------------------------
\* The rest changes none of these files.

\* A step to where nothing of a transaction is in hand.
LEMMA RecoverableRests ==
    ASSUME RecoverableInv, LineageInv', NEW p \in Runs, ~Dead(p), Place(p) \notin Temporaries \/ Dead(p)',
           At(p, run'[p]), run'[p].pc \in Resting, UNCHANGED <<journals, files, edited>>
    PROVE  RecoverableInv'
<1>1. BareOK(p) /\ tmp' = tmp
  BY DEF RecoverableInv, files
<1>2. Dead(p)' \/ tmp'[p] = NoFile
  BY <1>1 DEF BareOK
<1>3. BareOK(p)' /\ Steps(p)' /\ Finds(p)' /\ run'[p].pc \notin {"stage", "commit"}
  BY <1>2, RestingOK
<1> QED
  BY <1>3, RecoverableStays

LEMMA RecoverableOperate ==
    ASSUME RecoverableInv, LineageInv', NEW p \in Runs, Operate(p) \/ CommandFails(p),
           ~StageJournal(p), ~CommitJournal(p)
    PROVE  RecoverableInv'
<1>1. Shaped
  BY DEF RecoverableInv, LineageInv, CompanionInv, LockInv
<1>2. Resumes(p)
  <2>1. {"sweep", "retire", "probe", "retired", "release"} \subseteq Between
    BY DEF Between
  <2>2. CASE BootOutLegacy(p) \/ Sweep(p) \/ RetireLegacy(p) \/ DropRetired(p)
    BY <1>1, <2>1, <2>2, GotoResumes DEF BootOutLegacy, Sweep, RetireLegacy, DropRetired
  <2>3. CASE Command(p) \/ CommandFails(p)
    BY <1>1, <2>3, CommandProceeds, FailureProceeds
  <2> QED
    BY <2>2, <2>3 DEF Operate, Command
<1>3. /\ run[p].pc \in Between /\ UNCHANGED <<journals, files, edited>>
  BY DEF Operate, CommandFails, BootOutLegacy, Sweep, Probe, Restart, BootOut, Bootstrap,
         BootstrapImpossible, Rollback, Rebootstrap, RetireLegacy, DropRetired, Between, history
<1>4. Place(p) \notin Temporaries /\ ~Dead(p)
  BY <1>3 DEF Between, Place, Temporaries, Dead
<1> QED
  BY <1>2, <1>3, <1>4, RecoverableRests DEF Resumes, Proceeds, Resting

LEMMA RecoverableAcquire ==
    ASSUME RecoverableInv, LineageInv', NEW p \in Runs, Acquire(p)
    PROVE  RecoverableInv'
<1>1. Shaped
  BY DEF RecoverableInv, LineageInv, CompanionInv, LockInv
<1>2. CASE ProbeLegacy(p)
  <2>1. At(p, run'[p]) /\ run'[p].pc \in {"ended", "candidate"}
    <3>1. CASE run' = Ended(p, "done")
      BY <1>1, <3>1, EndedAt
    <3>2. ASSUME NEW handOver, run' = [run EXCEPT ![p].pc = "candidate", ![p].handOver = handOver]
          PROVE  At(p, run'[p]) /\ run'[p].pc = "candidate"
      BY <1>1, <3>2 DEF At, Shaped, Fields
    <3> QED
      BY <1>2, <3>1, <3>2 DEF ProbeLegacy
  <2>2. run[p].pc = "probe-legacy" /\ UNCHANGED <<journals, files, edited>>
    BY <1>2 DEF ProbeLegacy, history
  <2>3. Place(p) \notin Temporaries /\ ~Dead(p) /\ run'[p].pc \in Resting
    BY <2>1, <2>2 DEF Place, Temporaries, Dead, Resting, Unlocked
  <2> QED
    BY <2>1, <2>2, <2>3, RecoverableRests
<1>3. CASE ~ProbeLegacy(p)
  <2>1. /\ UNCHANGED <<journals, files, edited>> /\ run[p].pc \in Outside
        /\ At(p, run'[p]) /\ run'[p].pc \in Outside \cup {"recover", "ended", "crashed"}
    BY <1>1, <1>3, AcquireRun DEF Stopped, history
  <2>2. Place(p) \notin Temporaries /\ ~Dead(p) /\ run'[p].pc \in Resting
    BY <2>1 DEF Place, Temporaries, Dead, Resting, Unlocked, Outside
  <2> QED
    BY <2>1, <2>2, RecoverableRests
<1> QED
  BY <1>2, <1>3

LEMMA RecoverableRelease ==
    ASSUME RecoverableInv, LineageInv', NEW p \in Runs, Release(p)
    PROVE  RecoverableInv'
<1>1. Shaped
  BY DEF RecoverableInv, LineageInv, CompanionInv, LockInv
<1>2. CASE ReleaseClaim(p) \/ Unlock(p)
  <2>1. /\ UNCHANGED <<journals, files, edited>> /\ run[p].pc \in {"release-claim", "unlock"}
        /\ At(p, run'[p]) /\ run'[p].pc \in {"unlock", "ended"}
    BY <1>1, <1>2, GotoAt, EndedAt DEF ReleaseClaim, Unlock, history
  <2>2. Place(p) \notin Temporaries /\ ~Dead(p) /\ run'[p].pc \in Resting
    BY <2>1 DEF Place, Temporaries, Dead, Resting, Unlocked
  <2> QED
    BY <2>1, <2>2, RecoverableRests
<1>3. CASE ReleaseJournal(p)
  <2>1. /\ run[p].pc = "release" /\ UNCHANGED <<files, edited>> /\ tmp' = tmp /\ journalTmp' = journalTmp
        /\ journal' \in {journal, NoJournal}
        /\ At(p, run'[p]) /\ run'[p].pc = "release-claim"
    BY <1>1, <1>3, GotoAt DEF ReleaseJournal, files, history
  <2>2. Holds(p) /\ BareOK(p) /\ Place(p) \notin Temporaries /\ ~Dead(p) /\ run'[p].pc \in Resting
    BY <2>1 DEF Holds, Unlocked, Place, Temporaries, Dead, Resting, RecoverableInv
  <2>3. BareOK(p)' /\ Steps(p)' /\ Finds(p)' /\ run'[p].pc \notin {"stage", "commit"}
    BY <2>1, <2>2, RestingOK DEF BareOK
  <2>4. ~edited => FitOK'
    <3>1. \A q \in Runs : run'[q].pc \notin {"stage", "commit"}
      BY <2>1, <2>2, <2>3, NobodyWrites DEF RecoverableInv
    <3>2. \A k : Fits(k)' = Fits(k)
      BY <2>1, FitsSame
    <3> QED
      BY <2>1, <3>1, <3>2 DEF RecoverableInv, FitOK
  <2> QED
    BY <2>1, <2>2, <2>3, <2>4, RecoverableMoves
<1> QED
  BY <1>2, <1>3 DEF Release

LEMMA RecoverableInvInit == Init => RecoverableInv
<1> SUFFICES ASSUME Init
             PROVE  RecoverableInv
  OBVIOUS
<1>1. /\ \A p \in Runs : run[p] = Idle /\ journalTmp[p] = NoJournal /\ tmp[p] = NoFile
      /\ journal = NoJournal
  BY DEF Init
<1>2. \A p \in Runs : Place(p) = "idle" /\ run[p].pc = "idle"
  BY <1>1, IdleShape DEF Place
<1>3. \A p \in Runs : BareOK(p) /\ Steps(p) /\ Finds(p)
  BY <1>1, <1>2 DEF BareOK, Steps, Writes, Finds
<1>4. FitOK
  BY <1>1, <1>2 DEF FitOK
<1> QED
  BY <1>3, <1>4, LineageInvInit DEF RecoverableInv

LEMMA RecoverableInvStep == ~TornWrites /\ RecoverableInv /\ [Next]_vars => RecoverableInv'
<1> SUFFICES ASSUME ~TornWrites, RecoverableInv, [Next]_vars
             PROVE  RecoverableInv'
  OBVIOUS
<1>1. LineageInv' /\ Shaped
  BY LineageInvStep DEF RecoverableInv, LineageInv, CompanionInv, LockInv
<1>2. ASSUME NEW p \in Runs, NEW op \in Ops[p], Start(p, op)
      PROVE  RecoverableInv'
  <2>1. /\ UNCHANGED <<journals, files, edited>> /\ run[p].pc = "idle"
        /\ At(p, run'[p]) /\ run'[p].pc \in {"probe-legacy", "candidate"}
    BY <1>1, <1>2 DEF Start, At, Shaped, Fields
  <2>2. Place(p) \notin Temporaries /\ ~Dead(p) /\ run'[p].pc \in Resting
    BY <2>1 DEF Place, Temporaries, Dead, Resting, Unlocked
  <2> QED
    BY <1>1, <2>1, <2>2, RecoverableRests
<1>3. ASSUME NEW p \in Runs, Acquire(p) \/ Recover(p) \/ Release(p)
      PROVE  RecoverableInv'
  BY <1>1, <1>3, RecoverableAcquire, RecoverableRecover, RecoverableRelease
<1>4. ASSUME NEW p \in Runs, Operate(p) \/ CommandFails(p)
      PROVE  RecoverableInv'
  BY <1>1, <1>4, RecoverableOperate, RecoverableWrite
<1>5. ASSUME NEW p \in Runs, Publish(p)
      PROVE  RecoverableInv'
  BY <1>1, <1>5, RecoverableIntend, RecoverableWriteTemporary, RecoverableMoveOld,
     RecoverableRenameOld, RecoverableLinkNew, RecoverableUnlinkTemporary, RecoverableDropOld,
     RecoverableUndo DEF Publish
<1>6. ASSUME NEW p \in Runs, Withdraw(p)
      PROVE  RecoverableInv'
  BY <1>1, <1>6, RecoverableWithdraw, RecoverableRenameAway, RecoverableDestroy DEF Withdraw
<1>7. ASSUME NEW p \in Runs, Crash(p)
      PROVE  RecoverableInv'
  <2>1. At(p, run'[p]) /\ run'[p].pc = "crashed" /\ ~Dead(p)
    BY <1>1, <1>7 DEF Crash, Killed, At, Shaped, Fields, Idle, Alive, Dead
  <2>2. UNCHANGED <<journals, files, edited>>
    BY <1>7 DEF Crash, journals, files, history
  <2> QED
    BY <1>1, <2>1, <2>2, RecoverableRests DEF Dead, Resting, Unlocked
<1>8. ASSUME NEW file, Edit(file)
      PROVE  RecoverableInv'
  <2>1. UNCHANGED <<journals, tmp, run>> /\ edited'
    BY <1>8 DEF Edit
  <2>2. \A q \in Runs : BareOK(q) /\ Steps(q)
    BY DEF RecoverableInv
  <2>3. \A q \in Runs : Place(q)' = Place(q) /\ NewId(q)' = NewId(q) /\ Dead(q)' = Dead(q)
    BY <2>1 DEF Place, NewId, Published, Dead
  <2>4. \A q \in Runs : BareOK(q)'
    BY <2>1, <2>2, <2>3 DEF BareOK
  <2>5. \A q \in Runs : Steps(q)'
    BY <2>1, <2>2, <2>3 DEF Steps, journals
  <2> QED
    BY <1>1, <2>1, <2>4, <2>5 DEF RecoverableInv
<1>9. CASE UNCHANGED vars
  <2>1. UNCHANGED <<journals, files, run, edited>>
    BY <1>9 DEF vars, history
  <2>2. /\ journal' = journal /\ journalTmp' = journalTmp /\ def' = def /\ tmp' = tmp
        /\ quarantine' = quarantine /\ run' = run /\ edited' = edited
    BY <2>1 DEF journals, files
  <2>3. \A q \in Runs : Place(q)' = Place(q) /\ NewId(q)' = NewId(q) /\ Dead(q)' = Dead(q)
    BY <2>2 DEF Place, NewId, Published, Dead
  <2>4. \A k : Fits(k)' = Fits(k)
    BY <2>1, FitsSame
  <2>5. \A q \in Runs : BareOK(q)' /\ Steps(q)'
    BY <2>2, <2>3 DEF RecoverableInv, BareOK, Steps
  <2>6. ~edited => FitOK' /\ \A q \in Runs : Finds(q)'
    BY <2>2, <2>3, <2>4 DEF RecoverableInv, FitOK, Finds
  <2> QED
    BY <1>1, <2>2, <2>5, <2>6 DEF RecoverableInv
<1> QED
  BY <1>2, <1>3, <1>4, <1>5, <1>6, <1>7, <1>8, <1>9 DEF Next

\* Wherever an operation was killed, its journal and its files are ones its recovery accepts,
\* unless somebody else edited the definition (recoverPublicationTransaction).
THEOREM RecoverableInvHolds == ~TornWrites => (Spec => []RecoverableInv)
<1> SUFFICES ASSUME ~TornWrites
             PROVE  Spec => []RecoverableInv
  OBVIOUS
<1>1. RecoverableInv /\ [Next]_vars => RecoverableInv'
  BY RecoverableInvStep
<1> QED
  BY <1>1, RecoverableInvInit, PTL DEF Spec
-----------------------------------------------------------------------------
\* Nobody alone is refused.

\* A step of p leaves the others what they found.
LEMMA AloneMoves ==
    ASSUME AloneInv, RecoverableInv', NEW p \in Runs, At(p, run'[p]), Alive(p),
           met' = met, edited' = edited, FindsLock(p)',
           run'[p].outcome = "unsafe" => run[p].outcome = "unsafe" \/ met[p] \/ edited
    PROVE  AloneInv'
<1>1. \A q \in Runs : Alive(q)' => Alive(q)
  BY DEF At, Alive
<1>2. Together'
  BY <1>1 DEF AloneInv, Together
<1>3. \A q \in Runs \ {p} : FindsLock(q)'
  BY <1>1 DEF AloneInv, Together, FindsLock
<1>4. AloneNeverRefused'
  BY DEF AloneInv, AloneNeverRefused, At
<1> QED
  BY <1>2, <1>3, <1>4 DEF AloneInv

\* One that looks back on no owner.
LEMMA AloneAhead ==
    ASSUME AloneInv, RecoverableInv', NEW p \in Runs, At(p, run'[p]), Alive(p),
           met' = met, edited' = edited, run'[p].pc \notin LooksBack,
           run'[p].outcome = "unsafe" => run[p].outcome = "unsafe" \/ met[p] \/ edited
    PROVE  AloneInv'
<1>1. FindsLock(p)'
  BY DEF FindsLock, LooksBack
<1> QED
  BY <1>1, AloneMoves

LEMMA EndedOutcome ==
    ASSUME Shaped, NEW p \in Runs, NEW outcome, run' = Ended(p, outcome)
    PROVE  At(p, run'[p]) /\ run'[p].pc = "ended" /\ run'[p].outcome = outcome
<1> DEFINE l == [Idle EXCEPT !.pc = "ended", !.op = run[p].op, !.outcome = outcome]
<1>1. DOMAIN l = Fields /\ l.pc = "ended" /\ l.outcome = outcome
  BY DEF Idle, Fields
<1>2. run' = [run EXCEPT ![p] = l]
  BY DEF Ended
<1> HIDE DEF l
<1> QED
  BY <1>1, <1>2 DEF At, Shaped

LEMMA BusyOutcome ==
    ASSUME Shaped, NEW p \in Runs, Busy(p)
    PROVE  At(p, run'[p]) /\ run'[p].pc \notin LooksBack /\ run'[p].outcome # "unsafe"
<1>1. CASE run' = Ended(p, "busy")
  BY <1>1, EndedOutcome DEF LooksBack
<1>2. CASE run' = [run EXCEPT ![p] = [Idle EXCEPT !.pc = "candidate", !.op = run[p].op,
                                                  !.busy = run[p].busy + 1,
                                                  !.handOver = run[p].handOver]]
  <2> DEFINE l == [Idle EXCEPT !.pc = "candidate", !.op = run[p].op,
                               !.busy = run[p].busy + 1, !.handOver = run[p].handOver]
  <2>1. DOMAIN l = Fields /\ l.pc = "candidate" /\ l.outcome = "none"
    BY DEF Idle, Fields
  <2>2. run' = [run EXCEPT ![p] = l]
    BY <1>2
  <2> HIDE DEF l
  <2> QED
    BY <2>1, <2>2 DEF At, Shaped, LooksBack
<1> QED
  BY <1>1, <1>2 DEF Busy

\* A dead owner's metadata can be read: one transaction at most has to be recovered beside
\* the owner's.
LEMMA OwnerReadable ==
    ASSUME MaxPredecessors >= 2, LineageInv, lock # NoOwner
    PROVE  Readable(lock)
<1> DEFINE ids == {lock.tx} \cup ToSet(lock.preds)
           some == {lock.tx} \cup Unfinished(ids)
<1>1. lock \in Owners /\ lock.tx \in Runs /\ OneLeft /\ Covers(lock)
  BY DEF LineageInv, CompanionInv, OwnersOK, LockInv, NamesOK, Started
<1>2. ids \subseteq Runs
  BY <1>1 DEF Owners, ToSet
<1>3. journal = NoJournal \/ journal.tx \in ids
  BY <1>1 DEF LineageInv, FileInv, JournalsOK, Covers, Left, Named
<1>4. \A t \in ids : journalTmp[t] # Torn
  BY <1>2 DEF LineageInv
<1>5. \A t, u \in Unfinished(ids) : t = u
  BY <1>1, <1>2 DEF Unfinished, OneLeft, Left
<1>6. Cardinality(some) <= MaxPredecessors
  <2>1. MaxPredecessors \in Nat
    BY BoundsAssumption
  <2>2. CASE Unfinished(ids) = {}
    <3>1. some = {lock.tx}
      BY <2>2
    <3>2. Cardinality(some) = 1
      BY <3>1, FS_Singleton
    <3> QED
      BY <2>1, <3>2
  <2>3. CASE Unfinished(ids) # {}
    <3>1. PICK u \in Unfinished(ids) : some = {lock.tx} \cup {u}
      BY <1>5, <2>3
    <3>2. Cardinality({lock.tx}) = 1 /\ IsFiniteSet({lock.tx})
      BY FS_Singleton
    <3>3. Cardinality({lock.tx} \cup {u}) \in {1, 2}
      BY <3>2, FS_AddElement
    <3> QED
      BY <2>1, <3>1, <3>3
  <2> QED
    BY <2>2, <2>3
<1> QED
  BY <1>3, <1>4, <1>6 DEF Readable

-----------------------------------------------------------------------------
\* Taking the lock.

LEMMA AloneInspectOwner ==
    ASSUME MaxPredecessors >= 2, AloneInv, RecoverableInv', NEW p \in Runs, InspectOwner(p)
    PROVE  AloneInv'
<1>1. /\ run[p].pc = "inspect" /\ Alive(p) /\ UNCHANGED <<lock, claim, met, edited>> /\ Shaped
  BY DEF InspectOwner, Alive, history, AloneInv, RecoverableInv, LineageInv, CompanionInv, LockInv
<1>2. CASE Goto(p, "candidate") \/ Busy(p)
  <2>1. /\ At(p, run'[p]) /\ run'[p].pc \notin LooksBack
        /\ run'[p].outcome = "unsafe" => run[p].outcome = "unsafe"
    BY <1>1, <1>2, GotoAt, GotoWent, BusyOutcome DEF LooksBack
  <2> QED
    BY <1>1, <2>1, AloneAhead
<1>3. ASSUME NEW pc \in {"unlink-companion", "claim"},
             run' = [run EXCEPT ![p].pc = pc, ![p].seen = lock],
             pc = "unlink-companion" => HasCandidate(lock)' \/ HasClaim(lock)'
      PROVE  AloneInv'
  <2>1. /\ At(p, run'[p]) /\ run'[p].pc = pc /\ run'[p].seen = lock
        /\ run'[p].outcome = run[p].outcome
    BY <1>1, <1>3 DEF At, Shaped, Fields
  <2>2. FindsLock(p)'
    BY <1>1, <1>3, <2>1 DEF FindsLock
  <2> QED
    BY <1>1, <2>1, <2>2, AloneMoves
<1>4. CASE /\ HasCandidate(lock) \/ HasClaim(lock)
           /\ run' = [run EXCEPT ![p].pc = "unlink-companion", ![p].seen = lock]
           /\ UNCHANGED candidate
  <2>1. HasCandidate(lock)' \/ HasClaim(lock)'
    BY <1>1, <1>4 DEF HasCandidate, HasClaim
  <2> QED
    BY <1>3, <1>4, <2>1
<1>5. CASE lock # NoOwner /\ Readable(lock) /\ run' = [run EXCEPT ![p].pc = "claim", ![p].seen = lock]
  BY <1>3, <1>5
<1>6. lock # NoOwner => Readable(lock)
  BY OwnerReadable DEF AloneInv, RecoverableInv
<1> QED
  BY <1>2, <1>4, <1>5, <1>6 DEF InspectOwner

LEMMA AloneUnlinkCompanion ==
    ASSUME AloneInv, RecoverableInv', NEW p \in Runs, UnlinkCompanion(p)
    PROVE  AloneInv'
<1>1. /\ run[p].pc = "unlink-companion" /\ Alive(p) /\ UNCHANGED <<met, edited>> /\ Shaped
  BY DEF UnlinkCompanion, Alive, history, AloneInv, RecoverableInv, LineageInv, CompanionInv, LockInv
<1>2. CASE Goto(p, "candidate")
  <2>1. At(p, run'[p]) /\ run'[p].pc \notin LooksBack /\ run'[p].outcome = run[p].outcome
    BY <1>1, <1>2, GotoAt, GotoWent DEF LooksBack
  <2> QED
    BY <1>1, <2>1, AloneAhead
<1>3. CASE ~HasCandidate(run[p].seen) /\ ~HasClaim(run[p].seen) /\ run' = Ended(p, "unsafe")
  <2>1. met[p]
    BY <1>1, <1>3 DEF AloneInv, FindsLock, LooksBack
  <2>2. At(p, run'[p]) /\ run'[p].pc \notin LooksBack
    BY <1>1, <1>3, EndedOutcome DEF LooksBack
  <2> QED
    BY <1>1, <2>1, <2>2, AloneAhead
<1> QED
  BY <1>2, <1>3 DEF UnlinkCompanion

LEMMA AloneClaim ==
    ASSUME AloneInv, RecoverableInv', NEW p \in Runs, Claim(p)
    PROVE  AloneInv'
<1>1. /\ run[p].pc = "claim" /\ Alive(p) /\ UNCHANGED <<lock, met, edited>> /\ Shaped
  BY DEF Claim, Alive, history, AloneInv, RecoverableInv, LineageInv, CompanionInv, LockInv
<1>2. CASE lock # run[p].seen /\ (Busy(p) \/ run' = Ended(p, "unsafe"))
  <2>1. met[p]
    BY <1>1, <1>2 DEF AloneInv, FindsLock, LooksBack
  <2>2. At(p, run'[p]) /\ run'[p].pc \notin LooksBack
    BY <1>1, <1>2, EndedOutcome, BusyOutcome DEF LooksBack
  <2> QED
    BY <1>1, <2>1, <2>2, AloneAhead
<1>3. CASE lock = run[p].seen /\ Goto(p, "claim-link")
  <2>1. /\ At(p, run'[p]) /\ run'[p].pc = "claim-link" /\ run'[p].seen = run[p].seen
        /\ run'[p].outcome = run[p].outcome
    BY <1>1, <1>3, GotoAt, GotoWent
  <2>2. FindsLock(p)'
    BY <1>1, <1>3, <2>1 DEF FindsLock
  <2> QED
    BY <1>1, <2>1, <2>2, AloneMoves
<1> QED
  BY <1>2, <1>3 DEF Claim

LEMMA AloneLinkClaim ==
    ASSUME AloneInv, RecoverableInv', NEW p \in Runs, LinkClaim(p)
    PROVE  AloneInv'
<1>1. /\ run[p].pc = "claim-link" /\ Alive(p) /\ UNCHANGED <<lock, met, edited>> /\ Shaped
      /\ ~met[p] => lock = run[p].seen
  BY DEF LinkClaim, Alive, history, AloneInv, RecoverableInv, LineageInv, CompanionInv, LockInv,
         FindsLock, LooksBack
<1>2. CASE run' = [run EXCEPT ![p].pc = "claimed", ![p].claimed = run[p].seen.tx]
  <2>1. /\ At(p, run'[p]) /\ run'[p].pc = "claimed" /\ run'[p].seen = run[p].seen
        /\ run'[p].outcome = run[p].outcome
    BY <1>1, <1>2 DEF At, Shaped, Fields
  <2>2. FindsLock(p)'
    BY <1>1, <2>1 DEF FindsLock
  <2> QED
    BY <1>1, <2>1, <2>2, AloneMoves
<1>3. CASE claim[run[p].seen.tx] # NoOwner /\ Goto(p, "contest") /\ UNCHANGED claim
  <2>1. /\ At(p, run'[p]) /\ run'[p].pc = "contest" /\ run'[p].seen = run[p].seen
        /\ run'[p].outcome = run[p].outcome
    BY <1>1, <1>3, GotoAt, GotoWent
  <2>2. FindsLock(p)'
    BY <1>1, <1>3, <2>1 DEF FindsLock
  <2> QED
    BY <1>1, <2>1, <2>2, AloneMoves
<1> QED
  BY <1>2, <1>3 DEF LinkClaim

LEMMA AloneConfirmClaim ==
    ASSUME AloneInv, RecoverableInv', NEW p \in Runs, ConfirmClaim(p)
    PROVE  AloneInv'
<1>1. /\ run[p].pc = "claimed" /\ Alive(p) /\ UNCHANGED <<lock, met, edited>> /\ Shaped
      /\ ~met[p] => lock = run[p].seen
  BY DEF ConfirmClaim, Alive, history, AloneInv, RecoverableInv, LineageInv, CompanionInv, LockInv,
         FindsLock, LooksBack
<1>2. CASE lock = run[p].seen /\ Goto(p, "replace")
  <2>1. /\ At(p, run'[p]) /\ run'[p].pc = "replace" /\ run'[p].seen = run[p].seen
        /\ run'[p].outcome = run[p].outcome
    BY <1>1, <1>2, GotoAt, GotoWent
  <2>2. FindsLock(p)'
    BY <1>1, <1>2, <2>1 DEF FindsLock
  <2> QED
    BY <1>1, <2>1, <2>2, AloneMoves
<1>3. CASE lock # run[p].seen /\ run' = Ended(p, "unsafe")
  <2>1. At(p, run'[p]) /\ run'[p].pc \notin LooksBack
    BY <1>1, <1>3, EndedOutcome DEF LooksBack
  <2> QED
    BY <1>1, <1>3, <2>1, AloneAhead
<1> QED
  BY <1>2, <1>3 DEF ConfirmClaim

\* One that is alone finds the claim that kept it out, and with the lock still there the
\* claimant's candidate.
LEMMA AloneContestClaim ==
    ASSUME AloneInv, RecoverableInv', NEW p \in Runs, ContestClaim(p)
    PROVE  AloneInv'
<1>1. /\ run[p].pc = "contest" /\ Alive(p) /\ UNCHANGED <<met, edited>> /\ Shaped
      /\ run[p].seen.tx \in Runs
      /\ ~met[p] => lock = run[p].seen /\ claim[lock.tx] # NoOwner
  BY LookingBack DEF ContestClaim, Alive, history, AloneInv, RecoverableInv, LineageInv,
                     CompanionInv, LockInv, FindsLock, LooksBack
<1>2. CASE Busy(p)
  BY <1>1, <1>2, BusyOutcome, AloneAhead
<1>3. CASE run' = [run EXCEPT ![p].pc = "candidate"]
  <2>1. Goto(p, "candidate")
    BY <1>3 DEF Goto
  <2>2. At(p, run'[p]) /\ run'[p].pc \notin LooksBack /\ run'[p].outcome = run[p].outcome
    BY <1>1, <2>1, GotoAt, GotoWent DEF LooksBack
  <2> QED
    BY <1>1, <2>2, AloneAhead
<1>4. CASE /\ run' = Ended(p, "unsafe")
           /\ ~(HasCandidate(claim[run[p].seen.tx]) /\ lock = run[p].seen)
  <2>1. ASSUME ~met[p]
        PROVE  FALSE
    <3>1. HasCandidate(claim[lock.tx])
      BY <1>1, <2>1 DEF AloneInv, RecoverableInv, LineageInv, CompanionInv, BackedOK
    <3> QED
      BY <1>1, <1>4, <2>1, <3>1
  <2>2. At(p, run'[p]) /\ run'[p].pc \notin LooksBack
    BY <1>1, <1>4, EndedOutcome DEF LooksBack
  <2> QED
    BY <1>1, <2>1, <2>2, AloneAhead
<1> QED
  BY <1>2, <1>3, <1>4 DEF ContestClaim

LEMMA AloneAcquire ==
    ASSUME MaxPredecessors >= 2, AloneInv, RecoverableInv', NEW p \in Runs, Acquire(p)
    PROVE  AloneInv'
<1>1. Shaped
  BY DEF AloneInv, RecoverableInv, LineageInv, CompanionInv, LockInv
<1>2. CASE ProbeLegacy(p)
  <2>1. /\ At(p, run'[p]) /\ run'[p].pc \in {"ended", "candidate"}
        /\ run'[p].outcome \in {"done", run[p].outcome}
    <3>1. CASE run' = Ended(p, "done")
      BY <1>1, <3>1, EndedOutcome
    <3>2. ASSUME NEW handOver, run' = [run EXCEPT ![p].pc = "candidate", ![p].handOver = handOver]
          PROVE  At(p, run'[p]) /\ run'[p].pc = "candidate" /\ run'[p].outcome = run[p].outcome
      BY <1>1, <3>2 DEF At, Shaped, Fields
    <3> QED
      BY <1>2, <3>1, <3>2 DEF ProbeLegacy
  <2>2. Alive(p) /\ UNCHANGED <<met, edited>> /\ run'[p].pc \notin LooksBack
    BY <1>2, <2>1 DEF ProbeLegacy, Alive, LooksBack, history
  <2> QED
    BY <2>1, <2>2, AloneAhead
<1>3. CASE WriteCandidate(p) \/ LinkLock(p) \/ DropCandidate(p) \/ ReplaceLock(p)
  <2>1. PICK pc \in {"link", "linked", "inspect", "recover"} : Goto(p, pc)
    BY <1>3 DEF WriteCandidate, LinkLock, DropCandidate, ReplaceLock
  <2>2. At(p, run'[p]) /\ run'[p].pc \notin LooksBack /\ run'[p].outcome = run[p].outcome
    BY <1>1, <2>1, GotoAt, GotoWent DEF LooksBack
  <2>3. Alive(p) /\ UNCHANGED <<met, edited>>
    BY <1>3 DEF WriteCandidate, LinkLock, DropCandidate, ReplaceLock, Alive, history
  <2> QED
    BY <2>2, <2>3, AloneAhead
<1> QED
  BY <1>2, <1>3, AloneInspectOwner, AloneUnlinkCompanion, AloneClaim, AloneLinkClaim,
     AloneConfirmClaim, AloneContestClaim DEF Acquire
-----------------------------------------------------------------------------
\* Under the lock.

LEMMA AloneShaped ==
    ASSUME AloneInv
    PROVE  LockInv /\ Shaped
BY DEF AloneInv, RecoverableInv, LineageInv, CompanionInv, LockInv

\* What an operation goes on to refuses nothing.
LEMMA AloneProceeds ==
    ASSUME AloneInv, RecoverableInv', NEW p \in Runs, Alive(p), Proceeds(p),
           UNCHANGED <<met, edited>>
    PROVE  AloneInv'
<1>1. At(p, run'[p]) /\ run'[p].pc \notin LooksBack
  BY DEF Proceeds, Ahead, LooksBack
<1>2. run'[p].outcome = "unsafe" => run[p].outcome = "unsafe"
  BY DEF Proceeds, NoRefusal
<1> QED
  BY <1>1, <1>2, AloneAhead

LEMMA AloneGoto ==
    ASSUME AloneInv, RecoverableInv', NEW p \in Runs, Alive(p), NEW pc, pc \notin LooksBack,
           Goto(p, pc), UNCHANGED <<met, edited>>
    PROVE  AloneInv'
<1>1. /\ At(p, run'[p]) /\ run'[p].pc = pc /\ run'[p].outcome = run[p].outcome
  BY AloneShaped, GotoAt, GotoWent
<1> QED
  BY <1>1, AloneAhead

\* Recovery accepts what dead owners left, unless somebody edited the definition.
LEMMA RecoveryAccepts ==
    ASSUME RecoverableInv, NEW p \in Runs, run[p].pc = "recover", ~edited
    PROVE  ~Unrecoverable
<1>1. /\ Holds(p) /\ journal.tx # p /\ FitOK
      /\ journal # NoJournal => journal.tx \in Runs
  BY RecoveringKnows DEF RecoverableInv, LineageInv
<1>2. lock.tx = p /\ Covers(lock)
  BY <1>1 DEF RecoverableInv, LineageInv, CompanionInv, LockInv, RunOK, LockOK
<1>3. journal # NoJournal => journal.tx \in ToSet(lock.preds)
  BY <1>1, <1>2 DEF Covers, Left, Named
<1>4. \A t \in ToSet(lock.preds) : journalTmp[t] # Torn
  <2>1. lock.preds \in Seq(Runs)
    BY DEF RecoverableInv, LineageInv, CompanionInv, OwnersOK, Owners
  <2>2. ToSet(lock.preds) \subseteq Runs
    BY <2>1 DEF ToSet
  <2> QED
    BY <2>2 DEF RecoverableInv, LineageInv
<1>5. Reconciled => Fits(journal)
  BY <1>1 DEF FitOK, Reconciled
<1> QED
  BY <1>3, <1>4, <1>5 DEF Unrecoverable, Fits, Late, Quarantined, Temporary

LEMMA AloneRecover ==
    ASSUME AloneInv, RecoverableInv', NEW p \in Runs, Recover(p)
    PROVE  AloneInv'
<1>1. run[p].pc = "recover" /\ UNCHANGED <<met, edited>> /\ LockInv /\ Shaped
  BY AloneShaped DEF Recover, RecoveryRefused, ReconcileJournal, AdoptTemporary, RestoreLink,
                     DropTemporary, DropQuarantine, CloseTransaction, EnterBody, history
<1>2. Alive(p)
  BY <1>1 DEF Alive
<1>3. CASE RecoveryRefused(p)
  <2>1. edited
    BY <1>1, <1>3, RecoveryAccepts DEF RecoveryRefused, AloneInv
  <2>2. At(p, run'[p]) /\ run'[p].pc \notin LooksBack
    BY <1>1, <1>3, EndedOutcome DEF RecoveryRefused, LooksBack
  <2> QED
    BY <1>1, <1>2, <2>1, <2>2, AloneAhead
<1>4. CASE AdoptTemporary(p)
  <2>1. PICK j : run' = Writing(p, j, "recover")
    BY <1>4 DEF AdoptTemporary
  <2>2. At(p, run'[p]) /\ run'[p].pc = "stage" /\ run'[p].outcome = run[p].outcome
    BY <1>1, <2>1, WritingStaged DEF Staged
  <2> QED
    BY <1>1, <1>2, <2>2, AloneAhead DEF LooksBack
<1>5. CASE EnterBody(p)
  BY <1>1, <1>2, <1>5, AloneGoto DEF EnterBody, LooksBack
<1>6. CASE \/ ReconcileJournal(p) \/ RestoreLink(p) \/ DropTemporary(p) \/ DropQuarantine(p)
           \/ CloseTransaction(p)
  <2>1. run' = run
    BY <1>6 DEF ReconcileJournal, RestoreLink, DropTemporary, DropQuarantine, CloseTransaction
  <2>2. At(p, run'[p]) /\ run'[p].pc \notin LooksBack /\ run'[p].outcome = run[p].outcome
    BY <1>1, <2>1 DEF At, Shaped, LooksBack
  <2> QED
    BY <1>1, <1>2, <2>2, AloneAhead
<1> QED
  BY <1>3, <1>4, <1>5, <1>6 DEF Recover

LEMMA AloneWrite ==
    ASSUME AloneInv, RecoverableInv', NEW p \in Runs, StageJournal(p) \/ CommitJournal(p)
    PROVE  AloneInv'
<1>1. /\ run[p].pc \in {"stage", "commit"} /\ UNCHANGED <<met, edited>>
      /\ Goto(p, "commit") \/ Goto(p, run[p].next)
  BY DEF StageJournal, CommitJournal, history
<1>2. run[p].next \notin LooksBack /\ "commit" \notin LooksBack /\ Alive(p)
  BY <1>1, AloneShaped DEF LockInv, RunOK, NextOK, Unlocked, LooksBack, Alive
<1> QED
  BY <1>1, <1>2, AloneGoto

LEMMA AloneOperation ==
    ASSUME AloneInv, RecoverableInv', NEW p \in Runs,
           Operate(p) \/ CommandFails(p) \/ Publish(p) \/ Withdraw(p),
           ~StageJournal(p), ~CommitJournal(p)
    PROVE  AloneInv'
<1>1. Shaped
  BY AloneShaped
<1>2. Proceeds(p)
  <2>1. {"sweep", "retire", "probe", "retired", "release"} \subseteq Between
    BY DEF Between
  <2>2. CASE BootOutLegacy(p) \/ Sweep(p) \/ RetireLegacy(p) \/ DropRetired(p)
    BY <1>1, <2>1, <2>2, GotoResumes
       DEF BootOutLegacy, Sweep, RetireLegacy, DropRetired, Resumes
  <2>3. CASE Command(p) \/ CommandFails(p)
    BY <1>1, <2>3, CommandProceeds, FailureProceeds DEF Resumes
  <2>4. CASE Publish(p) \/ Withdraw(p)
    BY <1>1, <2>4, PublishProceeds, WithdrawProceeds
  <2> QED
    BY <2>2, <2>3, <2>4 DEF Operate, Command
<1>3. UNCHANGED <<met, edited>> /\ Body(p)
  <2>1. UNCHANGED <<met, edited>>
    BY DEF Operate, CommandFails, BootOutLegacy, Sweep, Probe, Restart, BootOut, Bootstrap,
           BootstrapImpossible, Rollback, Rebootstrap, RetireLegacy, DropRetired, Publish, Intend,
           WriteTemporary, MoveOld, RenameOld, PutBack, LinkNew, UnlinkTemporary, DropOld,
           UndoLink, UndoDrop, DropOwnTemporary, Withdraw, BeginRemoval, RenameAway, Destroy,
           Removed, history
  <2> QED
    BY <2>1, BodyOf, AloneShaped
<1>4. Alive(p)
  BY <1>3 DEF Body, Holds, Unlocked, Alive
<1> QED
  BY <1>2, <1>3, <1>4, AloneProceeds

LEMMA AloneRelease ==
    ASSUME AloneInv, RecoverableInv', NEW p \in Runs, Release(p)
    PROVE  AloneInv'
<1>1. CASE ReleaseJournal(p) \/ ReleaseClaim(p)
  <2>1. /\ Alive(p) /\ UNCHANGED <<met, edited>>
        /\ \E pc \in {"release-claim", "unlock"} : Goto(p, pc)
    BY <1>1 DEF ReleaseJournal, ReleaseClaim, Alive, history
  <2> QED
    BY <2>1, AloneGoto DEF LooksBack
<1>2. CASE Unlock(p)
  <2>1. Alive(p) /\ UNCHANGED <<met, edited>> /\ run' = Ended(p, run[p].outcome)
    BY <1>2 DEF Unlock, Alive, history
  <2>2. At(p, run'[p]) /\ run'[p].pc \notin LooksBack /\ run'[p].outcome = run[p].outcome
    BY <2>1, AloneShaped, EndedOutcome DEF LooksBack
  <2> QED
    BY <2>1, <2>2, AloneAhead
<1> QED
  BY <1>1, <1>2 DEF Release

LEMMA AloneCrash ==
    ASSUME AloneInv, RecoverableInv', NEW p \in Runs, Crash(p)
    PROVE  AloneInv'
<1>1. Alive(p) /\ UNCHANGED <<met, edited>> /\ run' = Killed(p) /\ Shaped
  BY AloneShaped DEF Crash, history
<1>2. At(p, run'[p]) /\ run'[p].pc = "crashed" /\ run'[p].outcome = "none"
  <2> DEFINE l == [Idle EXCEPT !.pc = "crashed", !.op = run[p].op]
  <2>1. DOMAIN l = Fields /\ l.pc = "crashed" /\ l.outcome = "none"
    BY DEF Idle, Fields
  <2>2. run' = [run EXCEPT ![p] = l]
    BY <1>1 DEF Killed
  <2> HIDE DEF l
  <2> QED
    BY <1>1, <2>1, <2>2 DEF At, Shaped
<1> QED
  BY <1>1, <1>2, AloneAhead DEF LooksBack

\* One that starts is met by those that are there, and meets them.
LEMMA AloneStart ==
    ASSUME AloneInv, RecoverableInv', NEW p \in Runs, NEW op, Start(p, op)
    PROVE  AloneInv'
<1>1. /\ run[p].pc = "idle" /\ ~Alive(p) /\ edited' = edited
      /\ met' = [q \in Runs |-> met[q] \/ (q # p /\ Alive(q))
                                       \/ (q = p /\ \E r \in Runs : Alive(r))]
  BY DEF Start, Alive
<1>2. /\ At(p, run'[p]) /\ run'[p].pc \in {"probe-legacy", "candidate"}
      /\ run'[p].outcome = run[p].outcome
  BY AloneShaped DEF Start, At, Shaped, Fields
<1>3. \A q \in Runs \ {p} : Alive(q)' = Alive(q)
  BY <1>2 DEF At, Alive
<1>4. /\ \A q \in Runs : met[q] => met'[q]
      /\ \A q \in Runs \ {p} : Alive(q) => met'[q] /\ met'[p]
  BY <1>1
<1>5. Together'
  <2> SUFFICES ASSUME NEW q \in Runs, NEW r \in Runs, q # r, Alive(q)', Alive(r)'
               PROVE  met'[q]
    BY DEF Together
  <2>1. CASE q = p
    BY <1>3, <1>4, <2>1
  <2>2. CASE q # p
    BY <1>3, <1>4, <2>2
  <2> QED
    BY <2>1, <2>2
<1>6. ASSUME NEW q \in Runs
      PROVE  FindsLock(q)'
  <2>1. CASE q = p
    BY <1>2, <2>1 DEF FindsLock, LooksBack
  <2>2. CASE q # p
    BY <1>3, <1>4, <2>2 DEF FindsLock
  <2> QED
    BY <2>1, <2>2
<1>7. AloneNeverRefused'
  <2>1. \A q \in Runs : run'[q].outcome = run[q].outcome
    BY <1>2 DEF At
  <2> QED
    BY <1>1, <1>4, <2>1 DEF AloneInv, AloneNeverRefused
<1> QED
  BY <1>5, <1>6, <1>7 DEF AloneInv

-----------------------------------------------------------------------------
LEMMA AloneInvInit == Init => AloneInv
<1> SUFFICES ASSUME Init
             PROVE  AloneInv
  OBVIOUS
<1>1. \A p \in Runs : run[p] = Idle
  BY DEF Init
<1>2. \A p \in Runs : ~Alive(p) /\ run[p].outcome = "none"
  BY <1>1 DEF Alive, Idle
<1> QED
  BY <1>2, RecoverableInvInit DEF AloneInv, Together, FindsLock, AloneNeverRefused

LEMMA AloneInvStep ==
    ~TornWrites /\ MaxPredecessors >= 2 /\ AloneInv /\ [Next]_vars => AloneInv'
<1> SUFFICES ASSUME ~TornWrites, MaxPredecessors >= 2, AloneInv, [Next]_vars
             PROVE  AloneInv'
  OBVIOUS
<1>1. RecoverableInv'
  BY RecoverableInvStep DEF AloneInv
<1>2. ASSUME NEW p \in Runs, NEW op \in Ops[p], Start(p, op)
      PROVE  AloneInv'
  BY <1>1, <1>2, AloneStart
<1>3. ASSUME NEW p \in Runs, Acquire(p) \/ Recover(p) \/ Release(p) \/ Crash(p)
      PROVE  AloneInv'
  BY <1>1, <1>3, AloneAcquire, AloneRecover, AloneRelease, AloneCrash
<1>4. ASSUME NEW p \in Runs, Operate(p) \/ CommandFails(p) \/ Publish(p) \/ Withdraw(p)
      PROVE  AloneInv'
  BY <1>1, <1>4, AloneOperation, AloneWrite
<1>5. ASSUME NEW file, Edit(file)
      PROVE  AloneInv'
  <2>1. UNCHANGED <<lock, candidate, claim, run, met>> /\ edited'
    BY <1>5 DEF Edit, locks
  <2> QED
    BY <1>1, <2>1 DEF AloneInv, Together, FindsLock, AloneNeverRefused, Alive, HasCandidate, HasClaim
<1>6. CASE UNCHANGED vars
  <2>1. UNCHANGED <<lock, candidate, claim, run, met, edited>>
    BY <1>6 DEF vars, locks, history
  <2> QED
    BY <1>1, <2>1 DEF AloneInv, Together, FindsLock, AloneNeverRefused, Alive, HasCandidate, HasClaim
<1> QED
  BY <1>2, <1>3, <1>4, <1>5, <1>6 DEF Next

\* However many owners died with the lock, and wherever, a run that meets no other one takes
\* the lock over, recovers and goes on: what it reads of the dead is never refused as unsafe,
\* unless somebody edited the definition meanwhile or a file was created and not written
\* (inspectOwner, resolveExistingSuccessorClaim, recoverPublicationTransaction).
THEOREM AloneNeverRefusedHolds ==
    ~TornWrites /\ MaxPredecessors >= 2 => (Spec => []AloneNeverRefused)
<1> SUFFICES ASSUME ~TornWrites, MaxPredecessors >= 2
             PROVE  Spec => []AloneNeverRefused
  OBVIOUS
<1>1. AloneInv /\ [Next]_vars => AloneInv'
  BY AloneInvStep
<1>2. AloneInv => AloneNeverRefused
  BY DEF AloneInv
<1> QED
  BY <1>1, <1>2, AloneInvInit, PTL DEF Spec
-----------------------------------------------------------------------------
\* Types.

LegacyStates == [def : BOOLEAN, loaded : BOOLEAN, artifacts : BOOLEAN]

TypeInv ==
    /\ legacy \in LegacyStates
    /\ mishaps \in 0..MaxMishaps
    /\ met \in [Runs -> BOOLEAN] /\ edited \in BOOLEAN

LEMMA MoreMishaps ==
    ASSUME mishaps \in 0..MaxMishaps, mishaps' = mishaps \/ Mishap
    PROVE  mishaps' \in 0..MaxMishaps
<1>1. MaxMishaps \in Nat
  BY BoundsAssumption
<1> QED
  BY <1>1 DEF Mishap

\* What few steps change.
LEMMA TypeStays ==
    ASSUME TypeInv, UNCHANGED met, edited' \in {edited, TRUE}, mishaps' = mishaps \/ Mishap,
           UNCHANGED legacy
    PROVE  TypeInv'
<1>1. legacy' \in LegacyStates
  BY DEF TypeInv, LegacyStates
<1>2. mishaps' \in 0..MaxMishaps
  BY MoreMishaps DEF TypeInv
<1>3. met' \in [Runs -> BOOLEAN]
  BY DEF TypeInv
<1>4. edited' \in BOOLEAN
  BY Zenon DEF TypeInv
<1> QED
  BY <1>1, <1>2, <1>3, <1>4 DEF TypeInv

LEMMA TypeInvInit == Init => TypeInv
<1> SUFFICES ASSUME Init
             PROVE  TypeInv
  OBVIOUS
<1>1. legacy \in LegacyStates
  BY OpsAssumption DEF Init, LegacyStates
<1>2. mishaps \in 0..MaxMishaps
  BY BoundsAssumption DEF Init
<1>3. met \in [Runs -> BOOLEAN] /\ edited \in BOOLEAN
  BY DEF Init
<1> QED
  BY <1>1, <1>2, <1>3 DEF TypeInv

LEMMA TypeInvStep == TypeInv /\ [Next]_vars => TypeInv'
<1> SUFFICES ASSUME TypeInv, [Next]_vars
             PROVE  TypeInv'
  OBVIOUS
<1>1. ASSUME NEW p \in Runs, NEW op, Start(p, op)
      PROVE  TypeInv'
  <2>1. UNCHANGED <<legacy, edited, mishaps>>
    BY <1>1 DEF Start, manager
  <2>2. met' \in [Runs -> BOOLEAN]
    BY <1>1 DEF Start, TypeInv, Alive
  <2> QED
    BY <2>1, <2>2 DEF TypeInv
<1>2. ASSUME NEW p \in Runs, Acquire(p)
      PROVE  TypeInv'
  <2>1. UNCHANGED <<legacy, met, edited, mishaps>>
    BY <1>2 DEF Acquire, ProbeLegacy, WriteCandidate, LinkLock, DropCandidate, InspectOwner,
                UnlinkCompanion, Claim, LinkClaim, ConfirmClaim, ContestClaim, ReplaceLock,
                manager, history
  <2> QED
    BY <2>1, TypeStays
<1>3. ASSUME NEW p \in Runs, Recover(p) \/ Publish(p) \/ Withdraw(p) \/ Release(p)
      PROVE  TypeInv'
  <2>1. UNCHANGED <<legacy, met, edited, mishaps>>
    BY <1>3 DEF Recover, RecoveryRefused, ReconcileJournal, AdoptTemporary, RestoreLink,
                DropTemporary, DropQuarantine, CloseTransaction, EnterBody, Publish, Intend,
                WriteTemporary, MoveOld, RenameOld, PutBack, LinkNew, UnlinkTemporary, DropOld,
                UndoLink, UndoDrop, DropOwnTemporary, Withdraw, BeginRemoval, RenameAway, Destroy,
                Removed, Release, ReleaseJournal, ReleaseClaim, Unlock, manager, history
  <2> QED
    BY <2>1, TypeStays
<1>4. ASSUME NEW p \in Runs, Operate(p)
      PROVE  TypeInv'
  <2>1. UNCHANGED <<met, edited, mishaps>>
    BY <1>4 DEF Operate, StageJournal, CommitJournal, BootOutLegacy, Sweep, Probe, Restart,
                BootOut, Bootstrap, BootstrapImpossible, Rollback, Rebootstrap, RetireLegacy,
                DropRetired, history
  <2>2. legacy \in LegacyStates
    BY DEF TypeInv
  <2>3. legacy' \in LegacyStates
    <3>1. CASE BootOutLegacy(p)
      BY <2>2, <3>1 DEF BootOutLegacy, LegacyStates
    <3>2. CASE Sweep(p) \/ DropRetired(p)
      BY <2>2, <3>2 DEF Sweep, DropRetired, LegacyStates
    <3>3. CASE RetireLegacy(p)
      <4>1. legacy' \in {legacy, [legacy EXCEPT !.def = FALSE, !.artifacts = TRUE]}
        BY <3>3 DEF RetireLegacy
      <4> QED
        BY <2>2, <4>1 DEF LegacyStates
    <3>4. CASE ~BootOutLegacy(p) /\ ~Sweep(p) /\ ~DropRetired(p) /\ ~RetireLegacy(p)
      BY <1>4, <2>2, <3>4 DEF Operate, StageJournal, CommitJournal, Probe, Restart, BootOut,
                              Bootstrap, BootstrapImpossible, Rollback, Rebootstrap, manager
    <3> QED
      BY <3>1, <3>2, <3>3, <3>4
  <2> QED
    BY <2>1, <2>3 DEF TypeInv
<1>5. ASSUME NEW p \in Runs, CommandFails(p) \/ Crash(p)
      PROVE  TypeInv'
  <2>1. UNCHANGED <<legacy, met, edited>> /\ Mishap
    BY <1>5 DEF CommandFails, Crash, manager, history
  <2> QED
    BY <2>1, TypeStays
<1>6. ASSUME NEW file, Edit(file)
      PROVE  TypeInv'
  <2>1. UNCHANGED <<legacy, met>> /\ Mishap /\ edited' = TRUE
    BY <1>6 DEF Edit, manager
  <2> QED
    BY <2>1, TypeStays
<1>7. CASE UNCHANGED vars
  BY <1>7, TypeStays DEF vars, manager, history
<1> QED
  BY <1>1, <1>2, <1>3, <1>4, <1>5, <1>6, <1>7 DEF Next

\* The lock, its companions and the journal name runs or nobody; the rest keeps its type.
THEOREM TypeOKHolds == Spec => []TypeOK
<1>1. TypeInv /\ CompanionInv /\ FileInv => TypeOK
  <2> SUFFICES ASSUME TypeInv, CompanionInv, FileInv
               PROVE  TypeOK
    OBVIOUS
  <2>1. journal.tx \in Runs \cup {0}
    BY NoJournalShape DEF FileInv, JournalsOK
  <2>2. lock.tx \in Runs \cup {0}
    BY DEF CompanionInv, OwnersOK, Owners
  <2>3. /\ candidate \in [Runs -> [tx : Runs \cup {0}, preds : Seq(Runs)]]
        /\ claim \in [Runs -> [tx : Runs \cup {0}, preds : Seq(Runs)]]
    BY DEF CompanionInv, OwnersOK, Owners
  <2> QED
    BY <2>1, <2>2, <2>3 DEF TypeOK, TypeInv, LegacyStates
<1>2. Spec => []TypeInv
  BY TypeInvInit, TypeInvStep, PTL DEF Spec
<1> QED
  BY <1>1, <1>2, CompanionInvHolds, FileInvHolds, PTL

=============================================================================

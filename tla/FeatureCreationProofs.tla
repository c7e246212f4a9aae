----------------------- MODULE FeatureCreationProofs -----------------------
(***************************************************************************)
(* Proofs about `wtm create` of several repositories: for any number of    *)
(* shells, repositories and creations, whatever others do in between and   *)
(* wherever the shells are killed. The leases, the journal and Git agree   *)
(* (CreationInv) and what is made is whole (WholeInv) while no Git         *)
(* outlives a lease; the types are right (TypeInv) even then.              *)
(***************************************************************************)
EXTENDS FeatureCreation, FiniteSetTheorems, WellFoundedInduction, TLAPS

Fields == {"pc", "resume", "repos", "reg", "from", "open", "c", "unread", "todo", "makes", "start",
           "rest", "via", "failed"}

\* What the steps need of the variables' types.
Shaped ==
    /\ DOMAIN run = Runs /\ \A p \in Runs : DOMAIN run[p] = Fields /\ DOMAIN run[p].start = Repos
    /\ DOMAIN add = Runs /\ \A p \in Runs : DOMAIN add[p] = {"step", "repo", "makes", "start", "c"}
    /\ DOMAIN git = Repos /\ \A r \in Repos : DOMAIN git[r] = {"branch", "head", "tree", "away"}
    /\ DOMAIN creation = Creations
    /\ \A c \in Creations : /\ DOMAIN creation[c] = {"state", "phase", "reg", "existed", "start"}
                            /\ DOMAIN creation[c].phase = Repos
    /\ DOMAIN lease = Repos /\ DOMAIN reg = Repos /\ DOMAIN row = Repos
    /\ DOMAIN made = Repos /\ DOMAIN touched = Repos
    /\ DOMAIN spent = {"fresh", "meddling", "faults"} /\ spent.meddling \in Nat

\* States of a run under its leases, and those after it has looked under them.
Holding == {"check", "journal", "recover", "apply", "git", "register"}

Working == {"journal", "recover", "apply", "git", "register"}

Mine(p, r) == run[p].pc \in Working /\ r \in run[p].repos

\* The members a run still works on are its own.
WorkOK(p) ==
    /\ run[p].pc \in {"off", "lease", "announce"} \cup Holding
    /\ run[p].repos \subseteq Repos
    /\ run[p].unread \cup run[p].todo \cup run[p].rest \subseteq run[p].repos
    /\ run[p].pc \in {"lease", "check"} => run[p].repos # {}
    /\ run[p].pc = "recover" => run[p].unread # {}
    /\ run[p].pc = "announce" => run[p].repos = {}
    /\ run[p].pc \in {"recover", "apply", "git", "register", "announce"} => run[p].c \in Creations \ Unused

LeaseOK(p) == run[p].pc \in Holding => \A r \in run[p].repos : lease[r] = p

\* What a run acts on was there when it read it.
ReadOK(p) ==
    /\ run[p].pc \in {"lease", "check", "recover"} /\ run[p].resume =>
         /\ run[p].c \in Creations \ Unused
         /\ run[p].c = run[p].open.id
         /\ \A r \in run[p].repos : run[p].reg[r] = creation[run[p].c].reg[r]
    /\ run[p].pc \in {"lease", "check"} /\ ~run[p].resume => AllPlanned(run[p].open.phase)
    /\ run[p].pc \in {"lease"} \cup Holding => \A r \in run[p].repos : run[p].reg[r] # 0
    /\ run[p].pc \in {"recover", "apply", "git", "register"} \/ (run[p].pc \in {"lease", "check"} /\ run[p].resume) =>
         \A r \in run[p].repos : creation[run[p].c].phase[r] # "none"

RunOK(p) == WorkOK(p) /\ LeaseOK(p) /\ ReadOK(p)

\* Ids of repositories are never given again.
Known(id, r) == /\ id \in Nat /\ id <= spent.meddling + 1
                /\ reg[r] = 0 => id <= spent.meddling

IdsOK ==
    \A r \in Repos : /\ Known(reg[r], r)
                     /\ \A p \in Runs : Known(run[p].reg[r], r)
                     /\ \A c \in Creations : Known(creation[c].reg[r], r)

\* A member is in the registry when it is journalled.
MembersKnown == \A c \in Creations \ Unused, r \in Repos : creation[c].phase[r] # "none" => creation[c].reg[r] # 0

OneOpen == \A c, d \in Open : c = d

\* The Git of a run that died: its run will not be told, and whoever may work in the
\* repository has to learn of the journal, under the lease, that somebody was there.
Orphan(p) ==
    LET r == add[p].repo c == add[p].c IN
    /\ add[p].step \in {"begun", "branched", "entered"}
    /\ lease[r] = "dead" \/ reg[r] # creation[c].reg[r]
    /\ \A q \in Runs : r \in run[q].repos =>
           /\ run[q].pc \notin Working
           /\ ~(run[q].pc = "check" /\ run[q].resume /\ run[q].c = c)

AddOK(p) ==
    add[p].step # "off" =>
        /\ add[p].step \in {"begun", "branched", "entered", "done", "failed"}
        /\ add[p].repo \in Repos /\ add[p].c \in Open
        /\ creation[add[p].c].phase[add[p].repo] = "APPLYING"
        /\ \/ run[p].pc = "git" /\ add[p].repo \in run[p].repos /\ add[p].c = run[p].c
           \/ run[p].pc = "off" /\ Orphan(p)

OneGit == \A p, q \in Runs : p # q /\ add[p].step # "off" /\ add[q].step # "off" => add[p].repo # add[q].repo

Wrote == {"APPLYING", "APPLIED", "REGISTERED"}

\* What a creation made is in its journal.
MadeOK ==
    \A r \in Repos :
        made[r] # 0 /\ Listed(git[r]) => /\ made[r] \in Creations
                                         /\ creation[made[r]].state \in {"IN_PROGRESS", "COMPLETED"}
                                         /\ creation[made[r]].phase[r] \in Wrote

CreationInv ==
    /\ Shaped
    /\ \A p \in Runs : RunOK(p) /\ AddOK(p)
    /\ IdsOK /\ MembersKnown /\ OneOpen /\ OneGit /\ MadeOK

-----------------------------------------------------------------------------
LEMMA FirstIn ==
    ASSUME NEW S, S \subseteq Repos, S # {}
    PROVE  First(S) \in S
<1> DEFINE R == OpToRel(<, Nat)
<1>1. IsWellFoundedOn(R, Nat)
  BY NatLessThanWellFounded
<1>2. S \subseteq Nat
  BY CreationAssumption
<1> HIDE DEF R
<1>3. PICK r \in S : \A s \in S : ~(<<s, r>> \in R)
  BY <1>1, <1>2, WFMin
<1>4. \A s \in S : r <= s
  <2> TAKE s \in S
  <2>1. s \in Nat /\ r \in Nat /\ ~(<<s, r>> \in R)
    BY <1>2, <1>3
  <2>2. ~(s < r)
    BY <2>1 DEF R, OpToRel
  <2> QED
    BY <2>1, <2>2
<1> QED
  BY <1>4 DEF First

LEMMA IdleShape ==
    /\ DOMAIN Idle = Fields /\ Idle.pc = "off" /\ ~Idle.resume /\ Idle.repos = {} /\ Idle.unread = {}
    /\ Idle.todo = {} /\ Idle.rest = {} /\ DOMAIN Idle.start = Repos
    /\ \A r \in Repos : Idle.reg[r] = 0
BY DEF Idle, Fields

LEMMA NoAddShape == DOMAIN NoAdd = {"step", "repo", "makes", "start", "c"} /\ NoAdd.step = "off"
BY DEF NoAdd

\* Only run p moves.
At(p) == /\ DOMAIN run' = Runs /\ DOMAIN run'[p] = Fields /\ DOMAIN run'[p].start = Repos
         /\ \A q \in Runs \ {p} : run'[q] = run[q]

\* A run that works in a repository is the only one that does, or that has its Git there.
LEMMA Alone ==
    ASSUME CreationInv, NEW p \in Runs, NEW r, Mine(p, r)
    PROVE  /\ r \in Repos /\ lease[r] = p
           /\ \A q \in Runs \ {p} : ~Mine(q, r) /\ (add[q].step # "off" => add[q].repo # r)
<1>1. r \in Repos /\ lease[r] = p
  BY DEF CreationInv, RunOK, WorkOK, LeaseOK, Mine, Working, Holding
<1>2. ASSUME NEW q \in Runs \ {p}
      PROVE  ~Mine(q, r) /\ (add[q].step # "off" => add[q].repo # r)
  <2>1. ~(run[q].pc \in Holding /\ r \in run[q].repos)
    BY <1>1 DEF CreationInv, RunOK, LeaseOK
  <2>2. ASSUME add[q].step # "off", add[q].repo = r PROVE FALSE
    <3>1. AddOK(q)
      BY DEF CreationInv
    <3>2. run[q].pc = "off" /\ Orphan(q)
      BY <2>1, <2>2, <3>1 DEF AddOK, Holding
    <3> QED
      BY <2>2, <3>2 DEF Orphan, Mine
  <2> QED
    BY <2>1, <2>2 DEF Mine, Working, Holding
<1> QED
  BY <1>1, <1>2

-----------------------------------------------------------------------------
\* What a step of p may not do to the other runs, and to the Git of those that died.
LeasesSpared(p) ==
    \A r \in Repos :
        /\ lease[r] \in Runs \ {p} => lease'[r] = lease[r]
        /\ lease[r] = "dead" /\ (\E q \in Runs \ {p} : add[q].step # "off" /\ add[q].repo = r) => lease'[r] = "dead"

JournalSpared(p) ==
    /\ \A c \in Creations \ Unused :
         /\ c \notin Unused' /\ creation'[c].reg = creation[c].reg
         /\ \A r \in Repos : creation[c].phase[r] # "none" => creation'[c].phase[r] # "none"
    /\ \A q \in Runs \ {p} :
         add[q].step # "off" => /\ creation'[add[q].c].state = "IN_PROGRESS"
                                /\ creation'[add[q].c].phase[add[q].repo] = "APPLYING"

OrphansSpared(p) ==
    \A q \in Runs \ {p} :
        add[q].step # "off" /\ run[q].pc = "off" /\ add[q].repo \in run'[p].repos =>
            /\ run'[p].pc \notin Working
            /\ ~(run'[p].pc = "check" /\ run'[p].resume /\ run'[p].c = add[q].c)

GitSpared(p) == add'[p].step # "off" => \A q \in Runs \ {p} : add[q].step # "off" => add[q].repo # add'[p].repo

LEMMA OneRunMoves ==
    ASSUME CreationInv, NEW p \in Runs, At(p), Shaped', RunOK(p)', AddOK(p)',
           \A q \in Runs \ {p} : add'[q] = add[q], UNCHANGED reg,
           LeasesSpared(p), JournalSpared(p), OrphansSpared(p), GitSpared(p),
           IdsOK', MembersKnown', OneOpen', MadeOK'
    PROVE  CreationInv'
<1>1. ASSUME NEW q \in Runs \ {p} PROVE RunOK(q)'
  <2>1. run'[q] = run[q] /\ RunOK(q)
    BY DEF At, CreationInv
  <2>2. WorkOK(q)' /\ ReadOK(q)'
    <3>1. WorkOK(q)'
      BY <2>1 DEF RunOK, WorkOK, JournalSpared, Holding
    <3>2. ReadOK(q)'
      BY <2>1 DEF RunOK, WorkOK, ReadOK, JournalSpared, Holding
    <3> QED
      BY <3>1, <3>2
  <2>3. LeaseOK(q)'
    BY <2>1 DEF RunOK, WorkOK, LeaseOK, LeasesSpared
  <2> QED
    BY <2>2, <2>3 DEF RunOK
<1>2. ASSUME NEW q \in Runs \ {p} PROVE AddOK(q)'
  <2> SUFFICES ASSUME add[q].step # "off" PROVE AddOK(q)'
    BY DEF AddOK
  <2>1. run'[q] = run[q] /\ add'[q] = add[q] /\ AddOK(q) /\ add[q].repo \in Repos /\ add[q].c \in Open
    BY DEF At, CreationInv, AddOK
  <2>2. add[q].c \in Creations \ Unused
    BY <2>1 DEF Open, Unused
  <2>3. add'[q].c \in Open' /\ creation'[add'[q].c].phase[add'[q].repo] = "APPLYING"
    BY <2>1, <2>2 DEF JournalSpared, Open
  <2>4. ASSUME run[q].pc = "off", Orphan(q) PROVE Orphan(q)'
    <3>1. lease'[add[q].repo] = "dead" \/ reg'[add[q].repo] # creation'[add[q].c].reg[add[q].repo]
      BY <2>1, <2>2, <2>4 DEF Orphan, LeasesSpared, JournalSpared
    <3>2. ASSUME NEW s \in Runs, add[q].repo \in run'[s].repos
          PROVE  /\ run'[s].pc \notin Working
                 /\ ~(run'[s].pc = "check" /\ run'[s].resume /\ run'[s].c = add[q].c)
      <4>1. CASE s = p
        BY <2>4, <3>2, <4>1 DEF OrphansSpared
      <4>2. CASE s # p
        BY <2>4, <3>2, <4>2 DEF Orphan, At
      <4> QED
        BY <4>1, <4>2
    <3> QED
      BY <2>1, <2>4, <3>1, <3>2 DEF Orphan
  <2> QED
    BY <2>1, <2>3, <2>4 DEF AddOK
<1>3. OneGit'
  <2> SUFFICES ASSUME NEW q \in Runs, NEW s \in Runs, q # s, add'[q].step # "off", add'[s].step # "off"
               PROVE  add'[q].repo # add'[s].repo
    BY DEF OneGit
  <2> QED
    BY DEF GitSpared, CreationInv, OneGit
<1> QED
  BY <1>1, <1>2, <1>3 DEF CreationInv

-----------------------------------------------------------------------------
\* Kinds of steps.

\* The variables a step of p may change at will.
Aside == /\ DOMAIN row' = Repos /\ DOMAIN touched' = Repos
         /\ DOMAIN spent' = {"fresh", "meddling", "faults"} /\ spent'.meddling = spent.meddling

CreationShaped ==
    /\ DOMAIN creation = Creations
    /\ \A c \in Creations : /\ DOMAIN creation[c] = {"state", "phase", "reg", "existed", "start"}
                            /\ DOMAIN creation[c].phase = Repos

LEMMA IdsKept ==
    ASSUME CreationInv, NEW p \in Runs, At(p), UNCHANGED reg, spent'.meddling = spent.meddling,
           \A r \in Repos : run'[p].reg[r] \in {0, reg[r], run[p].reg[r]},
           \A c \in Creations, r \in Repos : creation'[c].reg[r] \in {creation[c].reg[r], run[p].reg[r]}
    PROVE  IdsOK'
<1> SUFFICES ASSUME NEW r \in Repos
             PROVE  /\ Known(reg[r], r)' /\ \A q \in Runs : Known(run[q].reg[r], r)'
                    /\ \A c \in Creations : Known(creation[c].reg[r], r)'
  BY DEF IdsOK
<1>1. /\ Known(reg[r], r) /\ \A q \in Runs : Known(run[q].reg[r], r)
      /\ \A c \in Creations : Known(creation[c].reg[r], r)
  BY DEF CreationInv, IdsOK
<1>2. spent.meddling \in Nat /\ (reg[r] = 0 => 0 <= spent.meddling)
  BY DEF CreationInv, Shaped
<1> QED
  BY <1>1, <1>2 DEF Known, At

LEMMA NoGit ==
    ASSUME CreationInv, NEW p \in Runs, run[p].pc \notin {"off", "git"}
    PROVE  add[p].step = "off"
BY DEF CreationInv, AddOK

\* A step of p that leaves what others read alone.
LEMMA QuietStep ==
    ASSUME CreationInv, NEW p \in Runs, At(p), UNCHANGED <<git, add, reg, creation, made>>, Aside,
           DOMAIN lease' = Repos, add[p].step = "off", RunOK(p)', LeasesSpared(p), OrphansSpared(p),
           \A r \in Repos : run'[p].reg[r] \in {0, reg[r], run[p].reg[r]}
    PROVE  CreationInv'
<1>1. Shaped'
  BY DEF CreationInv, Shaped, At, Aside
<1>2. AddOK(p)' /\ GitSpared(p)
  BY DEF AddOK, GitSpared
<1>3. JournalSpared(p)
  <2>1. \A c \in Creations \ Unused : /\ c \notin Unused' /\ creation'[c].reg = creation[c].reg
                                            /\ \A r \in Repos : creation[c].phase[r] # "none" => creation'[c].phase[r] # "none"
    BY DEF Unused
  <2> QED
    BY <2>1 DEF JournalSpared, CreationInv, AddOK, Open
<1>4. IdsOK'
  BY IdsKept DEF Aside
<1>5. MembersKnown' /\ OneOpen' /\ MadeOK'
  BY DEF CreationInv, MembersKnown, Unused, OneOpen, MadeOK, Open, Listed
<1> QED
  BY <1>1, <1>2, <1>3, <1>4, <1>5, OneRunMoves

LEMMA EndsShape ==
    ASSUME CreationInv, NEW p \in Runs, Ends(p)
    PROVE  At(p) /\ run'[p] = Idle /\ DOMAIN lease' = Repos /\ LeasesSpared(p) /\ OrphansSpared(p) /\ RunOK(p)'
<1>1. At(p) /\ run'[p] = Idle /\ DOMAIN lease' = Repos
  BY IdleShape DEF CreationInv, Shaped, Ends, At
<1>2. LeasesSpared(p)
  BY CreationAssumption DEF LeasesSpared, Ends
<1>3. OrphansSpared(p)
  BY <1>1, IdleShape DEF OrphansSpared
<1>4. RunOK(p)'
  BY <1>1, IdleShape DEF RunOK, WorkOK, LeaseOK, ReadOK, Holding
<1> QED
  BY <1>1, <1>2, <1>3, <1>4

\* p returns or throws.
LEMMA EndsStep ==
    ASSUME CreationInv, NEW p \in Runs, Ends(p), run[p].pc # "off", UNCHANGED <<git, reg, made>>, Aside,
           add' = [add EXCEPT ![p] = NoAdd] \/ (add' = add /\ run[p].pc # "git"),
           CreationShaped', JournalSpared(p), MembersKnown', OneOpen', MadeOK',
           \A c \in Creations : creation'[c].reg = creation[c].reg
    PROVE  CreationInv'
<1>1. At(p) /\ run'[p] = Idle /\ DOMAIN lease' = Repos /\ LeasesSpared(p) /\ OrphansSpared(p) /\ RunOK(p)'
  BY EndsShape
<1>2. /\ DOMAIN add' = Runs /\ DOMAIN add'[p] = {"step", "repo", "makes", "start", "c"}
      /\ add'[p].step = "off" /\ \A q \in Runs \ {p} : add'[q] = add[q]
  BY NoGit, NoAddShape DEF CreationInv, Shaped
<1>3. Shaped'
  BY <1>1, <1>2 DEF CreationInv, Shaped, At, Aside, CreationShaped
<1>4. AddOK(p)' /\ GitSpared(p)
  BY <1>2 DEF AddOK, GitSpared
<1>5. IdsOK'
  BY <1>1, IdleShape, IdsKept DEF Aside
<1> QED
  BY <1>1, <1>2, <1>3, <1>4, <1>5, OneRunMoves

LEMMA JustEnds ==
    ASSUME CreationInv, NEW p \in Runs, Ends(p), run[p].pc # "off", UNCHANGED <<git, reg, made, creation>>, Aside,
           add' = [add EXCEPT ![p] = NoAdd] \/ (add' = add /\ run[p].pc # "git")
    PROVE  CreationInv'
<1>1. CreationShaped'
  BY DEF CreationShaped, CreationInv, Shaped
<1>2. JournalSpared(p)
  <2>1. \A c \in Creations \ Unused : /\ c \notin Unused' /\ creation'[c].reg = creation[c].reg
                                            /\ \A r \in Repos : creation[c].phase[r] # "none" => creation'[c].phase[r] # "none"
    BY DEF Unused
  <2> QED
    BY <2>1 DEF JournalSpared, CreationInv, AddOK, Open
<1>3. MembersKnown' /\ OneOpen' /\ MadeOK'
  BY DEF CreationInv, MembersKnown, Unused, OneOpen, MadeOK, Open, Listed
<1> QED
  BY <1>1, <1>2, <1>3, EndsStep

\* A member of an open creation advances, or goes back.
LEMMA Advances ==
    ASSUME CreationInv, NEW p \in Runs, NEW r, Mine(p, r), run[p].pc # "journal", run[p].c \in Open,
           NEW phase \in Wrote \cup {"PLANNED"}, Advance(run[p].c, r, phase)
    PROVE  /\ CreationShaped' /\ JournalSpared(p) /\ Open' = Open /\ Unused' = Unused /\ MembersKnown' /\ OneOpen'
           /\ \A d \in Creations : /\ creation'[d].reg = creation[d].reg /\ creation'[d].state = creation[d].state
                                   /\ creation'[d].existed = creation[d].existed
                                   /\ creation'[d].start = creation[d].start
           /\ creation'[run[p].c].phase[r] = phase
           /\ \A d \in Creations, s \in Repos : d # run[p].c \/ s # r => creation'[d].phase[s] = creation[d].phase[s]
           /\ UNCHANGED <<git, made>> /\ (phase \in Wrote \/ (phase = "PLANNED" /\ ~Listed(git[r]))) => MadeOK'
<1> DEFINE c == run[p].c
<1>1. c \in Creations /\ r \in Repos
  BY Alone DEF Open
<1>2. CreationShaped'
  BY <1>1 DEF CreationInv, Shaped, CreationShaped, Advance
<1>3. /\ \A d \in Creations : /\ creation'[d].reg = creation[d].reg /\ creation'[d].state = creation[d].state
                              /\ creation'[d].existed = creation[d].existed
                              /\ creation'[d].start = creation[d].start
      /\ creation'[c].phase[r] = phase
      /\ \A d \in Creations, s \in Repos : d # c \/ s # r => creation'[d].phase[s] = creation[d].phase[s]
  BY <1>1 DEF CreationInv, Shaped, Advance
<1>4. Open' = Open /\ Unused' = Unused
  BY <1>3 DEF Open, Unused
<1>5. JournalSpared(p)
  <2>1. ASSUME NEW q \in Runs \ {p}, add[q].step # "off"
        PROVE  /\ creation'[add[q].c].state = "IN_PROGRESS" /\ creation'[add[q].c].phase[add[q].repo] = "APPLYING"
    <3>1. AddOK(q) /\ add[q].repo # r
      BY <2>1, Alone DEF CreationInv
    <3> QED
      BY <1>3, <2>1, <3>1 DEF AddOK, Open
  <2>2. \A d \in Creations, s \in Repos : creation[d].phase[s] # "none" => creation'[d].phase[s] # "none"
    BY <1>3 DEF Wrote
  <2> QED
    BY <1>3, <1>4, <2>1, <2>2 DEF JournalSpared
<1>8. MembersKnown'
  <2>1. c \notin Unused /\ creation[c].phase[r] # "none"
    <3>1. run[p].pc \in {"recover", "apply", "git", "register"} /\ RunOK(p)
      BY DEF Mine, Working, CreationInv
    <3> QED
      BY <3>1 DEF RunOK, WorkOK, ReadOK, Mine
  <2> QED
    BY <1>1, <1>3, <1>4, <2>1 DEF MembersKnown, CreationInv
<1>6. OneOpen'
  BY <1>4 DEF OneOpen, CreationInv
<1>7. ASSUME UNCHANGED <<git, made>>, phase \in Wrote \/ (phase = "PLANNED" /\ ~Listed(git[r]))
      PROVE  MadeOK'
  <2>1. MadeOK
    BY DEF CreationInv
  <2>2. ASSUME NEW s \in Repos, made[s] # 0, Listed(git[s])
        PROVE  /\ made[s] \in Creations /\ creation'[made[s]].state \in {"IN_PROGRESS", "COMPLETED"}
               /\ creation'[made[s]].phase[s] \in Wrote
    BY <1>3, <1>7, <2>1, <2>2 DEF MadeOK
  <2> QED
    BY <1>7, <2>2 DEF MadeOK, Listed
<1> QED
  BY <1>2, <1>3, <1>4, <1>5, <1>6, <1>7, <1>8

\* A run that works goes on working.
LEMMA WorkStep ==
    ASSUME CreationInv, NEW p \in Runs, At(p), run[p].pc \in Working, WorkOK(p)', run'[p].pc \in Working,
           run'[p].repos = run[p].repos, run'[p].c = run[p].c, run'[p].reg = run[p].reg,
           run'[p].resume = run[p].resume, run'[p].open = run[p].open,
           run[p].pc # "journal", run'[p].pc # "journal", run'[p].pc = "recover" => run[p].pc = "recover",
           UNCHANGED <<git, lease, reg, made>>, Aside,
           \/ UNCHANGED creation
           \/ \E r \in run[p].repos, phase \in Wrote : run[p].c \in Open /\ Advance(run[p].c, r, phase),
           DOMAIN add' = Runs, DOMAIN add'[p] = {"step", "repo", "makes", "start", "c"},
           \A q \in Runs \ {p} : add'[q] = add[q], AddOK(p)', GitSpared(p)
    PROVE  CreationInv'
<1>1. CreationShaped' /\ JournalSpared(p) /\ MembersKnown' /\ OneOpen' /\ MadeOK' /\ \A c \in Creations : creation'[c].reg = creation[c].reg
  <2>1. CASE UNCHANGED creation
    <3>1. CreationShaped'
      BY <2>1 DEF CreationShaped, CreationInv, Shaped
    <3>2. JournalSpared(p)
      <4>1. \A c \in Creations \ Unused : /\ c \notin Unused' /\ creation'[c].reg = creation[c].reg
                                            /\ \A r \in Repos : creation[c].phase[r] # "none" => creation'[c].phase[r] # "none"
        BY <2>1 DEF Unused
      <4> QED
        BY <2>1, <4>1 DEF JournalSpared, CreationInv, AddOK, Open
    <3>3. MembersKnown' /\ OneOpen' /\ MadeOK'
      BY <2>1 DEF CreationInv, MembersKnown, Unused, OneOpen, MadeOK, Open, Listed
    <3> QED
      BY <2>1, <3>1, <3>2, <3>3
  <2>2. ASSUME NEW r \in run[p].repos, NEW phase \in Wrote, run[p].c \in Open, Advance(run[p].c, r, phase)
        PROVE  CreationShaped' /\ JournalSpared(p) /\ MembersKnown' /\ OneOpen' /\ MadeOK' /\ \A c \in Creations : creation'[c].reg = creation[c].reg
    BY <2>2, Advances DEF Mine
  <2> QED
    BY <2>1, <2>2
<1>2. Shaped'
  BY <1>1 DEF CreationInv, Shaped, At, Aside, CreationShaped
<1>3. RunOK(p)'
  <2>1. RunOK(p)
    BY DEF CreationInv
  <2>2. LeaseOK(p)'
    BY <2>1 DEF RunOK, LeaseOK, Working, Holding
  <2>3. ReadOK(p)'
    BY <1>1, <2>1 DEF RunOK, WorkOK, ReadOK, Working, Holding, JournalSpared
  <2> QED
    BY <2>2, <2>3 DEF RunOK
<1>4. LeasesSpared(p)
  BY DEF LeasesSpared
<1>5. OrphansSpared(p)
  BY DEF OrphansSpared, CreationInv, AddOK, Orphan
<1>6. IdsOK'
  BY <1>1, IdsKept DEF Aside
<1> QED
  BY <1>1, <1>2, <1>3, <1>4, <1>5, <1>6, OneRunMoves

-----------------------------------------------------------------------------
\* Up to the leases.

LEMMA CurrentIsOpen ==
    ASSUME CreationInv, Open # {}
    PROVE  /\ Current.id \in Open /\ \A c \in Open : Current.id = c
           /\ Current.phase = creation[Current.id].phase
BY DEF Current, CreationInv, OneOpen

LEMMA StartFreshStep ==
    ASSUME CreationInv, NEW p \in Runs, NEW repos \in Asked, NEW from \in Froms, StartFresh(p, repos, from)
    PROVE  CreationInv'
<1>1. /\ Free(p) /\ repos # {} /\ AllPlanned(Current.phase) /\ repos \subseteq Repos /\ (\A r \in repos : reg[r] # 0)
      /\ UNCHANGED <<git, add, reg, row, lease, creation, made, touched>>
      /\ run' = [run EXCEPT ![p] = [Idle EXCEPT !.pc = "lease", !.repos = repos, !.reg = reg, !.from = from,
                                                !.open = Current]]
      /\ spent' = [spent EXCEPT !.fresh = @ + 1]
  BY CreationAssumption DEF StartFresh
<1>2. /\ At(p) /\ run'[p].pc = "lease" /\ ~run'[p].resume /\ run'[p].repos = repos /\ run'[p].reg = reg
      /\ run'[p].open = Current /\ run'[p].unread = {} /\ run'[p].todo = {} /\ run'[p].rest = {}
  BY <1>1, IdleShape DEF CreationInv, Shaped, At, Fields
<1>3. Aside /\ DOMAIN lease' = Repos
  BY <1>1 DEF CreationInv, Shaped, Aside
<1>4. RunOK(p)'
  BY <1>1, <1>2 DEF RunOK, WorkOK, LeaseOK, ReadOK, Holding, AllPlanned
<1>5. LeasesSpared(p) /\ OrphansSpared(p)
  BY <1>1, <1>2 DEF LeasesSpared, OrphansSpared, Working
<1> QED
  BY <1>1, <1>2, <1>3, <1>4, <1>5, QuietStep DEF Free

LEMMA StartResumeStep ==
    ASSUME CreationInv, NEW p \in Runs, StartResume(p)
    PROVE  CreationInv'
<1> DEFINE c == Current.id
           left == {r \in Repos : Current.phase[r] \notin {"none", "REGISTERED"}}
<1>1. /\ Free(p) /\ Open # {} /\ \A r \in left : reg[r] = creation[c].reg[r]
      /\ UNCHANGED <<git, add, reg, row, lease, creation, made, touched, spent>>
      /\ run' = [run EXCEPT ![p] = [Idle EXCEPT !.pc = IF left = {} THEN "announce" ELSE "lease", !.resume = TRUE,
                                                !.repos = left, !.reg = reg, !.open = Current, !.c = c]]
  BY DEF StartResume
<1>2. c \in Creations \ Unused
  BY <1>1, CurrentIsOpen DEF Open, Unused
<1>3. left \subseteq Repos /\ \A r \in left : creation[c].phase[r] # "none" /\ reg[r] # 0
  BY <1>1, <1>2, CurrentIsOpen DEF CreationInv, MembersKnown
<1> HIDE DEF left
<1>4. /\ At(p) /\ run'[p].pc = (IF left = {} THEN "announce" ELSE "lease") /\ run'[p].resume /\ run'[p].repos = left
      /\ run'[p].reg = reg /\ run'[p].open = Current /\ run'[p].c = c
      /\ run'[p].unread = {} /\ run'[p].todo = {} /\ run'[p].rest = {}
  BY <1>1, IdleShape DEF CreationInv, Shaped, At, Fields
<1>5. Aside /\ DOMAIN lease' = Repos
  BY <1>1 DEF CreationInv, Shaped, Aside
<1>6. RunOK(p)'
  <2>1. Unused' = Unused
    BY <1>1 DEF Unused
  <2> QED
    BY <1>1, <1>2, <1>3, <1>4, <2>1 DEF RunOK, WorkOK, LeaseOK, ReadOK, Holding
<1>7. LeasesSpared(p) /\ OrphansSpared(p)
  BY <1>1, <1>4 DEF LeasesSpared, OrphansSpared, Working
<1> QED
  BY <1>1, <1>4, <1>5, <1>6, <1>7, QuietStep DEF Free

LEMMA GoesShape ==
    ASSUME CreationInv, NEW p \in Runs, NEW pc, Goes(p, pc)
    PROVE  At(p) /\ run'[p] = [run[p] EXCEPT !.pc = pc] /\ run'[p].pc = pc
           /\ run'[p].resume = run[p].resume /\ run'[p].repos = run[p].repos /\ run'[p].reg = run[p].reg
           /\ run'[p].open = run[p].open /\ run'[p].c = run[p].c /\ run'[p].unread = run[p].unread
           /\ run'[p].todo = run[p].todo /\ run'[p].makes = run[p].makes /\ run'[p].start = run[p].start
           /\ run'[p].rest = run[p].rest /\ run'[p].via = run[p].via
BY DEF Goes, CreationInv, Shaped, At, Fields

LEMMA AcquireStep ==
    ASSUME CreationInv, ~SlowGit, NEW p \in Runs, Acquire(p)
    PROVE  CreationInv'
<1>1. run[p].pc = "lease" /\ UNCHANGED <<git, add, reg, row, creation, made, touched, spent>>
  BY DEF Acquire
<1>2. Aside
  BY <1>1 DEF CreationInv, Shaped, Aside
<1>3. ASSUME \A r \in run[p].repos : Takeable(p, r), Goes(p, "check"),
             lease' = [r \in Repos |-> IF r \in run[p].repos THEN p ELSE lease[r]]
      PROVE  CreationInv'
  <2>1. At(p) /\ run'[p].pc = "check" /\ run'[p].resume = run[p].resume /\ run'[p].repos = run[p].repos
        /\ run'[p].reg = run[p].reg /\ run'[p].open = run[p].open /\ run'[p].c = run[p].c
        /\ run'[p].unread = run[p].unread /\ run'[p].todo = run[p].todo /\ run'[p].rest = run[p].rest
    BY <1>3, GoesShape
  <2>2. RunOK(p) /\ run[p].repos \subseteq Repos /\ Unused' = Unused
    BY <1>1 DEF CreationInv, RunOK, WorkOK, Unused
  <2>3. RunOK(p)'
    <3>1. WorkOK(p)'
      BY <1>1, <2>1, <2>2 DEF RunOK, WorkOK, Holding
    <3>2. LeaseOK(p)'
      BY <1>3, <2>1, <2>2 DEF LeaseOK
    <3>3. ReadOK(p)'
      BY <1>1, <2>1, <2>2 DEF RunOK, ReadOK, AllPlanned
    <3> QED
      BY <3>1, <3>2, <3>3 DEF RunOK
  <2>4. LeasesSpared(p)
    BY <1>3, CreationAssumption DEF LeasesSpared, Takeable
  <2>5. OrphansSpared(p)
    <3> SUFFICES ASSUME NEW q \in Runs \ {p}, add[q].step # "off", run[q].pc = "off", add[q].repo \in run[p].repos,
                        run[p].resume, run[p].c = add[q].c
                 PROVE  FALSE
      BY <2>1 DEF OrphansSpared, Working
    <3>1. Takeable(p, add[q].repo)
      BY <1>3
    <3>2. Orphan(q)
      BY DEF CreationInv, AddOK
    <3>3. reg[add[q].repo] = creation[add[q].c].reg[add[q].repo]
      BY <1>1, <2>2, <3>1 DEF RunOK, ReadOK, Takeable
    <3> QED
      BY <3>1, <3>2, <3>3, CreationAssumption DEF Orphan, Takeable
  <2> QED
    BY <1>1, <1>2, <1>3, <2>1, <2>3, <2>4, <2>5, NoGit, QuietStep
<1>4. CASE Ends(p)
  BY <1>1, <1>2, <1>4, JustEnds
<1> QED
  BY <1>3, <1>4 DEF Acquire

LEMMA MeasureStep ==
    ASSUME CreationInv, NEW p \in Runs, Measure(p)
    PROVE  CreationInv'
<1> DEFINE makes == {r \in run[p].repos : git[r].branch = None}
           start == [r \in Repos |-> IF r \in run[p].repos THEN StartOf(git[r], run[p].from) ELSE None]
<1>0. /\ \/ Ends(p) /\ UNCHANGED touched
         \/ /\ Current = run[p].open
            /\ run' = [run EXCEPT ![p].pc = "journal", ![p].makes = makes, ![p].start = start]
            /\ touched' = [r \in Repos |-> IF r \in run[p].repos THEN touched[r] \ Unused ELSE touched[r]]
            /\ UNCHANGED lease
      /\ DOMAIN start = Repos
  BY DEF Measure
<1> HIDE DEF makes, start
<1>1. run[p].pc = "check" /\ ~run[p].resume /\ UNCHANGED <<git, add, reg, row, creation, made, spent>>
  BY DEF Measure
<1>2. CASE Ends(p) /\ UNCHANGED touched
  BY <1>1, <1>2, JustEnds DEF CreationInv, Shaped, Aside
<1>3. ASSUME Current = run[p].open,
             run' = [run EXCEPT ![p].pc = "journal", ![p].makes = makes, ![p].start = start],
             touched' = [r \in Repos |-> IF r \in run[p].repos THEN touched[r] \ Unused ELSE touched[r]],
             UNCHANGED lease
      PROVE  CreationInv'
  <2>1. At(p) /\ run'[p].pc = "journal" /\ run'[p].resume = run[p].resume /\ run'[p].repos = run[p].repos
        /\ run'[p].reg = run[p].reg /\ run'[p].open = run[p].open /\ run'[p].c = run[p].c
        /\ run'[p].unread = run[p].unread /\ run'[p].todo = run[p].todo /\ run'[p].rest = run[p].rest
    BY <1>0, <1>3 DEF CreationInv, Shaped, At, Fields
  <2>2. Aside /\ DOMAIN lease' = Repos
    BY <1>1, <1>3 DEF CreationInv, Shaped, Aside
  <2>3. RunOK(p)
    BY DEF CreationInv
  <2>4. RunOK(p)'
    BY <1>1, <1>3, <2>1, <2>3 DEF RunOK, WorkOK, LeaseOK, ReadOK, Holding
  <2>5. LeasesSpared(p)
    BY <1>3 DEF LeasesSpared
  <2>6. OrphansSpared(p)
    <3> SUFFICES ASSUME NEW q \in Runs \ {p}, add[q].step # "off"
                 PROVE  FALSE
      BY DEF OrphansSpared
    <3>1. AddOK(q)
      BY DEF CreationInv
    <3>2. Current.phase[add[q].repo] = "APPLYING" /\ add[q].repo \in Repos
      BY <3>1, CurrentIsOpen DEF AddOK
    <3> QED
      BY <1>1, <1>3, <2>3, <3>2 DEF RunOK, ReadOK, AllPlanned
  <2> QED
    BY <1>1, <2>1, <2>2, <2>4, <2>5, <2>6, NoGit, QuietStep
<1> QED
  BY <1>0, <1>2, <1>3

LEMMA RereadStep ==
    ASSUME CreationInv, NEW p \in Runs, Reread(p)
    PROVE  CreationInv'
<1>1. run[p].pc = "check" /\ run[p].resume /\ UNCHANGED <<git, add, reg, row, creation, made, touched, spent>>
  BY DEF Reread
<1>2. Aside
  BY <1>1 DEF CreationInv, Shaped, Aside
<1>3. CASE Ends(p)
  BY <1>1, <1>2, <1>3, JustEnds
<1>4. ASSUME Current = run[p].open, UNCHANGED lease,
             run' = [run EXCEPT ![p].pc = "recover", ![p].unread = run[p].repos]
      PROVE  CreationInv'
  <2>1. At(p) /\ run'[p].pc = "recover" /\ run'[p].resume = run[p].resume /\ run'[p].repos = run[p].repos
        /\ run'[p].reg = run[p].reg /\ run'[p].open = run[p].open /\ run'[p].c = run[p].c
        /\ run'[p].unread = run[p].repos /\ run'[p].todo = run[p].todo /\ run'[p].rest = run[p].rest
    BY <1>4 DEF CreationInv, Shaped, At, Fields
  <2>2. RunOK(p) /\ DOMAIN lease' = Repos /\ Unused' = Unused
    BY <1>1, <1>4 DEF CreationInv, Shaped, Unused
  <2>3. RunOK(p)'
    <3>1. WorkOK(p)' /\ LeaseOK(p)'
      BY <1>1, <1>4, <2>1, <2>2 DEF RunOK, WorkOK, LeaseOK, ReadOK, Holding
    <3>2. ReadOK(p)'
      BY <1>1, <2>1, <2>2 DEF RunOK, ReadOK, Holding
    <3> QED
      BY <3>1, <3>2 DEF RunOK
  <2>4. LeasesSpared(p)
    BY <1>4 DEF LeasesSpared
  <2>5. OrphansSpared(p)
    <3> SUFFICES ASSUME NEW q \in Runs \ {p}, add[q].step # "off", run[q].pc = "off", add[q].repo \in run[p].repos
                 PROVE  FALSE
      BY <2>1 DEF OrphansSpared
    <3>1. add[q].c \in Open /\ Orphan(q)
      BY DEF CreationInv, AddOK
    <3>2. run[p].c = add[q].c
      BY <1>1, <1>4, <2>2, <3>1, CurrentIsOpen DEF RunOK, ReadOK
    <3> QED
      BY <1>1, <3>1, <3>2 DEF Orphan
  <2> QED
    BY <1>1, <1>2, <2>1, <2>2, <2>3, <2>4, <2>5, NoGit, QuietStep
<1> QED
  BY <1>3, <1>4 DEF Reread

-----------------------------------------------------------------------------
\* Under the leases.

LEMMA JournalStep ==
    ASSUME CreationInv, NEW p \in Runs, Journal(p)
    PROVE  CreationInv'
<1> DEFINE old == run[p].open.id
           fresh == [state |-> "IN_PROGRESS", reg |-> run[p].reg, start |-> run[p].start,
                     phase |-> [r \in Repos |-> IF r \in run[p].repos THEN "PLANNED" ELSE "none"],
                     existed |-> run[p].repos \ run[p].makes]
<1>1. run[p].pc = "journal" /\ Unused # {} /\ UNCHANGED <<git, add, reg, row, made, touched, spent>>
  BY DEF Journal
<1>2. Aside
  BY <1>1 DEF CreationInv, Shaped, Aside
<1>3. CASE Ends(p) /\ UNCHANGED creation
  BY <1>1, <1>2, <1>3, JustEnds
<1>4. ASSUME Open \subseteq {old}, old # 0 => old \in Open /\ AllPlanned(creation[old].phase), UNCHANGED lease,
             creation' = [c \in Creations |-> IF c = New THEN fresh
                                              ELSE IF c = old THEN [creation[c] EXCEPT !.state = "SUPERSEDED"]
                                              ELSE creation[c]],
             run' = [run EXCEPT ![p].pc = "apply", ![p].c = New, ![p].todo = run[p].repos, ![p].rest = run[p].repos]
      PROVE  CreationInv'
  <2>1. New \in Unused /\ New \in Creations /\ creation[New].state = "none"
    BY <1>1 DEF New, Unused
  <2>2. 0 \notin Creations
    BY DEF Creations
  <2>3. /\ DOMAIN fresh = {"state", "phase", "reg", "existed", "start"} /\ fresh.state = "IN_PROGRESS"
        /\ fresh.reg = run[p].reg /\ DOMAIN fresh.phase = Repos
        /\ \A r \in Repos : fresh.phase[r] = IF r \in run[p].repos THEN "PLANNED" ELSE "none"
    OBVIOUS
  <2> HIDE DEF fresh
  <2>4. /\ creation'[New] = fresh
        /\ \A c \in Creations \ {New, old} : creation'[c] = creation[c]
        /\ \A c \in Creations \ {New} : c = old => /\ creation'[c].state = "SUPERSEDED"
                                                   /\ creation'[c].reg = creation[c].reg
                                                   /\ creation'[c].phase = creation[c].phase
        /\ CreationShaped'
    BY <1>4, <2>1, <2>3 DEF CreationInv, Shaped, CreationShaped
  <2> HIDE DEF old
  <2>5. Open' = {New}
    BY <1>4, <2>1, <2>3, <2>4 DEF Open
  <2>6. /\ At(p) /\ run'[p].pc = "apply" /\ run'[p].resume = run[p].resume /\ run'[p].repos = run[p].repos
        /\ run'[p].reg = run[p].reg /\ run'[p].open = run[p].open /\ run'[p].c = New
        /\ run'[p].unread = run[p].unread /\ run'[p].todo = run[p].repos /\ run'[p].rest = run[p].repos
    BY <1>4 DEF CreationInv, Shaped, At, Fields
  <2>7. Shaped'
    BY <1>1, <1>2, <1>4, <2>4, <2>6 DEF CreationInv, Shaped, At, Aside, CreationShaped
  <2>8. RunOK(p)'
    <3>1. RunOK(p)
      BY DEF CreationInv
    <3>2. New \notin Unused'
      BY <2>3, <2>4 DEF Unused
    <3>3. WorkOK(p)'
      BY <2>1, <2>6, <3>1, <3>2 DEF RunOK, WorkOK, Holding, Creations
    <3>4. LeaseOK(p)'
      BY <1>1, <1>4, <2>6, <3>1 DEF RunOK, LeaseOK, Holding
    <3>5. ReadOK(p)'
      BY <1>1, <2>3, <2>4, <2>6, <3>1 DEF RunOK, WorkOK, ReadOK, Holding
    <3> QED
      BY <3>3, <3>4, <3>5 DEF RunOK
  <2>9. \A q \in Runs : add[q].step # "off" => add[q].c \in Creations \ {New, old}
    <3> SUFFICES ASSUME NEW q \in Runs, add[q].step # "off" PROVE add[q].c \in Creations \ {New, old}
      OBVIOUS
    <3>1. AddOK(q)
      BY DEF CreationInv
    <3> QED
      BY <1>4, <2>1, <2>2, <3>1 DEF AddOK, AllPlanned, Open
  <2>10. JournalSpared(p)
    <3>1. \A c \in Creations \ Unused : /\ c \notin Unused' /\ creation'[c].reg = creation[c].reg
                                            /\ \A r \in Repos : creation[c].phase[r] # "none" => creation'[c].phase[r] # "none"
      BY <2>1, <2>4 DEF Unused
    <3>2. ASSUME NEW q \in Runs \ {p}, add[q].step # "off"
          PROVE  creation'[add[q].c].state = "IN_PROGRESS" /\ creation'[add[q].c].phase[add[q].repo] = "APPLYING"
      BY <2>4, <2>9, <3>2 DEF CreationInv, AddOK, Open
    <3> QED
      BY <3>1, <3>2 DEF JournalSpared
  <2>11. AddOK(p)' /\ GitSpared(p) /\ LeasesSpared(p)
    BY <1>1, <1>4, NoGit DEF AddOK, GitSpared, LeasesSpared
  <2>12. OrphansSpared(p)
    BY <1>1, <2>6 DEF OrphansSpared, CreationInv, AddOK, Orphan, Working
  <2>13. IdsOK'
    <3>1. \A c \in Creations, r \in Repos : creation'[c].reg[r] \in {creation[c].reg[r], run[p].reg[r]}
      BY <2>3, <2>4
    <3> QED
      BY <1>1, <1>2, <2>6, <3>1, IdsKept DEF Aside
  <2>14. OneOpen' /\ MembersKnown'
    <3>1. RunOK(p) /\ MembersKnown
      BY DEF CreationInv
    <3>2. \A r \in run[p].repos : run[p].reg[r] # 0
      BY <1>1, <3>1 DEF RunOK, ReadOK, Holding
    <3>3. ASSUME NEW c \in Creations \ Unused', NEW r \in Repos, creation'[c].phase[r] # "none"
          PROVE  creation'[c].reg[r] # 0
      <4>1. CASE c = New
        BY <2>3, <2>4, <3>2, <3>3, <4>1
      <4>2. CASE c # New
        <5>1. c \notin Unused
          BY <1>4, <2>2, <2>4, <3>3, <4>2 DEF Unused, Open
        <5> QED
          BY <2>4, <3>1, <3>3, <4>2, <5>1 DEF MembersKnown
      <4> QED
        BY <4>1, <4>2
    <3> QED
      BY <2>5, <3>3 DEF OneOpen, MembersKnown
  <2>15. MadeOK'
    <3> SUFFICES ASSUME NEW r \in Repos, made[r] # 0, Listed(git[r])
                 PROVE  /\ made[r] \in Creations /\ creation'[made[r]].state \in {"IN_PROGRESS", "COMPLETED"}
                        /\ creation'[made[r]].phase[r] \in Wrote
      BY <1>1 DEF MadeOK, Listed
    <3>1. /\ made[r] \in Creations /\ creation[made[r]].state \in {"IN_PROGRESS", "COMPLETED"}
          /\ creation[made[r]].phase[r] \in Wrote
      BY DEF CreationInv, MadeOK
    <3>2. made[r] # New /\ made[r] # old
      BY <1>4, <2>1, <2>2, <3>1 DEF AllPlanned, Wrote
    <3> QED
      BY <2>4, <3>1, <3>2
  <2> QED
    BY <1>1, <2>6, <2>7, <2>8, <2>10, <2>11, <2>12, <2>13, <2>14, <2>15, OneRunMoves
<1> QED
  BY <1>3, <1>4 DEF Journal

LEMMA RecoverStep ==
    ASSUME CreationInv, NEW p \in Runs, Recover(p)
    PROVE  CreationInv'
<1> DEFINE c == run[p].c
           r == First(run[p].unread)
           left == run[p].unread \ {r}
           read == [run[p] EXCEPT !.unread = left, !.rest = @ \cup {r}, !.pc = IF left = {} THEN "apply" ELSE @]
<1>1. run[p].pc = "recover" /\ UNCHANGED <<git, add, reg, row, made, touched, spent>>
  BY DEF Recover
<1>2. Aside /\ DOMAIN add' = Runs /\ DOMAIN add'[p] = {"step", "repo", "makes", "start", "c"} /\ RunOK(p)
      /\ add[p].step = "off"
  BY <1>1, NoGit DEF CreationInv, Shaped, Aside
<1>3. r \in run[p].unread /\ r \in run[p].repos /\ r \in Repos
  BY <1>1, <1>2, FirstIn DEF RunOK, WorkOK
<1>4. AddOK(p)' /\ GitSpared(p)
  BY <1>1, <1>2 DEF AddOK, GitSpared
<1>5. ASSUME At(p), run'[p].pc = (IF left = {} THEN "apply" ELSE "recover"), run'[p].unread = left, run'[p].rest = run[p].rest \cup {r},
             run'[p].todo \subseteq run[p].todo \cup {r}, run'[p].repos = run[p].repos, run'[p].c = run[p].c,
             run'[p].reg = run[p].reg, run'[p].resume = run[p].resume, run'[p].open = run[p].open, UNCHANGED lease,
             UNCHANGED creation \/ (c \in Open /\ Advance(c, r, "APPLIED"))
      PROVE  CreationInv'
  <2>1. Unused' = Unused
    <3>1. CASE UNCHANGED creation
      BY <3>1 DEF Unused
    <3>2. CASE c \in Open /\ Advance(c, r, "APPLIED")
      BY <1>1, <1>3, <3>2, Advances DEF Mine, Working, Wrote
    <3> QED
      BY <1>5, <3>1, <3>2
  <2>2. WorkOK(p)'
    BY <1>1, <1>2, <1>3, <1>5, <2>1 DEF RunOK, WorkOK, Holding
  <2>3. run'[p].pc \in Working /\ (run'[p].pc = "recover" => run[p].pc = "recover")
    BY <1>1, <1>5 DEF Working
  <2>4. UNCHANGED creation \/ \E s \in run[p].repos, phase \in Wrote : run[p].c \in Open /\ Advance(run[p].c, s, phase)
    BY <1>3, <1>5 DEF Wrote
  <2> HIDE DEF c, r, left
  <2> QED
    BY <1>1, <1>2, <1>4, <1>5, <2>2, <2>3, <2>4, WorkStep DEF Working
<1>6. CASE Ends(p) /\ UNCHANGED creation
  BY <1>1, <1>2, <1>6, JustEnds
<1>7. CASE c \in Open /\ Advance(c, r, "APPLIED") /\ run' = [run EXCEPT ![p] = read] /\ UNCHANGED lease
  <2>1. /\ At(p) /\ run'[p].pc = (IF left = {} THEN "apply" ELSE "recover") /\ run'[p].unread = left
        /\ run'[p].rest = run[p].rest \cup {r}
        /\ run'[p].todo = run[p].todo /\ run'[p].repos = run[p].repos /\ run'[p].c = run[p].c
        /\ run'[p].reg = run[p].reg /\ run'[p].resume = run[p].resume /\ run'[p].open = run[p].open
    <3> HIDE DEF left, r
    <3> QED
      BY <1>1, <1>7 DEF CreationInv, Shaped, At, Fields
  <2> QED
    BY <1>5, <1>7, <2>1
<1>8. CASE /\ run' = [run EXCEPT ![p] = [read EXCEPT !.todo = @ \cup {r}, !.start[r] = creation[c].start[r],
                                                     !.makes = IF git[r].branch = None THEN @ \cup {r} ELSE @]]
           /\ UNCHANGED <<lease, creation>>
  <2>1. /\ At(p) /\ run'[p].pc = (IF left = {} THEN "apply" ELSE "recover") /\ run'[p].unread = left
        /\ run'[p].rest = run[p].rest \cup {r}
        /\ run'[p].todo = run[p].todo \cup {r} /\ run'[p].repos = run[p].repos /\ run'[p].c = run[p].c
        /\ run'[p].reg = run[p].reg /\ run'[p].resume = run[p].resume /\ run'[p].open = run[p].open
    <3> HIDE DEF left, r, c
    <3> QED
      BY <1>1, <1>8 DEF CreationInv, Shaped, At, Fields
  <2> QED
    BY <1>5, <1>8, <2>1
<1> QED
  BY <1>6, <1>7, <1>8 DEF Recover

LEMMA ApplyStep ==
    ASSUME CreationInv, NEW p \in Runs, Apply(p)
    PROVE  CreationInv'
<1> DEFINE c == run[p].c
           r == First(run[p].todo)
<1>1. run[p].pc = "apply" /\ run[p].todo # {} /\ UNCHANGED <<git, reg, row, made, touched, spent>>
  BY DEF Apply
<1>2. Aside /\ RunOK(p)
  BY <1>1 DEF CreationInv, Shaped, Aside
<1>3. r \in run[p].repos /\ r \in Repos
  BY <1>1, <1>2, FirstIn DEF RunOK, WorkOK
<1>4. CASE Ends(p) /\ UNCHANGED <<creation, add>>
  BY <1>1, <1>2, <1>4, JustEnds
<1>5. CASE /\ c \in Open /\ Advance(c, r, "APPLYING") /\ Goes(p, "git") /\ UNCHANGED lease
           /\ add' = [add EXCEPT ![p] = [step |-> "begun", repo |-> r, makes |-> r \in run[p].makes,
                                         start |-> run[p].start[r], c |-> c]]
  <2>0. Unused' = Unused /\ Open' = Open /\ creation'[c].phase[r] = "APPLYING"
    <3>1. Mine(p, r) /\ c \in Open /\ Advance(c, r, "APPLYING")
      BY <1>1, <1>3, <1>5 DEF Mine, Working
    <3> HIDE DEF r
    <3>2. Unused' = Unused /\ Open' = Open
      BY <1>1, <3>1, Advances DEF Wrote
    <3>3. c \in Creations
      BY <3>1 DEF Open
    <3>4. creation'[c].phase[r] = "APPLYING"
      BY <1>3, <3>1, <3>3 DEF Advance, CreationInv, Shaped
    <3> QED
      BY <3>2, <3>4
  <2> HIDE DEF r
  <2>1. At(p) /\ run'[p].pc = "git" /\ run'[p].resume = run[p].resume /\ run'[p].repos = run[p].repos
        /\ run'[p].reg = run[p].reg /\ run'[p].open = run[p].open /\ run'[p].c = run[p].c
        /\ run'[p].unread = run[p].unread /\ run'[p].todo = run[p].todo /\ run'[p].rest = run[p].rest
    BY <1>5, GoesShape
  <2>2. /\ DOMAIN add' = Runs /\ DOMAIN add'[p] = {"step", "repo", "makes", "start", "c"}
        /\ add'[p].step = "begun" /\ add'[p].repo = r /\ add'[p].c = c /\ \A q \in Runs \ {p} : add'[q] = add[q]
    BY <1>5 DEF CreationInv, Shaped
  <2>4. WorkOK(p)'
    BY <1>1, <1>2, <2>0, <2>1 DEF RunOK, WorkOK, Holding
  <2>5. AddOK(p)'
    BY <1>3, <1>5, <2>0, <2>1, <2>2 DEF AddOK
  <2>6. GitSpared(p)
    BY <1>1, <1>3, <2>2, Alone DEF GitSpared, Mine, Working
  <2>7. \E s \in run[p].repos, phase \in Wrote : run[p].c \in Open /\ Advance(run[p].c, s, phase)
    BY <1>3, <1>5 DEF Wrote
  <2> QED
    BY <1>1, <1>2, <1>5, <2>1, <2>2, <2>4, <2>5, <2>6, <2>7, WorkStep DEF Working
<1> QED
  BY <1>4, <1>5 DEF Apply

LEMMA GitAnswersStep ==
    ASSUME CreationInv, NEW p \in Runs, GitAnswers(p)
    PROVE  CreationInv'
<1> DEFINE c == run[p].c
           r == add[p].repo
<1>1. /\ run[p].pc = "git" /\ add[p].step \in {"done", "failed"} /\ add' = [add EXCEPT ![p] = NoAdd]
      /\ UNCHANGED <<git, reg, row, made, touched, spent>>
  BY DEF GitAnswers
<1>2. Aside /\ RunOK(p) /\ AddOK(p)
  BY <1>1 DEF CreationInv, Shaped, Aside
<1>3. Mine(p, r) /\ r \in run[p].repos /\ c \in Open
  BY <1>1, <1>2 DEF AddOK, Mine, Working
<1>4. CASE Ends(p) /\ UNCHANGED creation
  BY <1>1, <1>2, <1>4, JustEnds
<1>5. CASE ~Listed(git[r]) /\ Advance(c, r, "PLANNED") /\ Ends(p)
  <2>1. /\ CreationShaped' /\ JournalSpared(p) /\ MembersKnown' /\ OneOpen' /\ MadeOK'
        /\ \A d \in Creations : creation'[d].reg = creation[d].reg
    BY <1>1, <1>3, <1>5, Advances
  <2> QED
    BY <1>1, <1>2, <1>5, <2>1, EndsStep
<1>6. CASE /\ Advance(c, r, "APPLIED") /\ run' = [run EXCEPT ![p].pc = "apply", ![p].todo = @ \ {r}]
           /\ UNCHANGED lease
  <2>1. Unused' = Unused
    BY <1>1, <1>3, <1>6, Advances DEF Wrote
  <2> HIDE DEF r
  <2>2. At(p) /\ run'[p].pc = "apply" /\ run'[p].resume = run[p].resume /\ run'[p].repos = run[p].repos
        /\ run'[p].reg = run[p].reg /\ run'[p].open = run[p].open /\ run'[p].c = run[p].c
        /\ run'[p].unread = run[p].unread /\ run'[p].todo = run[p].todo \ {r} /\ run'[p].rest = run[p].rest
    BY <1>6 DEF CreationInv, Shaped, At, Fields
  <2>3. WorkOK(p)'
    BY <1>1, <1>2, <2>1, <2>2 DEF RunOK, WorkOK, Holding
  <2>4. /\ DOMAIN add' = Runs /\ DOMAIN add'[p] = {"step", "repo", "makes", "start", "c"}
        /\ \A q \in Runs \ {p} : add'[q] = add[q]
        /\ AddOK(p)' /\ GitSpared(p)
    BY <1>1, NoAddShape DEF CreationInv, Shaped, AddOK, GitSpared
  <2>5. \E s \in run[p].repos, phase \in Wrote : run[p].c \in Open /\ Advance(run[p].c, s, phase)
    BY <1>3, <1>6 DEF Wrote
  <2> QED
    BY <1>1, <1>2, <1>6, <2>2, <2>3, <2>4, <2>5, WorkStep DEF Working
<1> QED
  BY <1>3, <1>4, <1>5, <1>6 DEF GitAnswers

LEMMA GitIsSilentStep ==
    ASSUME CreationInv, NEW p \in Runs, GitIsSilent(p)
    PROVE  CreationInv'
<1>1. /\ run[p].pc = "git" /\ add' = [add EXCEPT ![p] = NoAdd] /\ Ends(p)
      /\ UNCHANGED <<git, reg, row, creation, made, touched>> /\ spent' = [spent EXCEPT !.faults = @ + 1]
  BY DEF GitIsSilent
<1>2. Aside
  BY <1>1 DEF CreationInv, Shaped, Aside
<1> QED
  BY <1>1, <1>2, JustEnds

\* Announcing and registering: the run is on its way to the end.
LEMMA OnwardStep ==
    ASSUME CreationInv, NEW p \in Runs, At(p), run[p].pc \in {"apply", "announce", "register"},
           UNCHANGED <<git, add, lease, reg, made>>, Aside,
           run'[p].pc = "register", run'[p].repos = run[p].repos, run'[p].c = run[p].c, run'[p].reg = run[p].reg,
           run'[p].resume = run[p].resume, run'[p].open = run[p].open, run'[p].unread = run[p].unread,
           run'[p].todo = run[p].todo, run'[p].rest \subseteq run[p].rest,
           \/ UNCHANGED creation
           \/ /\ run[p].pc = "register"
              /\ \E r \in run[p].repos, phase \in Wrote : run[p].c \in Open /\ Advance(run[p].c, r, phase)
    PROVE  CreationInv'
<1>1. RunOK(p) /\ add[p].step = "off"
  BY NoGit DEF CreationInv
<1>2. AddOK(p)' /\ GitSpared(p)
  BY <1>1 DEF AddOK, GitSpared
<1>3. Unused' = Unused
  <2>1. ASSUME NEW r \in run[p].repos, NEW phase \in Wrote, run[p].c \in Open, Advance(run[p].c, r, phase),
               run[p].pc = "register"
        PROVE  Unused' = Unused
    BY <2>1, Advances DEF Mine, Working
  <2>2. CASE UNCHANGED creation
    BY <2>2 DEF Unused
  <2> QED
    BY <2>1, <2>2
<1>4. WorkOK(p)'
  BY <1>1, <1>3 DEF RunOK, WorkOK, Holding
<1>5. CASE run[p].pc = "announce"
  <2>1. LeasesSpared(p) /\ OrphansSpared(p) /\ DOMAIN lease' = Repos
    BY <1>1, <1>5 DEF RunOK, WorkOK, LeasesSpared, OrphansSpared, CreationInv, Shaped
  <2>2. RunOK(p)'
    BY <1>1, <1>4, <1>5 DEF RunOK, WorkOK, LeaseOK, ReadOK
  <2> QED
    BY <1>1, <1>5, <2>1, <2>2, QuietStep
<1>6. CASE run[p].pc # "announce"
  <2>1. DOMAIN add' = Runs /\ DOMAIN add'[p] = {"step", "repo", "makes", "start", "c"}
    BY DEF CreationInv, Shaped
  <2> QED
    BY <1>2, <1>4, <1>6, <2>1, WorkStep DEF Working
<1> QED
  BY <1>5, <1>6

LEMMA AnnounceStep ==
    ASSUME CreationInv, NEW p \in Runs, Announce(p)
    PROVE  CreationInv'
<1>1. /\ run[p].pc \in {"apply", "announce"} /\ UNCHANGED <<git, add, reg, lease, creation, made, touched, spent>>
      /\ \E via \in {"daemon", "local"} : run' = [run EXCEPT ![p].pc = "register", ![p].via = via]
      /\ DOMAIN row' = Repos
  BY DEF Announce, CreationInv, Shaped
<1>2. PICK via \in {"daemon", "local"} : run' = [run EXCEPT ![p].pc = "register", ![p].via = via]
  BY <1>1
<1>3. At(p) /\ run'[p].pc = "register" /\ run'[p].resume = run[p].resume /\ run'[p].repos = run[p].repos
      /\ run'[p].reg = run[p].reg /\ run'[p].open = run[p].open /\ run'[p].c = run[p].c
      /\ run'[p].unread = run[p].unread /\ run'[p].todo = run[p].todo /\ run'[p].rest = run[p].rest
  BY <1>2 DEF CreationInv, Shaped, At, Fields
<1>4. Aside
  BY <1>1 DEF CreationInv, Shaped, Aside
<1> QED
  BY <1>1, <1>3, <1>4, OnwardStep

LEMMA RegisteredShape ==
    ASSUME CreationInv, NEW p \in Runs, NEW failed,
           run' = [run EXCEPT ![p] = [Registered(p) EXCEPT !.failed = failed]] \/ run' = [run EXCEPT ![p] = Registered(p)]
    PROVE  /\ At(p) /\ run'[p].pc = run[p].pc /\ run'[p].resume = run[p].resume /\ run'[p].repos = run[p].repos
           /\ run'[p].reg = run[p].reg /\ run'[p].open = run[p].open /\ run'[p].c = run[p].c
           /\ run'[p].unread = run[p].unread /\ run'[p].todo = run[p].todo /\ run'[p].via = run[p].via
           /\ run'[p].rest = run[p].rest \ {First(run[p].rest)}
<1> DEFINE r == First(run[p].rest)
<1>1. /\ DOMAIN Registered(p) = Fields /\ Registered(p).rest = run[p].rest \ {r}
      /\ \A f \in Fields \ {"rest"} : Registered(p)[f] = run[p][f]
  <2> HIDE DEF r
  <2>1. Registered(p) = [run[p] EXCEPT !.rest = @ \ {r}]
    BY DEF Registered, r
  <2> QED
    BY <2>1 DEF CreationInv, Shaped, Fields
<1> HIDE DEF r
<1>2. /\ DOMAIN run' = Runs /\ \A q \in Runs \ {p} : run'[q] = run[q]
      /\ run'[p] = Registered(p) \/ run'[p] = [Registered(p) EXCEPT !.failed = failed]
  BY DEF CreationInv, Shaped
<1>3. DOMAIN run'[p] = Fields /\ \A f \in Fields \ {"failed"} : run'[p][f] = Registered(p)[f]
  BY <1>1, <1>2
<1>4. /\ run'[p].rest = run[p].rest \ {r}
      /\ \A f \in Fields \ {"failed", "rest"} : run'[p][f] = run[p][f]
  BY <1>1, <1>3 DEF Fields
<1>5. DOMAIN run[p].start = Repos
  BY DEF CreationInv, Shaped
<1> QED
  BY <1>2, <1>3, <1>4, <1>5 DEF At, Fields, r

LEMMA CannotRegisterStep ==
    ASSUME CreationInv, NEW p \in Runs, CannotRegister(p)
    PROVE  CreationInv'
<1>1. /\ run[p].pc = "register" /\ UNCHANGED <<git, add, reg, row, lease, creation, made, touched>>
      /\ spent' = spent \/ spent' = [spent EXCEPT !.faults = @ + 1]
      /\ run' = [run EXCEPT ![p] = [Registered(p) EXCEPT !.failed = TRUE]]
  BY DEF CannotRegister
<1>2. Aside
  BY <1>1 DEF CreationInv, Shaped, Aside
<1> QED
  BY <1>1, <1>2, RegisteredShape, OnwardStep

LEMMA RegisterStep ==
    ASSUME CreationInv, NEW p \in Runs, Register(p)
    PROVE  CreationInv'
<1> DEFINE c == run[p].c
           r == First(run[p].rest)
<1>1. /\ run[p].pc = "register" /\ run[p].rest # {} /\ UNCHANGED <<git, add, reg, made, touched, spent>>
      /\ row' = row \/ row' = [row EXCEPT ![r] = Listed(git[r])]
  BY DEF Register
<1>2. Aside /\ RunOK(p)
  BY <1>1 DEF CreationInv, Shaped, Aside
<1>3. r \in run[p].repos
  BY <1>1, <1>2, FirstIn DEF RunOK, WorkOK
<1>4. CASE Ends(p) /\ UNCHANGED creation
  BY <1>1, <1>2, <1>4, JustEnds
<1>5. CASE c \in Open /\ Advance(c, r, "REGISTERED") /\ run' = [run EXCEPT ![p] = Registered(p)] /\ UNCHANGED lease
  <2>1. \E s \in run[p].repos, phase \in Wrote : run[p].c \in Open /\ Advance(run[p].c, s, phase)
    BY <1>3, <1>5 DEF Wrote
  <2> HIDE DEF r, c
  <2> QED
    BY <1>1, <1>2, <1>5, <2>1, RegisteredShape, OnwardStep
<1> QED
  BY <1>4, <1>5 DEF Register

LEMMA CompleteStep ==
    ASSUME CreationInv, NEW p \in Runs, Complete(p)
    PROVE  CreationInv'
<1> DEFINE c == run[p].c
<1>1. run[p].pc = "register" /\ Ends(p) /\ UNCHANGED <<git, add, reg, row, made, touched, spent>>
  BY DEF Complete
<1>2. Aside
  BY <1>1 DEF CreationInv, Shaped, Aside
<1>3. CASE UNCHANGED creation
  BY <1>1, <1>2, <1>3, JustEnds
<1>4. CASE /\ c \in Open /\ \A r \in Repos : creation[c].phase[r] \in {"none", "REGISTERED"}
           /\ creation' = [creation EXCEPT ![c].state = "COMPLETED"]
  <2>1. c \in Creations /\ creation[c].state = "IN_PROGRESS"
    BY <1>4 DEF Open
  <2>2. /\ CreationShaped'
        /\ \A d \in Creations : /\ creation'[d].reg = creation[d].reg /\ creation'[d].phase = creation[d].phase
                                /\ creation'[d].state = IF d = c THEN "COMPLETED" ELSE creation[d].state
    BY <1>4, <2>1 DEF CreationInv, Shaped, CreationShaped
  <2>3. \A q \in Runs : add[q].step # "off" => add[q].c # c /\ add[q].c \in Creations
    BY <1>4 DEF CreationInv, AddOK, Open
  <2>4. JournalSpared(p)
    <3>1. \A d \in Creations \ Unused : /\ d \notin Unused' /\ creation'[d].reg = creation[d].reg
                                            /\ \A r \in Repos : creation[d].phase[r] # "none" => creation'[d].phase[r] # "none"
      BY <2>2 DEF Unused
    <3>2. \A q \in Runs \ {p} :
            add[q].step # "off" => /\ creation'[add[q].c].state = "IN_PROGRESS"
                                   /\ creation'[add[q].c].phase[add[q].repo] = "APPLYING"
      BY <2>2, <2>3 DEF CreationInv, AddOK, Open
    <3> QED
      BY <3>1, <3>2 DEF JournalSpared
  <2>5. MembersKnown'
    BY <2>1, <2>2 DEF CreationInv, MembersKnown, Unused
  <2>6. OneOpen' /\ MadeOK'
    BY <1>1, <2>2 DEF CreationInv, OneOpen, MadeOK, Open, Listed
  <2> QED
    BY <1>1, <1>2, <2>2, <2>4, <2>5, <2>6, EndsStep
<1> QED
  BY <1>3, <1>4 DEF Complete

-----------------------------------------------------------------------------
\* Git and others.

GitShaped == DOMAIN git = Repos /\ \A r \in Repos : DOMAIN git[r] = {"branch", "head", "tree", "away"}

\* The run stands still.
LEMMA Still ==
    ASSUME CreationInv, NEW p \in Runs, UNCHANGED <<run, creation>>
    PROVE  /\ At(p) /\ JournalSpared(p) /\ OrphansSpared(p) /\ MembersKnown' /\ OneOpen' /\ Open' = Open /\ Unused' = Unused
           /\ WorkOK(p)' /\ ReadOK(p)'
<1>1. At(p)
  BY DEF At, CreationInv, Shaped
<1>2. Open' = Open /\ Unused' = Unused
  BY DEF Open, Unused
<1>3. JournalSpared(p)
  BY <1>2 DEF JournalSpared, CreationInv, AddOK, Open
<1>4. OrphansSpared(p)
  BY DEF OrphansSpared, CreationInv, AddOK, Orphan
<1>5. MembersKnown' /\ OneOpen'
  BY <1>2 DEF MembersKnown, OneOpen, CreationInv
<1>6. WorkOK(p)' /\ ReadOK(p)'
  BY <1>2 DEF CreationInv, RunOK, WorkOK, ReadOK, AllPlanned
<1> QED
  BY <1>1, <1>2, <1>3, <1>4, <1>5, <1>6

LEMMA GitMoves ==
    ASSUME CreationInv, NEW p \in Runs, add[p].step \in {"begun", "branched", "entered"},
           UNCHANGED <<reg, row, lease, creation, run, touched>>, Aside, GitShaped', DOMAIN made' = Repos, MadeOK',
           \/ \E step \in {"branched", "entered"} : add' = [add EXCEPT ![p].step = step]
           \/ \E step \in {"done", "failed"} : Told(p, step)
    PROVE  CreationInv'
<1>1. /\ At(p) /\ JournalSpared(p) /\ OrphansSpared(p) /\ MembersKnown' /\ OneOpen' /\ Open' = Open /\ Unused' = Unused
      /\ WorkOK(p)' /\ ReadOK(p)' /\ RunOK(p) /\ AddOK(p)
  BY Still DEF CreationInv
<1>2. /\ DOMAIN add' = Runs /\ DOMAIN add'[p] = {"step", "repo", "makes", "start", "c"}
      /\ \A q \in Runs \ {p} : add'[q] = add[q]
      /\ \/ add'[p].step = "off"
         \/ /\ add'[p].repo = add[p].repo /\ add'[p].c = add[p].c
            /\ add'[p].step \in {"branched", "entered"} \/ (run[p].pc = "git" /\ add'[p].step \in {"done", "failed"})
  <2>1. ASSUME NEW step \in {"branched", "entered"}, add' = [add EXCEPT ![p].step = step]
        PROVE  <1>2!:
    BY <2>1 DEF CreationInv, Shaped
  <2>2. ASSUME NEW step \in {"done", "failed"}, Told(p, step)
        PROVE  <1>2!:
    <3>1. CASE run[p].pc = "git" /\ add' = [add EXCEPT ![p] = [@ EXCEPT !.step = step]]
      BY <3>1 DEF CreationInv, Shaped
    <3>2. CASE add' = [add EXCEPT ![p] = NoAdd]
      BY <3>2, NoAddShape DEF CreationInv, Shaped
    <3> QED
      BY <2>2, <3>1, <3>2 DEF Told
  <2> QED
    BY <2>1, <2>2
<1>3. Shaped'
  BY <1>2 DEF CreationInv, Shaped, Aside, GitShaped
<1>4. RunOK(p)' /\ LeasesSpared(p)
  BY <1>1 DEF RunOK, LeaseOK, LeasesSpared
<1>5. AddOK(p)'
  <2> SUFFICES ASSUME add'[p].step # "off" PROVE AddOK(p)'
    BY DEF AddOK
  <2>1. CASE run[p].pc = "git"
    BY <1>1, <1>2, <2>1 DEF AddOK
  <2>2. CASE run[p].pc # "git"
    <3>1. Orphan(p) /\ run[p].pc = "off"
      BY <1>1, <2>2 DEF AddOK
    <3>2. Orphan(p)'
      BY <1>2, <2>2, <3>1 DEF Orphan
    <3> QED
      BY <1>1, <1>2, <3>1, <3>2 DEF AddOK
  <2> QED
    BY <2>1, <2>2
<1>6. GitSpared(p)
  BY <1>2 DEF GitSpared, CreationInv, OneGit
<1>7. IdsOK'
  BY <1>1, IdsKept DEF Aside
<1> QED
  BY <1>1, <1>2, <1>3, <1>4, <1>5, <1>6, <1>7, OneRunMoves

LEMMA GitBeginsStep ==
    ASSUME CreationInv, NEW p \in Runs, GitBegins(p)
    PROVE  CreationInv'
<1> DEFINE r == add[p].repo
<1>1. add[p].step = "begun" /\ UNCHANGED <<reg, row, lease, creation, run, made, touched, spent>>
  BY DEF GitBegins
<1>2. r \in Repos /\ Aside /\ DOMAIN made' = Repos
  BY <1>1 DEF CreationInv, Shaped, Aside, AddOK
<1>3. GitShaped' /\ \A s \in Repos : git'[s].tree = git[s].tree
  <2>1. UNCHANGED git \/ \E b : git' = [git EXCEPT ![r].branch = b]
    BY DEF GitBegins
  <2> HIDE DEF r
  <2> QED
    BY <1>2, <2>1 DEF CreationInv, Shaped, GitShaped
<1>4. MadeOK'
  BY <1>1, <1>3 DEF CreationInv, MadeOK, Listed
<1>5. \/ \E step \in {"branched", "entered"} : add' = [add EXCEPT ![p].step = step]
      \/ \E step \in {"done", "failed"} : Told(p, step)
  BY DEF GitBegins
<1> QED
  BY <1>1, <1>2, <1>3, <1>4, <1>5, GitMoves

LEMMA GitEntersStep ==
    ASSUME CreationInv, NEW p \in Runs, GitEnters(p)
    PROVE  CreationInv'
<1> DEFINE r == add[p].repo
           c == add[p].c
<1>1. add[p].step = "branched" /\ UNCHANGED <<reg, row, lease, creation, run, touched, spent>>
  BY DEF GitEnters
<1>2. r \in Repos /\ Aside /\ c \in Open /\ creation[c].phase[r] = "APPLYING"
  BY <1>1 DEF CreationInv, Shaped, Aside, AddOK
<1>4. GitShaped' /\ DOMAIN made' = Repos /\ MadeOK'
  <2>1. CASE UNCHANGED <<git, made>>
    BY <1>1, <2>1 DEF CreationInv, Shaped, GitShaped, MadeOK, Listed
  <2>2. CASE git' = [git EXCEPT ![r].tree = "half"] /\ made' = [made EXCEPT ![r] = c]
    <3> HIDE DEF r, c
    <3>1. /\ GitShaped' /\ DOMAIN made' = Repos /\ made'[r] = c
          /\ \A s \in Repos \ {r} : git'[s] = git[s] /\ made'[s] = made[s]
      BY <1>2, <2>2 DEF CreationInv, Shaped, GitShaped
    <3>2. MadeOK'
      BY <1>1, <1>2, <3>1 DEF CreationInv, MadeOK, Listed, Open, Wrote
    <3> QED
      BY <3>1, <3>2
  <2> QED
    BY <2>1, <2>2 DEF GitEnters
<1>5. \/ \E step \in {"branched", "entered"} : add' = [add EXCEPT ![p].step = step]
      \/ \E step \in {"done", "failed"} : Told(p, step)
  BY DEF GitEnters
<1> QED
  BY <1>1, <1>2, <1>4, <1>5, GitMoves

\* The tree of a repository goes from half to whole, to nothing, or stays.
LEMMA TreeEnds ==
    ASSUME CreationInv, NEW p \in Runs, add[p].step \in {"begun", "branched", "entered"}, NEW tree,
           tree \in {git[add[p].repo].tree, "absent"} \/ git[add[p].repo].tree = "half",
           git' = [git EXCEPT ![add[p].repo].tree = tree],
           UNCHANGED <<reg, row, lease, creation, run, made, touched>>, Aside,
           \E step \in {"done", "failed"} : Told(p, step)
    PROVE  CreationInv'
<1> DEFINE r == add[p].repo
<1>1. r \in Repos /\ DOMAIN made' = Repos
  BY DEF CreationInv, Shaped, AddOK
<1>2. GitShaped' /\ git'[r].tree = tree /\ \A s \in Repos \ {r} : git'[s] = git[s]
  <2> HIDE DEF r
  <2> QED
    BY <1>1 DEF CreationInv, Shaped, GitShaped, r
<1>3. MadeOK'
  BY <1>1, <1>2 DEF CreationInv, MadeOK, Listed
<1> QED
  BY <1>1, <1>2, <1>3, GitMoves

LEMMA GitEndsStep ==
    ASSUME CreationInv, NEW p \in Runs, GitEnds(p)
    PROVE  CreationInv'
<1> DEFINE tree == IF git[add[p].repo].tree = "half" THEN "whole" ELSE git[add[p].repo].tree
<1>1. /\ add[p].step = "entered" /\ UNCHANGED <<reg, row, lease, creation, run, made, touched, spent>>
      /\ git' = [git EXCEPT ![add[p].repo].tree = tree]
      /\ \E step \in {"done", "failed"} : Told(p, step)
  BY DEF GitEnds
<1>2. Aside
  BY <1>1 DEF CreationInv, Shaped, Aside
<1>3. tree \in {git[add[p].repo].tree, "absent"} \/ git[add[p].repo].tree = "half"
  OBVIOUS
<1> HIDE DEF tree
<1> QED
  BY <1>1, <1>2, <1>3, TreeEnds

LEMMA GitFailsStep ==
    ASSUME CreationInv, NEW p \in Runs, GitFails(p)
    PROVE  CreationInv'
<1>1. /\ add[p].step \in {"branched", "entered"} /\ UNCHANGED <<reg, row, lease, creation, run, made, touched>>
      /\ spent' = [spent EXCEPT !.faults = @ + 1] /\ Told(p, "failed")
  BY DEF GitFails
<1>2. PICK left \in {"absent", "half"} :
        git' = [git EXCEPT ![add[p].repo].tree = IF add[p].step = "entered" /\ @ = "half" THEN left ELSE @]
  BY DEF GitFails
<1> DEFINE tree == IF add[p].step = "entered" /\ git[add[p].repo].tree = "half" THEN left ELSE git[add[p].repo].tree
<1>3. Aside
  BY <1>1 DEF CreationInv, Shaped, Aside
<1>4. tree \in {git[add[p].repo].tree, "absent"} \/ git[add[p].repo].tree = "half"
  OBVIOUS
<1>5. git' = [git EXCEPT ![add[p].repo].tree = tree]
  BY <1>2
<1> HIDE DEF tree
<1> QED
  BY <1>1, <1>3, <1>4, <1>5, TreeEnds

LEMMA CrashStep ==
    ASSUME CreationInv, NEW p \in Runs, Crash(p)
    PROVE  CreationInv'
<1>1. /\ run[p].pc # "off" /\ run' = [run EXCEPT ![p] = Idle] /\ spent' = [spent EXCEPT !.faults = @ + 1]
      /\ lease' = [r \in Repos |-> IF lease[r] = p THEN "dead" ELSE lease[r]]
      /\ \/ add' = [add EXCEPT ![p] = IF @.step \in {"done", "failed"} THEN NoAdd ELSE @]
         \/ add' = [add EXCEPT ![p] = NoAdd]
      /\ UNCHANGED <<git, reg, row, creation, made, touched>>
  BY DEF Crash
<1>2. At(p) /\ run'[p] = Idle /\ Aside /\ DOMAIN lease' = Repos /\ RunOK(p) /\ AddOK(p)
  BY <1>1, IdleShape DEF CreationInv, Shaped, At, Aside
<1>3. /\ DOMAIN add' = Runs /\ DOMAIN add'[p] = {"step", "repo", "makes", "start", "c"}
      /\ \A q \in Runs \ {p} : add'[q] = add[q]
      /\ add'[p].step = "off" \/ (add'[p] = add[p] /\ add[p].step \notin {"done", "failed"})
  BY <1>1, NoAddShape DEF CreationInv, Shaped
<1>4. Shaped'
  BY <1>1, <1>2, <1>3 DEF CreationInv, Shaped, At, Aside
<1>5. RunOK(p)'
  BY <1>2, IdleShape DEF RunOK, WorkOK, LeaseOK, ReadOK, Holding
<1>6. JournalSpared(p) /\ MembersKnown' /\ OneOpen' /\ MadeOK' /\ Open' = Open
  <2>1. Open' = Open /\ Unused' = Unused
    BY <1>1 DEF Open, Unused
  <2>2. JournalSpared(p)
    BY <1>1, <2>1 DEF JournalSpared, CreationInv, AddOK, Open
  <2> QED
    BY <1>1, <2>1, <2>2 DEF CreationInv, MembersKnown, OneOpen, MadeOK, Listed
<1>7. LeasesSpared(p) /\ OrphansSpared(p)
  BY <1>1, <1>2, IdleShape, CreationAssumption DEF LeasesSpared, OrphansSpared
<1>8. AddOK(p)'
  <2> SUFFICES ASSUME add'[p].step # "off" PROVE AddOK(p)'
    BY DEF AddOK
  <2>1. /\ add'[p] = add[p] /\ run[p].pc = "git" /\ add[p].repo \in run[p].repos /\ add[p].repo \in Repos
        /\ add[p].c \in Open /\ creation[add[p].c].phase[add[p].repo] = "APPLYING"
        /\ add[p].step \notin {"done", "failed"}
    BY <1>1, <1>2, <1>3 DEF AddOK
  <2>2. lease[add[p].repo] = p /\ \A q \in Runs \ {p} : ~Mine(q, add[p].repo)
    BY <2>1, Alone DEF Mine, Working
  <2>3. add[p].step \in {"off", "begun", "branched", "entered", "done", "failed"}
    BY DEF CreationInv, AddOK
  <2>4. Orphan(p)'
    <3>1. lease'[add'[p].repo] = "dead"
      BY <1>1, <2>1, <2>2
    <3>2. ASSUME NEW q \in Runs, add'[p].repo \in run'[q].repos
          PROVE  /\ run'[q].pc \notin Working
                 /\ ~(run'[q].pc = "check" /\ run'[q].resume /\ run'[q].c = add'[p].c)
      <4>1. q # p /\ run'[q] = run[q] /\ RunOK(q)
        BY <1>2, <3>2, IdleShape DEF At, CreationInv
      <4>2. run[q].pc \notin Working
        BY <2>1, <2>2, <3>2, <4>1 DEF Mine
      <4>3. run[q].pc # "check"
        BY <2>1, <2>2, <3>2, <4>1 DEF RunOK, LeaseOK, Holding
      <4> QED
        BY <4>1, <4>2, <4>3
    <3> QED
      BY <2>1, <2>3, <3>1, <3>2 DEF Orphan
  <2> QED
    BY <1>1, <1>2, <1>6, <2>1, <2>4, IdleShape DEF AddOK
<1>9. GitSpared(p)
  BY <1>3 DEF GitSpared, CreationInv, OneGit
<1>10. IdsOK'
  BY <1>1, <1>2, IdleShape, IdsKept DEF Aside
<1> QED
  BY <1>1, <1>2, <1>3, <1>4, <1>5, <1>6, <1>7, <1>8, <1>9, <1>10, OneRunMoves

\* A step of nobody's, that takes no lease from the living and frees none of the dead's.
LEMMA OthersMove ==
    ASSUME CreationInv, UNCHANGED <<run, add, creation>>, Shaped', IdsOK', MadeOK',
           \A r \in Repos : lease[r] \in Runs => lease'[r] = lease[r],
           \A p \in Runs : add[p].step # "off" =>
               LET r == add[p].repo IN lease[r] = "dead" \/ reg[r] # creation[add[p].c].reg[r]
                   => lease'[r] = "dead" \/ reg'[r] # creation[add[p].c].reg[r]
    PROVE  CreationInv'
<1>1. Open' = Open /\ Unused' = Unused
  BY DEF Open, Unused
<1>2. OneOpen' /\ MembersKnown' /\ OneGit'
  BY <1>1 DEF CreationInv, OneOpen, MembersKnown, OneGit
<1>3. ASSUME NEW p \in Runs PROVE RunOK(p)'
  <2>1. RunOK(p)
    BY DEF CreationInv
  <2>2. WorkOK(p)' /\ ReadOK(p)'
    BY <1>1, <2>1 DEF RunOK, WorkOK, ReadOK, AllPlanned
  <2>3. LeaseOK(p)'
    BY <2>1 DEF RunOK, WorkOK, LeaseOK
  <2> QED
    BY <2>2, <2>3 DEF RunOK
<1>4. ASSUME NEW p \in Runs PROVE AddOK(p)'
  <2> SUFFICES ASSUME add[p].step # "off" PROVE AddOK(p)'
    BY DEF AddOK
  <2>1. AddOK(p)
    BY DEF CreationInv
  <2>2. Orphan(p) => Orphan(p)'
    BY DEF Orphan
  <2> QED
    BY <1>1, <2>1, <2>2 DEF AddOK
<1> QED
  BY <1>2, <1>3, <1>4 DEF CreationInv

LEMMA MoreMeddling ==
    ASSUME CreationInv, UNCHANGED <<run, reg, creation>>, spent' = [spent EXCEPT !.meddling = @ + 1]
    PROVE  IdsOK' /\ DOMAIN spent' = {"fresh", "meddling", "faults"} /\ spent'.meddling = spent.meddling + 1
           /\ spent'.meddling \in Nat
<1>1. DOMAIN spent' = {"fresh", "meddling", "faults"} /\ spent'.meddling = spent.meddling + 1 /\ spent.meddling \in Nat
  BY DEF CreationInv, Shaped
<1>2. ASSUME NEW id, NEW r, Known(id, r) PROVE Known(id, r)'
  BY <1>1, <1>2 DEF Known
<1> QED
  BY <1>1, <1>2 DEF CreationInv, IdsOK

LEMMA MainMovesStep ==
    ASSUME CreationInv, NEW r \in Repos, MainMoves(r)
    PROVE  CreationInv'
<1>1. PICK c : git' = [git EXCEPT ![r].head = c]
  BY DEF MainMoves
<1>2. UNCHANGED <<add, reg, row, lease, creation, run, made, touched>> /\ spent' = [spent EXCEPT !.meddling = @ + 1]
  BY DEF MainMoves
<1>3. Shaped' /\ \A s \in Repos : git'[s].tree = git[s].tree
  BY <1>1, <1>2, MoreMeddling DEF CreationInv, Shaped
<1>4. MadeOK'
  BY <1>2, <1>3 DEF CreationInv, MadeOK, Listed
<1> QED
  BY <1>2, <1>3, <1>4, MoreMeddling, OthersMove

LEMMA MeddleStep ==
    ASSUME CreationInv, NEW r \in Repos, Meddle(r)
    PROVE  CreationInv'
<1>1. PICK branch \in {None} \cup Commits, tree \in {"absent", "dir", "whole", "other", "prunable"}, away \in BOOLEAN :
        /\ git' = [git EXCEPT ![r] = [git[r] EXCEPT !.branch = branch, !.tree = tree, !.away = away]]
        /\ made' = [made EXCEPT ![r] = IF tree = git[r].tree THEN @ ELSE 0]
  BY DEF Meddle
<1>2. /\ UNCHANGED <<add, reg, row, lease, creation, run>> /\ spent' = [spent EXCEPT !.meddling = @ + 1]
      /\ touched' = [touched EXCEPT ![r] = Creations]
  BY DEF Meddle
<1>3. Shaped' /\ git'[r].tree = tree /\ \A s \in Repos \ {r} : git'[s] = git[s]
  BY <1>1, <1>2, MoreMeddling DEF CreationInv, Shaped
<1>4. MadeOK'
  BY <1>1, <1>2, <1>3 DEF CreationInv, Shaped, MadeOK, Listed
<1> QED
  BY <1>2, <1>3, <1>4, MoreMeddling, OthersMove

LEMMA ForgetStep ==
    ASSUME CreationInv, NEW r \in Repos, Forget(r)
    PROVE  CreationInv'
<1>1. /\ reg[r] # 0 /\ lease[r] \notin Runs /\ reg' = [reg EXCEPT ![r] = 0] /\ lease' = [lease EXCEPT ![r] = None]
      /\ row' = [row EXCEPT ![r] = FALSE] /\ touched' = [touched EXCEPT ![r] = Creations]
      /\ spent' = [spent EXCEPT !.meddling = @ + 1] /\ UNCHANGED <<git, add, creation, run, made>>
  BY DEF Forget
<1>2. /\ Shaped' /\ reg'[r] = 0 /\ \A s \in Repos \ {r} : reg'[s] = reg[s] /\ lease'[s] = lease[s]
      /\ spent'.meddling = spent.meddling + 1 /\ spent.meddling \in Nat
  BY <1>1 DEF CreationInv, Shaped
<1>3. IdsOK'
  <2>1. ASSUME NEW s \in Repos, NEW id, Known(id, s) PROVE Known(id, s)'
    BY <1>2, <2>1 DEF Known
  <2>2. \A s \in Repos : Known(reg[s], s)'
    BY <1>2 DEF CreationInv, IdsOK, Known
  <2> QED
    BY <1>1, <2>1, <2>2 DEF CreationInv, IdsOK
<1>4. MadeOK'
  BY <1>1 DEF CreationInv, MadeOK, Listed
<1>5. ASSUME NEW p \in Runs, add[p].step # "off"
      PROVE  LET s == add[p].repo IN lease[s] = "dead" \/ reg[s] # creation[add[p].c].reg[s]
                 => lease'[s] = "dead" \/ reg'[s] # creation[add[p].c].reg[s]
  <2>1. add[p].repo \in Repos /\ creation[add[p].c].reg[add[p].repo] # 0
    BY <1>5 DEF CreationInv, AddOK, MembersKnown, Open, Unused
  <2> QED
    BY <1>2, <2>1
<1> QED
  BY <1>1, <1>2, <1>3, <1>4, <1>5, OthersMove

LEMMA RegisterAgainStep ==
    ASSUME CreationInv, NEW r \in Repos, RegisterAgain(r)
    PROVE  CreationInv'
<1>1. /\ reg[r] = 0 /\ reg' = [reg EXCEPT ![r] = 1 + spent.meddling]
      /\ UNCHANGED <<git, add, row, lease, creation, run, made, touched, spent>>
  BY DEF RegisterAgain
<1>2. /\ Shaped' /\ reg'[r] = spent.meddling + 1 /\ \A s \in Repos \ {r} : reg'[s] = reg[s]
      /\ spent.meddling \in Nat
  BY <1>1 DEF CreationInv, Shaped
<1>3. IdsOK'
  <2>1. ASSUME NEW s \in Repos, NEW id, Known(id, s) PROVE Known(id, s)'
    BY <1>1, <1>2, <2>1 DEF Known
  <2>2. \A s \in Repos : Known(reg[s], s)'
    BY <1>1, <1>2 DEF CreationInv, IdsOK, Known
  <2> QED
    BY <1>1, <2>1, <2>2 DEF CreationInv, IdsOK
<1>4. MadeOK'
  BY <1>1 DEF CreationInv, MadeOK, Listed
<1>5. ASSUME NEW p \in Runs, add[p].step # "off"
      PROVE  LET s == add[p].repo IN lease[s] = "dead" \/ reg[s] # creation[add[p].c].reg[s]
                 => lease'[s] = "dead" \/ reg'[s] # creation[add[p].c].reg[s]
  <2>1. add[p].repo \in Repos /\ add[p].c \in Creations
    BY <1>5 DEF CreationInv, AddOK, Open
  <2>2. Known(creation[add[p].c].reg[add[p].repo], add[p].repo)
    BY <2>1 DEF CreationInv, IdsOK
  <2> QED
    BY <1>1, <1>2, <2>1, <2>2 DEF Known
<1> QED
  BY <1>1, <1>2, <1>3, <1>4, <1>5, OthersMove

LEMMA ClearLeasesStep ==
    ASSUME CreationInv, NEW p \in Runs, NEW repos \in Asked, ClearLeases(p, repos)
    PROVE  CreationInv'
<1>1. /\ Open = {} /\ \A r \in repos : lease[r] \in {None, "dead"}
      /\ lease' = [r \in Repos |-> IF r \in repos THEN None ELSE lease[r]]
      /\ UNCHANGED <<git, add, reg, row, creation, run, made, touched, spent>>
  BY DEF ClearLeases
<1>2. Shaped'
  BY <1>1 DEF CreationInv, Shaped
<1>3. IdsOK' /\ MadeOK'
  BY <1>1 DEF CreationInv, IdsOK, Known, MadeOK, Listed
<1>4. \A q \in Runs : add[q].step = "off"
  BY <1>1 DEF CreationInv, AddOK
<1> QED
  BY <1>1, <1>2, <1>3, <1>4, CreationAssumption, OthersMove

-----------------------------------------------------------------------------
LEMMA CreationInvInit ==
    ASSUME Init
    PROVE  CreationInv
<1>1. PICK has \in Existing :
        git = [r \in Repos |-> [branch |-> IF r \in has THEN Main ELSE None, head |-> Main, tree |-> "absent", away |-> FALSE]]
  BY DEF Init
<1>2. DOMAIN git = Repos /\ \A r \in Repos : DOMAIN git[r] = {"branch", "head", "tree", "away"}
  BY <1>1
<1>3. /\ add = [p \in Runs |-> NoAdd] /\ reg = [r \in Repos |-> 1] /\ row = [r \in Repos |-> FALSE]
      /\ lease = [r \in Repos |-> None] /\ creation = [c \in Creations |-> NoCreation]
      /\ run = [p \in Runs |-> Idle] /\ made = [r \in Repos |-> 0] /\ touched = [r \in Repos |-> {}]
      /\ spent = [fresh |-> 0, meddling |-> 0, faults |-> 0]
  BY DEF Init
<1>4. /\ NoCreation.state = "none" /\ DOMAIN NoCreation = {"state", "phase", "reg", "existed", "start"}
      /\ DOMAIN NoCreation.phase = Repos /\ \A r \in Repos : NoCreation.reg[r] = 0
  BY DEF NoCreation, NoPhase
<1>5. Shaped
  BY <1>2, <1>3, <1>4, IdleShape, NoAddShape DEF Shaped
<1>6. Open = {} /\ Unused = Creations
  BY <1>3, <1>4 DEF Open, Unused
<1>7. ASSUME NEW p \in Runs PROVE RunOK(p) /\ AddOK(p)
  BY <1>3, IdleShape, NoAddShape DEF RunOK, WorkOK, LeaseOK, ReadOK, Holding, AddOK
<1>8. IdsOK
  BY <1>3, <1>4, IdleShape DEF IdsOK, Known
<1>9. MembersKnown /\ OneOpen /\ OneGit /\ MadeOK
  BY <1>3, <1>6, NoAddShape DEF MembersKnown, OneOpen, OneGit, MadeOK
<1> QED
  BY <1>5, <1>7, <1>8, <1>9 DEF CreationInv

LEMMA CreationInvStep ==
    ASSUME CreationInv, ~SlowGit, [Next]_vars
    PROVE  CreationInv'
<1>1. CASE UNCHANGED vars
  <2>1. /\ Open' = Open /\ Unused' = Unused /\ Shaped' /\ IdsOK' /\ MadeOK'
    BY <1>1 DEF vars, Open, Unused, CreationInv, Shaped, IdsOK, Known, MadeOK, Listed
  <2> QED
    BY <1>1, <2>1, OthersMove DEF vars
<1>2. ASSUME NEW p \in Runs, Step(p) PROVE CreationInv'
  BY <1>2, AcquireStep, MeasureStep, JournalStep, RereadStep, RecoverStep, ApplyStep, GitAnswersStep,
     AnnounceStep, CannotRegisterStep, RegisterStep, CompleteStep DEF Step
<1>3. ASSUME NEW p \in Runs, GitStep(p) PROVE CreationInv'
  BY <1>3, GitBeginsStep, GitEntersStep, GitEndsStep DEF GitStep
<1> QED
  BY <1>1, <1>2, <1>3, StartFreshStep, StartResumeStep, ClearLeasesStep, GitFailsStep, GitIsSilentStep,
     CrashStep, MainMovesStep, MeddleStep, ForgetStep, RegisterAgainStep DEF Next

\* Where no `git worktree add` outlives the lease of the shell that started it, the leases, the
\* journal and what Git was told agree.
THEOREM CreationInvHolds == ASSUME ~SlowGit PROVE Spec => []CreationInv
<1>1. Init => CreationInv
  BY CreationInvInit
<1>2. CreationInv /\ [Next]_vars => CreationInv'
  BY CreationInvStep
<1> QED
  BY <1>1, <1>2, PTL DEF Spec

\* `git worktree add` is run in a repository by one shell at a time (the `create` leases, which
\* --resume adopts from the dead), and for a creation that is open (create-feature.ts:429).
THEOREM OneWriterHolds == ASSUME ~SlowGit PROVE Spec => []OneWriter
<1>1. CreationInv => OneWriter
  BY DEF CreationInv, AddOK, OneGit, OneWriter, Adding
<1> QED
  BY <1>1, CreationInvHolds, PTL

\* What `git worktree add` made stays in the journal: the creation is not superseded and its
\* member is not taken back to PLANNED (sqlite-store.ts:1797, create-feature.ts:473).
THEOREM MadeIsJournalledHolds == ASSUME ~SlowGit PROVE Spec => []MadeIsJournalled
<1>1. CreationInv => MadeIsJournalled
  BY DEF CreationInv, MadeOK, MadeIsJournalled, Wrote
<1> QED
  BY <1>1, CreationInvHolds, PTL

-----------------------------------------------------------------------------
(* The worktrees, where Git is not killed half way. *)

Live(c) == creation[c].state \in {"IN_PROGRESS", "COMPLETED"}

Undisturbed(c, r) == creation[c].phase[r] # "none" /\ c \notin touched[r]

\* A member the journal says is applied, in a worktree the creation made and nobody touched.
Settled(c, r) ==
    Live(c) /\ Undisturbed(c, r) /\ made[r] = c /\ creation[c].phase[r] \in {"APPLIED", "REGISTERED"}

Leased == \A r \in Repos : lease[r] \in Runs => reg[r] # 0

\* A worktree that is there half is being made.
HalfOK == \A r \in Repos : git[r].tree = "half" => \E p \in Runs : add[p].step = "entered" /\ add[p].repo = r

BranchOfTree == \A r \in Repos : OnBranch(git[r]) => git[r].branch # None

\* The branch of a member is as planned.
BranchOK(c, r) ==
    IF r \in creation[c].existed THEN git[r].branch = creation[c].start[r]
    ELSE git[r].branch \in {None, creation[c].start[r]}

MemberOK(c, r) ==
    /\ Live(c) /\ Undisturbed(c, r) => reg[r] # 0
    /\ c \in Open /\ Undisturbed(c, r) => BranchOK(c, r)
    /\ Settled(c, r) => git[r].tree = "whole" /\ git[r].branch = creation[c].start[r]
    /\ Settled(c, r) /\ creation[c].phase[r] = "REGISTERED" => row[r]
    /\ creation[c].state = "COMPLETED" => creation[c].phase[r] \in {"none", "REGISTERED"}

MembersOK == \A c \in Creations, r \in Repos : MemberOK(c, r)

\* The same of what a run is about to journal.
PlanOK(p) ==
    run[p].pc = "journal" =>
        \A r \in run[p].repos : ~(Unused \subseteq touched[r]) =>
            /\ r \in run[p].makes <=> git[r].branch = None
            /\ r \notin run[p].makes => git[r].branch = run[p].start[r]

\* A run makes what the journal says.
StartsOK(p) ==
    /\ run[p].pc \in {"recover", "apply", "git"} =>
           \A r \in run[p].todo : run[p].start[r] = creation[run[p].c].start[r]
    /\ add[p].step # "off" => add[p].start = creation[add[p].c].start[add[p].repo]

\* What it has no more to apply has been applied, and is in the registry once the daemon answered.
RestOK(p) ==
    /\ run[p].pc \in {"off", "lease", "check", "journal", "announce"} => run[p].todo = {} /\ run[p].rest = {}
    /\ run[p].pc = "register" => run[p].todo = {}
    /\ run[p].pc \in Working =>
         \A r \in run[p].rest \ run[p].todo :
           /\ creation[run[p].c].phase[r] \in {"APPLIED", "REGISTERED"}
           /\ run[p].pc = "register" /\ run[p].via # "local" /\ Settled(run[p].c, r) => row[r]

WholeInv ==
    /\ Leased /\ HalfOK /\ BranchOfTree /\ MembersOK
    /\ \A p \in Runs : PlanOK(p) /\ StartsOK(p) /\ RestOK(p)

-----------------------------------------------------------------------------
\* What a step of p leaves of the journal, Git and the registry to the others.
JournalKept(p) ==
    \A c \in Creations \ Unused :
        /\ c \notin Unused' /\ (Live(c)' => Live(c)) /\ creation'[c].start = creation[c].start
        /\ \A r \in Repos : creation'[c].phase[r] = creation[c].phase[r] \/ Mine(p, r)

PlaceKept(p) ==
    \A r \in Repos :
        /\ \/ git'[r].branch = git[r].branch /\ made'[r] = made[r]
           \/ add[p].step # "off" /\ add[p].repo = r
        /\ touched'[r] = touched[r] \/ (touched'[r] = touched[r] \ Unused /\ run[p].pc = "check" /\ r \in run[p].repos)

RowsKept == \A c \in Creations, r \in Repos : Settled(c, r)' /\ row[r] => row'[r]

LEMMA WholeMoves ==
    ASSUME CreationInv, WholeInv, NEW p \in Runs, \A q \in Runs \ {p} : run'[q] = run[q] /\ add'[q] = add[q],
           Leased', HalfOK', BranchOfTree', MembersOK', PlanOK(p)', StartsOK(p)', RestOK(p)',
           JournalKept(p), PlaceKept(p), RowsKept
    PROVE  WholeInv'
<1>1. Unused' \subseteq Unused
  BY DEF Unused, JournalKept
<1>2. ASSUME NEW q \in Runs \ {p}
      PROVE  PlanOK(q)' /\ StartsOK(q)' /\ RestOK(q)'
  <2>1. /\ run'[q] = run[q] /\ add'[q] = add[q] /\ RunOK(q) /\ AddOK(q)
        /\ PlanOK(q) /\ StartsOK(q) /\ RestOK(q)
    BY DEF CreationInv, WholeInv
  <2>2. ASSUME NEW r, Mine(q, r)
        PROVE  /\ r \in Repos /\ ~Mine(p, r) /\ ~(add[p].step # "off" /\ add[p].repo = r)
               /\ ~(run[p].pc = "check" /\ r \in run[p].repos)
    <3>1. r \in Repos /\ lease[r] = q /\ ~Mine(p, r) /\ ~(add[p].step # "off" /\ add[p].repo = r)
      BY <2>2, Alone
    <3>2. RunOK(p)
      BY DEF CreationInv
    <3> QED
      BY <3>1, <3>2 DEF RunOK, LeaseOK, Holding
  <2>3. PlanOK(q)'
    <3> SUFFICES ASSUME run[q].pc = "journal", NEW r \in run[q].repos, ~(Unused' \subseteq touched'[r])
                 PROVE  /\ r \in run[q].makes <=> git'[r].branch = None
                        /\ r \notin run[q].makes => git'[r].branch = run[q].start[r]
      BY <2>1 DEF PlanOK
    <3>1. r \in Repos /\ touched'[r] = touched[r] /\ git'[r].branch = git[r].branch
      BY <2>2 DEF PlaceKept, Mine, Working
    <3> QED
      BY <1>1, <2>1, <3>1 DEF PlanOK
  <2>4. StartsOK(q)'
    <3>1. run[q].pc \in {"recover", "apply", "git"} => run[q].c \in Creations \ Unused
      BY <2>1 DEF RunOK, WorkOK
    <3>2. add[q].step # "off" => add[q].c \in Creations \ Unused
      BY <2>1 DEF AddOK, Open, Unused
    <3> QED
      BY <2>1, <3>1, <3>2 DEF StartsOK, JournalKept
  <2>5. RestOK(q)'
    <3> SUFFICES ASSUME run[q].pc \in Working, NEW r \in run[q].rest \ run[q].todo
                 PROVE  /\ creation'[run[q].c].phase[r] \in {"APPLIED", "REGISTERED"}
                        /\ run[q].pc = "register" /\ run[q].via # "local" /\ Settled(run[q].c, r)' => row'[r]
      BY <2>1 DEF RestOK
    <3>1. Mine(q, r) /\ run[q].pc # "journal"
      BY <2>1 DEF Mine, RunOK, WorkOK, RestOK
    <3>2. run[q].c \in Creations \ Unused
      BY <2>1, <3>1 DEF RunOK, WorkOK, Working
    <3>3. /\ r \in Repos /\ creation'[run[q].c].phase[r] = creation[run[q].c].phase[r] /\ made'[r] = made[r]
          /\ touched'[r] = touched[r]
      BY <2>2, <3>1, <3>2 DEF JournalKept, PlaceKept
    <3>4. Settled(run[q].c, r)' => Settled(run[q].c, r)
      BY <3>2, <3>3 DEF Settled, Undisturbed, JournalKept
    <3> QED
      BY <2>1, <3>2, <3>3, <3>4 DEF RestOK, RowsKept
  <2> QED
    BY <2>3, <2>4, <2>5
<1> QED
  BY <1>2 DEF WholeInv

LEMMA HalfKept ==
    ASSUME WholeInv, \A r \in Repos : git'[r].tree = "half" => git[r].tree = "half",
           \A r \in Repos, q \in Runs : add[q].step = "entered" /\ add[q].repo = r /\ git'[r].tree = "half" => add'[q] = add[q]
    PROVE  HalfOK'
BY DEF WholeInv, HalfOK

\* Where Git and the registry's ids stay.
LEMMA PlacesStay ==
    ASSUME CreationInv, WholeInv, NEW p \in Runs, UNCHANGED <<git, made, touched, reg>>,
           \A q \in Runs : add[q].step = "entered" => add'[q] = add[q]
    PROVE  HalfOK' /\ BranchOfTree' /\ PlaceKept(p)
<1>1. HalfOK'
  BY HalfKept
<1> QED
  BY <1>1 DEF WholeInv, BranchOfTree, PlaceKept, OnBranch

\* Where the journal stays too.
LEMMA MembersStay ==
    ASSUME CreationInv, WholeInv, NEW p \in Runs, UNCHANGED <<git, made, reg, creation>>,
           \A r \in Repos : touched[r] \ Unused \subseteq touched'[r],
           \A c \in Creations, r \in Repos : Settled(c, r) /\ row[r] => row'[r]
    PROVE  MembersOK' /\ JournalKept(p) /\ RowsKept
<1>1. \A c \in Creations : Live(c)' <=> Live(c)
  BY DEF Live
<1>2. \A c \in Creations : Live(c) => c \notin Unused
  BY DEF Live, Unused
<1>3. ASSUME NEW c \in Creations, NEW r \in Repos
      PROVE  MemberOK(c, r)' /\ (Settled(c, r)' => Settled(c, r))
  <2>1. MemberOK(c, r)
    BY DEF WholeInv, MembersOK
  <2>2. Live(c) /\ Undisturbed(c, r)' => Undisturbed(c, r)
    BY <1>2 DEF Undisturbed
  <2>3. Settled(c, r)' => Settled(c, r)
    BY <1>1, <2>2 DEF Settled
  <2>4. c \in Open' => c \in Open /\ Live(c)
    BY DEF Open, Live
  <2> QED
    BY <1>1, <2>1, <2>2, <2>3, <2>4 DEF MemberOK, BranchOK
<1>4. JournalKept(p)
  BY <1>1 DEF JournalKept, Unused
<1> QED
  BY <1>3, <1>4 DEF MembersOK, RowsKept

\* A run that ended has nothing to make good.
LEMMA AtRest ==
    ASSUME WholeInv, NEW p \in Runs, run'[p] = Idle, add'[p].step = "off" \/ (add'[p] = add[p] /\ UNCHANGED creation)
    PROVE  PlanOK(p)' /\ StartsOK(p)' /\ RestOK(p)'
BY IdleShape DEF WholeInv, PlanOK, StartsOK, RestOK, Working

LEMMA LeasedKept ==
    ASSUME WholeInv,
           \A r \in Repos : lease'[r] \in Runs => lease'[r] = lease[r] /\ (reg[r] # 0 => reg'[r] # 0)
    PROVE  Leased'
BY DEF WholeInv, Leased

LEMMA EndsLeased ==
    ASSUME WholeInv, NEW p \in Runs, Ends(p), UNCHANGED reg
    PROVE  Leased'
<1>1. \A r \in Repos : lease'[r] \in Runs => lease'[r] = lease[r]
  BY CreationAssumption DEF Ends
<1> QED
  BY <1>1, LeasedKept

\* A step of p that leaves Git and the journal alone.
LEMMA WholeStays ==
    ASSUME CreationInv, WholeInv, NEW p \in Runs, \A q \in Runs \ {p} : run'[q] = run[q] /\ add'[q] = add[q],
           UNCHANGED <<git, made, reg, creation>>, Leased', PlanOK(p)', StartsOK(p)', RestOK(p)',
           add[p].step = "entered" => add'[p] = add[p],
           \A r \in Repos : \/ touched'[r] = touched[r]
                            \/ touched'[r] = touched[r] \ Unused /\ run[p].pc = "check" /\ r \in run[p].repos,
           \A c \in Creations, r \in Repos : Settled(c, r) /\ row[r] => row'[r]
    PROVE  WholeInv'
<1>1. HalfOK'
  BY HalfKept
<1>2. BranchOfTree' /\ PlaceKept(p)
  BY DEF WholeInv, BranchOfTree, PlaceKept, OnBranch
<1>3. MembersOK' /\ JournalKept(p) /\ RowsKept
  BY MembersStay
<1> QED
  BY <1>1, <1>2, <1>3, WholeMoves

\* p returns, throws or dies.
LEMMA WholeEnds ==
    ASSUME CreationInv, WholeInv, NEW p \in Runs, At(p), run'[p] = Idle, Leased',
           UNCHANGED <<git, made, reg, creation, touched>>,
           \A q \in Runs \ {p} : add'[q] = add[q], add'[p] = add[p] \/ (add'[p].step = "off" /\ add[p].step # "entered"),
           \A c \in Creations, r \in Repos : Settled(c, r) /\ row[r] => row'[r]
    PROVE  WholeInv'
<1>1. PlanOK(p)' /\ StartsOK(p)' /\ RestOK(p)'
  BY AtRest
<1> QED
  BY <1>1, WholeStays DEF At

LEMMA WholeThrows ==
    ASSUME CreationInv, WholeInv, NEW p \in Runs, Ends(p), UNCHANGED <<git, made, reg, creation, touched>>,
           add' = add \/ (add' = [add EXCEPT ![p] = NoAdd] /\ add[p].step # "entered"),
           \A c \in Creations, r \in Repos : Settled(c, r) /\ row[r] => row'[r]
    PROVE  WholeInv'
<1>1. At(p) /\ run'[p] = Idle
  BY EndsShape
<1>2. Leased'
  BY EndsLeased
<1>3. \A q \in Runs \ {p} : add'[q] = add[q]
  BY DEF CreationInv, Shaped
<1>4. add'[p] = add[p] \/ (add'[p].step = "off" /\ add[p].step # "entered")
  BY NoAddShape DEF CreationInv, Shaped
<1> QED
  BY <1>1, <1>2, <1>3, <1>4, WholeEnds

LEMMA StartFreshWhole ==
    ASSUME CreationInv, WholeInv, NEW p \in Runs, NEW repos \in Asked, NEW from \in Froms, StartFresh(p, repos, from)
    PROVE  WholeInv'
<1>1. /\ Free(p) /\ UNCHANGED <<git, add, reg, row, lease, creation, made, touched>>
      /\ run' = [run EXCEPT ![p] = [Idle EXCEPT !.pc = "lease", !.repos = repos, !.reg = reg, !.from = from,
                                                !.open = Current]]
  BY DEF StartFresh
<1>2. At(p) /\ run'[p].pc = "lease" /\ run'[p].todo = {} /\ run'[p].rest = {}
  BY <1>1, IdleShape DEF CreationInv, Shaped, At, Fields
<1>3. PlanOK(p)' /\ StartsOK(p)' /\ RestOK(p)'
  BY <1>1, <1>2 DEF PlanOK, StartsOK, RestOK, Working, Free
<1>4. Leased'
  BY <1>1, LeasedKept
<1> QED
  BY <1>1, <1>2, <1>3, <1>4, WholeStays DEF At

LEMMA StartResumeWhole ==
    ASSUME CreationInv, WholeInv, NEW p \in Runs, StartResume(p)
    PROVE  WholeInv'
<1> DEFINE left == {r \in Repos : Current.phase[r] \notin {"none", "REGISTERED"}}
<1>1. /\ Free(p) /\ UNCHANGED <<git, add, reg, row, lease, creation, made, touched>>
      /\ run' = [run EXCEPT ![p] = [Idle EXCEPT !.pc = IF left = {} THEN "announce" ELSE "lease", !.resume = TRUE,
                                                !.repos = left, !.reg = reg, !.open = Current, !.c = Current.id]]
  BY DEF StartResume
<1> HIDE DEF left
<1>2. At(p) /\ run'[p].pc \in {"announce", "lease"} /\ run'[p].todo = {} /\ run'[p].rest = {}
  BY <1>1, IdleShape DEF CreationInv, Shaped, At, Fields
<1>3. PlanOK(p)' /\ StartsOK(p)' /\ RestOK(p)'
  BY <1>1, <1>2 DEF PlanOK, StartsOK, RestOK, Working, Free
<1>4. Leased'
  BY <1>1, LeasedKept
<1> QED
  BY <1>1, <1>2, <1>3, <1>4, WholeStays DEF At

LEMMA AcquireWhole ==
    ASSUME CreationInv, WholeInv, NEW p \in Runs, Acquire(p)
    PROVE  WholeInv'
<1>1. run[p].pc = "lease" /\ UNCHANGED <<git, add, reg, row, creation, made, touched, spent>>
  BY DEF Acquire
<1>2. CASE Ends(p)
  BY <1>1, <1>2, WholeThrows
<1>3. ASSUME \A r \in run[p].repos : Takeable(p, r), Goes(p, "check"),
             lease' = [r \in Repos |-> IF r \in run[p].repos THEN p ELSE lease[r]]
      PROVE  WholeInv'
  <2>1. At(p) /\ run'[p].pc = "check" /\ run'[p].todo = run[p].todo /\ run'[p].rest = run[p].rest
    BY <1>3, GoesShape
  <2>2. RunOK(p) /\ RestOK(p) /\ StartsOK(p)
    BY DEF CreationInv, WholeInv
  <2>3. PlanOK(p)' /\ StartsOK(p)' /\ RestOK(p)'
    BY <1>1, <2>1, <2>2 DEF PlanOK, StartsOK, RestOK, Working
  <2>4. \A r \in run[p].repos : reg[r] # 0
    BY <1>1, <1>3, <2>2 DEF RunOK, ReadOK, Takeable
  <2>5. Leased'
    BY <1>1, <1>3, <2>4 DEF WholeInv, Leased
  <2> QED
    BY <1>1, <2>1, <2>3, <2>5, WholeStays DEF At
<1> QED
  BY <1>2, <1>3 DEF Acquire

LEMMA MeasureWhole ==
    ASSUME CreationInv, WholeInv, NEW p \in Runs, Measure(p)
    PROVE  WholeInv'
<1> DEFINE makes == {r \in run[p].repos : git[r].branch = None}
           start == [r \in Repos |-> IF r \in run[p].repos THEN StartOf(git[r], run[p].from) ELSE None]
<1>1. run[p].pc = "check" /\ UNCHANGED <<git, add, reg, row, creation, made, spent>>
  BY DEF Measure
<1>2. CASE Ends(p) /\ UNCHANGED touched
  BY <1>1, <1>2, WholeThrows
<1>3. ASSUME run' = [run EXCEPT ![p].pc = "journal", ![p].makes = makes, ![p].start = start],
             touched' = [r \in Repos |-> IF r \in run[p].repos THEN touched[r] \ Unused ELSE touched[r]],
             UNCHANGED lease
      PROVE  WholeInv'
  <2>1. RunOK(p) /\ RestOK(p) /\ StartsOK(p) /\ run[p].repos \subseteq Repos
    BY DEF CreationInv, WholeInv, RunOK, WorkOK
  <2>2. \A r \in run[p].repos : /\ r \in makes <=> git[r].branch = None
                                /\ r \notin makes => git[r].branch = start[r]
    BY <2>1 DEF StartOf
  <2> HIDE DEF makes, start
  <2>3. /\ \A q \in Runs \ {p} : run'[q] = run[q]
        /\ run'[p].pc = "journal" /\ run'[p].repos = run[p].repos /\ run'[p].makes = makes
        /\ run'[p].start = start /\ run'[p].todo = run[p].todo /\ run'[p].rest = run[p].rest
    BY <1>3 DEF CreationInv, Shaped, Fields
  <2>4. PlanOK(p)'
    BY <1>1, <2>2, <2>3 DEF PlanOK
  <2>5. StartsOK(p)' /\ RestOK(p)'
    BY <1>1, <2>1, <2>3 DEF StartsOK, RestOK, Working
  <2>6. Leased'
    BY <1>1, <1>3, LeasedKept
  <2>7. \A r \in Repos : \/ touched'[r] = touched[r]
                         \/ touched'[r] = touched[r] \ Unused /\ run[p].pc = "check" /\ r \in run[p].repos
    BY <1>1, <1>3
  <2> QED
    BY <1>1, <2>3, <2>4, <2>5, <2>6, <2>7, WholeStays
<1> QED
  BY <1>2, <1>3 DEF Measure

LEMMA RereadWhole ==
    ASSUME CreationInv, WholeInv, NEW p \in Runs, Reread(p)
    PROVE  WholeInv'
<1>1. run[p].pc = "check" /\ UNCHANGED <<git, add, reg, row, creation, made, touched, spent>>
  BY DEF Reread
<1>2. CASE Ends(p)
  BY <1>1, <1>2, WholeThrows
<1>3. ASSUME run' = [run EXCEPT ![p].pc = "recover", ![p].unread = run[p].repos], UNCHANGED lease
      PROVE  WholeInv'
  <2>1. /\ \A q \in Runs \ {p} : run'[q] = run[q]
        /\ run'[p].pc = "recover" /\ run'[p].todo = run[p].todo /\ run'[p].rest = run[p].rest
    BY <1>3 DEF CreationInv, Shaped, Fields
  <2>2. RestOK(p) /\ StartsOK(p)
    BY DEF WholeInv
  <2>3. PlanOK(p)' /\ StartsOK(p)' /\ RestOK(p)'
    BY <1>1, <2>1, <2>2 DEF PlanOK, StartsOK, RestOK, Working
  <2>4. Leased'
    BY <1>1, <1>3, LeasedKept
  <2> QED
    BY <1>1, <2>1, <2>3, <2>4, WholeStays
<1> QED
  BY <1>2, <1>3 DEF Reread

\* A branch that is checked out at the path of a member is a worktree as planned, once it is nobody's half.
LEMMA LandedWhole ==
    ASSUME CreationInv, WholeInv, NEW p \in Runs, NEW r, Mine(p, r), run[p].pc # "journal", run[p].c \in Open,
           run[p].c \notin touched[r], OnBranch(git[r]), add[p].step # "entered"
    PROVE  git[r].tree = "whole" /\ git[r].branch = creation[run[p].c].start[r]
<1> DEFINE c == run[p].c
<1>1. r \in Repos /\ \A q \in Runs \ {p} : add[q].step # "off" => add[q].repo # r
  BY Alone
<1>2. git[r].tree = "whole"
  BY <1>1 DEF WholeInv, HalfOK, OnBranch
<1>3. c \in Creations /\ creation[c].phase[r] # "none"
  BY DEF Open, CreationInv, RunOK, ReadOK, Mine, Working
<1>4. BranchOK(c, r) /\ git[r].branch # None
  BY <1>1, <1>3 DEF WholeInv, MembersOK, MemberOK, Undisturbed, BranchOfTree
<1> QED
  BY <1>2, <1>4 DEF BranchOK

\* A member advances, and only to what is there.
LEMMA AdvancesWhole ==
    ASSUME CreationInv, WholeInv, NEW p \in Runs, NEW r, Mine(p, r), run[p].pc # "journal", run[p].c \in Open,
           NEW phase \in Wrote \cup {"PLANNED"}, Advance(run[p].c, r, phase),
           UNCHANGED <<git, made, touched, reg>>,
           phase \in {"APPLIED", "REGISTERED"} /\ run[p].c \notin touched[r] /\ made[r] = run[p].c
               => git[r].tree = "whole" /\ git[r].branch = creation[run[p].c].start[r],
           phase = "REGISTERED" /\ run[p].c \notin touched[r] /\ made[r] = run[p].c => row'[r],
           \A s \in Repos : row[s] /\ Listed(git[s]) => row'[s]
    PROVE  MembersOK' /\ JournalKept(p) /\ RowsKept
<1> DEFINE c == run[p].c
<1>1. c \in Creations /\ r \in Repos /\ creation[c].phase[r] # "none" /\ creation[c].state = "IN_PROGRESS"
  BY Alone DEF Open, CreationInv, RunOK, ReadOK, Mine, Working
<1>2. /\ Open' = Open /\ Unused' = Unused
      /\ \A d \in Creations : /\ creation'[d].reg = creation[d].reg /\ creation'[d].state = creation[d].state
                              /\ creation'[d].existed = creation[d].existed
                              /\ creation'[d].start = creation[d].start
      /\ creation'[c].phase[r] = phase
      /\ \A d \in Creations, s \in Repos : d # c \/ s # r => creation'[d].phase[s] = creation[d].phase[s]
  BY Advances
<1>3. \A d \in Creations : Live(d)' <=> Live(d)
  BY <1>2 DEF Live
<1>4. ASSUME NEW d \in Creations, NEW s \in Repos, d # c \/ s # r
      PROVE  MemberOK(d, s)' /\ (Settled(d, s)' /\ row[s] => row'[s])
  <2>1. MemberOK(d, s) /\ creation'[d].phase[s] = creation[d].phase[s]
    BY <1>2, <1>4 DEF WholeInv, MembersOK
  <2>2. (Undisturbed(d, s)' <=> Undisturbed(d, s)) /\ (Settled(d, s)' <=> Settled(d, s))
    BY <1>3, <2>1 DEF Undisturbed, Settled
  <2>3. Settled(d, s) => Listed(git[s])
    BY <2>1 DEF MemberOK, Listed
  <2> QED
    BY <1>2, <1>3, <2>1, <2>2, <2>3 DEF MemberOK, BranchOK
<1>5. ASSUME NEW d \in Creations, d = c PROVE MemberOK(d, r)' /\ (Settled(d, r)' /\ row[r] => row'[r])
  <2>1. MemberOK(d, r)
    BY <1>1 DEF WholeInv, MembersOK
  <2>2. Undisturbed(d, r)' <=> Undisturbed(d, r)
    BY <1>1, <1>2, <1>5 DEF Undisturbed, Wrote
  <2>3. Settled(d, r)' => phase \in {"APPLIED", "REGISTERED"} /\ d \notin touched[r] /\ made[r] = d
    BY <1>2, <1>5 DEF Settled, Undisturbed
  <2>4. Settled(d, r)' => git[r].tree = "whole" /\ git[r].branch = creation[d].start[r]
    BY <1>5, <2>3
  <2>5. Settled(d, r)' => Listed(git[r])
    BY <2>4 DEF Listed
  <2> QED
    BY <1>1, <1>2, <1>3, <1>5, <2>1, <2>2, <2>3, <2>4, <2>5 DEF MemberOK, BranchOK
<1>6. JournalKept(p)
  BY <1>2, <1>3 DEF JournalKept
<1> QED
  BY <1>4, <1>5, <1>6 DEF MembersOK, RowsKept

LEMMA JournalWhole ==
    ASSUME CreationInv, WholeInv, NEW p \in Runs, Journal(p)
    PROVE  WholeInv'
<1> DEFINE old == run[p].open.id
           fresh == [state |-> "IN_PROGRESS", reg |-> run[p].reg, start |-> run[p].start,
                     phase |-> [r \in Repos |-> IF r \in run[p].repos THEN "PLANNED" ELSE "none"],
                     existed |-> run[p].repos \ run[p].makes]
<1>1. run[p].pc = "journal" /\ Unused # {} /\ UNCHANGED <<git, add, reg, row, made, touched, spent>>
  BY DEF Journal
<1>2. CASE Ends(p) /\ UNCHANGED creation
  BY <1>1, <1>2, WholeThrows
<1>3. ASSUME Open \subseteq {old}, UNCHANGED lease,
             creation' = [c \in Creations |-> IF c = New THEN fresh
                                              ELSE IF c = old THEN [creation[c] EXCEPT !.state = "SUPERSEDED"]
                                              ELSE creation[c]],
             run' = [run EXCEPT ![p].pc = "apply", ![p].c = New, ![p].todo = run[p].repos, ![p].rest = run[p].repos]
      PROVE  WholeInv'
  <2>1. New \in Unused /\ New \in Creations /\ creation[New].state = "none"
    BY <1>1 DEF New, Unused
  <2>2. /\ fresh.state = "IN_PROGRESS" /\ fresh.existed = run[p].repos \ run[p].makes /\ fresh.start = run[p].start
        /\ \A r \in Repos : fresh.phase[r] = IF r \in run[p].repos THEN "PLANNED" ELSE "none"
    OBVIOUS
  <2> HIDE DEF fresh
  <2>3. /\ creation'[New] = fresh
        /\ \A c \in Creations \ {New} : \/ creation'[c] = creation[c]
                                        \/ /\ creation'[c].state = "SUPERSEDED"
                                           /\ creation'[c].start = creation[c].start
                                           /\ creation'[c].phase = creation[c].phase
    BY <1>3, <2>1 DEF CreationInv, Shaped
  <2>4. /\ \A q \in Runs \ {p} : run'[q] = run[q] /\ add'[q] = add[q]
        /\ run'[p].pc = "apply" /\ run'[p].c = New /\ run'[p].todo = run[p].repos /\ run'[p].rest = run[p].repos
        /\ run'[p].start = run[p].start
    BY <1>1, <1>3 DEF CreationInv, Shaped, Fields
  <2>5. RunOK(p) /\ PlanOK(p) /\ StartsOK(p)
    BY DEF CreationInv, WholeInv
  <2>6. HalfOK' /\ BranchOfTree' /\ PlaceKept(p)
    BY <1>1, PlacesStay
  <2>7. Leased'
    BY <1>1, <1>3, LeasedKept
  <2>8. PlanOK(p)' /\ StartsOK(p)' /\ RestOK(p)'
    <3>1. add[p].step = "off"
      BY <1>1, NoGit
    <3> QED
      BY <1>1, <2>2, <2>3, <2>4, <3>1 DEF PlanOK, StartsOK, RestOK, Working
  <2>9. ASSUME NEW c \in Creations, c = New, NEW r \in Repos PROVE MemberOK(c, r)'
    <3>0. creation'[c] = fresh
      BY <2>3, <2>9
    <3>1. ~Settled(c, r)' /\ creation'[c].state = "IN_PROGRESS"
      BY <2>2, <3>0 DEF Settled
    <3>2. ASSUME Undisturbed(c, r)' PROVE reg[r] # 0 /\ BranchOK(c, r)'
      <4>1. r \in run[p].repos /\ ~(Unused \subseteq touched[r])
        BY <1>1, <2>1, <2>2, <2>9, <3>0, <3>2 DEF Undisturbed
      <4>2. reg[r] # 0
        BY <1>1, <2>5, <4>1 DEF RunOK, LeaseOK, Holding, WholeInv, Leased
      <4>3. /\ r \in run[p].makes <=> git[r].branch = None
            /\ r \notin run[p].makes => git[r].branch = run[p].start[r]
        BY <1>1, <2>5, <4>1 DEF PlanOK
      <4>4. BranchOK(c, r)'
        BY <1>1, <2>2, <3>0, <4>1, <4>3 DEF BranchOK
      <4> QED
        BY <4>2, <4>4
    <3> QED
      BY <1>1, <3>1, <3>2 DEF MemberOK
  <2>10. ASSUME NEW c \in Creations \ {New}, NEW r \in Repos
         PROVE  MemberOK(c, r)' /\ (Live(c)' => Live(c))
    <3>1. MemberOK(c, r)
      BY DEF WholeInv, MembersOK
    <3>2. CASE creation'[c] = creation[c]
      BY <1>1, <3>1, <3>2 DEF MemberOK, Live, Undisturbed, Settled, BranchOK, Open
    <3>3. CASE creation'[c].state = "SUPERSEDED"
      BY <3>3 DEF MemberOK, Live, Settled, Open
    <3> QED
      BY <2>3, <3>2, <3>3
  <2>11. MembersOK'
    BY <2>9, <2>10 DEF MembersOK
  <2>12. JournalKept(p)
    <3>1. ASSUME NEW c \in Creations \ Unused
          PROVE  /\ c \notin Unused' /\ (Live(c)' => Live(c)) /\ creation'[c].start = creation[c].start
                 /\ \A r \in Repos : creation'[c].phase[r] = creation[c].phase[r]
      <4>1. c # New
        BY <2>1
      <4>2. Live(c)' => Live(c)
        BY <2>3, <4>1 DEF Live
      <4> QED
        BY <2>3, <4>1, <4>2 DEF Unused
    <3> QED
      BY <3>1 DEF JournalKept
  <2>13. RowsKept
    BY <1>1 DEF RowsKept
  <2> QED
    BY <2>4, <2>6, <2>7, <2>8, <2>11, <2>12, <2>13, WholeMoves
<1> QED
  BY <1>2, <1>3 DEF Journal

LEMMA RecoverWhole ==
    ASSUME CreationInv, WholeInv, NEW p \in Runs, Recover(p)
    PROVE  WholeInv'
<1> DEFINE c == run[p].c
           r == First(run[p].unread)
           left == run[p].unread \ {r}
           read == [run[p] EXCEPT !.unread = left, !.rest = @ \cup {r}, !.pc = IF left = {} THEN "apply" ELSE @]
<1>1. run[p].pc = "recover" /\ UNCHANGED <<git, add, reg, row, made, touched, spent>>
  BY DEF Recover
<1>2. RunOK(p) /\ StartsOK(p) /\ RestOK(p) /\ add[p].step = "off"
  BY <1>1, NoGit DEF CreationInv, WholeInv
<1>3. Mine(p, r) /\ r \in Repos
  BY <1>1, <1>2, FirstIn DEF RunOK, WorkOK, Mine, Working
<1>4. CASE Ends(p) /\ UNCHANGED creation
  BY <1>1, <1>4, WholeThrows
<1>5. CASE /\ MarksApplied(git[r]) /\ c \in Open /\ Advance(c, r, "APPLIED")
           /\ run' = [run EXCEPT ![p] = read] /\ UNCHANGED lease
  <2> HIDE DEF left, r
  <2>1. /\ \A q \in Runs \ {p} : run'[q] = run[q]
        /\ run'[p].pc = (IF left = {} THEN "apply" ELSE "recover") /\ run'[p].rest = run[p].rest \cup {r}
        /\ run'[p].todo = run[p].todo /\ run'[p].c = c /\ run'[p].start = run[p].start
    BY <1>1, <1>5 DEF CreationInv, Shaped, Fields
  <2>2. HalfOK' /\ BranchOfTree' /\ PlaceKept(p)
    BY <1>1, PlacesStay
  <2>3. Leased'
    BY <1>1, <1>5, LeasedKept
  <2>4. c \notin touched[r] => git[r].tree = "whole" /\ git[r].branch = creation[c].start[r]
    BY <1>1, <1>2, <1>3, <1>5, LandedWhole DEF MarksApplied
  <2>5. MembersOK' /\ JournalKept(p) /\ RowsKept
    BY <1>1, <1>3, <1>5, <2>4, AdvancesWhole DEF Wrote
  <2>6. /\ \A d \in Creations : creation'[d].start = creation[d].start
        /\ creation'[c].phase[r] = "APPLIED"
        /\ \A s \in Repos : s # r => creation'[c].phase[s] = creation[c].phase[s]
    BY <1>1, <1>3, <1>5, Advances DEF Wrote, Open
  <2>7. PlanOK(p)' /\ StartsOK(p)'
    BY <1>1, <1>2, <1>5, <2>1, <2>6 DEF PlanOK, StartsOK, Open
  <2>8. RestOK(p)'
    BY <1>1, <1>2, <1>3, <2>1, <2>6 DEF RestOK, RunOK, WorkOK, Working
  <2> QED
    BY <1>1, <2>1, <2>2, <2>3, <2>5, <2>7, <2>8, WholeMoves
<1>6. CASE /\ run' = [run EXCEPT ![p] = [read EXCEPT !.todo = @ \cup {r}, !.start[r] = creation[c].start[r],
                                                     !.makes = IF git[r].branch = None THEN @ \cup {r} ELSE @]]
           /\ UNCHANGED <<lease, creation>>
  <2> HIDE DEF left, r, c
  <2>1. /\ \A q \in Runs \ {p} : run'[q] = run[q]
        /\ run'[p].pc = (IF left = {} THEN "apply" ELSE "recover") /\ run'[p].rest = run[p].rest \cup {r}
        /\ run'[p].todo = run[p].todo \cup {r} /\ run'[p].c = run[p].c
        /\ DOMAIN run[p].start = Repos /\ run'[p].start = [run[p].start EXCEPT ![r] = creation[c].start[r]]
    BY <1>1, <1>6 DEF CreationInv, Shaped, Fields
  <2>2. run'[p].start[r] = creation[c].start[r] /\ \A s \in Repos \ {r} : run'[p].start[s] = run[p].start[s]
    BY <1>3, <2>1
  <2>3. PlanOK(p)' /\ StartsOK(p)'
    BY <1>1, <1>2, <1>6, <2>1, <2>2 DEF PlanOK, StartsOK, RunOK, WorkOK, c
  <2>4. RestOK(p)'
    BY <1>1, <1>2, <1>6, <2>1 DEF RestOK, Working
  <2>5. Leased'
    BY <1>1, <1>6, LeasedKept
  <2> QED
    BY <1>1, <1>6, <2>1, <2>3, <2>4, <2>5, WholeStays
<1> QED
  BY <1>4, <1>5, <1>6 DEF Recover

LEMMA ApplyWhole ==
    ASSUME CreationInv, WholeInv, NEW p \in Runs, Apply(p)
    PROVE  WholeInv'
<1> DEFINE c == run[p].c
           r == First(run[p].todo)
<1>1. run[p].pc = "apply" /\ run[p].todo # {} /\ UNCHANGED <<git, reg, row, made, touched, spent>>
  BY DEF Apply
<1>2. RunOK(p) /\ StartsOK(p) /\ RestOK(p) /\ add[p].step = "off"
  BY <1>1, NoGit DEF CreationInv, WholeInv
<1>3. Mine(p, r) /\ r \in Repos /\ r \in run[p].todo
  BY <1>1, <1>2, FirstIn DEF RunOK, WorkOK, Mine, Working
<1>4. CASE Ends(p) /\ UNCHANGED <<creation, add>>
  BY <1>1, <1>4, WholeThrows
<1>5. CASE /\ c \in Open /\ Advance(c, r, "APPLYING") /\ Goes(p, "git") /\ UNCHANGED lease
           /\ add' = [add EXCEPT ![p] = [step |-> "begun", repo |-> r, makes |-> r \in run[p].makes,
                                         start |-> run[p].start[r], c |-> c]]
  <2> HIDE DEF r
  <2>1. /\ At(p) /\ run'[p].pc = "git" /\ run'[p].rest = run[p].rest /\ run'[p].todo = run[p].todo
        /\ run'[p].c = c /\ run'[p].start = run[p].start
    BY <1>5, GoesShape
  <2>2. /\ \A q \in Runs \ {p} : add'[q] = add[q]
        /\ add'[p].step = "begun" /\ add'[p].repo = r /\ add'[p].start = run[p].start[r] /\ add'[p].c = c
    BY <1>5 DEF CreationInv, Shaped
  <2>3. HalfOK' /\ BranchOfTree' /\ PlaceKept(p)
    <3>1. \A q \in Runs : add[q].step = "entered" => add'[q] = add[q]
      BY <1>2, <2>2
    <3> QED
      BY <1>1, <3>1, PlacesStay
  <2>4. Leased'
    BY <1>1, <1>5, LeasedKept
  <2>5. MembersOK' /\ JournalKept(p) /\ RowsKept
    BY <1>1, <1>3, <1>5, AdvancesWhole DEF Wrote
  <2>6. /\ \A d \in Creations : creation'[d].start = creation[d].start
        /\ \A s \in Repos : s # r => creation'[c].phase[s] = creation[c].phase[s]
    BY <1>1, <1>3, <1>5, Advances DEF Wrote, Open
  <2>7. PlanOK(p)' /\ StartsOK(p)'
    BY <1>1, <1>2, <1>3, <1>5, <2>1, <2>2, <2>6 DEF PlanOK, StartsOK, Open
  <2>8. RestOK(p)'
    BY <1>1, <1>2, <1>3, <2>1, <2>6 DEF RestOK, RunOK, WorkOK, Working
  <2> QED
    BY <2>1, <2>2, <2>3, <2>4, <2>5, <2>7, <2>8, WholeMoves DEF At
<1> QED
  BY <1>4, <1>5 DEF Apply

LEMMA GitAnswersWhole ==
    ASSUME CreationInv, WholeInv, NEW p \in Runs, GitAnswers(p)
    PROVE  WholeInv'
<1> DEFINE c == run[p].c
           r == add[p].repo
<1>1. /\ run[p].pc = "git" /\ add[p].step \in {"done", "failed"} /\ add' = [add EXCEPT ![p] = NoAdd]
      /\ UNCHANGED <<git, reg, row, made, touched, spent>>
  BY DEF GitAnswers
<1>2. RunOK(p) /\ AddOK(p) /\ StartsOK(p) /\ RestOK(p)
  BY DEF CreationInv, WholeInv
<1>3. Mine(p, r) /\ r \in Repos
  BY <1>1, <1>2 DEF AddOK, Mine, Working
<1>4. /\ \A q \in Runs \ {p} : add'[q] = add[q]
      /\ add'[p].step = "off"
  BY <1>1, NoAddShape DEF CreationInv, Shaped
<1>5. HalfOK' /\ BranchOfTree' /\ PlaceKept(p)
  <2>1. \A q \in Runs : add[q].step = "entered" => add'[q] = add[q]
    BY <1>1, <1>4
  <2> QED
    BY <1>1, <2>1, PlacesStay
<1>6. CASE Ends(p) /\ UNCHANGED creation
  BY <1>1, <1>6, WholeThrows
<1>7. CASE Ends(p) /\ c \in Open /\ Advance(c, r, "PLANNED")
  <2>1. MembersOK' /\ JournalKept(p) /\ RowsKept
    BY <1>1, <1>3, <1>7, AdvancesWhole DEF Wrote
  <2>2. At(p) /\ run'[p] = Idle /\ Leased'
    BY <1>1, <1>7, EndsShape, EndsLeased
  <2>3. PlanOK(p)' /\ StartsOK(p)' /\ RestOK(p)'
    BY <1>4, <2>2, AtRest
  <2> QED
    BY <1>4, <1>5, <2>1, <2>2, <2>3, WholeMoves DEF At
<1>8. CASE /\ Landed(p) /\ Advance(c, r, "APPLIED") /\ UNCHANGED lease
           /\ run' = [run EXCEPT ![p].pc = "apply", ![p].todo = @ \ {r}]
  <2> HIDE DEF r
  <2>1. /\ \A q \in Runs \ {p} : run'[q] = run[q]
        /\ run'[p].pc = "apply" /\ run'[p].rest = run[p].rest /\ run'[p].todo = run[p].todo \ {r}
        /\ run'[p].c = c /\ run'[p].start = run[p].start
    BY <1>1, <1>8 DEF CreationInv, Shaped, Fields
  <2>2. OnBranch(git[r]) /\ c \in Open
    BY <1>8 DEF Landed, r
  <2>3. c \notin touched[r] => git[r].tree = "whole" /\ git[r].branch = creation[c].start[r]
    BY <1>1, <1>3, <2>2, LandedWhole
  <2>4. MembersOK' /\ JournalKept(p) /\ RowsKept
    BY <1>1, <1>3, <1>8, <2>2, <2>3, AdvancesWhole DEF Wrote
  <2>5. Leased'
    BY <1>1, <1>8, LeasedKept
  <2>6. /\ \A d \in Creations : creation'[d].start = creation[d].start
        /\ creation'[c].phase[r] = "APPLIED"
        /\ \A s \in Repos : s # r => creation'[c].phase[s] = creation[c].phase[s]
    BY <1>1, <1>3, <1>8, <2>2, Advances DEF Wrote, Open
  <2>7. PlanOK(p)' /\ StartsOK(p)'
    BY <1>1, <1>2, <1>4, <2>1, <2>2, <2>6 DEF PlanOK, StartsOK, Open
  <2>8. RestOK(p)'
    BY <1>1, <1>2, <2>1, <2>6 DEF RestOK, RunOK, WorkOK, Working
  <2> QED
    BY <1>4, <1>5, <2>1, <2>4, <2>5, <2>7, <2>8, WholeMoves
<1> QED
  BY <1>6, <1>7, <1>8 DEF GitAnswers

LEMMA GitIsSilentWhole ==
    ASSUME CreationInv, WholeInv, NEW p \in Runs, GitIsSilent(p)
    PROVE  WholeInv'
BY WholeThrows DEF GitIsSilent

LEMMA AnnounceWhole ==
    ASSUME CreationInv, WholeInv, NEW p \in Runs, Announce(p)
    PROVE  WholeInv'
<1>1. /\ run[p].pc \in {"apply", "announce"} /\ run[p].todo = {}
      /\ UNCHANGED <<git, add, reg, lease, creation, made, touched, spent>>
  BY DEF Announce
<1>2. RunOK(p) /\ RestOK(p) /\ StartsOK(p) /\ add[p].step = "off"
  BY <1>1, NoGit DEF CreationInv, WholeInv
<1>3. PICK via \in {"daemon", "local"} :
        /\ run' = [run EXCEPT ![p].pc = "register", ![p].via = via]
        /\ \/ via = "daemon" /\ row' = [r \in Repos |-> reg[r] # 0 /\ Listed(git[r])]
           \/ via = "local" /\ UNCHANGED row
  BY DEF Announce
<1>4. /\ \A q \in Runs \ {p} : run'[q] = run[q]
      /\ run'[p].pc = "register" /\ run'[p].via = via /\ run'[p].todo = {} /\ run'[p].rest = run[p].rest
      /\ run'[p].c = run[p].c
  BY <1>1, <1>3 DEF CreationInv, Shaped, Fields
<1>5. ASSUME via = "daemon", NEW c \in Creations, NEW r \in Repos, Settled(c, r) PROVE row'[r]
  <2>1. MemberOK(c, r) /\ Live(c) /\ Undisturbed(c, r)
    BY <1>5 DEF WholeInv, MembersOK, Settled
  <2> QED
    BY <1>3, <1>5, <2>1 DEF MemberOK, Listed
<1>6. \A c \in Creations, r \in Repos : Settled(c, r) /\ row[r] => row'[r]
  BY <1>3, <1>5
<1>7. PlanOK(p)' /\ StartsOK(p)'
  BY <1>1, <1>2, <1>4 DEF PlanOK, StartsOK
<1>8. RestOK(p)'
  <2>1. ASSUME NEW r \in run[p].rest
        PROVE  /\ creation[run[p].c].phase[r] \in {"APPLIED", "REGISTERED"}
               /\ via = "daemon" /\ Settled(run[p].c, r) => row'[r]
    <3>1. r \in Repos /\ run[p].c \in Creations /\ run[p].pc = "apply"
      BY <1>1, <1>2, <2>1 DEF RunOK, WorkOK, RestOK
    <3> QED
      BY <1>1, <1>2, <1>5, <2>1, <3>1 DEF RestOK, Working
  <2> QED
    BY <1>1, <1>3, <1>4, <2>1 DEF RestOK, Settled, Live, Undisturbed
<1>9. Leased'
  BY <1>1, LeasedKept
<1> QED
  BY <1>1, <1>4, <1>6, <1>7, <1>8, <1>9, WholeStays

LEMMA CannotRegisterWhole ==
    ASSUME CreationInv, WholeInv, NEW p \in Runs, CannotRegister(p)
    PROVE  WholeInv'
<1>1. /\ run[p].pc = "register" /\ run[p].rest # {} /\ UNCHANGED <<git, add, reg, row, lease, creation, made, touched>>
      /\ run' = [run EXCEPT ![p] = [Registered(p) EXCEPT !.failed = TRUE]]
  BY DEF CannotRegister
<1>2. RunOK(p) /\ RestOK(p) /\ StartsOK(p)
  BY DEF CreationInv, WholeInv
<1>3. /\ \A q \in Runs \ {p} : run'[q] = run[q]
      /\ run'[p].pc = "register" /\ run'[p].via = run[p].via /\ run'[p].todo = run[p].todo
      /\ run'[p].rest \subseteq run[p].rest /\ run'[p].c = run[p].c
  BY <1>1 DEF CreationInv, Shaped, Fields, Registered
<1>4. PlanOK(p)' /\ StartsOK(p)'
  BY <1>1, <1>2, <1>3 DEF PlanOK, StartsOK
<1>5. RestOK(p)'
  BY <1>1, <1>2, <1>3 DEF RestOK, Settled, Live, Undisturbed
<1>6. Leased'
  BY <1>1, LeasedKept
<1> QED
  BY <1>1, <1>3, <1>4, <1>5, <1>6, WholeStays

LEMMA RegisterWhole ==
    ASSUME CreationInv, WholeInv, NEW p \in Runs, Register(p)
    PROVE  WholeInv'
<1> DEFINE c == run[p].c
           r == First(run[p].rest)
<1>1. /\ run[p].pc = "register" /\ run[p].rest # {} /\ UNCHANGED <<git, add, reg, made, touched, spent>>
      /\ row' = IF run[p].via = "local" THEN [row EXCEPT ![r] = Listed(git[r])] ELSE row
  BY DEF Register
<1>2. RunOK(p) /\ RestOK(p) /\ StartsOK(p) /\ add[p].step = "off"
  BY <1>1, NoGit DEF CreationInv, WholeInv
<1>3. Mine(p, r) /\ r \in Repos /\ r \in run[p].rest /\ run[p].todo = {} /\ c \in Creations
  BY <1>1, <1>2, FirstIn DEF RunOK, WorkOK, Mine, Working, RestOK
<1>4. \A s \in Repos : row[s] /\ Listed(git[s]) => row'[s]
  <2> HIDE DEF r
  <2> QED
    BY <1>1, <1>3 DEF CreationInv, Shaped
<1>5. CASE Ends(p) /\ UNCHANGED creation
  <2>1. \A d \in Creations, s \in Repos : Settled(d, s) => Listed(git[s])
    BY DEF WholeInv, MembersOK, MemberOK, Listed
  <2> QED
    BY <1>1, <1>4, <1>5, <2>1, WholeThrows
<1>6. CASE c \in Open /\ Advance(c, r, "REGISTERED") /\ run' = [run EXCEPT ![p] = Registered(p)] /\ UNCHANGED lease
  <2>1. /\ \A q \in Runs \ {p} : run'[q] = run[q]
        /\ run'[p].pc = "register" /\ run'[p].via = run[p].via /\ run'[p].todo = run[p].todo
        /\ run'[p].rest = run[p].rest \ {r} /\ run'[p].c = c
    <3> HIDE DEF c
    <3> QED
      BY <1>1, <1>6 DEF CreationInv, Shaped, Fields, Registered, c
  <2>2. creation[c].phase[r] \in {"APPLIED", "REGISTERED"} /\ (run[p].via # "local" /\ Settled(c, r) => row[r])
    BY <1>1, <1>2, <1>3 DEF RestOK, Working
  <2> HIDE DEF r
  <2>3. c \notin touched[r] /\ made[r] = c =>
          git[r].tree = "whole" /\ git[r].branch = creation[c].start[r] /\ row'[r]
    <3> SUFFICES ASSUME c \notin touched[r], made[r] = c
                 PROVE  git[r].tree = "whole" /\ git[r].branch = creation[c].start[r] /\ row'[r]
      OBVIOUS
    <3>1. Settled(c, r)
      BY <1>6, <2>2 DEF Settled, Live, Undisturbed, Open
    <3>2. git[r].tree = "whole" /\ git[r].branch = creation[c].start[r]
      BY <1>3, <3>1 DEF WholeInv, MembersOK, MemberOK
    <3>3. Listed(git[r])
      BY <3>2 DEF Listed
    <3> QED
      BY <1>1, <1>3, <2>2, <3>1, <3>2, <3>3 DEF CreationInv, Shaped
  <2>4. MembersOK' /\ JournalKept(p) /\ RowsKept
    BY <1>1, <1>3, <1>4, <1>6, <2>3, AdvancesWhole DEF Wrote
  <2>5. HalfOK' /\ BranchOfTree' /\ PlaceKept(p)
    BY <1>1, PlacesStay
  <2>6. Leased'
    BY <1>1, <1>6, LeasedKept
  <2>7. /\ \A d \in Creations : creation'[d].start = creation[d].start /\ creation'[d].state = creation[d].state
        /\ \A s \in Repos : s # r => creation'[c].phase[s] = creation[c].phase[s]
    BY <1>1, <1>3, <1>6, Advances DEF Wrote, Open
  <2>8. PlanOK(p)' /\ StartsOK(p)'
    BY <1>1, <1>2, <2>1 DEF PlanOK, StartsOK
  <2>9. RestOK(p)'
    <3>1. ASSUME NEW s \in run[p].rest \ {r}
          PROVE  /\ creation'[c].phase[s] \in {"APPLIED", "REGISTERED"}
                 /\ run[p].via # "local" /\ Live(c) /\ creation'[c].phase[s] # "none" /\ c \notin touched[s] /\ made[s] = c
                      => row'[s]
      <4>1. s \in Repos /\ creation'[c].phase[s] = creation[c].phase[s]
        BY <1>2, <2>7, <3>1 DEF RunOK, WorkOK
      <4>2. creation[c].phase[s] \in {"APPLIED", "REGISTERED"} /\ (run[p].via # "local" /\ Settled(c, s) => row[s])
        BY <1>1, <1>2, <1>3, <3>1 DEF RestOK, Working
      <4> QED
        BY <1>1, <4>1, <4>2 DEF Settled, Undisturbed
    <3>2. Live(c) /\ creation'[c].state = creation[c].state
      BY <1>3, <1>6, <2>7 DEF Live, Open
    <3> QED
      BY <1>1, <1>3, <2>1, <3>1, <3>2 DEF RestOK, Settled, Undisturbed
  <2> QED
    BY <1>1, <2>1, <2>4, <2>5, <2>6, <2>8, <2>9, WholeMoves
<1> QED
  BY <1>5, <1>6 DEF Register

LEMMA CompleteWhole ==
    ASSUME CreationInv, WholeInv, NEW p \in Runs, Complete(p)
    PROVE  WholeInv'
<1> DEFINE c == run[p].c
<1>1. run[p].pc = "register" /\ Ends(p) /\ UNCHANGED <<git, add, reg, row, made, touched, spent>>
  BY DEF Complete
<1>2. CASE UNCHANGED creation
  BY <1>1, <1>2, WholeThrows
<1>3. CASE /\ c \in Open /\ \A r \in Repos : creation[c].phase[r] \in {"none", "REGISTERED"}
           /\ creation' = [creation EXCEPT ![c].state = "COMPLETED"]
  <2>1. /\ \A d \in Creations : /\ creation'[d].start = creation[d].start /\ creation'[d].existed = creation[d].existed
                                /\ creation'[d].phase = creation[d].phase
                                /\ d # c => creation'[d].state = creation[d].state
        /\ c \in Creations /\ creation[c].state = "IN_PROGRESS" /\ creation'[c].state = "COMPLETED"
    BY <1>3 DEF CreationInv, Shaped, Open
  <2> HIDE DEF c
  <2>2. \A d \in Creations : (Live(d)' <=> Live(d)) /\ (d \in Open' => d \in Open)
    BY <2>1 DEF Live, Open
  <2>3. ASSUME NEW d \in Creations, NEW r \in Repos PROVE MemberOK(d, r)'
    <3>1. MemberOK(d, r)
      BY DEF WholeInv, MembersOK
    <3>2. (Undisturbed(d, r)' <=> Undisturbed(d, r)) /\ (Settled(d, r)' <=> Settled(d, r))
      BY <1>1, <2>1, <2>2 DEF Undisturbed, Settled
    <3>3. creation'[d].state = "COMPLETED" => creation'[d].phase[r] \in {"none", "REGISTERED"}
      BY <1>3, <2>1, <3>1 DEF MemberOK
    <3> QED
      BY <1>1, <2>1, <2>2, <3>1, <3>2, <3>3 DEF MemberOK, BranchOK
  <2>4. MembersOK'
    BY <2>3 DEF MembersOK
  <2>5. JournalKept(p) /\ RowsKept
    BY <1>1, <2>1, <2>2 DEF JournalKept, RowsKept, Unused
  <2>6. HalfOK' /\ BranchOfTree' /\ PlaceKept(p)
    BY <1>1, PlacesStay
  <2>7. At(p) /\ run'[p] = Idle /\ Leased'
    BY <1>1, EndsShape, EndsLeased
  <2>8. PlanOK(p)' /\ StartsOK(p)' /\ RestOK(p)'
    BY <1>1, <2>7, NoGit, AtRest
  <2> QED
    BY <1>1, <2>4, <2>5, <2>6, <2>7, <2>8, WholeMoves DEF At
<1> QED
  BY <1>2, <1>3 DEF Complete

LEMMA CrashWhole ==
    ASSUME CreationInv, WholeInv, ~Kills, NEW p \in Runs, Crash(p)
    PROVE  WholeInv'
<1>1. /\ run' = [run EXCEPT ![p] = Idle]
      /\ lease' = [r \in Repos |-> IF lease[r] = p THEN "dead" ELSE lease[r]]
      /\ add' = [add EXCEPT ![p] = IF @.step \in {"done", "failed"} THEN NoAdd ELSE @]
      /\ UNCHANGED <<git, reg, row, creation, made, touched>>
  BY DEF Crash
<1>2. At(p) /\ run'[p] = Idle
  BY <1>1, IdleShape DEF CreationInv, Shaped, At
<1>3. \A q \in Runs \ {p} : add'[q] = add[q]
  BY <1>1 DEF CreationInv, Shaped
<1>4. add'[p] = add[p] \/ (add'[p].step = "off" /\ add[p].step # "entered")
  BY <1>1, NoAddShape DEF CreationInv, Shaped
<1>5. Leased'
  <2>1. \A r \in Repos : lease'[r] \in Runs => lease'[r] = lease[r]
    BY <1>1, CreationAssumption
  <2> QED
    BY <1>1, <2>1, LeasedKept
<1> QED
  BY <1>1, <1>2, <1>3, <1>4, <1>5, WholeEnds

-----------------------------------------------------------------------------
\* A step of the Git of p.
LEMMA GitMovesWhole ==
    ASSUME CreationInv, WholeInv, NEW p \in Runs, add[p].step \in {"begun", "branched", "entered"},
           UNCHANGED <<reg, row, lease, creation, run, touched>>, HalfOK', BranchOfTree', MembersOK',
           \/ \E step \in {"branched", "entered"} : add' = [add EXCEPT ![p].step = step]
           \/ \E step \in {"done", "failed"} : Told(p, step),
           \A s \in Repos \ {add[p].repo} : git'[s] = git[s] /\ made'[s] = made[s]
    PROVE  WholeInv'
<1>1. /\ \A q \in Runs \ {p} : add'[q] = add[q]
      /\ add'[p].step = "off" \/ (add'[p].start = add[p].start /\ add'[p].c = add[p].c /\ add'[p].repo = add[p].repo)
  <2>1. ASSUME NEW step \in {"branched", "entered"}, add' = [add EXCEPT ![p].step = step]
        PROVE  <1>1!:
    BY <2>1 DEF CreationInv, Shaped
  <2>2. ASSUME NEW step \in {"done", "failed"}, Told(p, step)
        PROVE  <1>1!:
    <3>1. CASE add' = [add EXCEPT ![p] = [@ EXCEPT !.step = step]]
      BY <3>1 DEF CreationInv, Shaped
    <3>2. CASE add' = [add EXCEPT ![p] = NoAdd]
      BY <3>2, NoAddShape DEF CreationInv, Shaped
    <3> QED
      BY <2>2, <3>1, <3>2 DEF Told
  <2> QED
    BY <2>1, <2>2
<1>2. Leased'
  BY LeasedKept
<1>3. RunOK(p) /\ AddOK(p) /\ PlanOK(p) /\ StartsOK(p) /\ RestOK(p)
  BY DEF CreationInv, WholeInv
<1>4. run[p].pc \in {"off", "git"}
  BY <1>3 DEF AddOK
<1>5. PlanOK(p)' /\ RestOK(p)'
  BY <1>3, <1>4 DEF PlanOK, RestOK
<1>6. StartsOK(p)'
  BY <1>1, <1>3 DEF StartsOK
<1>7. JournalKept(p) /\ RowsKept
  BY DEF JournalKept, RowsKept, Unused, Live
<1>8. PlaceKept(p)
  BY DEF PlaceKept
<1> QED
  BY <1>1, <1>2, <1>5, <1>6, <1>7, <1>8, WholeMoves

\* The members of the repository where Git is.
LEMMA MembersOfGit ==
    ASSUME CreationInv, WholeInv, UNCHANGED <<reg, row, creation, touched>>, NEW r \in Repos,
           \A s \in Repos \ {r} : git'[s] = git[s] /\ made'[s] = made[s],
           \A c \in Creations : /\ c \in Open /\ BranchOK(c, r) => BranchOK(c, r)'
                                /\ Settled(c, r)' => Settled(c, r) /\ git'[r].tree = git[r].tree /\ git'[r].branch = git[r].branch
    PROVE  MembersOK'
<1> SUFFICES ASSUME NEW c \in Creations, NEW s \in Repos PROVE MemberOK(c, s)'
  BY DEF MembersOK
<1>1. MemberOK(c, s) /\ (Live(c)' <=> Live(c)) /\ (Undisturbed(c, s)' <=> Undisturbed(c, s)) /\ (c \in Open' <=> c \in Open)
  BY DEF WholeInv, MembersOK, Live, Undisturbed, Open
<1>2. CASE s = r
  BY <1>1, <1>2 DEF MemberOK
<1>3. CASE s # r
  <2>1. Settled(c, s)' <=> Settled(c, s)
    BY <1>1, <1>3 DEF Settled
  <2> QED
    BY <1>1, <1>3, <2>1 DEF MemberOK, BranchOK
<1> QED
  BY <1>2, <1>3

\* Git did nothing.
LEMMA GitRefuses ==
    ASSUME CreationInv, WholeInv, NEW p \in Runs, add[p].step \in {"begun", "branched"},
           UNCHANGED <<git, made, reg, row, lease, creation, run, touched>>, \E step \in {"done", "failed"} : Told(p, step)
    PROVE  WholeInv'
<1>1. \A q \in Runs : add[q].step = "entered" => add'[q] = add[q]
  BY DEF Told, CreationInv, Shaped
<1>2. HalfOK' /\ BranchOfTree'
  BY <1>1, PlacesStay
<1>3. MembersOK'
  BY MembersStay
<1> QED
  BY <1>2, <1>3, GitMovesWhole

LEMMA GitBeginsWhole ==
    ASSUME CreationInv, WholeInv, NEW p \in Runs, GitBegins(p)
    PROVE  WholeInv'
<1>1. add[p].step = "begun" /\ UNCHANGED <<reg, row, lease, creation, run, made, touched, spent>>
  BY DEF GitBegins
<1>2. CASE Told(p, "failed") /\ UNCHANGED git
  BY <1>1, <1>2, GitRefuses
<1>3. ASSUME LET g == git[add[p].repo] IN g.tree = "absent" /\ (add[p].makes <=> g.branch = None),
             git' = [git EXCEPT ![add[p].repo].branch = IF add[p].makes THEN add[p].start ELSE @],
             add' = [add EXCEPT ![p].step = "branched"]
      PROVE  WholeInv'
  <2>1. PICK r \in Repos : r = add[p].repo
    BY <1>1 DEF CreationInv, AddOK
  <2>2. add[p].c \in Open /\ add[p].start = creation[add[p].c].start[r]
    BY <1>1, <2>1 DEF CreationInv, AddOK, WholeInv, StartsOK
  <2>3. /\ \A s \in Repos \ {r} : git'[s] = git[s] /\ made'[s] = made[s]
        /\ git'[r].tree = "absent" /\ git[r].tree = "absent"
        /\ git'[r].branch = IF git[r].branch = None THEN add[p].start ELSE git[r].branch
    BY <1>1, <1>3, <2>1 DEF CreationInv, Shaped
  <2>4. BranchOfTree'
    BY <2>3 DEF WholeInv, BranchOfTree, OnBranch
  <2>5. HalfOK'
    <3>1. \A q \in Runs : add[q].step = "entered" => add'[q] = add[q]
      BY <1>1, <1>3 DEF CreationInv, Shaped
    <3> QED
      BY <2>3, <3>1, HalfKept
  <2>6. ASSUME NEW c \in Creations
        PROVE  (c \in Open /\ BranchOK(c, r) => BranchOK(c, r)') /\ ~Settled(c, r)'
    <3>1. c \in Open => add[p].start = creation[c].start[r]
      BY <2>2 DEF CreationInv, OneOpen
    <3>2. ~Settled(c, r)
      BY <2>3 DEF WholeInv, MembersOK, MemberOK
    <3>3. ~Settled(c, r)'
      BY <1>1, <3>2 DEF Settled, Live, Undisturbed
    <3> QED
      BY <1>1, <2>3, <3>1, <3>3 DEF BranchOK
  <2>7. MembersOK'
    BY <1>1, <2>3, <2>6, MembersOfGit
  <2> QED
    BY <1>1, <1>3, <2>1, <2>3, <2>4, <2>5, <2>7, GitMovesWhole
<1> QED
  BY <1>2, <1>3 DEF GitBegins

LEMMA GitEntersWhole ==
    ASSUME CreationInv, WholeInv, NEW p \in Runs, GitEnters(p)
    PROVE  WholeInv'
<1>1. add[p].step = "branched" /\ UNCHANGED <<reg, row, lease, creation, run, touched, spent>>
  BY DEF GitEnters
<1>2. CASE Told(p, "failed") /\ UNCHANGED <<git, made>>
  BY <1>1, <1>2, GitRefuses
<1>3. ASSUME git[add[p].repo].branch # None, git' = [git EXCEPT ![add[p].repo].tree = "half"],
             made' = [made EXCEPT ![add[p].repo] = add[p].c], add' = [add EXCEPT ![p].step = "entered"]
      PROVE  WholeInv'
  <2>1. PICK r \in Repos : r = add[p].repo
    BY <1>1 DEF CreationInv, AddOK
  <2>2. creation[add[p].c].phase[r] = "APPLYING"
    BY <1>1, <2>1 DEF CreationInv, AddOK
  <2>3. /\ \A s \in Repos \ {r} : git'[s] = git[s] /\ made'[s] = made[s]
        /\ git'[r].tree = "half" /\ git'[r].branch = git[r].branch /\ made'[r] = add[p].c
    BY <1>3, <2>1 DEF CreationInv, Shaped
  <2>4. BranchOfTree'
    BY <1>3, <2>1, <2>3 DEF WholeInv, BranchOfTree, OnBranch
  <2>5. HalfOK'
    <3>1. /\ add'[p].step = "entered" /\ add'[p].repo = r
          /\ \A q \in Runs : add[q].step = "entered" => add'[q] = add[q]
      BY <1>1, <1>3, <2>1 DEF CreationInv, Shaped
    <3> QED
      BY <2>3, <3>1 DEF WholeInv, HalfOK
  <2>6. \A c \in Creations : (BranchOK(c, r) => BranchOK(c, r)') /\ ~Settled(c, r)'
    BY <1>1, <2>2, <2>3 DEF BranchOK, Settled
  <2>7. MembersOK'
    BY <1>1, <2>3, <2>6, MembersOfGit
  <2> QED
    BY <1>1, <1>3, <2>1, <2>3, <2>4, <2>5, <2>7, GitMovesWhole
<1> QED
  BY <1>2, <1>3 DEF GitEnters

\* Git ends, and what is at the path is half no more if it was its.
LEMMA TreeEndsWhole ==
    ASSUME CreationInv, WholeInv, NEW p \in Runs, add[p].step \in {"branched", "entered"}, NEW tree,
           (tree \in {"absent", "whole"} /\ git[add[p].repo].tree = "half") \/ tree = git[add[p].repo].tree,
           add[p].step = "entered" => tree # "half",
           git' = [git EXCEPT ![add[p].repo].tree = tree],
           UNCHANGED <<reg, row, lease, creation, run, made, touched>>,
           \E step \in {"done", "failed"} : Told(p, step)
    PROVE  WholeInv'
<1>1. PICK r \in Repos : r = add[p].repo
  BY DEF CreationInv, AddOK
<1>2. /\ \A s \in Repos \ {r} : git'[s] = git[s] /\ made'[s] = made[s]
      /\ git'[r].tree = tree /\ git'[r].branch = git[r].branch
  BY <1>1 DEF CreationInv, Shaped
<1>3. BranchOfTree'
  BY <1>1, <1>2 DEF WholeInv, BranchOfTree, OnBranch
<1>4. HalfOK'
  <2>1. \A q \in Runs \ {p} : add'[q] = add[q]
    BY DEF Told, CreationInv, Shaped
  <2> QED
    BY <1>1, <1>2, <2>1, HalfKept
<1>5. ASSUME NEW c \in Creations
      PROVE  /\ BranchOK(c, r) => BranchOK(c, r)'
             /\ Settled(c, r)' => Settled(c, r) /\ git'[r].tree = git[r].tree /\ git'[r].branch = git[r].branch
  <2>1. Settled(c, r)' => Settled(c, r)
    BY DEF Settled, Live, Undisturbed
  <2>2. Settled(c, r) => git[r].tree = "whole"
    BY DEF WholeInv, MembersOK, MemberOK
  <2> QED
    BY <1>1, <1>2, <2>1, <2>2 DEF BranchOK
<1>6. MembersOK'
  BY <1>2, <1>5, MembersOfGit
<1> QED
  BY <1>1, <1>2, <1>3, <1>4, <1>6, GitMovesWhole

LEMMA GitEndsWhole ==
    ASSUME CreationInv, WholeInv, NEW p \in Runs, GitEnds(p)
    PROVE  WholeInv'
<1> DEFINE tree == IF git[add[p].repo].tree = "half" THEN "whole" ELSE git[add[p].repo].tree
<1>1. /\ add[p].step = "entered" /\ UNCHANGED <<reg, row, lease, creation, run, made, touched, spent>>
      /\ git' = [git EXCEPT ![add[p].repo].tree = tree]
      /\ \E step \in {"done", "failed"} : Told(p, step)
  BY DEF GitEnds
<1>2. /\ (tree \in {"absent", "whole"} /\ git[add[p].repo].tree = "half") \/ tree = git[add[p].repo].tree
      /\ tree # "half"
  OBVIOUS
<1> HIDE DEF tree
<1> QED
  BY <1>1, <1>2, TreeEndsWhole

LEMMA GitFailsWhole ==
    ASSUME CreationInv, WholeInv, ~Kills, NEW p \in Runs, GitFails(p)
    PROVE  WholeInv'
<1> DEFINE tree == IF add[p].step = "entered" /\ git[add[p].repo].tree = "half" THEN "absent" ELSE git[add[p].repo].tree
<1>1. /\ add[p].step \in {"branched", "entered"} /\ UNCHANGED <<reg, row, lease, creation, run, made, touched>>
      /\ Told(p, "failed") /\ git' = [git EXCEPT ![add[p].repo].tree = tree]
  BY DEF GitFails
<1>2. /\ (tree \in {"absent", "whole"} /\ git[add[p].repo].tree = "half") \/ tree = git[add[p].repo].tree
      /\ add[p].step = "entered" => tree # "half"
  OBVIOUS
<1> HIDE DEF tree
<1> QED
  BY <1>1, <1>2, TreeEndsWhole

-----------------------------------------------------------------------------
\* Somebody else: a repository is left alone, or it is touched for every creation.
LEMMA OthersWhole ==
    ASSUME CreationInv, WholeInv, UNCHANGED <<run, add, creation>>, Leased', HalfOK', BranchOfTree',
           \A r \in Repos : \/ touched'[r] = Creations
                            \/ /\ git'[r].branch = git[r].branch /\ git'[r].tree = git[r].tree
                               /\ row'[r] = row[r] /\ made'[r] = made[r] /\ touched'[r] = touched[r]
                               /\ reg[r] # 0 => reg'[r] # 0
    PROVE  WholeInv'
<1>1. Unused' = Unused /\ Unused \subseteq Creations /\ Open' = Open /\ \A c \in Creations : Live(c)' <=> Live(c)
  BY DEF Unused, Open, Live
<1>2. ASSUME NEW c \in Creations, NEW r \in Repos PROVE MemberOK(c, r)'
  <2>1. MemberOK(c, r)
    BY DEF WholeInv, MembersOK
  <2>2. CASE touched'[r] = Creations
    <3>1. ~Undisturbed(c, r)' /\ ~Settled(c, r)'
      BY <2>2 DEF Undisturbed, Settled
    <3> QED
      BY <2>1, <3>1 DEF MemberOK
  <2>3. CASE /\ git'[r].branch = git[r].branch /\ git'[r].tree = git[r].tree
             /\ row'[r] = row[r] /\ made'[r] = made[r] /\ touched'[r] = touched[r]
             /\ reg[r] # 0 => reg'[r] # 0
    <3>1. (Undisturbed(c, r)' <=> Undisturbed(c, r)) /\ (Settled(c, r)' <=> Settled(c, r))
      BY <1>1, <2>3 DEF Undisturbed, Settled
    <3> QED
      BY <1>1, <2>1, <2>3, <3>1 DEF MemberOK, BranchOK
  <2> QED
    BY <2>2, <2>3
<1>3. ASSUME NEW p \in Runs PROVE PlanOK(p)' /\ StartsOK(p)' /\ RestOK(p)'
  <2>1. RunOK(p) /\ PlanOK(p) /\ StartsOK(p) /\ RestOK(p)
    BY DEF CreationInv, WholeInv
  <2>2. PlanOK(p)'
    BY <1>1, <2>1 DEF PlanOK, RunOK, WorkOK
  <2>3. StartsOK(p)'
    BY <2>1 DEF StartsOK
  <2>4. RestOK(p)'
    <3> SUFFICES ASSUME run[p].pc = "register", NEW r \in run[p].rest, run[p].via # "local", Settled(run[p].c, r)'
                 PROVE  row'[r]
      BY <2>1 DEF RestOK
    <3>1. r \in Repos /\ run[p].c \in Creations
      BY <2>1 DEF RunOK, WorkOK
    <3>2. touched'[r] # Creations /\ Settled(run[p].c, r) /\ row'[r] = row[r]
      BY <1>1, <3>1 DEF Settled, Undisturbed
    <3> QED
      BY <2>1, <3>2 DEF RestOK, Working
  <2> QED
    BY <2>2, <2>3, <2>4
<1> QED
  BY <1>2, <1>3 DEF WholeInv, MembersOK

LEMMA MainMovesWhole ==
    ASSUME CreationInv, WholeInv, NEW r \in Repos, MainMoves(r)
    PROVE  WholeInv'
<1>1. PICK c : git' = [git EXCEPT ![r].head = c]
  BY DEF MainMoves
<1>2. UNCHANGED <<add, reg, row, lease, creation, run, made, touched>>
  BY DEF MainMoves
<1>3. \A s \in Repos : git'[s].branch = git[s].branch /\ git'[s].tree = git[s].tree
  BY <1>1 DEF CreationInv, Shaped
<1>4. Leased' /\ HalfOK' /\ BranchOfTree'
  BY <1>2, <1>3 DEF WholeInv, Leased, HalfOK, BranchOfTree, OnBranch
<1> QED
  BY <1>2, <1>3, <1>4, OthersWhole

LEMMA MeddleWhole ==
    ASSUME CreationInv, WholeInv, NEW r \in Repos, Meddle(r)
    PROVE  WholeInv'
<1>1. PICK branch \in {None} \cup Commits, tree \in {"absent", "dir", "whole", "other", "prunable"}, away \in BOOLEAN :
        /\ Possible([git[r] EXCEPT !.branch = branch, !.tree = tree, !.away = away])
        /\ git' = [git EXCEPT ![r] = [git[r] EXCEPT !.branch = branch, !.tree = tree, !.away = away]]
        /\ made' = [made EXCEPT ![r] = IF tree = git[r].tree THEN @ ELSE 0]
  BY DEF Meddle
<1>2. UNCHANGED <<add, reg, row, lease, creation, run>> /\ touched' = [touched EXCEPT ![r] = Creations]
  BY DEF Meddle
<1>3. /\ git'[r].tree = tree /\ touched'[r] = Creations /\ Possible(git'[r])
      /\ \A s \in Repos \ {r} : git'[s] = git[s] /\ made'[s] = made[s] /\ touched'[s] = touched[s]
  BY <1>1, <1>2 DEF CreationInv, Shaped
<1>4. HalfOK'
  BY <1>1, <1>2, <1>3 DEF WholeInv, HalfOK
<1>5. Leased' /\ BranchOfTree'
  BY <1>2, <1>3 DEF WholeInv, Leased, BranchOfTree, OnBranch, Possible, Held
<1> QED
  BY <1>2, <1>3, <1>4, <1>5, OthersWhole

LEMMA ForgetWhole ==
    ASSUME CreationInv, WholeInv, NEW r \in Repos, Forget(r)
    PROVE  WholeInv'
<1>1. /\ reg' = [reg EXCEPT ![r] = 0] /\ lease' = [lease EXCEPT ![r] = None]
      /\ row' = [row EXCEPT ![r] = FALSE] /\ touched' = [touched EXCEPT ![r] = Creations]
      /\ UNCHANGED <<git, add, creation, run, made>>
  BY DEF Forget
<1>2. /\ touched'[r] = Creations /\ lease'[r] = None
      /\ \A s \in Repos \ {r} : reg'[s] = reg[s] /\ lease'[s] = lease[s] /\ row'[s] = row[s] /\ touched'[s] = touched[s]
  BY <1>1 DEF CreationInv, Shaped
<1>3. Leased' /\ HalfOK' /\ BranchOfTree'
  BY <1>1, <1>2, CreationAssumption DEF WholeInv, Leased, HalfOK, BranchOfTree, OnBranch
<1> QED
  BY <1>1, <1>2, <1>3, OthersWhole

LEMMA RegisterAgainWhole ==
    ASSUME CreationInv, WholeInv, NEW r \in Repos, RegisterAgain(r)
    PROVE  WholeInv'
<1>1. /\ reg' = [reg EXCEPT ![r] = 1 + spent.meddling] /\ spent.meddling \in Nat
      /\ UNCHANGED <<git, add, row, lease, creation, run, made, touched, spent>>
  BY DEF RegisterAgain, CreationInv, Shaped
<1>2. \A s \in Repos : reg[s] # 0 => reg'[s] # 0
  BY <1>1 DEF CreationInv, Shaped
<1>3. Leased' /\ HalfOK' /\ BranchOfTree'
  BY <1>1, <1>2 DEF WholeInv, Leased, HalfOK, BranchOfTree, OnBranch
<1> QED
  BY <1>1, <1>2, <1>3, OthersWhole

LEMMA ClearLeasesWhole ==
    ASSUME CreationInv, WholeInv, NEW p \in Runs, NEW repos \in Asked, ClearLeases(p, repos)
    PROVE  WholeInv'
<1>1. /\ lease' = [r \in Repos |-> IF r \in repos THEN None ELSE lease[r]]
      /\ UNCHANGED <<git, add, reg, row, creation, run, made, touched, spent>>
  BY DEF ClearLeases
<1>2. Leased' /\ HalfOK' /\ BranchOfTree'
  BY <1>1, CreationAssumption DEF WholeInv, Leased, HalfOK, BranchOfTree, OnBranch
<1> QED
  BY <1>1, <1>2, OthersWhole

-----------------------------------------------------------------------------
LEMMA WholeInvInit ==
    ASSUME Init
    PROVE  WholeInv
<1>1. \A r \in Repos : git[r].tree = "absent"
  BY DEF Init
<1>2. /\ add = [p \in Runs |-> NoAdd] /\ lease = [r \in Repos |-> None] /\ creation = [c \in Creations |-> NoCreation]
      /\ run = [p \in Runs |-> Idle]
  BY DEF Init
<1>3. Leased /\ HalfOK /\ BranchOfTree
  BY <1>1, <1>2, CreationAssumption DEF Leased, HalfOK, BranchOfTree, OnBranch
<1>4. \A c \in Creations : creation[c].state = "none"
  BY <1>2 DEF NoCreation
<1>5. MembersOK
  BY <1>4 DEF MembersOK, MemberOK, Settled, Live, Open
<1>6. \A p \in Runs : PlanOK(p) /\ StartsOK(p) /\ RestOK(p)
  BY <1>2, IdleShape, NoAddShape DEF PlanOK, StartsOK, RestOK, Working
<1> QED
  BY <1>3, <1>5, <1>6 DEF WholeInv

LEMMA WholeInvStep ==
    ASSUME CreationInv, WholeInv, ~Kills, [Next]_vars
    PROVE  WholeInv'
<1>1. CASE UNCHANGED vars
  <2>1. Leased' /\ HalfOK' /\ BranchOfTree'
    BY <1>1 DEF vars, WholeInv, Leased, HalfOK, BranchOfTree, OnBranch
  <2> QED
    BY <1>1, <2>1, OthersWhole DEF vars
<1>2. ASSUME NEW p \in Runs, Step(p) PROVE WholeInv'
  BY <1>2, AcquireWhole, MeasureWhole, JournalWhole, RereadWhole, RecoverWhole, ApplyWhole, GitAnswersWhole,
     AnnounceWhole, CannotRegisterWhole, RegisterWhole, CompleteWhole DEF Step
<1>3. ASSUME NEW p \in Runs, GitStep(p) PROVE WholeInv'
  BY <1>3, GitBeginsWhole, GitEntersWhole, GitEndsWhole DEF GitStep
<1> QED
  BY <1>1, <1>2, <1>3, StartFreshWhole, StartResumeWhole, ClearLeasesWhole, GitFailsWhole, GitIsSilentWhole,
     CrashWhole, MainMovesWhole, MeddleWhole, ForgetWhole, RegisterAgainWhole DEF Next

\* A creation that is reported done has, in every member nobody else touched, a whole worktree of the
\* branch at the commit pinned for it, and the registry knows it (create-feature.ts:419-530), as long as
\* no `git worktree add` is killed half way or outlives the lease of its shell.
THEOREM CompletedIsWholeHolds == ASSUME ~SlowGit, ~Kills PROVE Spec => []CompletedIsWhole
<1>1. Init => WholeInv
  BY WholeInvInit
<1>2. CreationInv /\ WholeInv /\ [Next]_vars => WholeInv'
  BY WholeInvStep
<1>3. Spec => []CreationInv
  BY CreationInvHolds
<1>4. WholeInv => CompletedIsWhole
  BY DEF WholeInv, MembersOK, MemberOK, Settled, Undisturbed, Live, CompletedIsWhole
<1> QED
  BY <1>1, <1>2, <1>3, <1>4, PTL DEF Spec

-----------------------------------------------------------------------------
\* Types, and the index of open creations: also where Git outlives a lease.

Starts == {None} \cup Commits

Trees == {"absent", "dir", "half", "whole", "other", "prunable"}

GitTyped == git \in [Repos -> [branch : Starts, head : Commits, away : BOOLEAN, tree : Trees]]

LeaseTyped == DOMAIN lease = Repos /\ \A r \in Repos : lease[r] \in {None, "dead"} \cup Runs

CreationTyped ==
    /\ DOMAIN creation = Creations
    /\ \A c \in Creations :
        /\ DOMAIN creation[c] = {"state", "phase", "reg", "existed", "start"}
        /\ creation[c].state \in {"none", "IN_PROGRESS", "COMPLETED", "SUPERSEDED"}
        /\ creation[c].phase \in [Repos -> {"none"} \cup Phases]
        /\ creation[c].start \in [Repos -> Starts]

\* The locals of a run.
Local(l) ==
    /\ DOMAIN l = Fields
    /\ l.repos \subseteq Repos /\ l.unread \subseteq Repos /\ l.todo \subseteq Repos
    /\ l.from \in Starts /\ l.start \in [Repos -> Starts]
    /\ l.pc \in {"lease", "check"} => l.repos # {}
    /\ l.pc \in {"lease", "check"} /\ l.resume => l.c \in Creations
    /\ l.pc = "recover" => l.unread # {} /\ l.c \in Creations

RunsTyped == DOMAIN run = Runs /\ \A p \in Runs : Local(run[p])

AddsTyped ==
    /\ DOMAIN add = Runs
    /\ \A p \in Runs : DOMAIN add[p] = DOMAIN NoAdd /\ add[p].start \in Starts

TypeInv == GitTyped /\ LeaseTyped /\ CreationTyped /\ RunsTyped /\ AddsTyped /\ OneOpen

-----------------------------------------------------------------------------
\* The locals.

LEMMA IdleLocal == Local(Idle)
BY DEF Local, Idle, Fields, Starts

LEMMA LocalMoves ==
    ASSUME RunsTyped, NEW p \in Runs, NEW l, Local(l), run' = [run EXCEPT ![p] = l]
    PROVE  RunsTyped'
BY DEF RunsTyped, Local

LEMMA EndsTyped ==
    ASSUME TypeInv, NEW p \in Runs, Ends(p)
    PROVE  RunsTyped'
BY IdleLocal, LocalMoves DEF Ends, TypeInv

LEMMA GoesTyped ==
    ASSUME TypeInv, NEW p \in Runs, NEW pc, Goes(p, pc), pc \notin {"lease", "recover"},
           pc = "check" => run[p].pc = "lease"
    PROVE  RunsTyped'
<1> DEFINE l == [run[p] EXCEPT !.pc = pc]
<1>1. Local(run[p])
  BY DEF TypeInv, RunsTyped
<1>2. Local(l)
  BY <1>1 DEF Local, Fields
<1>3. run' = [run EXCEPT ![p] = l]
  BY DEF Goes
<1> QED
  BY <1>2, <1>3, LocalMoves DEF TypeInv

LEMMA StartsTyped ==
    ASSUME TypeInv, NEW p \in Runs,
           \/ \E repos \in Asked, from \in Froms : StartFresh(p, repos, from)
           \/ StartResume(p)
    PROVE  RunsTyped'
<1>1. ASSUME NEW repos \in Asked, NEW from \in Froms, StartFresh(p, repos, from)
      PROVE  RunsTyped'
  <2> DEFINE l == [Idle EXCEPT !.pc = "lease", !.repos = repos, !.reg = reg, !.from = from,
                               !.open = Current]
  <2>1. repos \subseteq Repos /\ repos # {} /\ from \in Starts
    BY <1>1, CreationAssumption DEF StartFresh, Starts
  <2>2. /\ DOMAIN l = Fields /\ l.repos = repos /\ l.unread = {} /\ l.todo = {} /\ l.from = from
        /\ l.start = Idle.start /\ l.pc = "lease" /\ l.resume = FALSE
    BY DEF Idle, Fields
  <2>3. run' = [run EXCEPT ![p] = l]
    BY <1>1 DEF StartFresh
  <2> HIDE DEF l
  <2>4. Local(l)
    BY <2>1, <2>2, IdleLocal DEF Local
  <2> QED
    BY <2>3, <2>4, LocalMoves DEF TypeInv
<1>2. CASE StartResume(p)
  <2>1. PICK left \in SUBSET Repos, pc \in {"announce", "lease"} :
          /\ pc = "lease" => left # {}
          /\ run' = [run EXCEPT ![p] = [Idle EXCEPT !.pc = pc, !.resume = TRUE, !.repos = left,
                                                    !.reg = reg, !.open = Current, !.c = Current.id]]
    BY <1>2 DEF StartResume
  <2>2. Current.id \in Creations
    BY <1>2 DEF StartResume, Current, Open
  <2> DEFINE l == [Idle EXCEPT !.pc = pc, !.resume = TRUE, !.repos = left, !.reg = reg,
                               !.open = Current, !.c = Current.id]
  <2>3. /\ DOMAIN l = Fields /\ l.repos = left /\ l.unread = {} /\ l.todo = {}
        /\ l.from = Idle.from /\ l.start = Idle.start /\ l.pc = pc /\ l.c = Current.id
    BY DEF Idle, Fields
  <2>4. run' = [run EXCEPT ![p] = l]
    BY <2>1
  <2> HIDE DEF l
  <2>5. Local(l)
    BY <2>1, <2>2, <2>3, IdleLocal DEF Local
  <2> QED
    BY <2>4, <2>5, LocalMoves DEF TypeInv
<1> QED
  BY <1>1, <1>2

LEMMA MeasureTyped ==
    ASSUME TypeInv, NEW p \in Runs, Measure(p)
    PROVE  RunsTyped'
<1>1. Local(run[p])
  BY DEF TypeInv, RunsTyped
<1>2. CASE Ends(p)
  BY <1>2, EndsTyped
<1>3. ASSUME NEW makes, NEW start \in [Repos -> Starts],
             run' = [run EXCEPT ![p].pc = "journal", ![p].makes = makes, ![p].start = start]
      PROVE  RunsTyped'
  <2> DEFINE l == [run[p] EXCEPT !.pc = "journal", !.makes = makes, !.start = start]
  <2>1. Local(l)
    BY <1>1 DEF Local, Fields
  <2>2. run' = [run EXCEPT ![p] = l]
    BY <1>3
  <2> QED
    BY <2>1, <2>2, LocalMoves DEF TypeInv
<1>4. \A r \in Repos : StartOf(git[r], run[p].from) \in Starts
  BY <1>1 DEF StartOf, Local, TypeInv, GitTyped, Starts
<1>5. [r \in Repos |-> IF r \in run[p].repos THEN StartOf(git[r], run[p].from) ELSE None]
        \in [Repos -> Starts]
  BY <1>4 DEF Starts
<1> QED
  BY <1>2, <1>3, <1>5 DEF Measure

LEMMA JournalTyped ==
    ASSUME TypeInv, NEW p \in Runs, Journal(p)
    PROVE  RunsTyped'
<1>1. Local(run[p])
  BY DEF TypeInv, RunsTyped
<1>2. CASE Ends(p)
  BY <1>2, EndsTyped
<1>3. CASE run' = [run EXCEPT ![p].pc = "apply", ![p].c = New, ![p].todo = run[p].repos,
                              ![p].rest = run[p].repos]
  <2> DEFINE l == [run[p] EXCEPT !.pc = "apply", !.c = New, !.todo = run[p].repos, !.rest = run[p].repos]
  <2>1. Local(l)
    BY <1>1 DEF Local, Fields
  <2>2. run' = [run EXCEPT ![p] = l]
    BY <1>3
  <2> QED
    BY <2>1, <2>2, LocalMoves DEF TypeInv
<1> QED
  BY <1>2, <1>3 DEF Journal

LEMMA RereadTyped ==
    ASSUME TypeInv, NEW p \in Runs, Reread(p)
    PROVE  RunsTyped'
<1>1. Local(run[p]) /\ run[p].pc = "check" /\ run[p].resume
  BY DEF TypeInv, RunsTyped, Reread
<1>2. CASE Ends(p)
  BY <1>2, EndsTyped
<1>3. CASE run' = [run EXCEPT ![p].pc = "recover", ![p].unread = run[p].repos]
  <2> DEFINE l == [run[p] EXCEPT !.pc = "recover", !.unread = run[p].repos]
  <2>1. Local(l)
    BY <1>1 DEF Local, Fields
  <2>2. run' = [run EXCEPT ![p] = l]
    BY <1>3
  <2> QED
    BY <2>1, <2>2, LocalMoves DEF TypeInv
<1> QED
  BY <1>2, <1>3 DEF Reread

LEMMA RecoverTyped ==
    ASSUME TypeInv, NEW p \in Runs, Recover(p)
    PROVE  RunsTyped'
<1>1. Local(run[p]) /\ run[p].pc = "recover" /\ run[p].unread # {} /\ run[p].c \in Creations
  BY DEF TypeInv, RunsTyped, Recover, Local
<1> DEFINE r == First(run[p].unread)
           left == run[p].unread \ {r}
           read == [run[p] EXCEPT !.unread = left, !.rest = @ \cup {r},
                                  !.pc = IF left = {} THEN "apply" ELSE @]
           more(makes) == [read EXCEPT !.todo = @ \cup {r},
                                       !.start[r] = creation[run[p].c].start[r], !.makes = makes]
<1>2. r \in Repos
  BY <1>1, FirstIn DEF Local
<1>3. creation[run[p].c].start[r] \in Starts
  BY <1>1, <1>2 DEF TypeInv, CreationTyped
<1>4. Local(read) /\ read.todo = run[p].todo /\ read.start = run[p].start
  BY <1>1 DEF Local, Fields
<1>5. CASE Ends(p)
  BY <1>5, EndsTyped
<1>6. CASE run' = [run EXCEPT ![p] = read]
  BY <1>4, <1>6, LocalMoves DEF TypeInv
<1>7. ASSUME NEW makes, run' = [run EXCEPT ![p] = more(makes)]
      PROVE  RunsTyped'
  <2> DEFINE l == [read EXCEPT !.todo = run[p].todo \cup {r}, !.makes = makes,
                               !.start = [run[p].start EXCEPT ![r] = creation[run[p].c].start[r]]]
  <2>1. more(makes) = l
    BY <1>1, <1>4 DEF Local, Fields
  <2>2. [run[p].start EXCEPT ![r] = creation[run[p].c].start[r]] \in [Repos -> Starts]
    BY <1>1, <1>3 DEF Local
  <2>3. Local(l)
    <3> HIDE DEF read
    <3> QED
      BY <1>1, <1>2, <1>4, <2>2 DEF Local, Fields
  <2> HIDE DEF l, more
  <2> QED
    BY <1>7, <2>1, <2>3, LocalMoves DEF TypeInv
<1>8. \/ Ends(p)
      \/ run' = [run EXCEPT ![p] = read]
      \/ \E makes : run' = [run EXCEPT ![p] = more(makes)]
  BY DEF Recover
<1> HIDE DEF more, read
<1> QED
  BY <1>5, <1>6, <1>7, <1>8

LEMMA OnwardTyped ==
    ASSUME TypeInv, NEW p \in Runs,
           Acquire(p) \/ Apply(p) \/ GitAnswers(p) \/ GitIsSilent(p) \/ Announce(p) \/ Complete(p)
    PROVE  RunsTyped'
<1>1. Local(run[p])
  BY DEF TypeInv, RunsTyped
<1>2. CASE Ends(p)
  BY <1>2, EndsTyped
<1>3. CASE Goes(p, "check") /\ run[p].pc = "lease"
  BY <1>3, GoesTyped
<1>4. CASE Goes(p, "git")
  BY <1>4, GoesTyped
<1>5. ASSUME NEW r, run' = [run EXCEPT ![p].pc = "apply", ![p].todo = @ \ {r}]
      PROVE  RunsTyped'
  <2> DEFINE l == [run[p] EXCEPT !.pc = "apply", !.todo = @ \ {r}]
  <2>1. Local(l)
    BY <1>1 DEF Local, Fields
  <2>2. run' = [run EXCEPT ![p] = l]
    BY <1>1, <1>5 DEF Local, Fields
  <2> QED
    BY <2>1, <2>2, LocalMoves DEF TypeInv
<1>6. ASSUME NEW via, run' = [run EXCEPT ![p].pc = "register", ![p].via = via]
      PROVE  RunsTyped'
  <2> DEFINE l == [run[p] EXCEPT !.pc = "register", !.via = via]
  <2>1. Local(l)
    BY <1>1 DEF Local, Fields
  <2>2. run' = [run EXCEPT ![p] = l]
    BY <1>6
  <2> QED
    BY <2>1, <2>2, LocalMoves DEF TypeInv
<1> QED
  BY <1>2, <1>3, <1>4, <1>5, <1>6
     DEF Acquire, Apply, GitAnswers, GitIsSilent, Announce, Complete

LEMMA RegisterTyped ==
    ASSUME TypeInv, NEW p \in Runs, CannotRegister(p) \/ Register(p)
    PROVE  RunsTyped'
<1>1. Local(run[p]) /\ run[p].pc = "register"
  BY DEF TypeInv, RunsTyped, CannotRegister, Register
<1>2. CASE Ends(p)
  BY <1>2, EndsTyped
<1> DEFINE l == [run[p] EXCEPT !.rest = @ \ {First(@)}]
<1>3. Registered(p) = l /\ Local(l) /\ l.pc = "register"
  BY <1>1 DEF Registered, Local, Fields
<1> HIDE DEF l
<1>4. CASE run' = [run EXCEPT ![p] = l]
  BY <1>3, <1>4, LocalMoves DEF TypeInv
<1>5. CASE run' = [run EXCEPT ![p] = [l EXCEPT !.failed = TRUE]]
  <2>1. Local([l EXCEPT !.failed = TRUE])
    BY <1>3 DEF Local, Fields
  <2> QED
    BY <1>5, <2>1, LocalMoves DEF TypeInv
<1> QED
  BY <1>2, <1>3, <1>4, <1>5 DEF CannotRegister, Register

LEMMA CrashTyped ==
    ASSUME TypeInv, NEW p \in Runs, Crash(p)
    PROVE  RunsTyped'
BY IdleLocal, LocalMoves DEF Crash, TypeInv

-----------------------------------------------------------------------------
\* The journal.

Advanced == \E c, r, phase : phase \in Phases /\ Advance(c, r, phase)

LEMMA AdvanceTyped ==
    ASSUME TypeInv, Advanced
    PROVE  CreationTyped' /\ Open' = Open
<1>1. PICK c, r, phase : phase \in Phases /\ creation' = [creation EXCEPT ![c].phase[r] = phase]
  BY DEF Advanced, Advance
<1>2. /\ DOMAIN creation' = Creations
      /\ \A d \in Creations : /\ DOMAIN creation'[d] = DOMAIN creation[d]
                              /\ creation'[d].state = creation[d].state
                              /\ creation'[d].start = creation[d].start
                              /\ creation'[d].phase \in {creation[d].phase, [creation[d].phase EXCEPT ![r] = phase]}
  BY <1>1 DEF TypeInv, CreationTyped
<1>3. \A d \in Creations : creation'[d].phase \in [Repos -> {"none"} \cup Phases]
  BY <1>1, <1>2 DEF TypeInv, CreationTyped
<1>4. CreationTyped'
  BY <1>2, <1>3 DEF TypeInv, CreationTyped
<1> QED
  BY <1>2, <1>4 DEF Open

LEMMA JournalOpens ==
    ASSUME TypeInv, NEW p \in Runs, Journal(p)
    PROVE  CreationTyped' /\ OneOpen'
<1>1. CASE UNCHANGED creation
  BY <1>1 DEF TypeInv, CreationTyped, OneOpen, Open
<1> DEFINE old == run[p].open.id
           first == [state |-> "IN_PROGRESS", reg |-> run[p].reg, start |-> run[p].start,
                     phase |-> [r \in Repos |-> IF r \in run[p].repos THEN "PLANNED" ELSE "none"],
                     existed |-> run[p].repos \ run[p].makes]
<1>2. CASE /\ Open \subseteq {old}
           /\ creation' = [c \in Creations |-> IF c = New THEN first
                                               ELSE IF c = old THEN [creation[c] EXCEPT !.state = "SUPERSEDED"]
                                               ELSE creation[c]]
  <2>1. /\ DOMAIN first = {"state", "phase", "reg", "existed", "start"} /\ first.state = "IN_PROGRESS"
        /\ first.phase \in [Repos -> {"none"} \cup Phases] /\ first.start \in [Repos -> Starts]
    BY DEF TypeInv, RunsTyped, Local, Phases
  <2> HIDE DEF first
  <2>2. \A c \in Creations :
          /\ c = New => creation'[c] = first
          /\ c # New /\ c = old => creation'[c] = [creation[c] EXCEPT !.state = "SUPERSEDED"]
          /\ c # New /\ c # old => creation'[c] = creation[c]
    BY <1>2
  <2> HIDE DEF old
  <2>3. DOMAIN creation' = Creations
    BY <1>2
  <2>4. CreationTyped
    BY DEF TypeInv
  <2>5. ASSUME NEW c \in Creations
        PROVE  /\ DOMAIN creation'[c] = {"state", "phase", "reg", "existed", "start"}
               /\ creation'[c].state \in {"none", "IN_PROGRESS", "COMPLETED", "SUPERSEDED"}
               /\ creation'[c].phase \in [Repos -> {"none"} \cup Phases]
               /\ creation'[c].start \in [Repos -> Starts]
               /\ creation'[c].state = "IN_PROGRESS" => c = New
    <3>1. CASE c = New
      BY <2>1, <2>2, <3>1
    <3>2. CASE c # New /\ c = old
      <4>1. creation'[c] = [creation[c] EXCEPT !.state = "SUPERSEDED"]
        BY <2>2, <3>2
      <4>2. DOMAIN creation[c] = {"state", "phase", "reg", "existed", "start"}
        BY <2>4 DEF CreationTyped
      <4>3. /\ DOMAIN creation'[c] = DOMAIN creation[c] /\ creation'[c].state = "SUPERSEDED"
            /\ creation'[c].phase = creation[c].phase /\ creation'[c].start = creation[c].start
        BY <4>1, <4>2
      <4> QED
        BY <2>4, <4>2, <4>3 DEF CreationTyped
    <3>3. CASE c # New /\ c # old
      BY <1>2, <2>2, <2>4, <3>3 DEF CreationTyped, Open
    <3> QED
      BY <3>1, <3>2, <3>3
  <2> QED
    BY <2>3, <2>5 DEF CreationTyped, OneOpen, Open
<1> QED
  BY <1>1, <1>2 DEF Journal

LEMMA CompleteCloses ==
    ASSUME TypeInv, NEW p \in Runs, Complete(p)
    PROVE  CreationTyped' /\ OneOpen'
<1>1. creation' \in {creation, [creation EXCEPT ![run[p].c].state = "COMPLETED"]}
  BY DEF Complete
<1>2. /\ DOMAIN creation' = Creations
      /\ \A d \in Creations : /\ DOMAIN creation'[d] = DOMAIN creation[d]
                              /\ creation'[d].state \in {creation[d].state, "COMPLETED"}
                              /\ creation'[d].start = creation[d].start
                              /\ creation'[d].phase = creation[d].phase
  BY <1>1 DEF TypeInv, CreationTyped
<1>3. \A d \in Creations : creation'[d].state \in {"none", "IN_PROGRESS", "COMPLETED", "SUPERSEDED"}
  BY <1>2 DEF TypeInv, CreationTyped
<1>4. Open' \subseteq Open
  BY <1>2 DEF Open
<1> QED
  BY <1>2, <1>3, <1>4 DEF TypeInv, CreationTyped, OneOpen

LEMMA CreationStep ==
    ASSUME TypeInv, [Next]_vars
    PROVE  CreationTyped' /\ OneOpen'
<1>1. CASE UNCHANGED creation
  BY <1>1 DEF TypeInv, CreationTyped, OneOpen, Open
<1>2. CASE Advanced
  BY <1>2, AdvanceTyped DEF TypeInv, OneOpen
<1>3. ASSUME NEW p \in Runs, Journal(p) \/ Complete(p)
      PROVE  CreationTyped' /\ OneOpen'
  BY <1>3, JournalOpens, CompleteCloses
<1>4. ASSUME NEW p \in Runs, Step(p), ~Journal(p), ~Complete(p)
      PROVE  UNCHANGED creation \/ Advanced
  <2>1. {"APPLIED", "APPLYING", "PLANNED", "REGISTERED"} \subseteq Phases
    BY DEF Phases
  <2> QED
    BY <1>4, <2>1 DEF Step, Acquire, Measure, Reread, Recover, Apply, GitAnswers, Announce,
                      CannotRegister, Register, Advanced
<1>5. ASSUME NEW p \in Runs, GitStep(p) \/ GitFails(p) \/ GitIsSilent(p) \/ Crash(p) \/ StartResume(p)
      PROVE  UNCHANGED creation
  BY <1>5 DEF GitStep, GitBegins, GitEnters, GitEnds, GitFails, GitIsSilent, Crash, StartResume
<1>6. ASSUME NEW p \in Runs, NEW repos, NEW from, StartFresh(p, repos, from) \/ ClearLeases(p, repos)
      PROVE  UNCHANGED creation
  BY <1>6 DEF StartFresh, ClearLeases
<1>7. ASSUME NEW r \in Repos, MainMoves(r) \/ Meddle(r) \/ Forget(r) \/ RegisterAgain(r)
      PROVE  UNCHANGED creation
  BY <1>7 DEF MainMoves, Meddle, Forget, RegisterAgain
<1>8. CASE UNCHANGED vars
  BY <1>1, <1>8 DEF vars
<1> QED
  BY <1>1, <1>2, <1>3, <1>4, <1>5, <1>6, <1>7, <1>8 DEF Next

-----------------------------------------------------------------------------
\* What Git was told.

LEMMA AddMoves ==
    ASSUME TypeInv, NEW p \in Runs, NEW a, DOMAIN a = DOMAIN NoAdd, a.start \in Starts,
           add' = [add EXCEPT ![p] = a]
    PROVE  AddsTyped'
BY DEF TypeInv, AddsTyped

LEMMA AddSteps ==
    ASSUME TypeInv, NEW p \in Runs, NEW step,
           \/ add' = [add EXCEPT ![p].step = step]
           \/ Told(p, step)
           \/ add' = [add EXCEPT ![p] = NoAdd]
    PROVE  AddsTyped'
<1> DEFINE a == [add[p] EXCEPT !.step = step]
<1>1. DOMAIN a = DOMAIN NoAdd /\ a.start \in Starts
  BY NoAddShape DEF TypeInv, AddsTyped
<1>2. NoAdd.start \in Starts
  BY DEF NoAdd, Starts
<1>3. add' \in {[add EXCEPT ![p] = a], [add EXCEPT ![p] = NoAdd]}
  BY DEF Told
<1> HIDE DEF a
<1> QED
  BY <1>1, <1>2, <1>3, AddMoves

LEMMA AddsStep ==
    ASSUME TypeInv, [Next]_vars
    PROVE  AddsTyped'
<1>1. CASE UNCHANGED add
  BY <1>1 DEF TypeInv, AddsTyped
<1>2. ASSUME NEW p \in Runs, Apply(p)
      PROVE  AddsTyped'
  <2> DEFINE a == [step |-> "begun", repo |-> First(run[p].todo), makes |-> First(run[p].todo) \in run[p].makes,
                   start |-> run[p].start[First(run[p].todo)], c |-> run[p].c]
  <2>1. add' \in {add, [add EXCEPT ![p] = a]}
    BY <1>2 DEF Apply
  <2>2. Local(run[p]) /\ run[p].todo # {}
    BY <1>2 DEF TypeInv, RunsTyped, Apply
  <2>3. First(run[p].todo) \in Repos
    BY <2>2, FirstIn DEF Local
  <2>4. DOMAIN a = DOMAIN NoAdd /\ a.start \in Starts
    BY <2>2, <2>3 DEF Local, NoAdd
  <2> HIDE DEF a
  <2> QED
    BY <1>1, <2>1, <2>4, AddMoves
<1>3. ASSUME NEW p \in Runs, GitStep(p) \/ GitFails(p)
      PROVE  AddsTyped'
  <2>1. PICK step : add' = [add EXCEPT ![p].step = step] \/ Told(p, step)
    BY <1>3 DEF GitStep, GitBegins, GitEnters, GitEnds, GitFails
  <2> QED
    BY <2>1, AddSteps
<1>4. ASSUME NEW p \in Runs, GitAnswers(p) \/ GitIsSilent(p)
      PROVE  AddsTyped'
  BY <1>4, AddSteps DEF GitAnswers, GitIsSilent
<1>5. ASSUME NEW p \in Runs, Crash(p)
      PROVE  AddsTyped'
  <2>1. CASE add' = [add EXCEPT ![p] = IF @.step \in {"done", "failed"} THEN NoAdd ELSE @]
    <3> DEFINE a == IF add[p].step \in {"done", "failed"} THEN NoAdd ELSE add[p]
    <3>1. DOMAIN a = DOMAIN NoAdd /\ a.start \in Starts
      BY DEF TypeInv, AddsTyped, NoAdd, Starts
    <3>2. add' = [add EXCEPT ![p] = a]
      BY <2>1
    <3> QED
      BY <3>1, <3>2, AddMoves
  <2>2. CASE add' = [add EXCEPT ![p] = NoAdd]
    BY <2>2, AddSteps
  <2> QED
    BY <1>5, <2>1, <2>2 DEF Crash
<1>6. ASSUME NEW p \in Runs, Step(p), ~Apply(p), ~GitAnswers(p)
      PROVE  UNCHANGED add
  BY <1>6 DEF Step, Acquire, Measure, Journal, Reread, Recover, Announce, CannotRegister, Register, Complete
<1>7. ASSUME NEW p \in Runs, NEW repos, NEW from,
             StartFresh(p, repos, from) \/ StartResume(p) \/ ClearLeases(p, repos)
      PROVE  UNCHANGED add
  BY <1>7 DEF StartFresh, StartResume, ClearLeases
<1>8. ASSUME NEW r \in Repos, MainMoves(r) \/ Meddle(r) \/ Forget(r) \/ RegisterAgain(r)
      PROVE  UNCHANGED add
  BY <1>8 DEF MainMoves, Meddle, Forget, RegisterAgain
<1>9. CASE UNCHANGED vars
  BY <1>1, <1>9 DEF vars
<1> QED
  BY <1>1, <1>2, <1>3, <1>4, <1>5, <1>6, <1>7, <1>8, <1>9 DEF Next

-----------------------------------------------------------------------------
\* The repositories.

Gits == [branch : Starts, head : Commits, away : BOOLEAN, tree : Trees]

LEMMA GitMovesTyped ==
    ASSUME GitTyped, NEW r, NEW g, r \in Repos => g \in Gits, git' = [git EXCEPT ![r] = g]
    PROVE  GitTyped'
BY DEF GitTyped, Gits

LEMMA GitFieldsTyped ==
    ASSUME GitTyped, NEW r,
           \/ \E branch \in Starts : git' = [git EXCEPT ![r].branch = branch]
           \/ \E tree \in Trees : git' = [git EXCEPT ![r].tree = tree]
           \/ \E head \in Commits : git' = [git EXCEPT ![r].head = head]
    PROVE  GitTyped'
<1>1. r \in Repos => git[r] \in Gits
  BY DEF GitTyped, Gits
<1>2. ASSUME NEW branch \in Starts, git' = [git EXCEPT ![r].branch = branch]
      PROVE  GitTyped'
  <2>1. r \in Repos => [git[r] EXCEPT !.branch = branch] \in Gits
    BY <1>1 DEF Gits
  <2>2. git' = [git EXCEPT ![r] = [git[r] EXCEPT !.branch = branch]]
    BY <1>2
  <2> QED
    BY <2>1, <2>2, GitMovesTyped
<1>3. ASSUME NEW tree \in Trees, git' = [git EXCEPT ![r].tree = tree]
      PROVE  GitTyped'
  <2>1. r \in Repos => [git[r] EXCEPT !.tree = tree] \in Gits
    BY <1>1 DEF Gits
  <2>2. git' = [git EXCEPT ![r] = [git[r] EXCEPT !.tree = tree]]
    BY <1>3
  <2> QED
    BY <2>1, <2>2, GitMovesTyped
<1>4. ASSUME NEW head \in Commits, git' = [git EXCEPT ![r].head = head]
      PROVE  GitTyped'
  <2>1. r \in Repos => [git[r] EXCEPT !.head = head] \in Gits
    BY <1>1 DEF Gits
  <2>2. git' = [git EXCEPT ![r] = [git[r] EXCEPT !.head = head]]
    BY <1>4
  <2> QED
    BY <2>1, <2>2, GitMovesTyped
<1> QED
  BY <1>2, <1>3, <1>4

LEMMA GitStepTyped ==
    ASSUME TypeInv, [Next]_vars
    PROVE  GitTyped'
<1>1. CASE UNCHANGED git
  BY <1>1 DEF TypeInv, GitTyped
<1>2. GitTyped
  BY DEF TypeInv
<1>3. ASSUME NEW p \in Runs, GitBegins(p)
      PROVE  GitTyped'
  <2>1. add[p].start \in Starts
    BY DEF TypeInv, AddsTyped
  <2>2. \/ UNCHANGED git
        \/ git' = [git EXCEPT ![add[p].repo].branch = IF add[p].makes THEN add[p].start ELSE @]
    BY <1>3 DEF GitBegins
  <2>3. \/ UNCHANGED git
        \/ git' = [git EXCEPT ![add[p].repo].branch = add[p].start]
        \/ git' = [git EXCEPT ![add[p].repo].branch = @]
    BY <2>2
  <2>4. CASE git' = [git EXCEPT ![add[p].repo].branch = @]
    <3>1. git' = [git EXCEPT ![add[p].repo] = [git[add[p].repo] EXCEPT !.branch = @]]
      BY <2>4
    <3>2. add[p].repo \in Repos => [git[add[p].repo] EXCEPT !.branch = @] \in Gits
      BY <1>2 DEF GitTyped, Gits
    <3> QED
      BY <1>2, <3>1, <3>2, GitMovesTyped
  <2> QED
    BY <1>1, <1>2, <2>1, <2>3, <2>4, GitFieldsTyped
<1>4. ASSUME NEW p \in Runs, GitEnters(p)
      PROVE  GitTyped'
  <2>1. "half" \in Trees
    BY DEF Trees
  <2>2. UNCHANGED git \/ git' = [git EXCEPT ![add[p].repo].tree = "half"]
    BY <1>4 DEF GitEnters
  <2> QED
    BY <1>1, <1>2, <2>1, <2>2, GitFieldsTyped
<1>5. ASSUME NEW p \in Runs, GitEnds(p) \/ GitFails(p)
      PROVE  GitTyped'
  <2>1. {"absent", "half", "whole"} \subseteq Trees
    BY DEF Trees
  <2> DEFINE r == add[p].repo
  <2>2. PICK tree : /\ tree \in {"absent", "half", "whole", git[r].tree}
                    /\ git' = [git EXCEPT ![r] = [git[r] EXCEPT !.tree = tree]]
    <3>1. CASE GitEnds(p)
      BY <3>1 DEF GitEnds
    <3>2. CASE GitFails(p)
      <4>1. PICK left \in {"absent", "half"} :
               git' = [git EXCEPT ![r].tree = IF add[p].step = "entered" /\ @ = "half" THEN left ELSE @]
        BY <3>2 DEF GitFails
      <4> QED
        BY <4>1
    <3> QED
      BY <1>5, <3>1, <3>2
  <2>3. r \in Repos => [git[r] EXCEPT !.tree = tree] \in Gits
    BY <1>2, <2>1, <2>2 DEF GitTyped, Gits
  <2> HIDE DEF r
  <2> QED
    BY <1>2, <2>2, <2>3, GitMovesTyped
<1>6. ASSUME NEW r \in Repos, MainMoves(r)
      PROVE  GitTyped'
  BY <1>2, <1>6, GitFieldsTyped DEF MainMoves
<1>7. ASSUME NEW r \in Repos, Meddle(r)
      PROVE  GitTyped'
  <2>1. PICK branch \in Starts, tree \in Trees, away \in BOOLEAN :
          git' = [git EXCEPT ![r] = [git[r] EXCEPT !.branch = branch, !.tree = tree, !.away = away]]
    BY <1>7 DEF Meddle, Starts, Trees
  <2>2. [git[r] EXCEPT !.branch = branch, !.tree = tree, !.away = away] \in Gits
    BY <1>2 DEF GitTyped, Gits
  <2> QED
    BY <1>2, <2>1, <2>2, GitMovesTyped
<1>8. ASSUME NEW r \in Repos, Forget(r) \/ RegisterAgain(r)
      PROVE  UNCHANGED git
  BY <1>8 DEF Forget, RegisterAgain
<1>9. ASSUME NEW p \in Runs, Step(p) \/ GitIsSilent(p) \/ Crash(p) \/ StartResume(p)
      PROVE  UNCHANGED git
  BY <1>9 DEF Step, Acquire, Measure, Journal, Reread, Recover, Apply, GitAnswers, Announce,
              CannotRegister, Register, Complete, GitIsSilent, Crash, StartResume
<1>10. ASSUME NEW p \in Runs, NEW repos, NEW from, StartFresh(p, repos, from) \/ ClearLeases(p, repos)
       PROVE  UNCHANGED git
  BY <1>10 DEF StartFresh, ClearLeases
<1>11. CASE UNCHANGED vars
  BY <1>1, <1>11 DEF vars
<1> QED
  BY <1>1, <1>3, <1>4, <1>5, <1>6, <1>7, <1>8, <1>9, <1>10, <1>11 DEF Next, GitStep

-----------------------------------------------------------------------------
LEMMA LeaseStep ==
    ASSUME TypeInv, [Next]_vars
    PROVE  LeaseTyped'
<1>1. LeaseTyped
  BY DEF TypeInv
<1>2. CASE UNCHANGED lease
  BY <1>1, <1>2 DEF LeaseTyped
<1>3. ASSUME NEW p \in Runs, Ends(p)
      PROVE  LeaseTyped'
  BY <1>1, <1>3 DEF Ends, LeaseTyped
<1>4. ASSUME NEW p \in Runs, Acquire(p) \/ Crash(p)
      PROVE  LeaseTyped'
  BY <1>1, <1>3, <1>4 DEF Acquire, Crash, LeaseTyped
<1>5. ASSUME NEW p \in Runs, NEW repos, ClearLeases(p, repos)
      PROVE  LeaseTyped'
  BY <1>1, <1>5 DEF ClearLeases, LeaseTyped
<1>6. ASSUME NEW r \in Repos, Forget(r)
      PROVE  LeaseTyped'
  BY <1>1, <1>6 DEF Forget, LeaseTyped
<1>7. ASSUME NEW p \in Runs, Step(p) \/ GitStep(p) \/ GitFails(p) \/ GitIsSilent(p) \/ StartResume(p), ~Acquire(p)
      PROVE  UNCHANGED lease \/ Ends(p)
  BY <1>7 DEF Step, Measure, Journal, Reread, Recover, Apply, GitAnswers, Announce, CannotRegister,
              Register, Complete, GitStep, GitBegins, GitEnters, GitEnds, GitFails, GitIsSilent, StartResume
<1>8. ASSUME NEW p \in Runs, NEW repos, NEW from, StartFresh(p, repos, from)
      PROVE  UNCHANGED lease
  BY <1>8 DEF StartFresh
<1>9. ASSUME NEW r \in Repos, MainMoves(r) \/ Meddle(r) \/ RegisterAgain(r)
      PROVE  UNCHANGED lease
  BY <1>9 DEF MainMoves, Meddle, RegisterAgain
<1>10. CASE UNCHANGED vars
  BY <1>2, <1>10 DEF vars
<1> QED
  BY <1>2, <1>3, <1>4, <1>5, <1>6, <1>7, <1>8, <1>9, <1>10 DEF Next

-----------------------------------------------------------------------------
LEMMA RunsStep ==
    ASSUME TypeInv, [Next]_vars
    PROVE  RunsTyped'
<1>1. CASE UNCHANGED run
  BY <1>1 DEF TypeInv, RunsTyped, Local
<1>2. ASSUME NEW p \in Runs, Step(p) \/ GitIsSilent(p) \/ Crash(p)
      PROVE  RunsTyped'
  BY <1>2, MeasureTyped, JournalTyped, RereadTyped, RecoverTyped, OnwardTyped, RegisterTyped, CrashTyped DEF Step
<1>3. ASSUME NEW p \in Runs, GitStep(p) \/ GitFails(p)
      PROVE  UNCHANGED run
  BY <1>3 DEF GitStep, GitBegins, GitEnters, GitEnds, GitFails
<1>4. ASSUME NEW p \in Runs, NEW repos, ClearLeases(p, repos)
      PROVE  UNCHANGED run
  BY <1>4 DEF ClearLeases
<1>5. ASSUME NEW r \in Repos, MainMoves(r) \/ Meddle(r) \/ Forget(r) \/ RegisterAgain(r)
      PROVE  UNCHANGED run
  BY <1>5 DEF MainMoves, Meddle, Forget, RegisterAgain
<1>6. CASE UNCHANGED vars
  BY <1>1, <1>6 DEF vars
<1> QED
  BY <1>1, <1>2, <1>3, <1>4, <1>5, <1>6, StartsTyped DEF Next

LEMMA TypeInvInit ==
    ASSUME Init
    PROVE  TypeInv
<1>1. GitTyped
  <2>1. PICK has \in Existing :
          git = [r \in Repos |-> [branch |-> IF r \in has THEN Main ELSE None, head |-> Main, tree |-> "absent", away |-> FALSE]]
    BY DEF Init
  <2> QED
    BY <2>1, CreationAssumption DEF GitTyped, Starts, Trees
<1>2. /\ add = [p \in Runs |-> NoAdd] /\ lease = [r \in Repos |-> None]
      /\ creation = [c \in Creations |-> NoCreation] /\ run = [p \in Runs |-> Idle]
  BY DEF Init
<1>3. LeaseTyped
  BY <1>2 DEF LeaseTyped
<1>4. CreationTyped /\ OneOpen
  BY <1>2 DEF CreationTyped, NoCreation, NoPhase, Starts, OneOpen, Open
<1>5. RunsTyped
  BY <1>2, IdleLocal DEF RunsTyped
<1>6. AddsTyped
  BY <1>2 DEF AddsTyped, NoAdd, Starts
<1> QED
  BY <1>1, <1>3, <1>4, <1>5, <1>6 DEF TypeInv

\* The variables keep their types, and at most one creation is open (the unique index of open
\* creations, sqlite-store.ts): whatever Git, the shells and others do.
THEOREM TypeOKHolds == Spec => []TypeOK
<1>1. Init => TypeInv
  BY TypeInvInit
<1>2. TypeInv /\ [Next]_vars => TypeInv'
  BY GitStepTyped, LeaseStep, CreationStep, RunsStep, AddsStep DEF TypeInv
<1>3. TypeInv => TypeOK
  <2> SUFFICES ASSUME TypeInv
               PROVE  TypeOK
    OBVIOUS
  <2>1. Cardinality(Open) <= 1
    <3>1. CASE Open = {}
      BY <3>1, FS_EmptySet
    <3>2. CASE Open # {}
      <4>1. PICK c \in Open : Open = {c}
        BY <3>2 DEF TypeInv, OneOpen
      <4>2. Cardinality({c}) = 1
        BY FS_Singleton
      <4>3. Cardinality(Open) = 1
        BY <4>1, <4>2, Zenon
      <4> QED
        BY <4>3
    <3> QED
      BY <3>1, <3>2
  <2>2. /\ git \in [Repos -> [branch : {None} \cup Commits, head : Commits, away : BOOLEAN,
                              tree : {"absent", "dir", "half", "whole", "other", "prunable"}]]
        /\ \A r \in Repos : lease[r] \in {None, "dead"} \cup Runs
    BY DEF TypeInv, GitTyped, LeaseTyped, Starts, Trees
  <2>3. \A c \in Creations : /\ creation[c].state \in {"none", "IN_PROGRESS", "COMPLETED", "SUPERSEDED"}
                             /\ \A r \in Repos : creation[c].phase[r] \in {"none"} \cup Phases
    BY DEF TypeInv, CreationTyped
  <2> QED
    BY <2>1, <2>2, <2>3 DEF TypeOK
<1> QED
  BY <1>1, <1>2, <1>3, PTL DEF Spec
=============================================================================

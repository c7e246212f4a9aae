-------------------------- MODULE FeatureCreation --------------------------
(***************************************************************************)
(* `wtm create <branch> --repos ...` and `wtm create <branch> --resume`    *)
(* (cli/src/commands/create-feature.ts): one worktree in each of several   *)
(* repositories, the journal of the creation, and its recovery.            *)
(*                                                                         *)
(* One workspace and one branch; a repository stands for its main root, so *)
(* forgetting it and registering it again only gives it another id.        *)
(***************************************************************************)
EXTENDS Naturals, FiniteSets

CONSTANTS
    Repos,              \* by position: the order of their ids
    Runs,               \* shells that run `wtm create`
    Commits,
    None,
    Main,               \* the commit the main worktrees are at
    Existing,           \* bound: the sets of repositories that have the branch at first
    Asked,              \* bound: the sets of repositories that --repos names
    Froms,              \* bound: the commits that --from names, or None
    MaxFresh,           \* bound: runs without --resume
    MaxMeddling,        \* bound: what others do in and to the repositories
    MaxFaults,          \* bound: crashes and failures of Git
    Kills,              \* a `git worktree add` may be killed half way
    SlowGit             \* or leave one that takes longer than the lease of its run

ASSUME CreationAssumption ==
    /\ Repos \subseteq Nat /\ IsFiniteSet(Repos)
    /\ Existing \cup Asked \subseteq SUBSET Repos /\ Froms \subseteq {None} \cup Commits
    /\ Main \in Commits /\ None \notin Commits \cup Runs \cup {"dead"} /\ "dead" \notin Runs
    /\ {MaxFresh, MaxMeddling, MaxFaults} \subseteq Nat
    /\ {Kills, SlowGit} \subseteq BOOLEAN

Creations == 1..MaxFresh

VARIABLES
    git,        \* of each repository: `branch` the commit it is at, `head` of the main worktree, `tree` what is
                \* at the path, `away` the branch is checked out somewhere else
    add,        \* the `git worktree add` of each run, which may survive it
    reg,        \* the repository's id, or 0
    row,        \* the registry knows the worktree
    lease,      \* `create` leases: the run that holds it, or "dead"
    creation,   \* feature_creations and their members
    run,
    made,       \* history: the creation whose `git worktree add` made what is at the path
    touched,    \* history: the creations since whose planning somebody else changed the repository
    spent       \* the bounds used up

vars == <<git, add, reg, row, lease, creation, run, made, touched, spent>>

NoPhase == [r \in Repos |-> "none"]

NoCreation == [state |-> "none", phase |-> NoPhase, reg |-> [r \in Repos |-> 0],
               existed |-> {}, start |-> [r \in Repos |-> None]]

NoneOpen == [id |-> 0, phase |-> NoPhase]

Idle == [pc |-> "off", resume |-> FALSE, repos |-> {}, reg |-> [r \in Repos |-> 0], from |-> None, open |-> NoneOpen,
         c |-> 0, unread |-> {}, todo |-> {}, makes |-> {}, start |-> [r \in Repos |-> None], rest |-> {},
         via |-> None, failed |-> FALSE]

NoAdd == [step |-> "off", repo |-> 0, makes |-> FALSE, start |-> None, c |-> 0]

Init ==
    /\ \E has \in Existing :
         git = [r \in Repos |-> [branch |-> IF r \in has THEN Main ELSE None, head |-> Main, tree |-> "absent", away |-> FALSE]]
    /\ add = [p \in Runs |-> NoAdd]
    /\ reg = [r \in Repos |-> 1]
    /\ row = [r \in Repos |-> FALSE]
    /\ lease = [r \in Repos |-> None]
    /\ creation = [c \in Creations |-> NoCreation]
    /\ run = [p \in Runs |-> Idle]
    /\ made = [r \in Repos |-> 0]
    /\ touched = [r \in Repos |-> {}]
    /\ spent = [fresh |-> 0, meddling |-> 0, faults |-> 0]

First(repos) == CHOOSE r \in repos : \A s \in repos : r <= s

-----------------------------------------------------------------------------
(* The journal. *)

Open == {c \in Creations : creation[c].state = "IN_PROGRESS"}

(* readOpenFeatureCreation. *)
Current == IF Open = {} THEN NoneOpen
           ELSE LET c == CHOOSE c \in Open : TRUE IN [id |-> c, phase |-> creation[c].phase]

Unused == {c \in Creations : creation[c].state = "none"}

New == CHOOSE c \in Unused : TRUE

AllPlanned(phase) == \A r \in Repos : phase[r] \in {"none", "PLANNED"}

(* advanceCreationMember; it throws when the creation is not open any more. *)
Advance(c, r, phase) == creation' = [creation EXCEPT ![c].phase[r] = phase]

(* A run that returns or throws gives up its leases. *)
Ends(p) ==
    /\ run' = [run EXCEPT ![p] = Idle]
    /\ lease' = [r \in Repos |-> IF lease[r] = p THEN None ELSE lease[r]]

Goes(p, pc) == run' = [run EXCEPT ![p].pc = pc]

-----------------------------------------------------------------------------
(* What Git tells of a repository. *)

OnBranch(g) == g.tree \in {"half", "whole"}

(* A record at the path: a worktree on the branch, one on another branch, or one that is gone. *)
Listed(g) == g.tree \in {"half", "whole", "other", "prunable"}

(* Some record has the branch checked out. *)
Held(g) == g.tree \in {"half", "whole", "prunable"} \/ g.away

(* planWorktreeCreation. *)
Plannable(g, from) ==
    /\ from # None => g.branch = None
    /\ ~Held(g)
    /\ g.tree \in {"absent"}

(* planFeatureCreation: the commit a member starts at is pinned. *)
StartOf(g, from) == IF g.branch # None THEN g.branch ELSE IF from # None THEN from ELSE g.head

-----------------------------------------------------------------------------
(* The runs, up to their leases. *)

Free(p) == run[p].pc = "off" /\ add[p].step = "off"

StartFresh(p, repos, from) ==
    /\ Free(p) /\ repos # {} /\ spent.fresh < MaxFresh
    /\ \A r \in repos : reg[r] # 0 /\ Plannable(git[r], from)
    /\ AllPlanned(Current.phase)                       \* else it has to be resumed
    /\ run' = [run EXCEPT ![p] = [Idle EXCEPT !.pc = "lease", !.repos = repos, !.reg = reg, !.from = from,
                                              !.open = Current]]
    /\ spent' = [spent EXCEPT !.fresh = @ + 1]
    /\ UNCHANGED <<git, add, reg, row, lease, creation, made, touched>>

(* Only the members with work left are leased; one of a repository forgotten refuses. *)
StartResume(p) ==
    /\ Free(p) /\ Open # {}
    /\ LET c == Current.id
           left == {r \in Repos : Current.phase[r] \notin {"none", "REGISTERED"}}
       IN  /\ \A r \in left : reg[r] = creation[c].reg[r]
           /\ run' = [run EXCEPT ![p] = [Idle EXCEPT !.pc = IF left = {} THEN "announce" ELSE "lease", !.resume = TRUE,
                                              !.repos = left, !.reg = reg, !.open = Current, !.c = c]]
    /\ UNCHANGED <<git, add, reg, row, lease, creation, made, touched, spent>>

(* As if --resume adopted every lease it finds. *)
Takeable_AdoptsTheLiving(p, r) ==
    run[p].reg[r] = reg[r] /\ (lease[r] = None \/ run[p].resume)

(* withRepositoryOperationLeases: all of them or none.  Only --resume adopts the lease of a dead run, *)
(* once it has expired; by then its `git worktree add` has ended, unless Git is slow. *)
Takeable(p, r) ==
    /\ run[p].reg[r] = reg[r]
    /\ \/ lease[r] = None
       \/ /\ run[p].resume /\ lease[r] = "dead"
          /\ SlowGit \/ \A q \in Runs : add[q].step # "off" => add[q].repo # r

Acquire(p) ==
    /\ run[p].pc = "lease"
    /\ IF \A r \in run[p].repos : Takeable(p, r)
       THEN /\ lease' = [r \in Repos |-> IF r \in run[p].repos THEN p ELSE lease[r]]
            /\ Goes(p, "check")
       ELSE Ends(p)
    /\ UNCHANGED <<git, add, reg, row, creation, made, touched, spent>>

(* --resume --repos with nothing to resume: it takes the leases and gives them up. *)
ClearLeases(p, repos) ==
    /\ Free(p) /\ Open = {}
    /\ \A r \in repos : reg[r] # 0 /\ lease[r] \in {None, "dead"}
    /\ \E r \in repos : lease[r] = "dead"
    /\ lease' = [r \in Repos |-> IF r \in repos THEN None ELSE lease[r]]
    /\ UNCHANGED <<git, add, reg, row, creation, run, made, touched, spent>>

(* Under the leases a fresh run looks and plans again. *)
Measure(p) ==
    /\ run[p].pc = "check" /\ ~run[p].resume
    /\ IF Current = run[p].open /\ \A r \in run[p].repos : Plannable(git[r], run[p].from)
       THEN /\ run' = [run EXCEPT ![p].pc = "journal",
                           ![p].makes = {r \in run[p].repos : git[r].branch = None},
                           ![p].start = [r \in Repos |-> IF r \in run[p].repos THEN StartOf(git[r], run[p].from) ELSE None]]
            /\ touched' = [r \in Repos |-> IF r \in run[p].repos THEN touched[r] \ Unused ELSE touched[r]]
            /\ UNCHANGED lease
       ELSE Ends(p) /\ UNCHANGED touched
    /\ UNCHANGED <<git, add, reg, row, creation, made, spent>>

(* beginFeatureCreation: one transaction, refused by the index of open creations or by the old *)
(* creation having moved on.  Bound: an id for each fresh run. *)
Journal(p) ==
    LET old == run[p].open.id IN
    /\ run[p].pc = "journal" /\ Unused # {}
    /\ IF Open \subseteq {old} /\ (old # 0 => old \in Open /\ AllPlanned(creation[old].phase))
       THEN /\ creation' = [c \in Creations |->
                 IF c = New THEN
                     [state |-> "IN_PROGRESS", reg |-> run[p].reg, start |-> run[p].start,
                      phase |-> [r \in Repos |-> IF r \in run[p].repos THEN "PLANNED" ELSE "none"],
                      existed |-> run[p].repos \ run[p].makes]
                 ELSE IF c = old THEN [creation[c] EXCEPT !.state = "SUPERSEDED"] ELSE creation[c]]
            /\ run' = [run EXCEPT ![p].pc = "apply", ![p].c = New, ![p].todo = run[p].repos, ![p].rest = run[p].repos]
            /\ UNCHANGED lease
       ELSE Ends(p) /\ UNCHANGED creation
    /\ UNCHANGED <<git, add, reg, row, made, touched, spent>>

(* Under the leases a resume asks first whether the journal is what it read. *)
Reread(p) ==
    /\ run[p].pc = "check" /\ run[p].resume
    /\ IF Current = run[p].open
       THEN run' = [run EXCEPT ![p].pc = "recover", ![p].unread = run[p].repos] /\ UNCHANGED lease
       ELSE Ends(p)
    /\ UNCHANGED <<git, add, reg, row, creation, made, touched, spent>>

(* classifyMemberRecovery, for a member with work left. *)
MarksApplied(g) == OnBranch(g)

(* As if a branch that is there had to be one that was there before the creation. *)
Applies_RefusesItsOwnBranch(g, c, r) ==
    ~Held(g) /\ g.tree = "absent" /\ (g.branch = None \/ r \in creation[c].existed)

Applies(g, c, r) ==
    /\ ~Held(g) /\ g.tree = "absent"
    /\ g.branch = None \/ r \in creation[c].existed \/ g.branch = creation[c].start[r]

(* One member after another is read and classified. *)
Recover(p) ==
    LET c == run[p].c
        r == First(run[p].unread)
        g == git[r]
        left == run[p].unread \ {r}
        read == [run[p] EXCEPT !.unread = left, !.rest = @ \cup {r}, !.pc = IF left = {} THEN "apply" ELSE @]
    IN
    /\ run[p].pc = "recover"
    /\ \/ /\ MarksApplied(g) /\ c \in Open
          /\ Advance(c, r, "APPLIED")
          /\ run' = [run EXCEPT ![p] = read]
          /\ UNCHANGED lease
       \/ /\ Applies(g, c, r)
          /\ run' = [run EXCEPT ![p] = [read EXCEPT !.todo = @ \cup {r}, !.start[r] = creation[c].start[r],
                                                    !.makes = IF g.branch = None THEN @ \cup {r} ELSE @]]
          /\ UNCHANGED <<lease, creation>>
       \/ /\ ~Applies(g, c, r) /\ (MarksApplied(g) => c \notin Open)
          /\ Ends(p)
          /\ UNCHANGED creation
    /\ UNCHANGED <<git, add, reg, row, made, touched, spent>>

-----------------------------------------------------------------------------
(* Applying. *)

(* The leases are renewed, and the member is journalled before Git is run. *)
Apply(p) ==
    LET c == run[p].c
        r == First(run[p].todo)
    IN
    /\ run[p].pc = "apply" /\ run[p].todo # {}
    /\ IF c \in Open /\ \A s \in run[p].repos : lease[s] = p
       THEN /\ Advance(c, r, "APPLYING")
            /\ add' = [add EXCEPT ![p] = [step |-> "begun", repo |-> r, makes |-> r \in run[p].makes,
                                          start |-> run[p].start[r], c |-> c]]
            /\ Goes(p, "git")
            /\ UNCHANGED lease
       ELSE Ends(p) /\ UNCHANGED <<creation, add>>
    /\ UNCHANGED <<git, reg, row, made, touched, spent>>

(* What a `git worktree add` that ended tells the run, if it is still there. *)
Told(p, step) == add' = [add EXCEPT ![p] = IF run[p].pc = "git" THEN [@ EXCEPT !.step = step] ELSE NoAdd]

(* Git checks the path and the branch, and creates the branch first. *)
GitBegins(p) ==
    LET r == add[p].repo g == git[r] IN
    /\ add[p].step = "begun"
    /\ IF g.tree = "absent" /\ ~g.away /\ (add[p].makes <=> g.branch = None)
       THEN /\ git' = [git EXCEPT ![r].branch = IF add[p].makes THEN add[p].start ELSE @]
            /\ add' = [add EXCEPT ![p].step = "branched"]
       ELSE Told(p, "failed") /\ UNCHANGED git
    /\ UNCHANGED <<reg, row, lease, creation, run, made, touched, spent>>

GitEnters(p) ==
    LET r == add[p].repo g == git[r] IN
    /\ add[p].step = "branched"
    /\ IF g.tree = "absent" /\ ~g.away /\ g.branch # None
       THEN /\ git' = [git EXCEPT ![r].tree = "half"]
            /\ made' = [made EXCEPT ![r] = add[p].c]
            /\ add' = [add EXCEPT ![p].step = "entered"]
       ELSE Told(p, "failed") /\ UNCHANGED <<git, made>>
    /\ UNCHANGED <<reg, row, lease, creation, run, touched, spent>>

(* The files are there; a `post-checkout` hook may fail all the same. *)
GitEnds(p) ==
    LET r == add[p].repo IN
    /\ add[p].step = "entered"
    /\ git' = [git EXCEPT ![r].tree = IF @ = "half" THEN "whole" ELSE @]
    /\ Told(p, IF git[r].tree = "half" THEN "done" ELSE "failed")
    /\ UNCHANGED <<reg, row, lease, creation, run, made, touched, spent>>

(* Git fails or exceeds the 30 seconds of runGit: it takes back the worktree and leaves the branch; one *)
(* that is killed outright leaves the worktree too. *)
GitFails(p) ==
    LET r == add[p].repo IN
    /\ add[p].step \in {"branched", "entered"} /\ spent.faults < MaxFaults
    /\ \E left \in {"absent"} \cup (IF Kills THEN {"half"} ELSE {}) :
         git' = [git EXCEPT ![r].tree = IF add[p].step = "entered" /\ @ = "half" THEN left ELSE @]
    /\ Told(p, "failed")
    /\ spent' = [spent EXCEPT !.faults = @ + 1]
    /\ UNCHANGED <<reg, row, lease, creation, run, made, touched>>

(* createWorktree and its caller believe what Git lists: only a list without the path takes the *)
(* member back to PLANNED. *)
Landed(p) ==
    LET g == git[add[p].repo] IN
    OnBranch(g) /\ (add[p].makes => g.branch = add[p].start) /\ run[p].c \in Open

GitAnswers(p) ==
    LET c == run[p].c
        r == add[p].repo
    IN
    /\ run[p].pc = "git" /\ add[p].step \in {"done", "failed"}
    /\ add' = [add EXCEPT ![p] = NoAdd]
    /\ \/ /\ Landed(p)
          /\ Advance(c, r, "APPLIED")
          /\ run' = [run EXCEPT ![p].pc = "apply", ![p].todo = @ \ {r}]
          /\ UNCHANGED lease
       \/ /\ Listed(git[r]) /\ ~Landed(p)
          /\ Ends(p)
          /\ UNCHANGED creation
       \/ /\ ~Listed(git[r])
          /\ IF c \in Open THEN Advance(c, r, "PLANNED") ELSE UNCHANGED creation
          /\ Ends(p)
    /\ UNCHANGED <<git, reg, row, made, touched, spent>>

(* As if no list were a list without the path. *)
GitIsSilent_MeansAbsent(p) ==
    /\ run[p].pc = "git" /\ add[p].step \in {"done", "failed"} /\ spent.faults < MaxFaults
    /\ add' = [add EXCEPT ![p] = NoAdd]
    /\ IF run[p].c \in Open THEN Advance(run[p].c, add[p].repo, "PLANNED") ELSE UNCHANGED creation
    /\ Ends(p)
    /\ spent' = [spent EXCEPT !.faults = @ + 1]
    /\ UNCHANGED <<git, reg, row, made, touched>>

(* Git cannot list its worktrees: nothing is said of the member. *)
GitIsSilent(p) ==
    /\ run[p].pc = "git" /\ add[p].step \in {"done", "failed"} /\ spent.faults < MaxFaults
    /\ add' = [add EXCEPT ![p] = NoAdd]
    /\ Ends(p)
    /\ spent' = [spent EXCEPT !.faults = @ + 1]
    /\ UNCHANGED <<git, reg, row, creation, made, touched>>

-----------------------------------------------------------------------------
(* Registering. *)

(* As if any answer of the daemon, `ok: false` too, were a reconciliation. *)
Announce_TrustsAnyAnswer(p) ==
    /\ run[p].pc \in {"apply", "announce"} /\ run[p].todo = {}
    /\ \E via \in {"daemon", "local"} : run' = [run EXCEPT ![p].pc = "register", ![p].via = via]
    /\ UNCHANGED <<git, add, reg, row, lease, creation, made, touched, spent>>

(* The daemon reconciles every repository before it answers; without one the run does it itself. *)
Announce(p) ==
    /\ run[p].pc \in {"apply", "announce"} /\ run[p].todo = {}
    /\ \/ /\ row' = [r \in Repos |-> reg[r] # 0 /\ Listed(git[r])]
          /\ run' = [run EXCEPT ![p].pc = "register", ![p].via = "daemon"]
       \/ /\ run' = [run EXCEPT ![p].pc = "register", ![p].via = "local"]
          /\ UNCHANGED row
    /\ UNCHANGED <<git, add, reg, lease, creation, made, touched, spent>>

Registered(p) == [run[p] EXCEPT !.rest = @ \ {First(@)}]

(* A member that cannot be registered is passed over, and keeps the creation from completing. *)
CannotRegister(p) ==
    LET r == First(run[p].rest) IN
    /\ run[p].pc = "register" /\ run[p].rest # {} /\ run[p].via = "local"
    /\ \/ reg[r] # run[p].reg[r] /\ UNCHANGED spent
       \/ spent.faults < MaxFaults /\ spent' = [spent EXCEPT !.faults = @ + 1]
    /\ run' = [run EXCEPT ![p] = [Registered(p) EXCEPT !.failed = TRUE]]
    /\ UNCHANGED <<git, add, reg, row, lease, creation, made, touched>>

Register(p) ==
    LET c == run[p].c
        r == First(run[p].rest)
    IN
    /\ run[p].pc = "register" /\ run[p].rest # {}
    /\ run[p].via = "local" => reg[r] = run[p].reg[r]
    /\ row' = IF run[p].via = "local" THEN [row EXCEPT ![r] = Listed(git[r])] ELSE row
    /\ IF c \in Open
       THEN Advance(c, r, "REGISTERED") /\ run' = [run EXCEPT ![p] = Registered(p)] /\ UNCHANGED lease
       ELSE Ends(p) /\ UNCHANGED creation
    /\ UNCHANGED <<git, add, reg, made, touched, spent>>

(* completeFeatureCreation asks for every member to be REGISTERED. *)
Complete(p) ==
    LET c == run[p].c IN
    /\ run[p].pc = "register" /\ run[p].rest = {}
    /\ creation' = IF /\ ~run[p].failed /\ c \in Open
                      /\ \A r \in Repos : creation[c].phase[r] \in {"none", "REGISTERED"}
                   THEN [creation EXCEPT ![c].state = "COMPLETED"] ELSE creation
    /\ Ends(p)
    /\ UNCHANGED <<git, add, reg, row, made, touched, spent>>

-----------------------------------------------------------------------------
(* Others. *)

(* The run is killed: its `git worktree add` goes on, or dies as it is. *)
Crash(p) ==
    /\ run[p].pc # "off" /\ spent.faults < MaxFaults
    /\ spent' = [spent EXCEPT !.faults = @ + 1]
    /\ run' = [run EXCEPT ![p] = Idle]
    /\ lease' = [r \in Repos |-> IF lease[r] = p THEN "dead" ELSE lease[r]]
    /\ \/ add' = [add EXCEPT ![p] = IF @.step \in {"done", "failed"} THEN NoAdd ELSE @]
       \/ Kills /\ add' = [add EXCEPT ![p] = NoAdd]
    /\ UNCHANGED <<git, reg, row, creation, made, touched>>

(* The main worktree moves on to another commit. *)
MainMoves(r) ==
    /\ spent.meddling < MaxMeddling
    /\ \E c \in Commits \ {git[r].head} : git' = [git EXCEPT ![r].head = c]
    /\ spent' = [spent EXCEPT !.meddling = @ + 1]
    /\ UNCHANGED <<add, reg, row, lease, creation, run, made, touched>>

(* What is at the path and where the branch is go together. *)
Possible(g) ==
    /\ g.branch = None => ~Held(g)
    /\ g.away => ~OnBranch(g) /\ g.tree # "prunable"

(* The user, or `wtm create` of this one repository, which takes no lease. *)
Meddle(r) ==
    /\ spent.meddling < MaxMeddling
    /\ \E branch \in {None} \cup Commits, tree \in {"absent", "dir", "whole", "other", "prunable"}, away \in BOOLEAN :
         LET g == [git[r] EXCEPT !.branch = branch, !.tree = tree, !.away = away] IN
         /\ Possible(g) /\ g # git[r]
         /\ \/ branch = git[r].branch /\ (tree = git[r].tree \/ away = git[r].away)
            \/ tree = git[r].tree /\ away = git[r].away
            \/ git[r].branch = None /\ git[r].tree = "absent" /\ ~away /\ tree = "whole" /\ branch = git[r].head
         /\ git' = [git EXCEPT ![r] = g]
         /\ made' = [made EXCEPT ![r] = IF tree = git[r].tree THEN @ ELSE 0]
    /\ touched' = [touched EXCEPT ![r] = Creations]
    /\ spent' = [spent EXCEPT !.meddling = @ + 1]
    /\ UNCHANGED <<add, reg, row, lease, creation, run>>

(* `wtm` forgets the repository, but not under a live lease, and knows it again under another id. *)
Forget(r) ==
    /\ reg[r] # 0 /\ lease[r] \notin Runs /\ spent.meddling < MaxMeddling
    /\ reg' = [reg EXCEPT ![r] = 0]
    /\ lease' = [lease EXCEPT ![r] = None]
    /\ row' = [row EXCEPT ![r] = FALSE]
    /\ touched' = [touched EXCEPT ![r] = Creations]
    /\ spent' = [spent EXCEPT !.meddling = @ + 1]
    /\ UNCHANGED <<git, add, creation, run, made>>

RegisterAgain(r) ==
    /\ reg[r] = 0
    /\ reg' = [reg EXCEPT ![r] = 1 + spent.meddling]
    /\ UNCHANGED <<git, add, row, lease, creation, run, made, touched, spent>>

-----------------------------------------------------------------------------
Step(p) ==
    \/ Acquire(p) \/ Measure(p) \/ Journal(p) \/ Reread(p) \/ Recover(p) \/ Apply(p)
    \/ GitAnswers(p) \/ Announce(p) \/ CannotRegister(p) \/ Register(p) \/ Complete(p)

GitStep(p) == GitBegins(p) \/ GitEnters(p) \/ GitEnds(p)

Next ==
    \/ \E p \in Runs, repos \in Asked, from \in Froms : StartFresh(p, repos, from)
    \/ \E p \in Runs : StartResume(p)
    \/ \E p \in Runs, repos \in Asked : ClearLeases(p, repos)
    \/ \E p \in Runs : Step(p)
    \/ \E p \in Runs : GitStep(p)
    \/ \E p \in Runs : GitFails(p)
    \/ \E p \in Runs : GitIsSilent(p)
    \/ \E p \in Runs : Crash(p)
    \/ \E r \in Repos : MainMoves(r)
    \/ \E r \in Repos : Meddle(r)
    \/ \E r \in Repos : Forget(r)
    \/ \E r \in Repos : RegisterAgain(r)

Spec == Init /\ [][Next]_vars

FairSpec ==
    /\ Spec
    /\ \A p \in Runs : WF_vars(Step(p)) /\ WF_vars(GitStep(p))
    /\ WF_vars(\E p \in Runs : StartResume(p))

-----------------------------------------------------------------------------
Phases == {"PLANNED", "APPLYING", "APPLIED", "REGISTERED"}

TypeOK ==
    /\ git \in [Repos -> [branch : {None} \cup Commits, head : Commits, away : BOOLEAN,
                          tree : {"absent", "dir", "half", "whole", "other", "prunable"}]]
    /\ \A r \in Repos : lease[r] \in {None, "dead"} \cup Runs
    /\ \A c \in Creations : /\ creation[c].state \in {"none", "IN_PROGRESS", "COMPLETED", "SUPERSEDED"}
                            /\ \A r \in Repos : creation[c].phase[r] \in {"none"} \cup Phases
    /\ Cardinality(Open) <= 1

(* A creation that is reported done has, in every member nobody else touched, a whole worktree on the *)
(* branch at the commit pinned for it, and the registry knows it. *)
CompletedIsWhole ==
    \A c \in Creations, r \in Repos :
        creation[c].state = "COMPLETED" /\ creation[c].phase[r] # "none" /\ c \notin touched[r] /\ made[r] = c
            => git[r].tree = "whole" /\ git[r].branch = creation[c].start[r] /\ row[r]

(* What a creation made is never forgotten: its journal is not replaced and its member does not go *)
(* back to PLANNED while the worktree is there or being made. *)
MadeIsJournalled ==
    \A r \in Repos :
        made[r] # 0 /\ Listed(git[r]) => /\ creation[made[r]].state \in {"IN_PROGRESS", "COMPLETED"}
                                         /\ creation[made[r]].phase[r] # "PLANNED"

Adding(p) == add[p].step \in {"begun", "branched", "entered"}

(* Git is run in a repository by one run at a time, and for a creation that is open. *)
OneWriter ==
    /\ \A p, q \in Runs : p # q /\ Adding(p) /\ Adding(q) => add[p].repo # add[q].repo
    /\ \A p \in Runs : Adding(p) => add[p].c \in Open /\ creation[add[p].c].phase[add[p].repo] = "APPLYING"

(* A creation that nobody disturbs is finished by resuming it, wherever its runs were killed and however *)
(* Git failed. *)
ResumeFinishes ==
    \A c \in Creations : c \in Open ~> (c \notin Open \/ \E r \in Repos : creation[c].phase[r] # "none" /\ c \in touched[r])

(* sqlite-store.ts: "Nothing was written to Git while every member is PLANNED". *)
PlannedWroteNothing ==
    \A c \in Open : AllPlanned(creation[c].phase) =>
        \A r \in Repos : creation[c].phase[r] = "PLANNED" /\ r \notin creation[c].existed /\ c \notin touched[r]
            => git[r].branch = None

(* create-feature-recovery.ts: "Register it again with `wtm init`, then resume." *)
InitRestores ==
    \A c \in Open, r \in Repos : creation[c].phase[r] \in {"PLANNED", "APPLYING", "APPLIED"} /\ reg[r] # 0
            => reg[r] = creation[c].reg[r]
=============================================================================

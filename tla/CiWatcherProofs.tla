-------------------------- MODULE CiWatcherProofs --------------------------
(***************************************************************************)
(* Proofs about `wtm ci watch`, for any watches, commits and runs, any     *)
(* answers of the provider and any budget.                                 *)
(***************************************************************************)
EXTENDS CiWatcher, TLAPS

GoneRow == [NoWatch EXCEPT !.state = "gone"]

NewRow(t, c) == [NoWatch EXCEPT !.state = "pending", !.tree = t, !.head = c]

(* Each log that was fetched is one the row says it has. *)
Saved(row) == \A r \in Runs : row.fetched[r] = 1 => row.runs[r].log

(* A row that has ended holds nothing but how, and no log was fetched twice or of an unseen run. *)
Sound(row) ==
    /\ row \in Rows
    /\ row.state = "pending" => row.head \in Commits
    /\ row.state \notin {"none", "pending"} => row = Ended(row, row.state)
    /\ \A r \in Runs : row.fetched[r] <= 1
    /\ \A r \in Runs : row.runs[r].log => row.head \in Commits /\ r \in RunsOf[row.head] /\ ci[r] # "none"

RowsOK == \A w \in Watches : Sound(watch[w])

(* The poll has read which runs there are. *)
Reading == poll.step \in {"jobs", "job", "log"}

(* Only the poll under way holds logs that its row does not tell of yet. *)
SavedOK == \A w \in Watches : ~(Reading /\ poll.w = w) => Saved(watch[w])

(* What the poll under way holds. *)
PollOK ==
    /\ poll.step # "off" => watch[poll.w].state # "none"
    /\ poll.step # "off" /\ watch[poll.w].state = "pending" =>
            poll.stored = watch[poll.w].runs /\ poll.head = watch[poll.w].head
    /\ Reading =>
        /\ \A r \in Runs : poll.runs[r].status # "none" \/ poll.runs[r].log
                                => r \in RunsOf[poll.head] /\ ci[r] # "none"
        /\ \A r \in Runs : watch[poll.w].fetched[r] = 1 => poll.runs[r].log
        /\ ~Complete => Saved(watch[poll.w])
    /\ poll.step = "job" => poll.at \in poll.todo
    /\ poll.step = "log" => Complete /\ poll.at \in Unlogged

IInv == TypeOK /\ RowsOK /\ SavedOK /\ PollOK

-----------------------------------------------------------------------------
\* Runs that are not seen are a listing.
LEMMA NoRunsType == NoRuns \in Listings
BY DEF NoRuns, Unseen, Listings, Conclusions

\* The empty row, one that has ended and a new one are rows.
LEMMA RowTypes ==
    /\ NoWatch \in Rows
    /\ GoneRow \in Rows
    /\ \A row \in Rows, state \in Verdicts : Ended(row, state) \in Rows
    /\ \A t \in Worktrees, c \in Commits : NewRow(t, c) \in Rows
<1>1. NoWatch \in Rows
  BY NoRunsType DEF NoWatch, Rows
<1>2. GoneRow \in Rows
  BY NoRunsType DEF NoWatch, Rows, GoneRow
<1>3. ASSUME NEW row \in Rows, NEW state \in Verdicts PROVE Ended(row, state) \in Rows
  <2>1. row.tree \in Worktrees \cup {None}
    BY DEF Rows
  <2> QED
    BY <2>1, NoRunsType DEF NoWatch, Rows, Ended
<1>4. ASSUME NEW t \in Worktrees, NEW c \in Commits PROVE NewRow(t, c) \in Rows
  BY NoRunsType DEF NoWatch, Rows, NewRow
<1> QED
  BY <1>1, <1>2, <1>3, <1>4

\* What those rows tell.
LEMMA RowFacts ==
    /\ GoneRow.state = "gone" /\ GoneRow = Ended(GoneRow, "gone")
    /\ \A row, state : Ended(row, state).state = state /\ Ended(row, state) = Ended(Ended(row, state), state)
    /\ \A t, c : NewRow(t, c).state = "pending" /\ NewRow(t, c).head = c
    /\ \A row, state : Ended(row, state).fetched = [r \in Runs |-> 0] /\ Ended(row, state).runs = NoRuns
                          /\ Ended(row, state).due = FALSE
    /\ GoneRow.fetched = [r \in Runs |-> 0] /\ GoneRow.runs = NoRuns
    /\ \A t, c : NewRow(t, c).fetched = [r \in Runs |-> 0] /\ NewRow(t, c).runs = NoRuns
BY DEF GoneRow, NewRow, Ended, NoWatch

\* Such a row holds no log.
LEMMA BlankSound ==
    ASSUME NEW row \in Rows, row.fetched = [r \in Runs |-> 0], row.runs = NoRuns,
           row.state = "pending" => row.head \in Commits,
           row.state \notin {"none", "pending"} => row = Ended(row, row.state)
    PROVE  Sound(row) /\ Saved(row)
BY DEF Sound, Saved, NoRuns, Unseen

\* So no row of these kinds is unsound.
LEMMA FreshSound ==
    /\ Sound(GoneRow) /\ Saved(GoneRow)
    /\ \A row \in Rows, state \in Verdicts : Sound(Ended(row, state)) /\ Saved(Ended(row, state))
    /\ \A t \in Worktrees, c \in Commits : Sound(NewRow(t, c)) /\ Saved(NewRow(t, c))
<1>1. Sound(GoneRow) /\ Saved(GoneRow)
  BY RowTypes, RowFacts, BlankSound
<1>2. ASSUME NEW row \in Rows, NEW state \in Verdicts PROVE Sound(Ended(row, state)) /\ Saved(Ended(row, state))
  <2>1. "pending" \notin Verdicts
    BY DEF Verdicts
  <2> QED
    BY <2>1, RowTypes, RowFacts, BlankSound
<1>3. ASSUME NEW t \in Worktrees, NEW c \in Commits PROVE Sound(NewRow(t, c)) /\ Saved(NewRow(t, c))
  BY RowTypes, RowFacts, BlankSound
<1> QED
  BY <1>1, <1>2, <1>3

(* A row whose runs and logs stay as they are. *)
Touched(old, row) ==
    /\ row \in Rows
    /\ row.state = old.state /\ row.head = old.head /\ row.runs = old.runs /\ row.fetched = old.fetched

(* A row of a watch after a step that has nothing to do with its logs. *)
Quiet(old, row) ==
    \/ row = old \/ row = GoneRow
    \/ old.state \in {"none", "pending"} /\ Touched(old, row)
    \/ old.state = "pending" /\ \E state \in Verdicts : row = Ended(old, state)
    \/ old.state = "none" /\ \E t \in Worktrees, c \in Commits : row = NewRow(t, c)

(* After a poll that saved what it holds. *)
Saves(old, row) ==
    /\ old.state = "pending" /\ row \in Rows
    /\ row.state = old.state /\ row.head = old.head /\ row.runs = poll.runs /\ row.fetched = old.fetched

(* After a fault: what is not saved was never fetched. *)
Loses(old, row) ==
    /\ old.state \in {"none", "pending"} /\ row \in Rows
    /\ row.state = old.state /\ row.head = old.head /\ row.runs = old.runs
    /\ \A r \in Runs : row.fetched[r] = IF old.runs[r].log THEN old.fetched[r] ELSE 0

\* A quiet step keeps a row sound, and its logs where they were.
LEMMA QuietSound ==
    ASSUME NEW old, Sound(old), NEW row, Quiet(old, row)
    PROVE  Sound(row) /\ (Saved(old) => Saved(row)) /\ (row.state = "pending" =>
               (row.runs = old.runs /\ row.head = old.head) \/ old.state = "none")
<1>1. CASE row = old
  BY <1>1
<1>2. CASE row = GoneRow
  BY <1>2, FreshSound, RowFacts
<1>3. CASE old.state \in {"none", "pending"} /\ Touched(old, row)
  BY <1>3 DEF Touched, Sound, Saved
<1>4. CASE old.state = "pending" /\ \E state \in Verdicts : row = Ended(old, state)
  <2>1. old \in Rows /\ "pending" \notin Verdicts
    BY DEF Sound, Verdicts
  <2> QED
    BY <1>4, <2>1, FreshSound, RowFacts
<1>5. CASE old.state = "none" /\ \E t \in Worktrees, c \in Commits : row = NewRow(t, c)
  BY <1>5, FreshSound
<1> QED
  BY <1>1, <1>2, <1>3, <1>4, <1>5 DEF Quiet

\* Saving and losing keep it sound, and leave nothing to be saved.
LEMMA SavesSound ==
    ASSUME TypeOK, NEW old, Sound(old), NEW row, Saves(old, row), Reading, poll.head = old.head,
           \A r \in Runs : poll.runs[r].log => r \in RunsOf[poll.head] /\ ci[r] # "none",
           \A r \in Runs : old.fetched[r] = 1 => poll.runs[r].log
    PROVE  Sound(row) /\ Saved(row)
BY DEF Saves, Sound, Saved

\* So does a fault.
LEMMA LosesSound ==
    ASSUME NEW old, Sound(old), NEW row, Loses(old, row)
    PROVE  Sound(row) /\ Saved(row)
BY DEF Loses, Sound, Saved

\* A row that has ended has nothing to save.
LEMMA EndedSaved ==
    ASSUME NEW row, Sound(row), row.state \notin {"none", "pending"}
    PROVE  Saved(row)
BY RowFacts DEF Sound, Saved

-----------------------------------------------------------------------------
(* No step of the provider takes a run back. *)
CiKept == \A r \in Runs : ci[r] # "none" => ci'[r] # "none"

\* A sound row stays sound while the runs go on.
LEMMA SoundKept ==
    ASSUME CiKept, NEW row, Sound(row) PROVE Sound(row)'
BY DEF CiKept, Sound

RowsQuiet ==
    /\ watch' = [w \in Watches |-> watch'[w]]
    /\ \A w \in Watches : Quiet(watch[w], watch'[w])

\* Nothing of the rows or of the poll is lost where only rows change, quietly.
LEMMA QuietStep ==
    ASSUME IInv, RowsQuiet, poll' = poll, CiKept
    PROVE  RowsOK' /\ SavedOK' /\ PollOK'
<1>1. ASSUME NEW w \in Watches, NEW row, row = watch'[w]
      PROVE  /\ Sound(row) /\ Sound(row)'
             /\ Saved(watch[w]) => Saved(row)
             /\ row.state = "pending" => (row.runs = watch[w].runs /\ row.head = watch[w].head) \/ watch[w].state = "none"
  BY <1>1, QuietSound, SoundKept DEF IInv, RowsOK, RowsQuiet
<1>2. RowsOK'
  BY <1>1 DEF RowsOK
<1>3. \A w \in Watches : Saved(watch[w]) => Saved(watch'[w])
  BY <1>1
<1>4. SavedOK'
  BY <1>3 DEF IInv, SavedOK, Reading, Saved
<1>5. ASSUME poll.step = "off" PROVE PollOK'
  BY <1>5 DEF PollOK, Reading
<1>6. ASSUME poll.step # "off" PROVE PollOK'
  <2>1. poll.w \in Watches /\ watch[poll.w].state # "none"
    BY <1>6 DEF IInv, TypeOK, PollOK
  <2>2. watch'[poll.w].state # "none"
    <3>1. GoneRow.state = "gone" /\ "none" \notin Verdicts
      BY RowFacts DEF Verdicts
    <3> QED
      BY <2>1, <3>1, RowFacts DEF RowsQuiet, Quiet, Touched
  <2>3. watch'[poll.w].state = "pending" =>
            /\ watch[poll.w].state = "pending"
            /\ watch'[poll.w].runs = watch[poll.w].runs /\ watch'[poll.w].head = watch[poll.w].head
    <3>1. GoneRow.state = "gone" /\ "pending" \notin Verdicts
      BY RowFacts DEF Verdicts
    <3> QED
      BY <1>1, <2>1, <3>1, RowFacts DEF RowsQuiet, Quiet, Touched
  <2>4. \A r \in Runs : watch'[poll.w].fetched[r] = 1 => watch[poll.w].fetched[r] = 1
    <3>1. ASSUME NEW r \in Runs, NEW state PROVE Ended(watch[poll.w], state).fetched[r] = 0
      BY RowFacts
    <3>2. \A r \in Runs : GoneRow.fetched[r] = 0
      BY RowFacts
    <3> QED
      BY <2>1, <3>1, <3>2 DEF RowsQuiet, Quiet, Touched
  <2>5. Saved(watch[poll.w]) => Saved(watch'[poll.w])
    BY <1>3, <2>1
  <2>6. Reading' = Reading /\ Complete' = Complete /\ Unlogged' = Unlogged
    BY DEF Reading, Complete, Unlogged
  <2>7. Reading => /\ \A r \in Runs : poll.runs[r].status # "none" \/ poll.runs[r].log
                                => r \in RunsOf[poll.head] /\ ci'[r] # "none"
                   /\ \A r \in Runs : watch'[poll.w].fetched[r] = 1 => poll.runs[r].log
                   /\ ~Complete => Saved(watch'[poll.w])
    BY <2>4, <2>5 DEF IInv, PollOK, CiKept
  <2>8. /\ poll.step = "job" => poll.at \in poll.todo
        /\ poll.step = "log" => Complete /\ poll.at \in Unlogged
        /\ watch'[poll.w].state = "pending" => poll.stored = watch'[poll.w].runs /\ poll.head = watch'[poll.w].head
    BY <1>6, <2>3 DEF IInv, PollOK
  <2>9. PollOK'
    BY <2>2, <2>6, <2>7, <2>8 DEF PollOK, Saved
  <2> QED
    BY <2>9
<1> QED
  BY <1>2, <1>4, <1>5, <1>6

(* What a step that ends a poll may do to a row. *)
RowsSettle ==
    /\ watch' = [w \in Watches |-> watch'[w]]
    /\ \A w \in Watches : \/ Quiet(watch[w], watch'[w])
                          \/ Loses(watch[w], watch'[w])
                          \/ Reading /\ w = poll.w /\ Saves(watch[w], watch'[w])
    /\ Reading /\ Complete /\ watch'[poll.w].state = "pending" =>
            Loses(watch[poll.w], watch'[poll.w]) \/ Saves(watch[poll.w], watch'[poll.w])

\* A poll that ends leaves no log behind that is counted and not saved.
LEMMA EndStep ==
    ASSUME IInv, RowsSettle, poll' = NoPoll, ci' = ci
    PROVE  RowsOK' /\ SavedOK' /\ PollOK'
<1>1. ASSUME NEW w \in Watches, NEW row, row = watch'[w]
      PROVE  Sound(row) /\ Saved(row)
  <2>1. Sound(watch[w])
    BY DEF IInv, RowsOK
  <2>2. CASE Loses(watch[w], row)
    BY <2>1, <2>2, LosesSound
  <2>3. CASE Reading /\ w = poll.w /\ Saves(watch[w], row)
    <3>1. poll.head = watch[w].head
      BY <2>3 DEF Saves, Reading, IInv, PollOK
    <3>2. /\ \A r \in Runs : poll.runs[r].log => r \in RunsOf[poll.head] /\ ci[r] # "none"
          /\ \A r \in Runs : watch[w].fetched[r] = 1 => poll.runs[r].log
      BY <2>3 DEF IInv, PollOK
    <3> QED
      BY <2>1, <2>3, <3>1, <3>2, SavesSound DEF IInv
  <2>4. CASE Quiet(watch[w], row) /\ ~Loses(watch[w], row) /\ ~(Reading /\ w = poll.w /\ Saves(watch[w], row))
    <3>1. Sound(row) /\ (Saved(watch[w]) => Saved(row))
      BY <2>1, <2>4, QuietSound
    <3>2. CASE Saved(watch[w])
      BY <3>1, <3>2
    <3>3. CASE ~Saved(watch[w])
      <4>1. Reading /\ poll.w = w /\ Complete
        BY <3>3 DEF IInv, SavedOK, PollOK
      <4>2. row.state # "pending"
        BY <1>1, <2>4, <4>1 DEF RowsSettle
      <4>3. watch[w].state # "none"
        BY <4>1 DEF Reading, IInv, PollOK
      <4>4. row.state # "none"
        <5>1. GoneRow.state = "gone" /\ "none" \notin Verdicts
          BY RowFacts DEF Verdicts
        <5> QED
          BY <2>4, <4>3, <5>1, RowFacts DEF Quiet, Touched
      <4> QED
        BY <3>1, <4>2, <4>4, EndedSaved
    <3> QED
      BY <3>2, <3>3
  <2> QED
    BY <1>1, <2>2, <2>3, <2>4 DEF RowsSettle
<1>2. ASSUME NEW w \in Watches, NEW row, row = watch'[w] PROVE Sound(row)'
  BY <1>1, <1>2, SoundKept DEF CiKept
<1>3. NoPoll.step = "off"
  BY DEF NoPoll
<1> QED
  BY <1>1, <1>2, <1>3 DEF RowsOK, SavedOK, PollOK, Reading, Saved

-----------------------------------------------------------------------------
(* The part of TypeOK that is not about the rows. *)
LoopTyped ==
    /\ ci \in [Runs -> Conclusions]
    /\ poll \in Polls
    /\ tick \in [on : BOOLEAN, list : SUBSET Watches]
    /\ asks \subseteq [tree : Worktrees, head : Commits]
    /\ poll.step # "off" => tick.on /\ up # "down" /\ poll.w \in Watches /\ poll.head \in Commits
    /\ poll.step \in {"job", "log"} => poll.at \in Runs

\* Sound rows are typed.
LEMMA SoundTyped ==
    ASSUME RowsOK, watch = [w \in Watches |-> watch[w]], LoopTyped PROVE TypeOK
BY DEF RowsOK, Sound, LoopTyped, TypeOK

\* Pruning only takes rows away.
LEMMA PrunedRows ==
    ASSUME NEW rows
    PROVE  /\ Pruned(rows) = [w \in Watches |-> Pruned(rows)[w]]
           /\ \A w \in Watches : Pruned(rows)[w] = rows[w] \/ Pruned(rows)[w] = GoneRow
BY DEF Pruned, GoneRow

\* So quiet rows stay quiet.
LEMMA PrunedQuiet ==
    ASSUME NEW rows, watch' = Pruned(rows), \A w \in Watches : Quiet(watch[w], rows[w])
    PROVE  RowsQuiet
BY PrunedRows DEF RowsQuiet, Quiet

\* The update of one row, if it is still pending.
LEMMA UpdateRows ==
    ASSUME TypeOK, NEW w \in Watches, NEW row
    PROVE  /\ Update(w, row) = [v \in Watches |-> Update(w, row)[v]]
           /\ \A v \in Watches : Update(w, row)[v] = IF v = w /\ watch[w].state = "pending" THEN row ELSE watch[v]
BY DEF TypeOK, Update

\* A verdict is quiet.
LEMMA FinishQuiet ==
    ASSUME TypeOK, NEW w \in Watches, NEW state \in Verdicts, Finish(w, state)
    PROVE  RowsQuiet /\ watch'[w].state # "pending"
<1>1. \A v \in Watches : Quiet(watch[v], Update(w, Ended(watch[w], state))[v])
  BY UpdateRows DEF Quiet
<1>2. watch' = Pruned(Update(w, Ended(watch[w], state)))
  BY DEF Finish
<1>3. Update(w, Ended(watch[w], state))[w].state # "pending"
  <2>1. Ended(watch[w], state).state # "pending"
    BY RowFacts DEF Verdicts
  <2> QED
    BY <2>1, UpdateRows
<1>4. watch'[w].state # "pending"
  BY <1>2, <1>3, PrunedRows, RowFacts
<1> QED
  BY <1>1, <1>2, <1>4, PrunedQuiet

\* A new watch and what it supersedes are quiet.
LEMMA StartQuiet ==
    ASSUME TypeOK, NEW t \in Worktrees, NEW c \in Commits, Start(t, c)
    PROVE  RowsQuiet
<1>1. CASE watch' = watch
  BY <1>1 DEF RowsQuiet, Quiet, TypeOK
<1>2. CASE watch' = Pruned(watch)
  BY <1>2, PrunedQuiet DEF Quiet
<1>3. ASSUME NEW new \in Watches, watch[new].state = "none",
             watch' = Pruned([w \in Watches |->
                IF w = new THEN [NoWatch EXCEPT !.state = "pending", !.tree = t, !.head = c]
                ELSE IF w \in PendingOf(t) THEN Ended(watch[w], "superseded") ELSE watch[w]])
      PROVE  RowsQuiet
  <2> DEFINE rows == [w \in Watches |->
                IF w = new THEN [NoWatch EXCEPT !.state = "pending", !.tree = t, !.head = c]
                ELSE IF w \in PendingOf(t) THEN Ended(watch[w], "superseded") ELSE watch[w]]
  <2>1. ASSUME NEW w \in Watches PROVE Quiet(watch[w], rows[w])
    <3>1. CASE w = new
      BY <1>3, <3>1 DEF Quiet, NewRow
    <3>2. CASE w # new /\ w \in PendingOf(t)
      <4>1. watch[w].state = "pending" /\ "superseded" \in Verdicts
        BY <3>2 DEF PendingOf, Pending, Verdicts
      <4> QED
        BY <3>2, <4>1 DEF Quiet
    <3>3. CASE w # new /\ w \notin PendingOf(t)
      BY <3>3 DEF Quiet
    <3> QED
      BY <3>1, <3>2, <3>3
  <2> HIDE DEF rows
  <2> QED
    BY <1>3, <2>1, PrunedQuiet DEF rows
<1> QED
  BY <1>1, <1>2, <1>3 DEF Start

\* A row only touched is a row.
LEMMA TouchTypes ==
    ASSUME NEW row \in Rows
    PROVE  /\ \A due \in BOOLEAN : Touched(row, [row EXCEPT !.due = due])
           /\ \A streak \in Nat : Touched(row, [row EXCEPT !.due = FALSE, !.streak = streak])
           /\ \A streak \in Nat : Touched(row, [row EXCEPT !.streak = streak, !.due = FALSE])
           /\ Touched(row, FallsDue(row))
           /\ Touched(row, [FallsDue(row) EXCEPT !.due = FALSE])
<1>1. row.age + 1 \in Nat
  BY DEF Rows
<1>2. Touched(row, FallsDue(row))
  BY <1>1 DEF Touched, Rows, FallsDue
<1>3. Touched(row, [FallsDue(row) EXCEPT !.due = FALSE])
  BY <1>1 DEF Touched, Rows, FallsDue
<1>4. \A due \in BOOLEAN : Touched(row, [row EXCEPT !.due = due])
  BY DEF Touched, Rows
<1>5. ASSUME NEW streak \in Nat
      PROVE  /\ Touched(row, [row EXCEPT !.due = FALSE, !.streak = streak])
             /\ Touched(row, [row EXCEPT !.streak = streak, !.due = FALSE])
  BY DEF Touched, Rows
<1> QED
  BY <1>2, <1>3, <1>4, <1>5

\* A row that has ended is not due, and holds no log that a fault could lose.
LEMMA EndedStill ==
    ASSUME NEW row, Sound(row), row.state \notin {"none", "pending"}
    PROVE  [row EXCEPT !.due = FALSE] = row /\ Lost(row) = row
<1>1. /\ row = Ended(row, row.state) /\ row \in Rows
      /\ row.due = FALSE /\ row.fetched = [r \in Runs |-> 0]
  BY RowFacts DEF Sound
<1>2. [row EXCEPT !.due = FALSE] = row
  BY <1>1 DEF Rows
<1>3. [r \in Runs |-> IF row.runs[r].log THEN row.fetched[r] ELSE 0] = row.fetched
  BY <1>1
<1>4. [row EXCEPT !.fetched = row.fetched] = row
  BY <1>1 DEF Rows
<1> QED
  BY <1>2, <1>3, <1>4 DEF Lost

\* What a fault leaves of a row.
LEMMA LostLoses ==
    ASSUME NEW row, Sound(row)
    PROVE  Quiet(row, Lost(row)) \/ Loses(row, Lost(row))
<1>1. CASE row.state \notin {"none", "pending"}
  BY <1>1, EndedStill DEF Quiet
<1>2. CASE row.state \in {"none", "pending"}
  <2>1. [r \in Runs |-> IF row.runs[r].log THEN row.fetched[r] ELSE 0] \in [Runs -> Nat]
    BY DEF Sound, Rows
  <2>2. Lost(row) = [row EXCEPT !.fetched = [r \in Runs |-> IF row.runs[r].log THEN row.fetched[r] ELSE 0]]
    BY DEF Lost
  <2>3. Lost(row) \in Rows
    BY <2>1, <2>2 DEF Sound, Rows
  <2> QED
    BY <1>2, <2>2, <2>3 DEF Loses, Sound, Rows
<1> QED
  BY <1>1, <1>2

-----------------------------------------------------------------------------
(* What every step keeps: the invariant, and the rows that have ended. *)
Stays ==
    \A w \in Watches : watch[w].state \notin {"none", "pending"} =>
        watch'[w] = watch[w] \/ watch'[w].state = "gone"

Good ==
    /\ RowsOK' /\ SavedOK' /\ PollOK' /\ Stays
    /\ watch' = [w \in Watches |-> watch'[w]]

\* A quiet step keeps it all.
LEMMA QuietGood ==
    ASSUME IInv, RowsQuiet, poll' = poll, CiKept PROVE Good
<1>1. Stays
  BY RowFacts DEF RowsQuiet, Quiet, Stays
<1> QED
  BY <1>1, QuietStep DEF Good, RowsQuiet

\* So does one that ends the poll.
LEMMA EndGood ==
    ASSUME IInv, RowsSettle, poll' = NoPoll, ci' = ci PROVE Good
<1>1. Stays
  BY RowFacts DEF RowsSettle, Quiet, Loses, Saves, Stays
<1> QED
  BY <1>1, EndStep DEF Good, RowsSettle

\* Quiet rows settle a poll that has not read all, or that decided.
LEMMA QuietSettles ==
    ASSUME RowsQuiet, Reading /\ Complete => watch'[poll.w].state # "pending"
    PROVE  RowsSettle
BY DEF RowsQuiet, RowsSettle

\* Rows that stay are quiet.
LEMMA SameQuiet == ASSUME IInv, watch' = watch PROVE RowsQuiet
BY DEF RowsQuiet, Quiet, IInv, TypeOK

\* No poll is a poll.
LEMMA NoPollType == NoPoll \in Polls /\ NoPoll.step = "off"
BY NoRunsType DEF NoPoll, Polls

\* A poll that is over leaves the loop well formed.
LEMMA LoopEnds ==
    ASSUME IInv, poll' = NoPoll, ci' = ci, tick' = NoTick \/ tick' = tick, asks' = asks \/ asks' = {}
    PROVE  LoopTyped'
<1>1. NoTick \in [on : BOOLEAN, list : SUBSET Watches]
  BY DEF NoTick
<1> QED
  BY <1>1, NoPollType DEF IInv, TypeOK, LoopTyped

-----------------------------------------------------------------------------
\* The requests change rows quietly.
LEMMA RequestSteps ==
    ASSUME IInv, NEW t \in Worktrees,
           \/ \E c \in Commits : Watch(t, c)
           \/ \E a \in asks : ProbeAnswers(a)
           \/ Unwatch(t) \/ Remove(t)
    PROVE  RowsQuiet /\ poll' = poll /\ CiKept /\ LoopTyped'
<1>1. ASSUME NEW c \in Commits, Watch(t, c) PROVE RowsQuiet /\ poll' = poll /\ CiKept /\ LoopTyped'
  <2>1. RowsQuiet
    BY <1>1, SameQuiet, StartQuiet DEF Watch, IInv
  <2>2. asks' \subseteq [tree : Worktrees, head : Commits]
    BY <1>1 DEF Watch, IInv, TypeOK
  <2> QED
    BY <1>1, <2>1, <2>2 DEF Watch, IInv, TypeOK, LoopTyped, CiKept
<1>2. ASSUME NEW a \in asks, ProbeAnswers(a) PROVE RowsQuiet /\ poll' = poll /\ CiKept /\ LoopTyped'
  <2>1. a.tree \in Worktrees /\ a.head \in Commits
    BY DEF IInv, TypeOK
  <2>2. RowsQuiet
    BY <1>2, <2>1, SameQuiet, StartQuiet DEF ProbeAnswers, IInv
  <2> QED
    BY <1>2, <2>2 DEF ProbeAnswers, IInv, TypeOK, LoopTyped, CiKept
<1>3. ASSUME Unwatch(t) PROVE RowsQuiet /\ poll' = poll /\ CiKept /\ LoopTyped'
  <2> DEFINE rows == [w \in Watches |-> IF w \in PendingOf(t) THEN Ended(watch[w], "cancelled") ELSE watch[w]]
  <2>1. \A w \in Watches : Quiet(watch[w], rows[w])
    BY DEF Quiet, PendingOf, Pending, Verdicts
  <2>2. watch' = Pruned(rows)
    BY <1>3 DEF Unwatch
  <2> HIDE DEF rows
  <2>3. RowsQuiet
    BY <2>1, <2>2, PrunedQuiet
  <2> QED
    BY <1>3, <2>3 DEF Unwatch, IInv, TypeOK, LoopTyped, CiKept
<1>4. ASSUME Remove(t) PROVE RowsQuiet /\ poll' = poll /\ CiKept /\ LoopTyped'
  <2>1. RowsQuiet
    BY <1>4 DEF Remove, RowsQuiet, Quiet, GoneRow
  <2> QED
    BY <1>4, <2>1 DEF Remove, loop, IInv, TypeOK, LoopTyped, CiKept
<1> QED
  BY <1>1, <1>2, <1>3, <1>4

\* So do the clock, the provider and the daemon's life.
LEMMA WorldSteps ==
    ASSUME IInv, \/ TimerFires \/ TickBegins \/ CallsAge \/ Close \/ Boot
                 \/ \E w \in Watches : Due(w)
                 \/ \E r \in Runs : RunAdvances(r)
    PROVE  RowsQuiet /\ poll' = poll /\ CiKept /\ LoopTyped'
<1>1. ASSUME NEW w \in Watches PROVE watch[w] \in Rows
  BY DEF IInv, TypeOK
<1>2. CASE TimerFires
  <2>1. PICK now \in SUBSET {w \in Pending : ~watch[w].due} :
           watch' = [w \in Watches |-> IF w \in now THEN FallsDue(watch[w]) ELSE watch[w]]
    BY <1>2 DEF TimerFires
  <2>2. RowsQuiet
    BY <1>1, <2>1, TouchTypes DEF RowsQuiet, Quiet, Pending
  <2> QED
    BY <1>2, <2>2 DEF TimerFires, IInv, TypeOK, LoopTyped, CiKept
<1>3. CASE TickBegins
  <2>1. tick' \in [on : BOOLEAN, list : SUBSET Watches] /\ tick'.on
    BY <1>3 DEF TickBegins, Pending
  <2>2. RowsQuiet
    BY <1>3, SameQuiet DEF TickBegins
  <2> QED
    BY <1>3, <2>1, <2>2 DEF TickBegins, IInv, TypeOK, LoopTyped, CiKept
<1>4. CASE CallsAge
  BY <1>4, SameQuiet DEF CallsAge, loop, IInv, TypeOK, LoopTyped, CiKept
<1>5. CASE Close
  BY <1>5, SameQuiet DEF Close, IInv, TypeOK, LoopTyped, CiKept
<1>6. CASE Boot
  <2> DEFINE rows == [w \in Watches |->
                    IF w \notin Pending THEN watch[w]
                    ELSE IF watch[w].age + 1 >= TimeoutAfter THEN Ended(watch[w], "timed_out")
                    ELSE [FallsDue(watch[w]) EXCEPT !.due = FALSE]]
  <2>1. ASSUME NEW w \in Watches PROVE Quiet(watch[w], rows[w])
    <3>1. CASE w \notin Pending
      BY <3>1 DEF Quiet
    <3>2. CASE w \in Pending /\ watch[w].age + 1 >= TimeoutAfter
      BY <3>2 DEF Quiet, Pending, Verdicts
    <3>3. CASE w \in Pending /\ ~(watch[w].age + 1 >= TimeoutAfter)
      BY <1>1, <3>3, TouchTypes DEF Quiet, Pending
    <3> QED
      BY <3>1, <3>2, <3>3
  <2>2. watch' = Pruned(rows)
    BY <1>6 DEF Boot
  <2> HIDE DEF rows
  <2>3. RowsQuiet
    BY <2>1, <2>2, PrunedQuiet
  <2> QED
    BY <1>6, <2>3 DEF Boot, IInv, TypeOK, LoopTyped, CiKept
<1>7. ASSUME NEW w \in Watches, Due(w) PROVE RowsQuiet /\ poll' = poll /\ CiKept /\ LoopTyped'
  <2>1. watch' = [watch EXCEPT ![w] = FallsDue(watch[w])] /\ watch[w].state = "pending"
    BY <1>7 DEF Due, Pending
  <2>2. RowsQuiet
    BY <1>1, <2>1, TouchTypes DEF RowsQuiet, Quiet, IInv, TypeOK
  <2> QED
    BY <1>7, <2>2 DEF Due, loop, IInv, TypeOK, LoopTyped, CiKept
<1>8. ASSUME NEW r \in Runs, RunAdvances(r) PROVE RowsQuiet /\ poll' = poll /\ CiKept /\ LoopTyped'
  <2>1. CiKept /\ ci' \in [Runs -> Conclusions]
    BY <1>8 DEF RunAdvances, CiKept, IInv, TypeOK, Conclusions
  <2> QED
    BY <1>8, <2>1, SameQuiet DEF RunAdvances, loop, IInv, TypeOK, LoopTyped
<1> QED
  BY <1>2, <1>3, <1>4, <1>5, <1>6, <1>7, <1>8

-----------------------------------------------------------------------------
\* A budget that runs out before anything was read changes no more than when the watches are due.
LEMMA StopQuiet ==
    ASSUME IInv, watch' = [w \in Watches |-> [watch[w] EXCEPT !.due = FALSE]]
    PROVE  RowsQuiet
<1>1. ASSUME NEW w \in Watches PROVE Quiet(watch[w], [watch[w] EXCEPT !.due = FALSE])
  <2>1. watch[w] \in Rows /\ Sound(watch[w])
    BY DEF IInv, TypeOK, RowsOK
  <2>2. CASE watch[w].state \in {"none", "pending"}
    BY <2>1, <2>2, TouchTypes DEF Quiet
  <2>3. CASE watch[w].state \notin {"none", "pending"}
    BY <2>1, <2>3, EndedStill DEF Quiet
  <2> QED
    BY <2>2, <2>3
<1> QED
  BY <1>1 DEF RowsQuiet

\* The update of one row by one that is only touched is quiet.
LEMMA UpdateQuiet ==
    ASSUME IInv, NEW w \in Watches, NEW row, Touched(watch[w], row), watch' = Update(w, row)
    PROVE  RowsQuiet
<1>1. TypeOK
  BY DEF IInv
<1>2. \A v \in Watches : Quiet(watch[v], watch'[v])
  BY <1>1, UpdateRows DEF Quiet
<1> QED
  BY <1>1, <1>2, UpdateRows DEF RowsQuiet

\* An answer that failed only delays, counts or ends the watch.
LEMMA FailedQuiet ==
    ASSUME IInv, poll.step # "off", Failed
    PROVE  RowsQuiet /\ poll' = NoPoll /\ tick' = tick
<1>1. TypeOK /\ poll.w \in Watches /\ watch[poll.w] \in Rows /\ poll.streak + 1 \in Nat
  BY DEF IInv, TypeOK, Polls
<1>2. CASE watch' = Update(poll.w, Waiting)
  <2>1. Touched(watch[poll.w], Waiting)
    BY <1>1, TouchTypes DEF Waiting
  <2> QED
    BY <1>1, <1>2, <2>1, UpdateQuiet DEF Failed, EndPoll
<1>3. CASE watch' = Update(poll.w, [Waiting EXCEPT !.streak = poll.streak + 1])
  <2>1. Touched(watch[poll.w], [Waiting EXCEPT !.streak = poll.streak + 1])
    BY <1>1 DEF Waiting, Touched, Rows
  <2> QED
    BY <1>1, <1>3, <2>1, UpdateQuiet DEF Failed, EndPoll
<1>4. CASE Finish(poll.w, "unavailable")
  BY <1>1, <1>4, FinishQuiet DEF Failed, EndPoll, Verdicts
<1> QED
  BY <1>2, <1>3, <1>4 DEF Failed

\* What a poll saves of what it holds.
LEMMA SavesRows ==
    ASSUME IInv, Reading, NEW row \in Rows, watch' = Update(poll.w, row),
           watch[poll.w].state = "pending" =>
               row.state = "pending" /\ row.head = watch[poll.w].head /\ row.runs = poll.runs
                   /\ row.fetched = watch[poll.w].fetched
    PROVE  RowsSettle
<1>1. TypeOK /\ poll.w \in Watches
  BY DEF IInv, TypeOK, Reading
<1>2. ASSUME NEW v \in Watches PROVE Quiet(watch[v], watch'[v]) \/ (v = poll.w /\ Saves(watch[v], watch'[v]))
  <2>1. CASE v = poll.w /\ watch[v].state = "pending"
    BY <1>1, <2>1, UpdateRows DEF Saves
  <2>2. CASE ~(v = poll.w /\ watch[v].state = "pending")
    BY <1>1, <2>2, UpdateRows DEF Quiet
  <2> QED
    BY <2>1, <2>2
<1>3. watch'[poll.w].state = "pending" => Saves(watch[poll.w], watch'[poll.w])
  BY <1>1, UpdateRows DEF Saves
<1> QED
  BY <1>1, <1>2, <1>3, UpdateRows DEF RowsSettle

\* What a poll holds is a row.
LEMMA ProgressedTypes ==
    ASSUME IInv, Reading
    PROVE  /\ Progressed \in Rows
           /\ [Progressed EXCEPT !.due = FALSE] \in Rows
           /\ [Progressed EXCEPT !.streak = 0, !.due = FALSE] \in Rows
<1>1. poll.w \in Watches /\ watch[poll.w] \in Rows /\ poll.runs \in Listings
  BY DEF IInv, TypeOK, Reading, Polls
<1>2. Progressed \in Rows
  BY <1>1 DEF Progressed, Rows
<1> QED
  BY <1>2 DEF Rows

\* A poll that throws, or a crash, loses what was not saved.
LEMMA ThrowSettles ==
    ASSUME IInv, poll.step # "off", watch' = Update(poll.w, Lost(Waiting))
    PROVE  RowsSettle
<1>1. TypeOK /\ poll.w \in Watches /\ watch[poll.w] \in Rows /\ Sound(watch[poll.w])
  BY DEF IInv, TypeOK, RowsOK
<1>2. /\ Waiting \in Rows /\ Waiting.state = watch[poll.w].state /\ Waiting.head = watch[poll.w].head
      /\ Waiting.runs = watch[poll.w].runs /\ Waiting.fetched = watch[poll.w].fetched
  BY <1>1 DEF Waiting, Rows
<1>4. watch[poll.w].state = "pending" => Loses(watch[poll.w], Lost(Waiting))
  <2> DEFINE kept == [r \in Runs |-> IF Waiting.runs[r].log THEN Waiting.fetched[r] ELSE 0]
  <2>1. kept \in [Runs -> Nat] /\ \A r \in Runs : kept[r] = IF Waiting.runs[r].log THEN Waiting.fetched[r] ELSE 0
    BY <1>2 DEF Rows
  <2>2. Lost(Waiting) = [Waiting EXCEPT !.fetched = kept]
    BY DEF Lost
  <2> HIDE DEF kept
  <2>3. /\ Lost(Waiting) \in Rows /\ Lost(Waiting).state = Waiting.state /\ Lost(Waiting).head = Waiting.head
        /\ Lost(Waiting).runs = Waiting.runs /\ Lost(Waiting).fetched = kept
    BY <1>2, <2>1, <2>2 DEF Rows
  <2> QED
    BY <1>2, <2>1, <2>3 DEF Loses
<1>5. ASSUME NEW v \in Watches PROVE Quiet(watch[v], watch'[v]) \/ Loses(watch[v], watch'[v])
  BY <1>1, <1>4, UpdateRows DEF Quiet
<1>6. watch'[poll.w].state = "pending" => Loses(watch[poll.w], watch'[poll.w])
  BY <1>1, <1>4, UpdateRows
<1> QED
  BY <1>1, <1>5, <1>6, UpdateRows DEF RowsSettle

-----------------------------------------------------------------------------
\* The end of a tick, whatever it did.
LEMMA EndTickSteps ==
    ASSUME IInv, TickEnds \/ PollThrows \/ Crash \/ Exit
    PROVE  Good /\ LoopTyped'
<1>1. CASE TickEnds
  <2>1. RowsQuiet /\ poll' = NoPoll /\ ci' = ci
    BY <1>1, SameQuiet DEF TickEnds, EndTick
  <2>2. RowsSettle
    BY <1>1, <2>1, QuietSettles DEF TickEnds, Reading
  <2> QED
    BY <1>1, <2>1, <2>2, EndGood, LoopEnds DEF TickEnds, EndTick
<1>2. CASE PollThrows
  BY <1>2, ThrowSettles, EndGood, LoopEnds DEF PollThrows, EndTick
<1>3. CASE Crash
  <2>1. \A w \in Watches : Quiet(watch[w], watch'[w]) \/ Loses(watch[w], watch'[w])
    BY <1>3, LostLoses DEF Crash, IInv, RowsOK
  <2>2. ASSUME Reading, watch[poll.w].state = "pending" PROVE Loses(watch[poll.w], watch'[poll.w])
    <3>1. poll.w \in Watches /\ watch[poll.w] \in Rows
      BY <2>2 DEF Reading, IInv, TypeOK
    <3>2. [r \in Runs |-> IF watch[poll.w].runs[r].log THEN watch[poll.w].fetched[r] ELSE 0] \in [Runs -> Nat]
      BY <3>1 DEF Rows
    <3>3. watch'[poll.w] = [watch[poll.w] EXCEPT !.fetched =
              [r \in Runs |-> IF watch[poll.w].runs[r].log THEN watch[poll.w].fetched[r] ELSE 0]]
      BY <1>3, <3>1 DEF Crash, Lost
    <3> QED
      BY <2>2, <3>1, <3>2, <3>3 DEF Loses, Rows
  <2>3. Reading => (watch'[poll.w].state = "pending" => watch[poll.w].state = "pending")
    <3>1. ASSUME Reading PROVE poll.w \in Watches /\ watch[poll.w] \in Rows
      BY <3>1 DEF Reading, IInv, TypeOK
    <3> QED
      BY <1>3, <3>1 DEF Crash, Lost, Rows
  <2>4. RowsSettle
    BY <1>3, <2>1, <2>2, <2>3 DEF RowsSettle, Crash
  <2> QED
    BY <1>3, <2>4, EndGood, LoopEnds DEF Crash, Off
<1>4. CASE Exit
  <2>1. RowsQuiet /\ poll' = NoPoll /\ ci' = ci
    BY <1>4, SameQuiet DEF Exit, Off
  <2>2. RowsSettle
    BY <1>4, <2>1, QuietSettles DEF Exit, Reading, IInv, TypeOK
  <2> QED
    BY <1>4, <2>1, <2>2, EndGood, LoopEnds DEF Exit, Off
<1> QED
  BY <1>1, <1>2, <1>3, <1>4

\* A poll that begins knows what its row holds.
LEMMA BeginSteps ==
    ASSUME IInv, NEW w \in Watches, PollBegins(w)
    PROVE  Good /\ LoopTyped'
<1>1. /\ watch[w] \in Rows /\ watch[w].state = "pending" /\ watch[w].head \in Commits
      /\ poll.step = "off" /\ tick.on /\ up = "up" /\ ci' = ci /\ up' = up /\ asks' = asks /\ ~Reading
  BY DEF PollBegins, Eligible, Pending, IInv, TypeOK, Reading
<1>2. [tick EXCEPT !.list = @ \ {w}] \in [on : BOOLEAN, list : SUBSET Watches] /\ [tick EXCEPT !.list = @ \ {w}].on
  BY <1>1 DEF IInv, TypeOK
<1>3. CASE TimedOut(w)
  <2>1. RowsQuiet
    BY <1>3, FinishQuiet DEF PollBegins, IInv, Verdicts
  <2>2. poll' = poll /\ tick' = [tick EXCEPT !.list = @ \ {w}]
    BY <1>3 DEF PollBegins
  <2>3. LoopTyped'
    BY <1>1, <1>2, <2>2 DEF IInv, TypeOK, LoopTyped
  <2> QED
    BY <1>1, <2>1, <2>2, <2>3, QuietGood DEF CiKept
<1>4. CASE ~TimedOut(w) /\ ~HasBudget
  <2>1. BudgetStop(watch)
    BY <1>4 DEF PollBegins
  <2>2. RowsQuiet
    BY <2>1, StopQuiet DEF BudgetStop
  <2>3. RowsSettle
    BY <1>1, <2>2, QuietSettles
  <2> QED
    BY <1>1, <2>1, <2>3, EndGood, LoopEnds DEF BudgetStop, EndTick
<1>5. CASE ~TimedOut(w) /\ HasBudget
  <2>1. /\ watch' = watch /\ tick' = [tick EXCEPT !.list = @ \ {w}]
        /\ poll' = [NoPoll EXCEPT !.step = "list", !.w = w, !.head = watch[w].head, !.streak = watch[w].streak,
                        !.stored = watch[w].runs, !.late = (watch[w].age >= NoRunsAfter /\ ~watch[w].saw)]
    BY <1>5 DEF PollBegins
  <2>2. /\ poll'.step = "list" /\ poll'.w = w /\ poll'.head = watch[w].head /\ poll'.stored = watch[w].runs
        /\ poll' \in Polls
    <3>1. watch[w].streak \in Nat /\ watch[w].runs \in Listings /\ watch[w].head \in Commits
      BY <1>1 DEF Rows
    <3> DEFINE late == watch[w].age >= NoRunsAfter /\ ~watch[w].saw
    <3>3. late \in BOOLEAN
      OBVIOUS
    <3> HIDE DEF late
    <3>4. poll' = [NoPoll EXCEPT !.step = "list", !.w = w, !.head = watch[w].head, !.streak = watch[w].streak,
                        !.stored = watch[w].runs, !.late = late]
      BY <2>1 DEF late
    <3> QED
      BY <3>1, <3>3, <3>4, NoPollType DEF NoPoll, Polls
  <2>3. LoopTyped'
    BY <1>1, <1>2, <2>1, <2>2 DEF IInv, TypeOK, LoopTyped
  <2>4. RowsOK'
    <3>1. ASSUME NEW v \in Watches PROVE Sound(watch[v])'
      BY <1>1, <2>1 DEF IInv, RowsOK, Sound
    <3> QED
      BY <3>1 DEF RowsOK
  <2>5. SavedOK'
    BY <1>1, <2>1 DEF IInv, SavedOK, Reading, Saved
  <2>6. PollOK'
    BY <1>1, <2>1, <2>2 DEF PollOK, Reading
  <2>7. Stays /\ watch' = [v \in Watches |-> watch'[v]]
    BY <2>1 DEF Stays, IInv, TypeOK
  <2> QED
    BY <2>3, <2>4, <2>5, <2>6, <2>7 DEF Good
<1> QED
  BY <1>3, <1>4, <1>5

\* A poll that goes on with the same rows.
LEMMA GoesOn ==
    ASSUME IInv, poll.step # "off", UNCHANGED <<ci, watch, up, tick, asks>>, poll' \in Polls, Reading',
           poll'.w = poll.w, poll'.head = poll.head, poll'.stored = poll.stored,
           \A r \in Runs : poll'.runs[r].status # "none" \/ poll'.runs[r].log
                                => r \in RunsOf[poll.head] /\ ci[r] # "none",
           \A r \in Runs : watch[poll.w].fetched[r] = 1 => poll'.runs[r].log,
           ~Complete' => Saved(watch[poll.w]),
           poll'.step = "job" => poll'.at \in poll'.todo,
           poll'.step = "log" => Complete' /\ poll'.at \in Unlogged'
    PROVE  Good /\ LoopTyped'
<1>1. RowsOK'
  BY DEF IInv, RowsOK, Sound
<1>2. SavedOK'
  BY DEF IInv, SavedOK, Saved
<1>3. poll'.step \in {"job", "log"} => poll'.at \in Runs
  BY DEF Polls, Unlogged
<1>4. LoopTyped'
  BY <1>3 DEF IInv, TypeOK, LoopTyped
<1>5. PollOK'
  BY DEF IInv, PollOK, Saved
<1>6. Stays /\ watch' = [w \in Watches |-> watch'[w]]
  BY DEF Stays, IInv, TypeOK
<1> QED
  BY <1>1, <1>2, <1>4, <1>5, <1>6 DEF Good

\* A listing keeps the logs that are there already.
LEMMA ListSteps ==
    ASSUME IInv, ListAnswers
    PROVE  Good /\ LoopTyped'
<1>1. /\ poll.step = "list" /\ poll.w \in Watches /\ watch[poll.w] \in Rows /\ poll.head \in Commits
      /\ poll \in Polls /\ ~Reading /\ UNCHANGED <<ci, up, asks>>
  BY DEF ListAnswers, IInv, TypeOK, Reading
<1>2. CASE Failed
  <2>1. RowsQuiet /\ poll' = NoPoll /\ tick' = tick
    BY <1>1, <1>2, FailedQuiet
  <2> QED
    BY <1>1, <2>1, QuietSettles, EndGood, LoopEnds
<1>3. CASE Finish(poll.w, "no_runs") /\ EndPoll
  <2>1. RowsQuiet
    BY <1>1, <1>3, FinishQuiet DEF IInv, Verdicts
  <2> QED
    BY <1>1, <1>3, <2>1, QuietSettles, EndGood, LoopEnds DEF EndPoll
<1>4. CASE Reschedule(watch[poll.w])
  <2>1. Touched(watch[poll.w], [watch[poll.w] EXCEPT !.streak = 0, !.due = FALSE])
    BY <1>1, TouchTypes
  <2>2. RowsQuiet
    BY <1>1, <1>4, <2>1, UpdateQuiet DEF Reschedule
  <2> QED
    BY <1>1, <1>4, <2>2, QuietSettles, EndGood, LoopEnds DEF Reschedule, EndPoll
<1>5. ASSUME NEW again \in SUBSET Jobless,
             poll' = [poll EXCEPT !.step = "jobs",
                !.runs = [r \in Runs |-> IF r \in Listed
                                         THEN [status |-> ci[r], log |-> poll.stored[r].log] ELSE Unseen],
                !.todo = {r \in Listed : ~Known(r)} \cup again],
             UNCHANGED <<watch, tick, timer>>
      PROVE  Good /\ LoopTyped'
  <2> DEFINE seen == [r \in Runs |-> IF r \in Listed
                                     THEN [status |-> ci[r], log |-> poll.stored[r].log] ELSE Unseen]
  <2> DEFINE todo == {r \in Listed : ~Known(r)} \cup again
  <2>1. /\ seen \in Listings
        /\ \A r \in Runs : seen[r] = IF r \in Listed
                                     THEN [status |-> ci[r], log |-> poll.stored[r].log] ELSE Unseen
    <3>1. \A r \in Runs : poll.stored[r].log \in BOOLEAN /\ ci[r] \in Conclusions
      BY <1>1 DEF Polls, Listings, IInv, TypeOK
    <3>2. Unseen \in [status : Conclusions, log : BOOLEAN]
      BY DEF Unseen, Conclusions
    <3> QED
      BY <3>1, <3>2 DEF Listings
  <2>2. todo \in SUBSET Runs
    BY <1>1, CiAssumption DEF Listed, Jobless
  <2>3. poll' = [poll EXCEPT !.step = "jobs", !.runs = seen, !.todo = todo]
    BY <1>5
  <2> HIDE DEF seen, todo
  <2>4. /\ poll' \in Polls /\ poll'.step = "jobs" /\ poll'.runs = seen
        /\ poll'.w = poll.w /\ poll'.head = poll.head /\ poll'.stored = poll.stored
    BY <1>1, <2>1, <2>2, <2>3 DEF Polls
  <2>5. Unseen.status = "none" /\ Unseen.log = FALSE
    BY DEF Unseen
  <2>6. \A r \in Runs : seen[r].status # "none" \/ seen[r].log => r \in RunsOf[poll.head] /\ ci[r] # "none"
    BY <2>1, <2>5 DEF Listed
  <2>7. Saved(watch[poll.w])
    BY <1>1 DEF IInv, SavedOK
  <2>8. ASSUME NEW r \in Runs, watch[poll.w].fetched[r] = 1 PROVE seen[r].log
    <3>1. Sound(watch[poll.w]) /\ watch[poll.w].state # "none"
      BY <1>1 DEF IInv, RowsOK, PollOK
    <3>2. watch[poll.w].state = "pending"
      <4>1. \A state : Ended(watch[poll.w], state).fetched[r] = 0
        BY RowFacts
      <4> QED
        BY <2>8, <3>1, <4>1 DEF Sound
    <3>3. poll.stored = watch[poll.w].runs /\ poll.head = watch[poll.w].head
      BY <1>1, <3>2 DEF IInv, PollOK
    <3>4. poll.stored[r].log
      BY <2>7, <2>8, <3>3 DEF Saved
    <3>5. r \in Listed
      BY <3>1, <3>3, <3>4 DEF Sound, Listed
    <3>6. seen[r] = [status |-> ci[r], log |-> poll.stored[r].log]
      BY <2>1, <3>5
    <3>7. seen[r].log = poll.stored[r].log
      BY <3>6
    <3> QED
      BY <3>4, <3>7
  <2> QED
    BY <1>1, <1>5, <2>4, <2>6, <2>7, <2>8, GoesOn DEF Reading
<1> QED
  BY <1>2, <1>3, <1>4, <1>5 DEF ListAnswers

\* The jobs of a run are read before the poll is complete.
LEMMA JobSteps ==
    ASSUME IInv, JobsAnswer \/ StillRunning \/ \E r \in Runs : ReadJobs(r)
    PROVE  Good /\ LoopTyped'
<1>1. /\ Reading /\ poll.step # "off" /\ poll \in Polls /\ ~Complete /\ UNCHANGED <<ci, up, asks>>
      /\ \A r \in Runs : poll.runs[r].status # "none" \/ poll.runs[r].log => r \in RunsOf[poll.head] /\ ci[r] # "none"
      /\ \A r \in Runs : watch[poll.w].fetched[r] = 1 => poll.runs[r].log
      /\ Saved(watch[poll.w])
  BY DEF JobsAnswer, StillRunning, ReadJobs, Reading, IInv, TypeOK, PollOK, Complete
<1>2. CASE JobsAnswer /\ Failed
  <2>1. RowsQuiet /\ poll' = NoPoll /\ tick' = tick
    BY <1>1, <1>2, FailedQuiet
  <2> QED
    BY <1>1, <2>1, QuietSettles, EndGood, LoopEnds
<1>3. CASE JobsAnswer /\ ~Failed
  <2>1. /\ poll' = [poll EXCEPT !.step = "jobs", !.at = None, !.todo = @ \ {poll.at}]
        /\ UNCHANGED <<watch, tick>>
    BY <1>3 DEF JobsAnswer
  <2>2. /\ poll' \in Polls /\ poll'.step = "jobs" /\ poll'.runs = poll.runs
        /\ poll'.w = poll.w /\ poll'.head = poll.head /\ poll'.stored = poll.stored
    BY <1>1, <2>1 DEF Polls
  <2> QED
    BY <1>1, <2>1, <2>2, GoesOn DEF Reading
<1>4. CASE StillRunning
  <2>1. /\ [Progressed EXCEPT !.streak = 0, !.due = FALSE] \in Rows
        /\ watch' = Update(poll.w, [Progressed EXCEPT !.streak = 0, !.due = FALSE])
        /\ watch[poll.w] \in Rows
    BY <1>1, <1>4, ProgressedTypes DEF StillRunning, Reschedule, IInv, TypeOK, Reading
  <2>2. RowsSettle
    BY <1>1, <2>1, SavesRows DEF Progressed, Rows
  <2> QED
    BY <1>1, <1>4, <2>2, EndGood, LoopEnds DEF StillRunning, Reschedule, EndPoll
<1>5. ASSUME NEW r \in Runs, ReadJobs(r) PROVE Good /\ LoopTyped'
  <2>1. CASE HasBudget
    <3>1. /\ poll' = [poll EXCEPT !.step = "job", !.at = r] /\ UNCHANGED <<watch, tick>> /\ r \in poll.todo
      BY <1>5, <2>1 DEF ReadJobs
    <3>2. /\ poll' \in Polls /\ poll'.step = "job" /\ poll'.runs = poll.runs /\ poll'.at = r /\ poll'.todo = poll.todo
          /\ poll'.w = poll.w /\ poll'.head = poll.head /\ poll'.stored = poll.stored
      BY <1>1, <3>1 DEF Polls
    <3> QED
      BY <1>1, <3>1, <3>2, GoesOn DEF Reading
  <2>2. CASE ~HasBudget
    <3>1. BudgetStop(watch)
      BY <1>5, <2>2 DEF ReadJobs
    <3>2. RowsQuiet
      BY <3>1, StopQuiet DEF BudgetStop
    <3> QED
      BY <1>1, <3>1, <3>2, QuietSettles, EndGood, LoopEnds DEF BudgetStop, EndTick
  <2> QED
    BY <2>1, <2>2
<1> QED
  BY <1>2, <1>3, <1>4, <1>5

\* A log is fetched by the poll that knows it is missing, and saved or lost with the others.
LEMMA LogSteps ==
    ASSUME IInv, LogAnswers \/ Verdict \/ \E r \in Runs : FetchLog(r)
    PROVE  Good /\ LoopTyped'
<1>1. /\ Reading /\ poll.step # "off" /\ poll \in Polls /\ Complete /\ UNCHANGED <<ci, up, asks>>
      /\ poll.w \in Watches /\ watch[poll.w] \in Rows /\ Sound(watch[poll.w]) /\ poll.runs \in Listings
      /\ \A r \in Runs : poll.runs[r].status # "none" \/ poll.runs[r].log => r \in RunsOf[poll.head] /\ ci[r] # "none"
      /\ \A r \in Runs : watch[poll.w].fetched[r] = 1 => poll.runs[r].log
  BY DEF LogAnswers, Verdict, FetchLog, Reading, IInv, TypeOK, PollOK, RowsOK, Polls
<1>2. CASE Verdict
  <2> DEFINE state == IF Found("failure") THEN "failure"
                      ELSE IF Found("cancelled") THEN "cancelled" ELSE "success"
  <2>1. state \in Verdicts
    BY DEF Verdicts
  <2>2. Finish(poll.w, state)
    BY <1>2 DEF Verdict
  <2> HIDE DEF state
  <2>3. RowsQuiet /\ watch'[poll.w].state # "pending"
    BY <1>1, <2>1, <2>2, FinishQuiet DEF IInv
  <2> QED
    BY <1>1, <1>2, <2>3, QuietSettles, EndGood, LoopEnds DEF Verdict, EndPoll
<1>3. ASSUME NEW r \in Runs, FetchLog(r) PROVE Good /\ LoopTyped'
  <2>1. CASE HasBudget
    <3>1. /\ poll' = [poll EXCEPT !.step = "log", !.at = r] /\ UNCHANGED <<watch, tick>> /\ r \in Unlogged
      BY <1>3, <2>1 DEF FetchLog
    <3>2. /\ poll' \in Polls /\ poll'.step = "log" /\ poll'.runs = poll.runs /\ poll'.at = r /\ poll'.todo = poll.todo
          /\ poll'.w = poll.w /\ poll'.head = poll.head /\ poll'.stored = poll.stored
      BY <1>1, <3>1 DEF Polls
    <3>3. Complete' /\ Unlogged' = Unlogged
      BY <1>1, <3>2 DEF Complete, Unlogged
    <3> QED
      BY <1>1, <3>1, <3>2, <3>3, GoesOn DEF Reading
  <2>2. CASE ~HasBudget
    <3>1. BudgetStop(Update(poll.w, Progressed))
      BY <1>3, <2>2 DEF FetchLog
    <3>2. ASSUME NEW v \in Watches, watch[v].state = "pending", v = poll.w
          PROVE  Saves(watch[v], watch'[v])
      <4>1. Update(poll.w, Progressed)[v] = Progressed
        BY <1>1, <3>2, UpdateRows DEF IInv
      <4>2. watch'[v] = [Progressed EXCEPT !.due = FALSE]
        BY <3>1, <4>1 DEF BudgetStop
      <4>3. [Progressed EXCEPT !.due = FALSE] \in Rows
        BY <1>1, ProgressedTypes
      <4> QED
        BY <1>1, <3>2, <4>2, <4>3 DEF Saves, Progressed, Rows
    <3>3. ASSUME NEW v \in Watches, ~(watch[v].state = "pending" /\ v = poll.w)
          PROVE  Quiet(watch[v], watch'[v]) /\ watch'[v].state = watch[v].state
      <4>1. Update(poll.w, Progressed)[v] = watch[v]
        BY <1>1, <3>3, UpdateRows DEF IInv
      <4>2. watch'[v] = [watch[v] EXCEPT !.due = FALSE] /\ watch[v] \in Rows /\ Sound(watch[v])
        BY <3>1, <4>1 DEF BudgetStop, IInv, TypeOK, RowsOK
      <4>3. CASE watch[v].state \in {"none", "pending"}
        BY <4>2, <4>3, TouchTypes DEF Quiet, Touched
      <4>4. CASE watch[v].state \notin {"none", "pending"}
        BY <4>2, <4>4, EndedStill DEF Quiet
      <4> QED
        BY <4>3, <4>4
    <3>4. watch' = [v \in Watches |-> watch'[v]]
      BY <3>1 DEF BudgetStop
    <3>5. RowsSettle
      BY <1>1, <3>2, <3>3, <3>4 DEF RowsSettle
    <3> QED
      BY <1>1, <3>1, <3>5, EndGood, LoopEnds DEF BudgetStop, EndTick
  <2> QED
    BY <2>1, <2>2
<1>4. CASE LogAnswers /\ watch' = Update(poll.w, [Progressed EXCEPT !.due = FALSE]) /\ EndPoll
  <2>1. [Progressed EXCEPT !.due = FALSE] \in Rows
    BY <1>1, ProgressedTypes
  <2>2. RowsSettle
    BY <1>1, <1>4, <2>1, SavesRows DEF Progressed, Rows
  <2> QED
    BY <1>1, <1>4, <2>2, EndGood, LoopEnds DEF EndPoll
<1>5. ASSUME poll.step = "log",
             poll' = [poll EXCEPT !.step = "jobs", !.at = None, !.runs[poll.at].log = TRUE],
             watch' = Update(poll.w, [watch[poll.w] EXCEPT !.fetched[poll.at] = @ + 1]),
             tick' = tick
      PROVE  Good /\ LoopTyped'
  <2>1. poll.at \in Runs /\ poll.runs[poll.at].status = "failure" /\ ~poll.runs[poll.at].log
    BY <1>5 DEF IInv, PollOK, Unlogged
  <2>2. PICK logged : logged = [poll.runs EXCEPT ![poll.at].log = TRUE]
    OBVIOUS
  <2>3. /\ poll' \in Polls /\ poll'.step = "jobs" /\ poll'.runs = logged /\ poll'.todo = poll.todo
        /\ poll'.w = poll.w /\ poll'.head = poll.head /\ poll'.stored = poll.stored
    <3>1. logged \in Listings
      BY <1>1, <2>1, <2>2 DEF Listings
    <3>2. poll' = [poll EXCEPT !.step = "jobs", !.at = None, !.runs = logged]
      BY <1>1, <1>5, <2>2 DEF Polls
    <3> QED
      BY <1>1, <3>1, <3>2 DEF Polls
  <2>4. \A r \in Runs : /\ logged[r].status = poll.runs[r].status
                        /\ r = poll.at => logged[r].log = TRUE
                        /\ r # poll.at => logged[r] = poll.runs[r]
    BY <1>1, <2>1, <2>2 DEF Listings
  <2>5. PICK row : row = [watch[poll.w] EXCEPT !.fetched[poll.at] = @ + 1]
    OBVIOUS
  <2>6. /\ row \in Rows /\ row.state = watch[poll.w].state /\ row.head = watch[poll.w].head
        /\ row.runs = watch[poll.w].runs /\ row.tree = watch[poll.w].tree
        /\ \A r \in Runs : row.fetched[r] = IF r = poll.at THEN watch[poll.w].fetched[r] + 1 ELSE watch[poll.w].fetched[r]
    BY <1>1, <2>1, <2>5 DEF Rows
  <2>7. watch[poll.w].fetched[poll.at] = 0
    BY <1>1, <2>1 DEF Sound, Rows
  <2>8. watch[poll.w].state = "pending" => Sound(row)
    BY <1>1, <2>6, <2>7 DEF Sound
  <2>9. /\ watch' = [v \in Watches |-> watch'[v]]
        /\ \A v \in Watches : watch'[v] = IF v = poll.w /\ watch[poll.w].state = "pending" THEN row ELSE watch[v]
    BY <1>1, <1>5, <2>5, UpdateRows DEF IInv
  <2>10. RowsOK'
    <3>1. ASSUME NEW v \in Watches, NEW now, now = watch'[v] PROVE Sound(now)'
      <4>1. Sound(now)
        BY <2>8, <2>9, <3>1 DEF IInv, RowsOK
      <4> QED
        BY <1>1, <4>1, SoundKept DEF CiKept
    <3> QED
      BY <3>1 DEF RowsOK
  <2>11. SavedOK'
    BY <1>1, <2>3, <2>9 DEF IInv, SavedOK, Saved, Reading
  <2>12. Complete'
    BY <1>1, <2>3, <2>4 DEF Complete
  <2>13. \A r \in Runs : watch'[poll.w].fetched[r] = 1 => logged[r].log
    <3>1. ASSUME NEW r \in Runs, watch'[poll.w].fetched[r] = 1 PROVE logged[r].log
      <4>1. CASE r = poll.at
        BY <2>4, <4>1
      <4>2. CASE r # poll.at
        <5>1. watch[poll.w].fetched[r] = 1
          BY <1>1, <2>6, <2>9, <3>1, <4>2
        <5>2. poll.runs[r].log
          BY <1>1, <5>1
        <5> QED
          BY <2>4, <4>2, <5>2
      <4> QED
        BY <4>1, <4>2
    <3> QED
      BY <3>1
  <2>14. \A r \in Runs : logged[r].status # "none" \/ logged[r].log => r \in RunsOf[poll.head] /\ ci'[r] # "none"
    BY <1>1, <2>1, <2>4
  <2>15. /\ watch'[poll.w].state = watch[poll.w].state /\ watch'[poll.w].runs = watch[poll.w].runs
         /\ watch'[poll.w].head = watch[poll.w].head
    BY <1>1, <2>6, <2>9
  <2>16. PollOK'
    BY <1>1, <2>3, <2>12, <2>13, <2>14, <2>15 DEF IInv, PollOK
  <2>17. LoopTyped'
    BY <1>1, <1>5, <2>3 DEF IInv, TypeOK, LoopTyped
  <2>18. Stays
    BY <2>9 DEF Stays
  <2> QED
    BY <2>9, <2>10, <2>11, <2>16, <2>17, <2>18 DEF Good
<1> QED
  BY <1>2, <1>3, <1>4, <1>5 DEF LogAnswers

-----------------------------------------------------------------------------
\* The invariant holds at first.
LEMMA InitInv == ASSUME Init PROVE IInv
<1>1. NoWatch.state = "none" /\ Sound(NoWatch) /\ Saved(NoWatch)
  BY RowTypes DEF NoWatch, Sound, Saved, NoRuns, Unseen
<1>2. LoopTyped
  BY NoPollType, CiAssumption DEF Init, LoopTyped, NoTick
<1>3. RowsOK /\ SavedOK
  BY <1>1 DEF Init, RowsOK, SavedOK
<1>4. PollOK
  BY NoPollType DEF Init, PollOK, Reading
<1>5. watch = [w \in Watches |-> watch[w]]
  BY DEF Init
<1> QED
  BY <1>2, <1>3, <1>4, <1>5, SoundTyped DEF IInv

\* Every step keeps it, and the rows that have ended.
LEMMA StepInv == ASSUME IInv, [Next]_vars PROVE IInv' /\ Stays
<1>1. ASSUME Good, LoopTyped' PROVE IInv' /\ Stays
  <2>1. TypeOK'
    BY <1>1 DEF Good, RowsOK, Sound, LoopTyped, TypeOK
  <2> QED
    BY <1>1, <2>1 DEF Good, IInv
<1>2. ASSUME RowsQuiet /\ poll' = poll /\ CiKept /\ LoopTyped' PROVE IInv' /\ Stays
  BY <1>1, <1>2, QuietGood
<1>3. CASE UNCHANGED vars
  <2>1. UNCHANGED <<ci, watch, up, tick, poll, asks>>
    BY <1>3 DEF vars, loop
  <2>2. RowsQuiet /\ CiKept
    BY <2>1, SameQuiet DEF CiKept
  <2>3. LoopTyped'
    BY <2>1 DEF IInv, TypeOK, LoopTyped
  <2> QED
    BY <1>2, <2>1, <2>2, <2>3
<1>4. ASSUME NEW t \in Worktrees,
             \/ \E c \in Commits : Watch(t, c)
             \/ \E a \in asks : ProbeAnswers(a)
             \/ Unwatch(t) \/ Remove(t)
      PROVE  IInv' /\ Stays
  BY <1>2, <1>4, RequestSteps
<1>5. ASSUME NEW a \in asks, ProbeAnswers(a) PROVE IInv' /\ Stays
  <2>1. a.tree \in Worktrees
    BY DEF IInv, TypeOK
  <2> QED
    BY <1>4, <1>5, <2>1
<1>6. ASSUME \/ TimerFires \/ TickBegins \/ CallsAge \/ Close \/ Boot
             \/ \E w \in Watches : Due(w)
             \/ \E r \in Runs : RunAdvances(r)
      PROVE  IInv' /\ Stays
  BY <1>2, <1>6, WorldSteps
<1>7. ASSUME \/ TickEnds \/ PollThrows \/ Crash \/ Exit
             \/ \E w \in Watches : PollBegins(w)
             \/ ListAnswers
             \/ JobsAnswer \/ StillRunning \/ \E r \in Runs : ReadJobs(r)
             \/ LogAnswers \/ Verdict \/ \E r \in Runs : FetchLog(r)
      PROVE  IInv' /\ Stays
  BY <1>1, <1>7, EndTickSteps, BeginSteps, ListSteps, JobSteps, LogSteps
<1> QED
  BY <1>3, <1>4, <1>5, <1>6, <1>7 DEF Next

-----------------------------------------------------------------------------
(* The rows, the saved logs and what a poll holds are as they should be, in every state. *)
THEOREM CiInv == Spec => []IInv
<1>1. Init => IInv
  BY InitInv
<1>2. IInv /\ [Next]_vars => IInv'
  BY StepInv
<1> QED
  BY <1>1, <1>2, PTL DEF Spec

(* Whatever a poll brings back, the log of a failed job is fetched once for each watch: what the *)
(* poll fetched is in its row before another poll could ask for it (watcher.ts:316-348). *)
THEOREM LogsOnceHolds == Spec => []LogsOnce
<1>1. IInv => LogsOnce
  BY DEF IInv, RowsOK, Sound, LogsOnce
<1> QED
  BY <1>1, CiInv, PTL

(* No answer that comes late writes a watch that has ended: update() asks for a pending row in the *)
(* statement itself (ci-store.ts). *)
THEOREM EndedStaysHolds == Spec => EndedStays
<1>1. IInv /\ [Next]_vars => [Stays]_vars
  BY StepInv
<1>2. Spec => [][Stays]_vars
  BY <1>1, CiInv, PTL DEF Spec
<1> QED
  BY <1>2 DEF EndedStays, Stays

=============================================================================

--------------------------- MODULE RepositoryMutex ---------------------------
(***************************************************************************)
(* What the operation lease promises its callers, without clocks, rows or  *)
(* measurements: each registered repository is held by at most one run of  *)
(* wtm; it passes to another run only when it was handed back, when its    *)
(* holder is gone for good, or when its registration was retired.          *)
(***************************************************************************)
CONSTANTS Procs, Repos

VARIABLES
    holder, \* holder[r]: the runs that hold r
    gone    \* runs that have ended

vars == <<holder, gone>>

Init ==
    /\ holder = [r \in Repos |-> {}]
    /\ gone = {}

Grant(p, r) ==
    /\ p \notin gone
    /\ holder[r] \subseteq gone
    /\ holder' = [holder EXCEPT ![r] = {p}]
    /\ UNCHANGED gone

GiveBack(p, r) ==
    /\ p \notin gone
    /\ holder' = [holder EXCEPT ![r] = @ \ {p}]
    /\ UNCHANGED gone

Retire(r) ==
    /\ holder' = [holder EXCEPT ![r] = {}]
    /\ UNCHANGED gone

End(p) ==
    /\ gone' = gone \cup {p}
    /\ UNCHANGED holder

Next ==
    \/ \E p \in Procs, r \in Repos : Grant(p, r) \/ GiveBack(p, r)
    \/ \E r \in Repos : Retire(r)
    \/ \E p \in Procs : End(p)

Spec == Init /\ [][Next]_vars
==============================================================================

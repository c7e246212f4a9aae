---------------------- MODULE MCServiceLifecycle ----------------------
(* Small instances of ServiceLifecycle for TLC. *)
EXTENDS ServiceLifecycle

TwoRuns == 1..2
ThreeRuns == 1..3
FourRuns == 1..4
\* The first run carries a new build, the later ones the build already there.
MCBuild == [p \in Runs |-> IF p = 1 THEN "new" ELSE "old"]

Changes == [p \in Runs |-> IF p <= 2 THEN {"install", "uninstall"} ELSE {"install"}]
Takeovers == [p \in Runs |-> IF p <= 2 THEN {"uninstall", "status"} ELSE {"status"}]

NoLegacy == {[def |-> FALSE, loaded |-> FALSE, artifacts |-> FALSE]}
\* A legacy definition, its service running or not, or leftovers of an interrupted takeover.
OldLabel == [def : {TRUE}, loaded : BOOLEAN, artifacts : {FALSE}]
            \cup {[def |-> FALSE, loaded |-> FALSE, artifacts |-> TRUE]}
=======================================================================

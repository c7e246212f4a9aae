------------------------- MODULE MCOperationLease -------------------------
(***************************************************************************)
(* Three runs of wtm: two on one host that share a PID (so the second is a *)
(* recycled PID), and one on another host sharing the state directory.     *)
(***************************************************************************)
EXTENDS OperationLease

MCProcs == {"a", "recycled", "far"}
MCPid == [p \in MCProcs |-> IF p = "far" THEN 2 ELSE 1]
MCHost == [p \in MCProcs |-> IF p = "far" THEN "h2" ELSE "h1"]

\* Two runs on one host, for the runs over several repositories.
MCPair == {"a", "b"}
MCPairPid == [p \in MCPair |-> IF p = "a" THEN 1 ELSE 2]
MCPairHost == [p \in MCPair |-> "h1"]

\* The order of the paths is the reverse of the order of the ids.
MCRootOrder == [r \in {1, 2} |-> 3 - r]
MCOneRoot == [r \in {1} |-> r]
===========================================================================

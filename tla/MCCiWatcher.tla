---------------------------- MODULE MCCiWatcher ----------------------------
(***************************************************************************)
(* Two watches, of one worktree or of two, on commits with two runs and    *)
(* none; three calls a minute are fewer than a failed commit needs.        *)
(***************************************************************************)
EXTENDS CiWatcher, TLC

CONSTANTS a, b, x, y, r1, r2

TheRequests == {<<a, x>>, <<a, y>>, <<b, y>>}

First == (r1 :> "failure") @@ (r2 :> "running")

TheRuns == (x :> {r1, r2}) @@ (y :> {})
=============================================================================

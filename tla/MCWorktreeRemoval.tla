------------------------- MODULE MCWorktreeRemoval -------------------------
(***************************************************************************)
(* Two worktrees of one feature and two ports, or one worktree alone; the  *)
(* .cfg files bound the outside events and choose the kinds of blockers.   *)
(***************************************************************************)
EXTENDS WorktreeRemoval
============================================================================

---------------------------- MODULE MCJobQueue ----------------------------
(***************************************************************************)
(* Two jobs, of one worktree or of two.                                    *)
(***************************************************************************)
EXTENDS JobQueue

MCSameWorktree == [j \in {1, 2} |-> "w"]
MCTwoWorktrees == [j \in {1, 2} |-> IF j = 1 THEN "w" ELSE "v"]
MCOneWorktree == [j \in {1} |-> "w"]
===========================================================================

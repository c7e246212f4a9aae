-------------------------- MODULE MCManagedRuntime --------------------------
(* Small instances of ManagedRuntime: the requests are interchangeable. *)
EXTENDS ManagedRuntime, TLC

Symmetry == Permutations(Requests)
=============================================================================

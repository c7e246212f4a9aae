---------------------------- MODULE MCResourceGc ----------------------------
EXTENDS ResourceGc, TLC

Symmetry == Permutations(Runs)
=============================================================================

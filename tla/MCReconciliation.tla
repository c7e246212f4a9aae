-------------------------- MODULE MCReconciliation --------------------------
(***************************************************************************)
(* One root, whose topology changes twice: what is lost is lost for one    *)
(* root already.                                                           *)
(***************************************************************************)
EXTENDS Reconciliation
=============================================================================

------------------------- MODULE MCFeatureCreation -------------------------
EXTENDS FeatureCreation

(* The branch exists in repository 2 only; --repos names both repositories or the other one. *)
MCExisting == {{2}}
MCAsked == {{1, 2}, {1}}
=============================================================================

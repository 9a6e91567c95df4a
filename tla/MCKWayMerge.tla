----------------------------- MODULE MCKWayMerge -----------------------------
(* Module KWayMerge for model checking; values are interchangeable. *)
EXTENDS KWayMerge, TLC

Symmetry == Permutations(Values)
=============================================================================

------------------------------ MODULE MCEngine ------------------------------
(* Engine for TLC: keys and values are interchangeable model values. *)
EXTENDS Engine, TLC

Symmetry == Permutations(Keys) \cup Permutations(Values)
=============================================================================

-------------------------------- MODULE MCWAL --------------------------------
(* Module WAL for model checking; keys and values are interchangeable. *)
EXTENDS WAL, TLC

Symmetry == Permutations(Keys) \cup Permutations(Values)
=============================================================================

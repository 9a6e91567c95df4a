------------------------------ MODULE MCSSTable ------------------------------
(* Module SSTable for model checking. *)
EXTENDS SSTable

\* Hashes that collide, that are spread out, and that make h += delta wrap.
MCHashFunctions ==
    {[k \in Keys |-> (k * 5) % 32], [k \in Keys |-> 31 - k], [k \in Keys |-> 9]}
=============================================================================

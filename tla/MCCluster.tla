----------------------------- MODULE MCCluster -----------------------------
EXTENDS Cluster, TLC
Symmetry == Permutations(Nodes \ {Seed}) \cup Permutations(Requests)
=============================================================================

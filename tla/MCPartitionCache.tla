-------------------------- MODULE MCPartitionCache --------------------------
EXTENDS PartitionCache, TLC

\* Cluster numbers are only compared for equality, contents only copied.
Symmetry == Permutations(Clusters) \cup Permutations(Values)
=============================================================================

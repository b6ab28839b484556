-------------------------- MODULE MCAllocatorThreads --------------------------
EXTENDS AllocatorThreads

Clusters2To6 == 2..6
=============================================================================

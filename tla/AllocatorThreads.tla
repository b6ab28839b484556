--------------------------- MODULE AllocatorThreads ---------------------------
(***************************************************************************)
(* BitVectCtrl (src/bit_vec_ctrl_blck.cpp) called by several threads at    *)
(* once.  KernelFile allocates the clusters of a growing file with no lock *)
(* held, so two files of a partition that are written at the same time     *)
(* overlap in allocateCluster.  A step is one access to the stack or to a  *)
(* byte of the bit vector; the scan that refills the stack is one step.    *)
(***************************************************************************)
EXTENDS Integers, FiniteSets, FiniteSetsExt

CONSTANTS
    Threads,
    Data,               \* the data clusters the scan looks at: numbers above 1
    F_CLUST_POOL_SIZE,  \* slots of the stack
    BYTE_SIZE           \* clusters whose bits share a byte

VARIABLES
    allocated,    \* the clusters whose bit is set
    freeCluster,  \* the stack, its top at FCPointer
    FCPointer,
    at,           \* where a thread is
    no,           \* the cluster a thread is allocating
    byte,         \* the byte it has read: the clusters whose bits are set in it
    mine          \* the clusters of the file a thread writes

vars == <<allocated, freeCluster, FCPointer, at, no, byte, mine>>

Slots == 0..F_CLUST_POOL_SIZE - 1
ByteOf(c) == {d \in Data : d \div BYTE_SIZE = c \div BYTE_SIZE}

Init ==
    /\ allocated = {} /\ freeCluster = [i \in Slots |-> 0] /\ FCPointer = F_CLUST_POOL_SIZE
    /\ at = [t \in Threads |-> "idle"]
    /\ no = [t \in Threads |-> 0]
    /\ byte = [t \in Threads |-> {}]
    /\ mine = [t \in Threads |-> {}]

From(t, k, l) == at[t] = k /\ at' = [at EXCEPT ![t] = l]

\* getEmptyCluster: updateFCPool when the stack is empty, ...
Call(t) ==
    /\ From(t, "idle", "pop")
    /\ IF FCPointer # F_CLUST_POOL_SIZE THEN UNCHANGED <<freeCluster, FCPointer>>
       ELSE \E S \in SUBSET (Data \ allocated) :
               /\ Cardinality(S) = Min({F_CLUST_POOL_SIZE, Cardinality(Data \ allocated)})
               /\ \A c \in S, d \in Data \ (allocated \cup S) : c < d
               /\ FCPointer' = F_CLUST_POOL_SIZE - Cardinality(S)
               /\ \E f \in [Slots -> S \cup {0}] :
                     /\ \A i \in Slots : f[i] = 0 <=> i < FCPointer'
                     /\ \A i, j \in Slots : i < j /\ FCPointer' <= i => f[j] < f[i]
                     /\ freeCluster' = f
    /\ UNCHANGED <<allocated, no, byte, mine>>

\* ... then the top of the stack is read ...
ReadTop(t) ==
    /\ IF FCPointer = F_CLUST_POOL_SIZE
       THEN From(t, "pop", "idle") /\ UNCHANGED no
       ELSE From(t, "pop", "advance") /\ no' = [no EXCEPT ![t] = freeCluster[FCPointer]]
    /\ UNCHANGED <<allocated, freeCluster, FCPointer, byte, mine>>

\* ... and cleared.  (Nothing is said of a pointer that has left the stack.)
Advance(t) ==
    /\ FCPointer \in Slots
    /\ From(t, "advance", IF no[t] \in {0, 1} THEN "idle" ELSE "load")
    /\ freeCluster' = [freeCluster EXCEPT ![FCPointer] = 0]
    /\ FCPointer' = FCPointer + 1
    /\ UNCHANGED <<allocated, no, byte, mine>>

\* allocateCluster: a cluster that is taken is no use, the call begins again.
Load(t) ==
    /\ From(t, "load", IF no[t] \in allocated THEN "idle" ELSE "store")
    /\ byte' = [byte EXCEPT ![t] = allocated \cap ByteOf(no[t])]
    /\ UNCHANGED <<allocated, freeCluster, FCPointer, no, mine>>

Store(t) ==
    /\ From(t, "store", "idle")
    /\ allocated' = (allocated \ ByteOf(no[t])) \cup byte[t] \cup {no[t]}
    /\ mine' = [mine EXCEPT ![t] = @ \cup {no[t]}]
    /\ UNCHANGED <<freeCluster, FCPointer, no, byte>>

Next == \E t \in Threads : Call(t) \/ ReadTop(t) \/ Advance(t) \/ Load(t) \/ Store(t)

Spec == Init /\ [][Next]_vars

\* What the allocator would promise if it could be called by several threads; it
\* keeps neither.  No cluster belongs to two files.
NoSharedCluster == \A t, u \in Threads : t # u => mine[t] \cap mine[u] = {}

\* A file's clusters are allocated: no other thread's update of the byte undoes it.
MineIsAllocated == \A t \in Threads : mine[t] \subseteq allocated
=============================================================================

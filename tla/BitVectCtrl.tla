---------------------------- MODULE BitVectCtrl ----------------------------
(***************************************************************************)
(* BitVectCtrl (src/bit_vec_ctrl_blck.cpp): the cluster allocator of a     *)
(* mounted partition, a bit per cluster (1: allocated) and a stack of free *)
(* clusters found ahead of need.  It has no lock of its own; this module   *)
(* is about calls that follow each other, AllocatorThreads about calls     *)
(* that overlap.  One bit vector is modelled (up to 16384 clusters).       *)
(***************************************************************************)
EXTENDS Integers, FiniteSets

CONSTANTS
    clustersInPartition,  \* number of clusters of the partition
    F_CLUST_POOL_SIZE,    \* slots of the stack freeCluster
    ClusterSize,          \* bytes of a cluster, hence of the bit vector
    BYTE_SIZE,            \* bits of a byte
    MAX_MOUNTS            \* bound: how often the partition is mounted

ASSUME AllocatorAssumption ==
    /\ clustersInPartition \in Nat /\ clustersInPartition > 2
    /\ F_CLUST_POOL_SIZE \in Nat \ {0}
    /\ ClusterSize \in Nat \ {0} /\ BYTE_SIZE \in Nat \ {0}
    /\ clustersInPartition <= ClusterSize * BYTE_SIZE
    /\ MAX_MOUNTS \in Nat

Clusters == 0..clustersInPartition-1
Reserved == {0, 1}                       \* the bit vector and the root directory
Data     == Clusters \ Reserved
Slots    == 0..F_CLUST_POOL_SIZE-1

VARIABLES
    bit,             \* bitVector in memory
    freeCluster,     \* the stack; its top is at FCPointer, unused slots are 0
    FCPointer,       \* F_CLUST_POOL_SIZE: empty, 0: full
    noFreeClusters,  \* the last scan met the end of the bit vector
    stored,          \* the bit vector on the partition
    mounted,         \* the BitVectCtrl object exists
    mounts,          \* how often it was created (bounded by MAX_MOUNTS)
    owned,           \* the clusters that files of the partition use
    ret              \* what the latest call answered

vars == <<bit, freeCluster, FCPointer, noFreeClusters, stored, mounted, mounts, owned, ret>>
pool == <<freeCluster, FCPointer, noFreeClusters>>

Idle         == [op |-> "none", no |-> 0]
InUseSlots   == FCPointer..F_CLUST_POOL_SIZE-1
Blank        == [c \in Clusters |-> 0]

\* Variant: formatting leaves the bits of the data clusters.
FormattedKept == [c \in Clusters |-> IF c \in Reserved THEN 1 ELSE bit[c]]

FormattedBits == [c \in Clusters |-> IF c \in Reserved THEN 1 ELSE 0]

\* isAlocated: the reserved clusters count as allocated whatever their bits say.
IsAlocated(c) == c \in Reserved \/ bit[c] = 1

-----------------------------------------------------------------------------
\* Variant: the scan begins at cluster 0.
SeenFromZero(bits) == {c \in Clusters : bits[c] = 0 /\ c < (ClusterSize - 1) * BYTE_SIZE}

\* updateFCPool scans from cluster 2 up and gives up on reaching the last byte
\* of the bit vector: the clusters of that byte are never seen.
Seen(bits) == {c \in Data : bits[c] = 0 /\ c < (ClusterSize - 1) * BYTE_SIZE}

\* updateFCPool on an empty stack, the only one it is called on: the lowest free
\* clusters seen, the lowest at the bottom, as many as there are or fit.
UpdateFCPool(bits, f, p) ==
    /\ \A i \in Slots : i < p => f[i] = 0
    /\ \A i \in p..F_CLUST_POOL_SIZE-1 : f[i] \in Seen(bits)
    /\ \A i, j \in p..F_CLUST_POOL_SIZE-1 : i < j => f[j] < f[i]
    /\ \A c \in Seen(bits) : \/ \E i \in p..F_CLUST_POOL_SIZE-1 : f[i] = c
                             \/ p = 0 /\ f[0] < c

Stacks == [Slots -> Clusters]

\* The stack a freshly read or formatted bit vector starts with.
StartPool(bits) ==
    \E f \in [Slots -> Seen(bits) \cup {0}], p \in 0..F_CLUST_POOL_SIZE :
       /\ UpdateFCPool(bits, f, p)
       /\ freeCluster' = f /\ FCPointer' = p /\ noFreeClusters' = (p > 0)

\* allocateCluster pops until it meets a cluster whose bit is clear ...
PopFree(c) ==
    \E i \in InUseSlots :
       /\ bit[freeCluster[i]] = 0
       /\ \A j \in InUseSlots : j < i => bit[freeCluster[j]] = 1
       /\ c = freeCluster[i]
       /\ freeCluster' = [j \in Slots |-> IF j <= i THEN 0 ELSE freeCluster[j]]
       /\ FCPointer' = i + 1
       /\ UNCHANGED noFreeClusters

\* Variant: an empty stack is the end, the bit vector is not scanned again.
GiveUp(c) ==
    /\ \A i \in InUseSlots : bit[freeCluster[i]] = 1
    /\ c = 0
    /\ UNCHANGED pool

\* ... and scans the bit vector when the stack runs out; 0: nothing was found.
RefillAndPop(c) ==
    /\ \A i \in InUseSlots : bit[freeCluster[i]] = 1
    /\ \E f \in [Slots -> Seen(bit) \cup {0}], p \in 0..F_CLUST_POOL_SIZE :
          /\ UpdateFCPool(bit, f, p)
          /\ noFreeClusters' = (p > 0)
          /\ IF p = F_CLUST_POOL_SIZE
             THEN c = 0 /\ freeCluster' = f /\ FCPointer' = p
             ELSE c = f[p] /\ freeCluster' = [f EXCEPT ![p] = 0] /\ FCPointer' = p + 1

Obtain(c) ==
    /\ PopFree(c) \/ RefillAndPop(c)
    /\ bit' = IF c = 0 THEN bit ELSE [bit EXCEPT ![c] = 1]
    /\ owned' = IF c = 0 THEN owned ELSE owned \cup {c}

-----------------------------------------------------------------------------
Init ==
    /\ stored = Blank
    /\ bit = Blank
    /\ freeCluster = [i \in Slots |-> 0]
    /\ FCPointer = F_CLUST_POOL_SIZE
    /\ noFreeClusters = FALSE
    /\ mounted = FALSE /\ mounts = 0
    /\ owned = {}
    /\ ret = Idle

\* The constructor reads the bit vector and fills the stack.
Mount ==
    /\ ~mounted /\ mounts < MAX_MOUNTS
    /\ mounted' = TRUE /\ mounts' = mounts + 1
    /\ bit' = stored
    /\ StartPool(stored)
    /\ ret' = Idle
    /\ UNCHANGED <<stored, owned>>

\* The destructor: update() writes new, blank clusters over the bit vector.
Unmount ==
    /\ mounted /\ mounted' = FALSE
    /\ stored' = Blank
    /\ ret' = Idle
    /\ UNCHANGED <<bit, pool, mounts, owned>>

\* formatBV; the directory is emptied with it, so no file owns a cluster after.
FormatBV ==
    /\ mounted
    /\ bit' = FormattedBits /\ stored' = FormattedBits
    /\ StartPool(FormattedBits)
    /\ owned' = {}
    /\ ret' = Idle
    /\ UNCHANGED <<mounted, mounts>>

\* allocateCluster(), the only way the program takes clusters.
AllocateCluster ==
    /\ mounted
    /\ \E c \in Clusters : Obtain(c) /\ ret' = [op |-> "allocate", no |-> c]
    /\ UNCHANGED <<stored, mounted, mounts>>

\* Variant: without the look at the bit, so a second release counts too.
ReleseTwice(c) ==
    /\ mounted /\ c \in Data /\ (c \in owned \/ bit[c] = 0)
    /\ bit' = [bit EXCEPT ![c] = 0]
    /\ IF FCPointer > 0
       THEN /\ freeCluster' = [freeCluster EXCEPT ![FCPointer - 1] = c]
            /\ FCPointer' = FCPointer - 1
            /\ UNCHANGED noFreeClusters
       ELSE noFreeClusters' = FALSE /\ UNCHANGED <<freeCluster, FCPointer>>
    /\ owned' = owned \ {c}
    /\ ret' = Idle
    /\ UNCHANGED <<stored, mounted, mounts>>

\* Variant: a push on the full stack moves its pointer below it.
PushOnFull(c) ==
    /\ mounted /\ c \in owned
    /\ bit' = [bit EXCEPT ![c] = 0]
    /\ freeCluster' = [i \in Slots |-> IF i = FCPointer - 1 THEN c ELSE freeCluster[i]]
    /\ FCPointer' = FCPointer - 1
    /\ owned' = owned \ {c}
    /\ ret' = Idle
    /\ UNCHANGED <<stored, mounted, mounts, noFreeClusters>>

\* releseCluster, by the file that owns the cluster or again by whoever released it.
ReleseCluster(c) ==
    /\ mounted /\ c \in Data /\ (c \in owned \/ bit[c] = 0)
    /\ IF bit[c] = 0 THEN UNCHANGED <<bit, pool>>
       ELSE /\ bit' = [bit EXCEPT ![c] = 0]
            /\ IF FCPointer > 0
               THEN /\ freeCluster' = [freeCluster EXCEPT ![FCPointer - 1] = c]
                    /\ FCPointer' = FCPointer - 1
                    /\ UNCHANGED noFreeClusters
               ELSE noFreeClusters' = FALSE /\ UNCHANGED <<freeCluster, FCPointer>>
    /\ owned' = owned \ {c}
    /\ ret' = Idle
    /\ UNCHANGED <<stored, mounted, mounts>>

\* A cluster number as the char allocateCluster(no) returns it as.
AsChar(c) == ((c + 128) % 256) - 128

\* allocateCluster(no): a given cluster, or any other one if it is taken.  The
\* stack is left alone, so it may keep a cluster that is now allocated.
AllocateGiven(c) ==
    /\ mounted
    /\ \/ /\ c \in Data /\ bit[c] = 0
          /\ bit' = [bit EXCEPT ![c] = 1]
          /\ owned' = owned \cup {c}
          /\ ret' = [op |-> "given", no |-> 1]
          /\ UNCHANGED pool
       \/ /\ c \in Data /\ bit[c] = 1
          /\ \E d \in Clusters : Obtain(d) /\ ret' = [op |-> "given", no |-> AsChar(d)]
       \/ /\ c \in Reserved
          /\ ret' = [op |-> "given", no |-> 0]
          /\ UNCHANGED <<bit, pool, owned>>
    /\ UNCHANGED <<stored, mounted, mounts>>

\* The calls the rest of the file system makes.
Next ==
    \/ Mount
    \/ Unmount
    \/ FormatBV
    \/ AllocateCluster
    \/ \E c \in Clusters : ReleseCluster(c)

Spec == Init /\ [][Next]_vars

\* All public operations: allocateCluster(no) has no caller in the program.
PublicNext == Next \/ \E c \in Clusters : AllocateGiven(c)

PublicSpec == Init /\ [][PublicNext]_vars

-----------------------------------------------------------------------------
TypeOK ==
    /\ bit \in [Clusters -> {0, 1}] /\ stored \in [Clusters -> {0, 1}]
    /\ freeCluster \in Stacks
    /\ FCPointer \in 0..F_CLUST_POOL_SIZE
    /\ noFreeClusters \in BOOLEAN
    /\ mounted \in BOOLEAN /\ mounts \in 0..MAX_MOUNTS
    /\ owned \subseteq Data
    /\ ret \in [op : {"none", "allocate", "given"}, no : Int]

\* The clusters on the stack are data clusters, free, and each there once: the
\* retry of allocateCluster on a cluster that is taken is never needed.
PoolIsFree ==
    mounted =>
      /\ \A i \in InUseSlots : freeCluster[i] \in Data /\ bit[freeCluster[i]] = 0
      /\ \A i, j \in InUseSlots : i # j => freeCluster[i] # freeCluster[j]

\* Whoever calls it, the stack never offers the bit vector, the directory or a
\* cluster past the end of the partition, and unused slots are cleared.
PoolIsData ==
    /\ \A i \in InUseSlots : freeCluster[i] \in Data
    /\ \A i \in Slots : i < FCPointer => freeCluster[i] = 0

\* Until a partition is mounted again its bits say exactly what its files own.
BitsMatchOwners ==
    mounted /\ mounts = 1 => {c \in Data : bit[c] = 1} = owned

\* What a step answered to an allocation.
Allocated(c) == ret' = [op |-> "allocate", no |-> c]

\* An allocation answers a data cluster that was not allocated, or 0, also when
\* the stack offers clusters that were allocated by number meanwhile.
AllocatesFree ==
    [][\A c \in Clusters : Allocated(c) /\ c # 0 => c \in Data /\ bit[c] = 0]_vars

\* Allocation fails only when no cluster the scan looks at is free: a released
\* cluster is found again, whether it was put on the stack or not.
FailsOnlyWhenFull ==
    [][Allocated(0) => Seen(bit) = {}]_vars

\* getEmptyCluster: "vraca slobodan blok, 0 ako je puno" (a free block, 0 when
\* full): it fails only if all the data clusters are allocated.  Not so: the scan
\* never sees the clusters of the last byte.
ZeroOnlyWhenFull ==
    [][Allocated(0) => \A c \in Data : bit[c] = 1]_vars

\* "vraca slobodan blok": an allocation never answers a cluster of a file.  Not so
\* once the partition has been mounted again.
NeverTakesOwned ==
    [][\A c \in owned : ~Allocated(c)]_vars
=============================================================================

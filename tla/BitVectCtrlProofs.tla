-------------------------- MODULE BitVectCtrlProofs --------------------------
(***************************************************************************)
(* Proofs about BitVectCtrl for partitions and stacks of every size.       *)
(***************************************************************************)
EXTENDS BitVectCtrl, TLAPS

LEMMA Sizes ==
    /\ F_CLUST_POOL_SIZE \in Nat /\ F_CLUST_POOL_SIZE > 0
    /\ Data \subseteq Clusters /\ 0 \in Clusters /\ 0 \notin Data
    /\ Clusters \subseteq Nat /\ Slots \subseteq Nat
    /\ \A bits : Seen(bits) \subseteq Data
  BY AllocatorAssumption DEF Clusters, Data, Reserved, Slots, Seen

\* The stack f with its top at p, used with the bits b.
StackFree(f, p, b) ==
    /\ \A i \in p..F_CLUST_POOL_SIZE-1 : f[i] \in Data /\ b[f[i]] = 0
    /\ \A i, j \in p..F_CLUST_POOL_SIZE-1 : i # j => f[i] # f[j]

StackData(f, p) ==
    /\ \A i \in p..F_CLUST_POOL_SIZE-1 : f[i] \in Data
    /\ \A i \in Slots : i < p => f[i] = 0

\* A scan leaves a stack of free data clusters without repetition.
LEMMA ScanIsFree ==
    ASSUME NEW b \in [Clusters -> {0, 1}], NEW f \in [Slots -> Seen(b) \cup {0}],
           NEW p \in 0..F_CLUST_POOL_SIZE, UpdateFCPool(b, f, p)
    PROVE  f \in Stacks /\ StackFree(f, p, b) /\ StackData(f, p)
<1>1. f \in Stacks
  BY Sizes DEF Stacks
<1>2. \A i \in p..F_CLUST_POOL_SIZE-1 : i \in Slots /\ f[i] \in Data /\ b[f[i]] = 0
  BY Sizes DEF UpdateFCPool, Seen, Slots
<1>3. \A i, j \in p..F_CLUST_POOL_SIZE-1 : i # j => f[i] # f[j]
  <2> SUFFICES ASSUME NEW i \in p..F_CLUST_POOL_SIZE-1, NEW j \in p..F_CLUST_POOL_SIZE-1, i # j
               PROVE  f[i] # f[j]
    OBVIOUS
  <2>1. f[i] \in Nat /\ f[j] \in Nat
    BY <1>2, Sizes
  <2>2. CASE i < j
    BY <2>1, <2>2 DEF UpdateFCPool
  <2>3. CASE j < i
    BY <2>1, <2>3 DEF UpdateFCPool
  <2> QED BY <2>2, <2>3, Sizes
<1>4. \A i \in Slots : i < p => f[i] = 0
  BY DEF UpdateFCPool
<1> QED BY <1>1, <1>2, <1>3, <1>4 DEF StackFree, StackData

\* What a successful allocation took: a free data cluster, no longer on the stack.
LEMMA ObtainTakes ==
    ASSUME TypeOK, PoolIsData, NEW c \in Clusters, Obtain(c)
    PROVE  /\ freeCluster' \in Stacks /\ FCPointer' \in 0..F_CLUST_POOL_SIZE
           /\ noFreeClusters' \in BOOLEAN
           /\ StackData(freeCluster', FCPointer')
           /\ c # 0 => c \in Data /\ bit[c] = 0
           /\ c = 0 => Seen(bit) = {}
           /\ bit' \in [Clusters -> {0, 1}]
           /\ owned' \subseteq Data
<1>0. /\ bit \in [Clusters -> {0, 1}] /\ freeCluster \in Stacks /\ FCPointer \in 0..F_CLUST_POOL_SIZE
      /\ noFreeClusters \in BOOLEAN /\ owned \subseteq Data
  BY DEF TypeOK
<1>1. CASE PopFree(c)
  <2>1. PICK i \in InUseSlots :
           /\ bit[freeCluster[i]] = 0
           /\ c = freeCluster[i]
           /\ freeCluster' = [j \in Slots |-> IF j <= i THEN 0 ELSE freeCluster[j]]
           /\ FCPointer' = i + 1
           /\ noFreeClusters' = noFreeClusters
    BY <1>1 DEF PopFree
  <2>2. i \in Nat /\ FCPointer <= i /\ i <= F_CLUST_POOL_SIZE - 1 /\ c \in Data
    BY <2>1, <1>0, Sizes DEF InUseSlots, PoolIsData
  <2>3. freeCluster' \in Stacks
    BY <2>1, <1>0, Sizes DEF Stacks
  <2>4. FCPointer' \in 0..F_CLUST_POOL_SIZE
    BY <2>1, <2>2, Sizes
  <2>5. \A j \in FCPointer'..F_CLUST_POOL_SIZE-1 :
           j \in InUseSlots /\ j \in Slots /\ freeCluster'[j] = freeCluster[j]
    BY <2>1, <2>2, <1>0, Sizes DEF InUseSlots, Slots
  <2>6. \A j \in Slots : j < FCPointer' => freeCluster'[j] = 0
    BY <2>1, <2>2 DEF Slots
  <2>7. StackData(freeCluster', FCPointer')
    BY <2>5, <2>6 DEF StackData, PoolIsData
  <2>8. c # 0
    BY <2>2, Sizes
  <2> QED BY <1>0, <2>1, <2>2, <2>3, <2>4, <2>7, <2>8, Sizes DEF Obtain
<1>2. CASE RefillAndPop(c)
  <2>1. PICK f \in [Slots -> Seen(bit) \cup {0}], p \in 0..F_CLUST_POOL_SIZE :
          /\ UpdateFCPool(bit, f, p)
          /\ noFreeClusters' = (p > 0)
          /\ IF p = F_CLUST_POOL_SIZE
             THEN c = 0 /\ freeCluster' = f /\ FCPointer' = p
             ELSE c = f[p] /\ freeCluster' = [f EXCEPT ![p] = 0] /\ FCPointer' = p + 1
    BY <1>2 DEF RefillAndPop
  <2>2. f \in Stacks /\ StackFree(f, p, bit) /\ StackData(f, p)
    BY <2>1, <1>0, ScanIsFree
  <2>3. CASE p = F_CLUST_POOL_SIZE
    <3>1. Seen(bit) = {}
      BY <2>1, <2>3, Sizes DEF UpdateFCPool
    <3> QED BY <1>0, <2>1, <2>2, <2>3, <3>1, Sizes DEF Obtain
  <2>4. CASE p # F_CLUST_POOL_SIZE
    <3>1. p \in p..F_CLUST_POOL_SIZE-1 /\ p \in Slots
      BY <2>4, Sizes DEF Slots
    <3>2. c \in Data /\ bit[c] = 0 /\ c # 0
      BY <2>1, <2>2, <2>4, <3>1, Sizes DEF StackFree
    <3>3. freeCluster' \in Stacks /\ FCPointer' \in 0..F_CLUST_POOL_SIZE
      BY <2>1, <2>2, <2>4, Sizes DEF Stacks
    <3>4. StackData(freeCluster', FCPointer')
      <4>1. \A i \in Slots : freeCluster'[i] = IF i = p THEN 0 ELSE f[i]
        BY <2>1, <2>2, <2>4 DEF Stacks
      <4>2. \A i \in FCPointer'..F_CLUST_POOL_SIZE-1 : i \in Slots /\ i # p /\ i \in p..F_CLUST_POOL_SIZE-1
        BY <2>1, <2>4, Sizes DEF Slots
      <4>3. \A i \in Slots : i < FCPointer' => i < p \/ i = p
        BY <2>1, <2>4 DEF Slots
      <4> QED BY <2>2, <4>1, <4>2, <4>3 DEF StackData
    <3> QED BY <1>0, <2>1, <3>2, <3>3, <3>4, Sizes DEF Obtain
  <2> QED BY <2>3, <2>4
<1> QED BY <1>1, <1>2 DEF Obtain

-----------------------------------------------------------------------------
DInv == TypeOK /\ PoolIsData

LEMMA StartsWithData ==
    ASSUME NEW b \in [Clusters -> {0, 1}], StartPool(b)
    PROVE  /\ freeCluster' \in Stacks /\ FCPointer' \in 0..F_CLUST_POOL_SIZE
           /\ noFreeClusters' \in BOOLEAN
           /\ StackData(freeCluster', FCPointer')
           /\ StackFree(freeCluster', FCPointer', b)
  BY ScanIsFree DEF StartPool

LEMMA InitDInv == Init => DInv
<1> SUFFICES ASSUME Init PROVE DInv
  OBVIOUS
<1>1. freeCluster \in Stacks /\ bit \in [Clusters -> {0, 1}] /\ stored \in [Clusters -> {0, 1}]
  BY Sizes DEF Init, Stacks, Blank
<1>2. mounts \in 0..MAX_MOUNTS /\ FCPointer \in 0..F_CLUST_POOL_SIZE
  BY AllocatorAssumption, Sizes DEF Init
<1>3. InUseSlots = {}
  BY Sizes DEF Init, InUseSlots
<1>4. ret \in [op : {"none", "allocate", "given"}, no : Int]
  BY DEF Init, Idle
<1> QED BY <1>1, <1>2, <1>3, <1>4 DEF Init, DInv, TypeOK, PoolIsData

LEMMA BitsTyped == Blank \in [Clusters -> {0, 1}] /\ FormattedBits \in [Clusters -> {0, 1}]
  BY DEF Blank, FormattedBits

LEMMA ReleseKeepsDInv ==
    ASSUME DInv, NEW c \in Clusters, ReleseCluster(c)
    PROVE  DInv'
<1>0. /\ bit \in [Clusters -> {0, 1}] /\ freeCluster \in Stacks /\ FCPointer \in 0..F_CLUST_POOL_SIZE
      /\ noFreeClusters \in BOOLEAN /\ owned \subseteq Data /\ c \in Data
      /\ stored \in [Clusters -> {0, 1}] /\ mounted \in BOOLEAN /\ mounts \in 0..MAX_MOUNTS
      /\ StackData(freeCluster, FCPointer)
  BY DEF DInv, TypeOK, ReleseCluster, PoolIsData, StackData, InUseSlots
<1>1. /\ bit' \in [Clusters -> {0, 1}] /\ noFreeClusters' \in BOOLEAN /\ owned' \subseteq Data
      /\ stored' = stored /\ mounted' = mounted /\ mounts' = mounts /\ ret' = Idle
  BY <1>0 DEF ReleseCluster, pool
<1>2. /\ freeCluster' \in Stacks /\ FCPointer' \in 0..F_CLUST_POOL_SIZE
      /\ StackData(freeCluster', FCPointer')
  <2>1. CASE UNCHANGED <<freeCluster, FCPointer>>
    BY <1>0, <2>1
  <2>2. CASE /\ FCPointer > 0 /\ FCPointer' = FCPointer - 1
             /\ freeCluster' = [freeCluster EXCEPT ![FCPointer - 1] = c]
    <3>1. FCPointer - 1 \in Slots
      BY <1>0, <2>2, Sizes DEF Slots
    <3>2. freeCluster' \in Stacks /\ FCPointer' \in 0..F_CLUST_POOL_SIZE
      <4>1. c \in Clusters
        BY <1>0, Sizes
      <4>2. freeCluster' \in Stacks
        BY <1>0, <2>2, <4>1 DEF Stacks
      <4>3. FCPointer - 1 \in 0..F_CLUST_POOL_SIZE
        BY <1>0, <2>2, Sizes
      <4> QED BY <2>2, <4>2, <4>3
    <3>3. \A i \in Slots : freeCluster'[i] = IF i = FCPointer - 1 THEN c ELSE freeCluster[i]
      BY <1>0, <2>2 DEF Stacks
    <3>4. \A i \in FCPointer'..F_CLUST_POOL_SIZE-1 :
             i \in Slots /\ (i = FCPointer - 1 \/ i \in FCPointer..F_CLUST_POOL_SIZE-1)
      BY <1>0, <2>2, Sizes DEF Slots
    <3>5. \A i \in Slots : i < FCPointer' => i < FCPointer /\ i # FCPointer - 1
      BY <1>0, <2>2 DEF Slots
    <3> QED BY <1>0, <3>2, <3>3, <3>4, <3>5 DEF StackData
  <2> QED BY <2>1, <2>2 DEF ReleseCluster, pool
<1> QED BY <1>0, <1>1, <1>2 DEF DInv, TypeOK, PoolIsData, StackData, InUseSlots, Idle

\* Every public operation keeps the types and the stack within the data clusters.
LEMMA PublicStepDInv == DInv /\ [PublicNext]_vars => DInv'
<1> SUFFICES ASSUME DInv, [PublicNext]_vars PROVE DInv'
  OBVIOUS
<1>0. /\ bit \in [Clusters -> {0, 1}] /\ freeCluster \in Stacks /\ FCPointer \in 0..F_CLUST_POOL_SIZE
      /\ noFreeClusters \in BOOLEAN /\ owned \subseteq Data
      /\ stored \in [Clusters -> {0, 1}] /\ mounted \in BOOLEAN /\ mounts \in 0..MAX_MOUNTS
      /\ StackData(freeCluster, FCPointer)
  BY DEF DInv, TypeOK, PoolIsData, StackData, InUseSlots
<1>1. CASE Mount
  <2>1. mounts' \in 0..MAX_MOUNTS
    BY <1>0, <1>1, AllocatorAssumption DEF Mount
  <2> QED BY <1>0, <1>1, <2>1, StartsWithData
          DEF Mount, DInv, TypeOK, PoolIsData, StackData, InUseSlots, Idle
<1>2. CASE Unmount
  <2>1. /\ bit' = bit /\ freeCluster' = freeCluster /\ FCPointer' = FCPointer
        /\ noFreeClusters' = noFreeClusters /\ mounts' = mounts /\ owned' = owned
        /\ stored' \in [Clusters -> {0, 1}] /\ mounted' = FALSE /\ ret' = Idle
    BY <1>2, BitsTyped DEF Unmount, pool
  <2>2. PoolIsData'
    BY <2>1 DEF DInv, PoolIsData, InUseSlots
  <2>3. TypeOK'
    <3>1. Idle \in [op : {"none", "allocate", "given"}, no : Int]
      BY DEF Idle
    <3>2. mounted' \in BOOLEAN /\ ret' \in [op : {"none", "allocate", "given"}, no : Int]
      BY <2>1, <3>1
    <3> QED BY <1>0, <2>1, <3>2 DEF TypeOK
  <2> QED BY <2>2, <2>3 DEF DInv
<1>3. CASE FormatBV
  BY <1>0, <1>3, BitsTyped, StartsWithData
     DEF FormatBV, DInv, TypeOK, PoolIsData, StackData, InUseSlots, Idle
<1>4. CASE AllocateCluster
  <2>1. PICK c \in Clusters : Obtain(c) /\ ret' = [op |-> "allocate", no |-> c]
    BY <1>4 DEF AllocateCluster
  <2> QED BY <1>0, <1>4, <2>1, ObtainTakes, Sizes
          DEF AllocateCluster, DInv, TypeOK, PoolIsData, StackData, InUseSlots
<1>5. ASSUME NEW c \in Clusters, ReleseCluster(c) PROVE DInv'
  BY <1>5, ReleseKeepsDInv
<1>6. ASSUME NEW c \in Clusters, AllocateGiven(c) PROVE DInv'
  <2>1. ASSUME NEW d \in Clusters, Obtain(d), ret' = [op |-> "given", no |-> AsChar(d)] PROVE DInv'
    <3>1. AsChar(d) \in Int
      BY Sizes DEF AsChar
    <3> QED BY <1>0, <1>6, <2>1, <3>1, ObtainTakes
            DEF AllocateGiven, DInv, TypeOK, PoolIsData, StackData, InUseSlots
  <2>2. CASE UNCHANGED pool /\ ret' \in [op : {"given"}, no : {0, 1}]
             /\ bit' \in [Clusters -> {0, 1}] /\ owned' \subseteq Data
    BY <1>0, <1>6, <2>2 DEF AllocateGiven, pool, DInv, TypeOK, PoolIsData, StackData, InUseSlots
  <2> QED BY <1>0, <1>6, <2>1, <2>2 DEF AllocateGiven
<1>7. CASE UNCHANGED vars
  BY <1>7 DEF vars, DInv, TypeOK, PoolIsData, InUseSlots
<1> QED BY <1>1, <1>2, <1>3, <1>4, <1>5, <1>6, <1>7 DEF PublicNext, Next

\* Whatever public operations are called, the stack offers data clusters only.
THEOREM AllocatorStackIsData == PublicSpec => [](TypeOK /\ PoolIsData)
<1>1. Init => DInv
  BY InitDInv
<1>2. DInv /\ [PublicNext]_vars => DInv'
  BY PublicStepDInv
<1> QED BY <1>1, <1>2, PTL DEF PublicSpec, DInv

\* Types: the stack, its pointer and the answers stay in their ranges whatever
\* public operations are called.
THEOREM AllocatorTypeCorrect == PublicSpec => []TypeOK
  BY AllocatorStackIsData, PTL

\* A partition that was never unmounted: its bit vector was read as it was made.
FirstMount == mounts = 0 => ~mounted /\ stored = Blank /\ owned = {}

OwnersInv == DInv /\ FirstMount /\ BitsMatchOwners

\* What allocating does to the bits it does to the owners.
LEMMA ObtainKeepsOwners ==
    ASSUME DInv, BitsMatchOwners, mounted, mounts = 1, NEW c \in Clusters, Obtain(c)
    PROVE  {d \in Data : bit'[d] = 1} = owned'
<1>1. bit \in [Clusters -> {0, 1}] /\ {d \in Data : bit[d] = 1} = owned
  BY DEF DInv, TypeOK, BitsMatchOwners
<1>2. c # 0 => c \in Data
  BY ObtainTakes DEF DInv
<1>3. CASE c = 0
  BY <1>1, <1>3 DEF Obtain
<1>4. CASE c # 0
  <2>1. bit' = [bit EXCEPT ![c] = 1] /\ owned' = owned \cup {c}
    BY <1>4 DEF Obtain
  <2> QED BY <1>1, <1>2, <1>4, <2>1, Sizes
<1> QED BY <1>3, <1>4

LEMMA StepKeepsOwners ==
    ASSUME OwnersInv, [PublicNext]_vars
    PROVE  OwnersInv'
<1>1. DInv'
  BY PublicStepDInv DEF OwnersInv
<1>2. /\ bit \in [Clusters -> {0, 1}] /\ mounts \in Nat /\ Data \subseteq Clusters
      /\ mounted /\ mounts = 1 => {d \in Data : bit[d] = 1} = owned
      /\ mounts = 0 => ~mounted /\ stored = Blank /\ owned = {}
      /\ DInv /\ BitsMatchOwners
  BY Sizes DEF OwnersInv, DInv, TypeOK, BitsMatchOwners, FirstMount
<1> SUFFICES FirstMount' /\ (mounted' /\ mounts' = 1 => {d \in Data : bit'[d] = 1} = owned')
  BY <1>1 DEF OwnersInv, BitsMatchOwners
<1>3. CASE Mount
  <2>1. mounts' # 0
    BY <1>2, <1>3 DEF Mount
  <2>2. mounts' = 1 => {d \in Data : bit'[d] = 1} = owned'
    BY <1>2, <1>3 DEF Mount, Blank
  <2> QED BY <2>1, <2>2 DEF FirstMount
<1>4. CASE Unmount
  BY <1>2, <1>4 DEF Unmount, FirstMount
<1>5. CASE FormatBV
  <2>1. {d \in Data : bit'[d] = 1} = {}
    BY <1>2, <1>5 DEF FormatBV, FormattedBits, Data
  <2> QED BY <1>2, <1>5, <2>1 DEF FormatBV, FirstMount
<1>6. CASE AllocateCluster
  BY <1>2, <1>6, ObtainKeepsOwners DEF AllocateCluster, FirstMount
<1>7. ASSUME NEW c \in Clusters, ReleseCluster(c)
      PROVE  FirstMount' /\ (mounted' /\ mounts' = 1 => {d \in Data : bit'[d] = 1} = owned')
  <2>1. mounted /\ mounts' = mounts /\ c \in Data /\ owned' = owned \ {c}
    BY <1>7 DEF ReleseCluster
  <2>2. CASE bit[c] = 0
    BY <1>2, <1>7, <2>1, <2>2 DEF ReleseCluster, FirstMount
  <2>3. CASE bit[c] # 0
    <3>1. bit' = [bit EXCEPT ![c] = 0]
      BY <1>7, <2>3 DEF ReleseCluster
    <3> QED BY <1>2, <2>1, <3>1 DEF FirstMount
  <2> QED BY <2>2, <2>3
<1>8. ASSUME NEW c \in Clusters, AllocateGiven(c)
      PROVE  FirstMount' /\ (mounted' /\ mounts' = 1 => {d \in Data : bit'[d] = 1} = owned')
  <2>1. mounted /\ mounts' = mounts
    BY <1>8 DEF AllocateGiven
  <2>2. CASE /\ c \in Data /\ bit' = [bit EXCEPT ![c] = 1] /\ owned' = owned \cup {c}
    BY <1>2, <2>1, <2>2 DEF FirstMount
  <2>3. ASSUME NEW d \in Clusters, Obtain(d)
        PROVE  FirstMount' /\ (mounted' /\ mounts' = 1 => {e \in Data : bit'[e] = 1} = owned')
    BY <1>2, <2>1, <2>3, ObtainKeepsOwners DEF FirstMount
  <2>4. CASE UNCHANGED <<bit, owned>>
    BY <1>2, <2>1, <2>4 DEF FirstMount
  <2> QED BY <1>8, <2>2, <2>3, <2>4 DEF AllocateGiven
<1>9. CASE UNCHANGED vars
  BY <1>2, <1>9 DEF vars, FirstMount
<1> QED BY <1>3, <1>4, <1>5, <1>6, <1>7, <1>8, <1>9 DEF PublicNext, Next

\* Until the partition is unmounted the bit vector is right about who owns what: no
\* cluster leaks and none is given away, however allocations and releases follow
\* each other, the second release of a cluster included.
THEOREM AllocatorBitsMatchOwners == PublicSpec => []BitsMatchOwners
<1>1. Init => OwnersInv
  BY InitDInv DEF Init, OwnersInv, FirstMount, BitsMatchOwners
<1>2. OwnersInv /\ [PublicNext]_vars => OwnersInv'
  BY StepKeepsOwners
<1> QED BY <1>1, <1>2, PTL DEF PublicSpec, OwnersInv

\* No allocation answers a reserved or an allocated cluster.
THEOREM AllocatorAllocatesFree == PublicSpec => AllocatesFree
<1>1. DInv /\ [PublicNext]_vars =>
        [\A c \in Clusters : Allocated(c) /\ c # 0 => c \in Data /\ bit[c] = 0]_vars
  <2> SUFFICES ASSUME DInv, PublicNext, NEW c \in Clusters, Allocated(c), c # 0
               PROVE  c \in Data /\ bit[c] = 0
    BY DEF Allocated
  <2>1. AllocateCluster
    BY DEF PublicNext, Next, Mount, Unmount, FormatBV, ReleseCluster, AllocateGiven, Idle, Allocated
  <2>2. PICK d \in Clusters : Obtain(d) /\ ret' = [op |-> "allocate", no |-> d]
    BY <2>1 DEF AllocateCluster
  <2>3. c = d
    BY <2>2 DEF Allocated
  <2> QED BY <2>2, <2>3, ObtainTakes DEF DInv
<1>2. PublicSpec => []DInv
  BY AllocatorStackIsData DEF DInv
<1> QED BY <1>1, <1>2, PTL DEF PublicSpec, AllocatesFree

\* An allocation fails only if the scan sees no free cluster.
THEOREM AllocatorFailsOnlyWhenFull == PublicSpec => FailsOnlyWhenFull
<1>1. DInv /\ [PublicNext]_vars => [Allocated(0) => Seen(bit) = {}]_vars
  <2> SUFFICES ASSUME DInv, PublicNext, Allocated(0)
               PROVE  Seen(bit) = {}
    BY DEF Allocated
  <2>1. AllocateCluster
    BY DEF PublicNext, Next, Mount, Unmount, FormatBV, ReleseCluster, AllocateGiven, Idle, Allocated
  <2>2. PICK d \in Clusters : Obtain(d) /\ ret' = [op |-> "allocate", no |-> d]
    BY <2>1 DEF AllocateCluster
  <2>3. d = 0
    BY <2>2 DEF Allocated
  <2> QED BY <2>2, <2>3, ObtainTakes DEF DInv
<1>2. PublicSpec => []DInv
  BY AllocatorStackIsData DEF DInv
<1> QED BY <1>1, <1>2, PTL DEF PublicSpec, FailsOnlyWhenFull

-----------------------------------------------------------------------------
\* With the calls the program makes, the stack holds free clusters only.

FInv == TypeOK /\ PoolIsData /\ PoolIsFree

LEMMA PoolFreeIsStackFree == PoolIsFree <=> (mounted => StackFree(freeCluster, FCPointer, bit))
  BY DEF PoolIsFree, StackFree, InUseSlots

LEMMA ObtainKeepsFree ==
    ASSUME TypeOK, PoolIsData, mounted, PoolIsFree, NEW c \in Clusters, Obtain(c)
    PROVE  StackFree(freeCluster', FCPointer', bit')
<1>0. /\ bit \in [Clusters -> {0, 1}] /\ freeCluster \in Stacks /\ FCPointer \in 0..F_CLUST_POOL_SIZE
      /\ StackFree(freeCluster, FCPointer, bit)
  BY PoolFreeIsStackFree DEF TypeOK
<1>1. bit' = IF c = 0 THEN bit ELSE [bit EXCEPT ![c] = 1]
  BY DEF Obtain
<1>2. \A d \in Data : d # c => bit'[d] = bit[d]
  BY <1>0, <1>1, Sizes
<1>3. CASE PopFree(c)
  <2>1. PICK i \in InUseSlots :
           /\ c = freeCluster[i]
           /\ freeCluster' = [j \in Slots |-> IF j <= i THEN 0 ELSE freeCluster[j]]
           /\ FCPointer' = i + 1
    BY <1>3 DEF PopFree
  <2>2. i \in Nat /\ FCPointer <= i /\ i <= F_CLUST_POOL_SIZE - 1
    BY <2>1, <1>0, Sizes DEF InUseSlots
  <2>3. \A j \in FCPointer'..F_CLUST_POOL_SIZE-1 :
           /\ j \in FCPointer..F_CLUST_POOL_SIZE-1 /\ j # i /\ i \in FCPointer..F_CLUST_POOL_SIZE-1
           /\ freeCluster'[j] = freeCluster[j]
    BY <2>1, <2>2, <1>0, Sizes DEF Slots
  <2>4. \A j \in FCPointer'..F_CLUST_POOL_SIZE-1 : freeCluster[j] # c
    BY <1>0, <2>1, <2>3 DEF StackFree
  <2> QED BY <1>0, <1>2, <2>3, <2>4 DEF StackFree
<1>4. CASE RefillAndPop(c)
  <2>1. PICK f \in [Slots -> Seen(bit) \cup {0}], p \in 0..F_CLUST_POOL_SIZE :
          /\ UpdateFCPool(bit, f, p)
          /\ IF p = F_CLUST_POOL_SIZE
             THEN c = 0 /\ freeCluster' = f /\ FCPointer' = p
             ELSE c = f[p] /\ freeCluster' = [f EXCEPT ![p] = 0] /\ FCPointer' = p + 1
    BY <1>4 DEF RefillAndPop
  <2>2. f \in Stacks /\ StackFree(f, p, bit)
    BY <2>1, <1>0, ScanIsFree
  <2>3. CASE p = F_CLUST_POOL_SIZE
    BY <1>1, <2>1, <2>2, <2>3
  <2>4. CASE p # F_CLUST_POOL_SIZE
    <3>1. \A i \in Slots : freeCluster'[i] = IF i = p THEN 0 ELSE f[i]
      BY <2>1, <2>2, <2>4 DEF Stacks
    <3>2. \A i \in FCPointer'..F_CLUST_POOL_SIZE-1 :
             /\ i \in Slots /\ i # p
             /\ i \in p..F_CLUST_POOL_SIZE-1 /\ p \in p..F_CLUST_POOL_SIZE-1
      BY <2>1, <2>4, Sizes DEF Slots
    <3>3. \A i \in FCPointer'..F_CLUST_POOL_SIZE-1 : f[i] # c /\ freeCluster'[i] = f[i]
      BY <2>1, <2>2, <2>4, <3>1, <3>2 DEF StackFree
    <3> QED BY <1>2, <2>2, <3>2, <3>3 DEF StackFree
  <2> QED BY <2>3, <2>4
<1> QED BY <1>3, <1>4 DEF Obtain

LEMMA ReleseKeepsFree ==
    ASSUME FInv, NEW c \in Clusters, ReleseCluster(c)
    PROVE  StackFree(freeCluster', FCPointer', bit')
<1>0. /\ bit \in [Clusters -> {0, 1}] /\ freeCluster \in Stacks /\ FCPointer \in 0..F_CLUST_POOL_SIZE
      /\ c \in Data /\ StackFree(freeCluster, FCPointer, bit)
  BY PoolFreeIsStackFree DEF FInv, TypeOK, ReleseCluster
<1>1. CASE bit[c] = 0
  BY <1>0, <1>1 DEF ReleseCluster, pool
<1>2. CASE bit[c] # 0
  <2>1. bit' = [bit EXCEPT ![c] = 0]
    BY <1>2 DEF ReleseCluster
  <2>2. bit'[c] = 0 /\ \A d \in Data : d # c => bit'[d] = bit[d]
    BY <2>1, <1>0, Sizes
  <2>3. \A i \in FCPointer..F_CLUST_POOL_SIZE-1 : freeCluster[i] \in Data /\ freeCluster[i] # c
    BY <1>0, <1>2 DEF StackFree
  <2>4. CASE UNCHANGED <<freeCluster, FCPointer>>
    BY <1>0, <2>2, <2>3, <2>4 DEF StackFree
  <2>5. CASE /\ FCPointer > 0 /\ FCPointer' = FCPointer - 1
             /\ freeCluster' = [freeCluster EXCEPT ![FCPointer - 1] = c]
    <3>1. \A i \in Slots : freeCluster'[i] = IF i = FCPointer - 1 THEN c ELSE freeCluster[i]
      BY <1>0, <2>5 DEF Stacks
    <3>2. \A i \in FCPointer'..F_CLUST_POOL_SIZE-1 :
             i \in Slots /\ (i = FCPointer - 1 \/ i \in FCPointer..F_CLUST_POOL_SIZE-1)
      BY <1>0, <2>5, Sizes DEF Slots
    <3>3. \A i \in FCPointer..F_CLUST_POOL_SIZE-1 : i # FCPointer - 1
      BY <1>0
    <3> QED BY <1>0, <2>2, <2>3, <3>1, <3>2, <3>3 DEF StackFree
  <2> QED BY <1>2, <2>4, <2>5 DEF ReleseCluster
<1> QED BY <1>1, <1>2

LEMMA StepFInv == FInv /\ [Next]_vars => FInv'
<1> SUFFICES ASSUME FInv, [Next]_vars PROVE FInv'
  OBVIOUS
<1>1. DInv'
  BY PublicStepDInv DEF DInv, FInv, PublicNext
<1>2. SUFFICES mounted' => StackFree(freeCluster', FCPointer', bit')
  BY <1>1 DEF FInv, DInv, PoolIsFree, StackFree, InUseSlots
<1>3. CASE Mount
  BY <1>3, StartsWithData DEF Mount, FInv, TypeOK
<1>4. CASE Unmount
  BY <1>4 DEF Unmount
<1>5. CASE FormatBV
  BY <1>5, BitsTyped, StartsWithData DEF FormatBV
<1>6. CASE AllocateCluster
  BY <1>6, ObtainKeepsFree DEF AllocateCluster, FInv
<1>7. ASSUME NEW c \in Clusters, ReleseCluster(c) PROVE StackFree(freeCluster', FCPointer', bit')
  BY <1>7, ReleseKeepsFree
<1>8. CASE UNCHANGED vars
  BY <1>8, PoolFreeIsStackFree DEF vars, FInv
<1> QED BY <1>3, <1>4, <1>5, <1>6, <1>7, <1>8 DEF Next

\* As the program uses it, the allocator never has a taken cluster on its stack.
THEOREM AllocatorStackIsFree == Spec => []PoolIsFree
<1>1. Init => FInv
  BY InitDInv DEF Init, DInv, FInv, PoolIsFree
<1>2. FInv /\ [Next]_vars => FInv'
  BY StepFInv
<1> QED BY <1>1, <1>2, PTL DEF Spec, FInv

=============================================================================

--------------------------- MODULE PartitionCache ---------------------------
(***************************************************************************)
(* PartitionCache (src/partition_cache.cpp): the write-back cache between  *)
(* the file system and the partition.  readCluster, writeCluster hold the  *)
(* cache's mutex from their first to their last line, so each is one       *)
(* action; what may go wrong inside them is the partition refusing a       *)
(* transfer, which every transfer here may do.                             *)
(***************************************************************************)
EXTENDS Integers, FiniteSets

CONSTANTS
    CACHE_SIZE,      \* number of entries of the cache
    LRU_START_VAL,   \* LRU field of the entry used last
    Clusters,        \* numbers of the clusters of the partition
    Values,          \* contents of a cluster
    Unset            \* a field no constructor initialises

Entries == 0..CACHE_SIZE-1

\* The LRU field an entry has after k other entries were used after it.
Weight == [k \in Entries |-> LRU_START_VAL \div (2^k)]

\* The start value fits an unsigned char and can be halved CACHE_SIZE-1 times
\* before it is lost: 64, 32, 16, 8, 4, 2, 1 for the seven entries of the code.
ASSUME CacheAssumption ==
    /\ CACHE_SIZE \in Nat \ {0}
    /\ LRU_START_VAL \in 1..255
    /\ Weight \in [Entries -> 1..255]
    /\ Weight[0] = LRU_START_VAL
    /\ \A k \in Entries : k + 1 \in Entries => Weight[k + 1] = Weight[k] \div 2
    /\ \A j, k \in Entries : j < k => Weight[k] < Weight[j]

ASSUME UnsetAssumption == Unset \notin Clusters /\ Unset \notin Values

VARIABLES
    disk,    \* the partition: Clusters -> Values
    cache,   \* the entries; LRU = 0 means that the entry is empty
    live,    \* the PartitionCache object exists
    ret      \* what the latest call answered

vars == <<disk, cache, live, ret>>

\* Variant: the constructor leaves the LRU field as if the entry were in use.
EmptyEntryInUse == [LRU |-> 1, block |-> Unset, dirty |-> 0, clustNum |-> Unset]

EmptyEntry == [LRU |-> 0, block |-> Unset, dirty |-> 0, clustNum |-> Unset]
EmptyCache == [e \in Entries |-> EmptyEntry]

Idle             == [op |-> "none", no |-> "none", val |-> "none", ok |-> TRUE]
Answer(op, c, v) == [op |-> op, no |-> c, val |-> v, ok |-> TRUE]
Failure(op, c)   == [op |-> op, no |-> c, val |-> "none", ok |-> FALSE]

Valid(e)     == cache[e].LRU # 0
NeedsWrite(e) == Valid(e) /\ cache[e].dirty # 0

\* Variant: the search begins at the second entry.
CachedFromOne(c) == \E e \in Entries \ {0} : Valid(e) /\ cache[e].clustNum = c

Cached(c)    == \E e \in Entries : Valid(e) /\ cache[e].clustNum = c

-----------------------------------------------------------------------------
\* findEntry: the first non-empty entry that holds cluster c.
FindEntry(e, c) ==
    /\ Valid(e) /\ cache[e].clustNum = c
    /\ \A i \in Entries : i < e => ~(Valid(i) /\ cache[i].clustNum = c)

\* Variant: the comparison the wrong way round.
FindNewest(v) == \A i \in Entries : cache[i].LRU <= cache[v].LRU

\* findVictim: the first entry with the least LRU field.
FindVictim(v) ==
    /\ \A i \in Entries : cache[v].LRU <= cache[i].LRU
    /\ \A i \in Entries : i < v => cache[v].LRU < cache[i].LRU

\* Variant: every entry ages, those behind e too.
UpdateAll(en, e) ==
    [i \in Entries |-> IF i = e THEN [en[i] EXCEPT !.LRU = LRU_START_VAL]
                                ELSE [en[i] EXCEPT !.LRU = @ \div 2]]

\* updateLRU on the entries en: those ahead of e age, e becomes the newest.
UpdateLRU(en, e) ==
    [i \in Entries |->
        IF i = e THEN [en[i] EXCEPT !.LRU = LRU_START_VAL]
        ELSE IF en[i].LRU # 0 /\ en[i].LRU > en[e].LRU
             THEN [en[i] EXCEPT !.LRU = @ \div 2]
             ELSE en[i]]

\* Variant: a dirty block is dropped.
ExpelledUnwritten(v) == disk

\* expell, when the partition takes the block (or none has to be written).
Expelled(v) ==
    IF NeedsWrite(v) THEN [disk EXCEPT ![cache[v].clustNum] = cache[v].block]
                     ELSE disk

\* import after a successful expell: the entry as it is before updateLRU.
Imported(v, c, block) ==
    [cache EXCEPT ![v] = [LRU |-> 0, block |-> block, dirty |-> 0, clustNum |-> c]]

\* The two ways import answers -1: the victim cannot be written and stays as it
\* is, or the victim is gone and the new block cannot be read.
ImportFails(c) ==
    /\ ~Cached(c)
    /\ \E v \in Entries :
          /\ FindVictim(v)
          /\ \/ NeedsWrite(v) /\ UNCHANGED <<disk, cache>>
             \/ /\ disk' = Expelled(v)
                /\ cache' = Imported(v, c, cache[v].block)

-----------------------------------------------------------------------------
Init ==
    /\ disk \in [Clusters -> Values]
    /\ cache = EmptyCache
    /\ live = FALSE
    /\ ret = Idle

\* The constructor: every entry is empty.
Create ==
    /\ ~live /\ live' = TRUE
    /\ cache' = EmptyCache
    /\ ret' = Idle
    /\ UNCHANGED disk

ReadHit(c) ==
    \E e \in Entries :
       /\ FindEntry(e, c)
       /\ cache' = UpdateLRU(cache, e)
       /\ ret' = Answer("read", c, cache[e].block)
       /\ UNCHANGED disk

ReadMiss(c) ==
    /\ ~Cached(c)
    /\ \E v \in Entries :
          /\ FindVictim(v)
          /\ disk' = Expelled(v)
          /\ cache' = UpdateLRU(Imported(v, c, Expelled(v)[c]), v)
          /\ ret' = Answer("read", c, Expelled(v)[c])

ReadCluster(c) ==
    /\ live /\ UNCHANGED live
    /\ ReadHit(c) \/ ReadMiss(c) \/ (ImportFails(c) /\ ret' = Failure("read", c))

\* Variant: without stDirty.
StoredClean(en, e, v) == [en EXCEPT ![e].block = v]

\* The entry e of en after the caller's buffer was copied into it and stDirty.
Stored(en, e, v) == [en EXCEPT ![e].block = v, ![e].dirty = 1]

WriteHit(c, v) ==
    \E e \in Entries :
       /\ FindEntry(e, c)
       /\ cache' = Stored(UpdateLRU(cache, e), e, v)
       /\ UNCHANGED disk

WriteMiss(c, v) ==
    /\ ~Cached(c)
    /\ \E e \in Entries :
          /\ FindVictim(e)
          /\ disk' = Expelled(e)
          /\ cache' = Stored(UpdateLRU(Imported(e, c, Expelled(e)[c]), e), e, v)

WriteCluster(c, v) ==
    /\ live /\ UNCHANGED live
    /\ \/ (WriteHit(c, v) \/ WriteMiss(c, v)) /\ ret' = Answer("write", c, v)
       \/ ImportFails(c) /\ ret' = Failure("write", c)

\* The destructor expells every entry in turn and ignores the answers: the
\* blocks of some entries reach the partition, the others are dropped.
Destroy ==
    /\ live /\ live' = FALSE
    /\ \E es \in SUBSET {e \in Entries : NeedsWrite(e)} :
          LET Blocks(c) == {e \in es : cache[e].clustNum = c}
              last(c)   == CHOOSE e \in Blocks(c) : \A i \in Blocks(c) : i <= e
          IN disk' = [c \in Clusters |-> IF Blocks(c) = {} THEN disk[c]
                                                           ELSE cache[last(c)].block]
    /\ cache' = EmptyCache
    /\ ret' = Idle

Next ==
    \/ Create
    \/ \E c \in Clusters : ReadCluster(c)
    \/ \E c \in Clusters, v \in Values : WriteCluster(c, v)
    \/ Destroy

Spec == Init /\ [][Next]_vars

-----------------------------------------------------------------------------
Entry ==
    [LRU : 0..255, block : Values \cup {Unset}, dirty : {0, 1},
     clustNum : Clusters \cup {Unset}]

Answers ==
    [op : {"none", "read", "write"}, no : Clusters \cup {"none"},
     val : Values \cup {"none"}, ok : BOOLEAN]

\* Every variable has its type, and an entry in use holds a real cluster.
TypeOK ==
    /\ disk \in [Clusters -> Values]
    /\ cache \in [Entries -> Entry]
    /\ \A e \in Entries : Valid(e) => /\ cache[e].clustNum \in Clusters
                                      /\ cache[e].block \in Values
    /\ live \in BOOLEAN
    /\ ret \in Answers

\* No two entries hold the same cluster (findEntry would see only the first,
\* and the other's block could overwrite it on the partition later).
NoDoubleEntry ==
    \A e, f \in Entries :
        Valid(e) /\ Valid(f) /\ cache[e].clustNum = cache[f].clustNum => e = f

\* An entry that is not dirty holds what is on the partition: expelling it
\* without a write loses nothing.
CleanIsOnDisk ==
    \A e \in Entries :
        Valid(e) /\ cache[e].dirty = 0 => cache[e].block = disk[cache[e].clustNum]

\* The LRU fields in use are distinct and are the first ones of the chain
\* LRU_START_VAL, LRU_START_VAL/2, ...: halving a field in use while an entry
\* is empty can then never turn it into 0, which would drop its block unwritten.
LruChain ==
    /\ \A e, f \in Entries : Valid(e) /\ cache[e].LRU = cache[f].LRU => e = f
    /\ \A e \in Entries : Valid(e) =>
          \E k \in Entries : /\ cache[e].LRU = Weight[k]
                             /\ \A j \in 0..k : \E f \in Entries : cache[f].LRU = Weight[j]

\* The step property behind the chain: an entry in use leaves the cache only
\* with the block it holds on the partition, as long as the cache lives.
NoBlockLost ==
    [][live /\ live' =>
         \A e \in Entries : Valid(e) =>
            \/ \E f \in Entries : cache'[f].LRU # 0 /\ cache'[f].clustNum = cache[e].clustNum
            \/ disk'[cache[e].clustNum] = cache[e].block]_vars

-----------------------------------------------------------------------------
\* What a reader of the cache must see.
Store ==
    [c \in Clusters |->
        IF Cached(c) THEN cache[CHOOSE e \in Entries : FindEntry(e, c)].block
                     ELSE disk[c]]

Abstract == INSTANCE ClusterStore WITH store <- Store, stable <- disk

\* The cache implements the store of clusters: a read answers the last value
\* written through the cache, and a refused transfer changes no cluster.
ImplementsStore == Abstract!Spec

\* The clusters in the cache, the one with the greatest LRU field first.
InUse == {e \in Entries : Valid(e)}
Ahead(e) == {f \in InUse : cache[f].LRU > cache[e].LRU}
Queue == [k \in 1..Cardinality(InUse) |->
             cache[CHOOSE e \in InUse : Cardinality(Ahead(e)) = k - 1].clustNum]

Policy == INSTANCE LruQueue WITH queue <- Queue, Capacity <- CACHE_SIZE

\* The halved LRU fields order the entries exactly by their last use, so the
\* expelled cluster is always the least recently used one.
ImplementsLru == Policy!Spec
=============================================================================

------------------------ MODULE PartitionCacheProofs ------------------------
(***************************************************************************)
(* Proofs about PartitionCache for every number of entries, every set of   *)
(* clusters and every set of contents.                                     *)
(***************************************************************************)
EXTENDS PartitionCache, FiniteSetTheorems, TLAPS

\* The LRU fields alone, and what updateLRU makes of them.
LruOf(en) == [i \in Entries |-> en[i].LRU]

Aged(l, e) ==
    [i \in Entries |-> IF i = e THEN LRU_START_VAL
                       ELSE IF l[i] # 0 /\ l[i] > l[e] THEN l[i] \div 2 ELSE l[i]]

Distinct(l) == \A e, f \in Entries : l[e] # 0 /\ l[e] = l[f] => e = f

\* Field e is the k-th of the chain and all the fields before it are in use.
Rank(l, e, k) == /\ l[e] = Weight[k]
                 /\ \A j \in 0..k : \E f \in Entries : l[f] = Weight[j]

Chain(l) == Distinct(l) /\ \A e \in Entries : l[e] # 0 => \E k \in Entries : Rank(l, e, k)

Lrus == [Entries -> 0..255]

IInv == TypeOK /\ NoDoubleEntry /\ CleanIsOnDisk /\ LruChain

-----------------------------------------------------------------------------
LEMMA EntriesAreFinite == /\ IsFiniteSet(Entries)
                          /\ Cardinality(Entries) = CACHE_SIZE
                          /\ IsFiniteSet(0..CACHE_SIZE)
                          /\ Cardinality(0..CACHE_SIZE) = CACHE_SIZE + 1
  BY FS_Interval, CacheAssumption DEF Entries

\* No two fields of the chain are equal, and none is 0.
LEMMA WeightsDiffer ==
    /\ Weight \in [Entries -> Nat]
    /\ \A k \in Entries : Weight[k] \in 1..255 /\ Weight[k] # 0
    /\ \A j, k \in Entries : j # k => Weight[j] # Weight[k]
<1>1. \A k \in Entries : Weight[k] \in 1..255
  BY CacheAssumption
<1>2. \A k \in Entries : Weight[k] # 0
  BY <1>1
<1>3. ASSUME NEW j \in Entries, NEW k \in Entries, j # k PROVE Weight[j] # Weight[k]
  <2>1. j < k \/ k < j
    BY <1>3, CacheAssumption DEF Entries
  <2>2. Weight[k] < Weight[j] \/ Weight[j] < Weight[k]
    BY <2>1, CacheAssumption
  <2> QED BY <2>2, <1>1
<1>4. Weight \in [Entries -> Nat]
  BY CacheAssumption
<1> QED BY <1>1, <1>2, <1>3, <1>4

\* Halving takes a field of the chain to the next one, except the last.
LEMMA HalfIsNext ==
    ASSUME NEW k \in Entries, k # CACHE_SIZE - 1
    PROVE  /\ k + 1 \in Entries
           /\ Weight[k] \div 2 = Weight[k + 1]
           /\ Weight[k + 1] \in 1..255
  BY CacheAssumption DEF Entries

\* While an entry is empty the last field of the chain is not in use: all the
\* fields before it would be, and there are not that many entries.
LEMMA RoomBelow ==
    ASSUME NEW l \in Lrus, Chain(l), NEW v \in Entries, l[v] = 0
    PROVE  \A e \in Entries, k \in Entries : l[e] # 0 /\ Rank(l, e, k) => k # CACHE_SIZE - 1
<1> SUFFICES ASSUME NEW e \in Entries, l[e] # 0, Rank(l, e, CACHE_SIZE - 1) PROVE FALSE
  BY CacheAssumption, ZenonT(30) DEF Entries
<1> DEFINE Holder(j) == CHOOSE f \in Entries : l[f] = Weight[j]
           g == [j \in 0..CACHE_SIZE |-> IF j = CACHE_SIZE THEN v ELSE Holder(j)]
<1>1. \A j \in Entries : Holder(j) \in Entries /\ l[Holder(j)] = Weight[j]
  BY DEF Rank, Entries
<1>2. g \in [0..CACHE_SIZE -> Entries]
  BY <1>1, CacheAssumption, SMTT(30) DEF Entries
<1>3. \A j \in Entries : g[j] = Holder(j) /\ l[g[j]] = Weight[j] /\ Weight[j] # 0
  <2> SUFFICES ASSUME NEW j \in Entries
               PROVE  g[j] = Holder(j) /\ l[g[j]] = Weight[j] /\ Weight[j] # 0
    OBVIOUS
  <2>1. j \in 0..CACHE_SIZE /\ j # CACHE_SIZE
    BY CacheAssumption DEF Entries
  <2>2. g[j] = Holder(j)
    BY <2>1
  <2> QED BY <2>2, <1>1, WeightsDiffer
<1>4. g[CACHE_SIZE] = v
  BY CacheAssumption
<1>5. \A i, j \in Entries : i # j => Weight[i] # Weight[j]
  BY WeightsDiffer
<1>6. \A i, j \in 0..CACHE_SIZE : i # j => g[i] # g[j]
  <2> SUFFICES ASSUME NEW i \in 0..CACHE_SIZE, NEW j \in 0..CACHE_SIZE, i # j, g[i] = g[j]
               PROVE  FALSE
    OBVIOUS
  <2> HIDE DEF g
  <2>1. CASE i \in Entries /\ j \in Entries
    BY <2>1, <1>3, <1>5
  <2>2. CASE i = CACHE_SIZE /\ j \in Entries
    BY <2>2, <1>3, <1>4
  <2>3. CASE j = CACHE_SIZE /\ i \in Entries
    BY <2>3, <1>3, <1>4
  <2> QED BY <2>1, <2>2, <2>3, CacheAssumption DEF Entries
<1> HIDE DEF g
<1>7. \E i, j \in 0..CACHE_SIZE : i # j /\ g[i] = g[j]
  BY <1>2, EntriesAreFinite, FS_PigeonHole, CacheAssumption
<1> QED BY <1>6, <1>7

\* Using an entry that is in use keeps the chain and empties no entry.
LEMMA HitKeepsChain ==
    ASSUME NEW l \in Lrus, Chain(l), NEW e \in Entries, l[e] # 0
    PROVE  /\ Aged(l, e) \in Lrus
           /\ Chain(Aged(l, e))
           /\ \A i \in Entries : Aged(l, e)[i] = 0 <=> l[i] = 0
<1> DEFINE m == Aged(l, e)
<1>0. Weight \in [Entries -> 1..255] /\ LRU_START_VAL = Weight[0] /\ 0 \in Entries
  BY CacheAssumption DEF Entries
<1>1. PICK r \in Entries : Rank(l, e, r)
  BY DEF Chain
<1>2. \A i \in Entries : /\ l[i] \in 0..255
                         /\ m[i] = IF i = e THEN LRU_START_VAL
                                   ELSE IF l[i] # 0 /\ l[i] > l[e] THEN l[i] \div 2 ELSE l[i]
  BY DEF Aged, Lrus
<1>3. \A i \in Entries : m[i] \in 0..255 /\ (m[i] = 0 <=> l[i] = 0)
  BY <1>0, <1>2, SMTT(30)
<1>4. m \in Lrus
  BY <1>3 DEF Lrus, Aged
<1>5. \A i, k \in Entries : l[i] = Weight[k] =>
         /\ k < r => i # e /\ k + 1 \in Entries /\ m[i] = Weight[k + 1]
         /\ k = r => i = e
         /\ k > r => i # e /\ m[i] = Weight[k]
  <2> SUFFICES ASSUME NEW i \in Entries, NEW k \in Entries, l[i] = Weight[k]
               PROVE  /\ k < r => i # e /\ k + 1 \in Entries /\ m[i] = Weight[k + 1]
                      /\ k = r => i = e
                      /\ k > r => i # e /\ m[i] = Weight[k]
    OBVIOUS
  <2>1. l[e] = Weight[r] /\ Weight[r] # 0
    BY <1>0, <1>1 DEF Rank
  <2>2. ASSUME k < r PROVE i # e /\ k + 1 \in Entries /\ m[i] = Weight[k + 1]
    <3>1. k # CACHE_SIZE - 1
      BY <2>2, CacheAssumption DEF Entries
    <3>2. Weight[k] > Weight[r]
      BY <2>2, CacheAssumption
    <3>3. k + 1 \in Entries /\ Weight[k] \div 2 = Weight[k + 1]
      BY <3>1, HalfIsNext
    <3>4. i # e /\ l[i] > l[e] /\ l[i] # 0
      <4>1. Weight[k] \in 1..255
        BY <1>0
      <4> QED BY <2>1, <3>2, <4>1, <1>2
    <3>5. m[i] = l[i] \div 2
      BY <3>4, <1>2
    <3> QED BY <3>3, <3>4, <3>5
  <2>3. ASSUME k = r PROVE i = e
    BY <2>1, <2>3 DEF Chain, Distinct
  <2>4. ASSUME k > r PROVE i # e /\ m[i] = Weight[k]
    <3>1. Weight[k] < Weight[r]
      BY <2>4, CacheAssumption
    <3>2. ~(l[i] > l[e]) /\ i # e
      <4>1. ~(Weight[k] > Weight[r]) /\ Weight[k] # Weight[r]
        BY <3>1, WeightsDiffer
      <4> QED BY <2>1, <4>1
    <3> QED BY <3>2, <1>2
  <2> QED BY <2>2, <2>3, <2>4
<1>6. \A i \in Entries : l[i] # 0 => \E k \in Entries : Rank(l, i, k)
  BY DEF Chain
<1>7. \A j, k \in Entries : j # k => Weight[j] # Weight[k]
  BY WeightsDiffer
<1> HIDE DEF m
<1>8. Distinct(m)
  <2> SUFFICES ASSUME NEW i \in Entries, NEW j \in Entries, m[i] # 0, m[i] = m[j]
               PROVE  i = j
    BY DEF Distinct
  <2>1. PICK a \in Entries : l[i] = Weight[a]
    BY <1>3, <1>6 DEF Rank
  <2>2. PICK b \in Entries : l[j] = Weight[b]
    BY <1>3, <1>6 DEF Rank
  <2>3. m[e] = Weight[0]
    BY <1>0, <1>2
  <2>4. a # b => i = j
    BY <2>1, <2>2, <2>3, <1>5, <1>7, <1>0 DEF Entries
  <2>5. a = b => i = j
    BY <2>1, <2>2, <1>3 DEF Chain, Distinct
  <2> QED BY <2>4, <2>5
<1>9. \A i \in Entries : m[i] # 0 => \E k \in Entries : Rank(m, i, k)
  <2> SUFFICES ASSUME NEW i \in Entries, m[i] # 0
               PROVE  \E k \in Entries : Rank(m, i, k)
    OBVIOUS
  <2>1. PICK a \in Entries : Rank(l, i, a)
    BY <1>3, <1>6
  <2>2. m[e] = Weight[0]
    BY <1>0, <1>2
  \* every field up to the greater of the two ranks is still in use
  <2>3. \A t \in Entries : t <= r \/ t <= a => \E f \in Entries : m[f] = Weight[t]
    <3> SUFFICES ASSUME NEW t \in Entries, t <= r \/ t <= a
                 PROVE  \E f \in Entries : m[f] = Weight[t]
      OBVIOUS
    <3>1. CASE t = 0
      BY <3>1, <2>2
    <3>2. CASE t > 0 /\ t <= r
      <4>1. t - 1 \in Entries /\ t - 1 < r /\ t - 1 \in 0..r
        BY <3>2, CacheAssumption DEF Entries
      <4>2. PICK f \in Entries : l[f] = Weight[t - 1]
        BY <4>1, <1>1 DEF Rank
      <4>3. m[f] = Weight[(t - 1) + 1]
        BY <4>1, <4>2, <1>5
      <4> QED BY <4>3, <3>2 DEF Entries
    <3>3. CASE t > r /\ t <= a
      <4>1. PICK f \in Entries : l[f] = Weight[t]
        BY <3>3, <2>1 DEF Rank, Entries
      <4> QED BY <4>1, <3>3, <1>5
    <3> QED BY <3>1, <3>2, <3>3, CacheAssumption DEF Entries
  <2>4. l[i] = Weight[a]
    BY <2>1 DEF Rank
  <2>5. CASE a < r
    <3>1. a + 1 \in Entries /\ m[i] = Weight[a + 1] /\ a + 1 <= r
      BY <2>4, <2>5, <1>5, CacheAssumption DEF Entries
    <3>2. \A t \in 0..(a + 1) : t \in Entries /\ t <= r
      BY <3>1, CacheAssumption DEF Entries
    <3> QED BY <3>1, <3>2, <2>3 DEF Rank
  <2>6. CASE a = r
    <3>1. i = e
      BY <2>4, <2>6, <1>5
    <3> QED BY <3>1, <2>2, <1>0 DEF Rank
  <2>7. CASE a > r
    <3>1. m[i] = Weight[a]
      BY <2>4, <2>7, <1>5
    <3>2. \A t \in 0..a : t \in Entries /\ t <= a
      BY CacheAssumption DEF Entries
    <3> QED BY <3>1, <3>2, <2>3 DEF Rank
  <2> QED BY <2>5, <2>6, <2>7 DEF Entries
<1> QED BY <1>3, <1>4, <1>8, <1>9 DEF Chain, m

\* Emptying the entry findVictim names keeps the chain: it held its last field.
LEMMA EvictKeepsChain ==
    ASSUME NEW l \in Lrus, Chain(l), NEW v \in Entries,
           \A i \in Entries : l[v] <= l[i]
    PROVE  /\ [l EXCEPT ![v] = 0] \in Lrus
           /\ Chain([l EXCEPT ![v] = 0])
<1> DEFINE m == [l EXCEPT ![v] = 0]
<1>1. \A i \in Entries : m[i] = IF i = v THEN 0 ELSE l[i]
  BY DEF Lrus
<1>2. m \in Lrus
  BY DEF Lrus
<1>3. l \in [Entries -> Nat]
  BY DEF Lrus
<1> HIDE DEF m
<1>4. Distinct(m)
  BY <1>1 DEF Distinct, Chain
<1>5. ASSUME NEW i \in Entries, m[i] # 0 PROVE \E k \in Entries : Rank(m, i, k)
  <2>1. i # v /\ m[i] = l[i] /\ l[i] # 0
    BY <1>1, <1>5
  <2>2. PICK k \in Entries : Rank(l, i, k)
    BY <2>1 DEF Chain
  <2>3. ASSUME NEW j \in 0..k PROVE \E f \in Entries : m[f] = Weight[j]
    <3>1. PICK f \in Entries : l[f] = Weight[j]
      BY <2>2 DEF Rank
    <3>2. j \in Entries /\ (j = k \/ j < k)
      BY CacheAssumption DEF Entries
    <3>3. Weight[k] <= Weight[j]
      BY <3>2, WeightsDiffer, CacheAssumption
    <3>4. f # v
      <4> SUFFICES ASSUME f = v PROVE FALSE
        OBVIOUS
      <4>1. l[v] <= l[i] /\ l[i] <= l[v]
        BY <3>1, <3>3, <2>2 DEF Rank
      <4>2. l[v] = l[i]
        BY <4>1, <1>3
      <4> QED BY <4>2, <2>1 DEF Chain, Distinct
    <3> QED BY <3>1, <3>4, <1>1
  <2> QED BY <2>1, <2>2, <2>3 DEF Rank
<1> QED BY <1>2, <1>4, <1>5 DEF Chain, m

\* Filling an empty entry keeps the chain and empties no other entry.
LEMMA MissKeepsChain ==
    ASSUME NEW l \in Lrus, Chain(l), NEW e \in Entries, l[e] = 0
    PROVE  /\ Aged(l, e) \in Lrus
           /\ Chain(Aged(l, e))
           /\ Aged(l, e)[e] # 0
           /\ \A i \in Entries : i # e => (Aged(l, e)[i] = 0 <=> l[i] = 0)
<1> DEFINE m == Aged(l, e)
<1>0. LRU_START_VAL = Weight[0] /\ 0 \in Entries
  BY CacheAssumption DEF Entries
<1>1. \A i \in Entries : /\ l[i] \in 0..255
                         /\ m[i] = IF i = e THEN LRU_START_VAL
                                   ELSE IF l[i] # 0 /\ l[i] > l[e] THEN l[i] \div 2 ELSE l[i]
  BY DEF Aged, Lrus
<1>2. m[e] = Weight[0] /\ m[e] # 0
  BY <1>0, <1>1, WeightsDiffer
<1>3. \A i \in Entries : m[i] \in 0..255
  BY <1>1, <1>2, WeightsDiffer, <1>0
<1>4. m \in Lrus
  BY <1>3 DEF Lrus, Aged
<1>5. \A i \in Entries, k \in Entries : l[i] # 0 /\ Rank(l, i, k) =>
           i # e /\ k + 1 \in Entries /\ m[i] = Weight[k + 1]
  <2> SUFFICES ASSUME NEW i \in Entries, NEW k \in Entries, l[i] # 0, Rank(l, i, k)
               PROVE  i # e /\ k + 1 \in Entries /\ m[i] = Weight[k + 1]
    OBVIOUS
  <2>1. k # CACHE_SIZE - 1
    BY RoomBelow
  <2>2. l[i] > l[e] /\ i # e
    BY <1>1
  <2>3. m[i] = l[i] \div 2
    BY <1>1, <2>2
  <2> QED BY <2>1, <2>2, <2>3, HalfIsNext DEF Rank
<1>6. \A i \in Entries : l[i] # 0 => \E k \in Entries : Rank(l, i, k)
  BY DEF Chain
<1>7. \A i \in Entries : i # e => (m[i] = 0 <=> l[i] = 0)
  <2>1. ASSUME NEW i \in Entries, i # e, l[i] = 0 PROVE m[i] = 0
    BY <1>1, <2>1
  <2>2. ASSUME NEW i \in Entries, i # e, l[i] # 0 PROVE m[i] # 0
    BY <2>2, <1>5, <1>6, WeightsDiffer
  <2> QED BY <2>1, <2>2
<1> HIDE DEF m
<1>8. Distinct(m)
  <2> SUFFICES ASSUME NEW i \in Entries, NEW j \in Entries, m[i] # 0, m[i] = m[j]
               PROVE  i = j
    BY DEF Distinct
  <2>1. \A x \in Entries : m[x] # 0 /\ x # e =>
           \E k \in Entries : l[x] # 0 /\ l[x] = Weight[k] /\ k + 1 \in Entries /\ m[x] = Weight[k + 1]
    BY <1>5, <1>6, <1>7 DEF Rank
  <2>2. \A k \in Entries : k + 1 # 0
    BY DEF Entries
  <2>3. \A x \in Entries : m[x] # 0 /\ x # e => m[x] # m[e]
    BY <2>1, <2>2, <1>2, <1>0, WeightsDiffer
  <2>4. CASE i = e \/ j = e
    BY <2>3, <2>4
  <2>5. CASE i # e /\ j # e
    <3>1. PICK a \in Entries : l[i] # 0 /\ l[i] = Weight[a] /\ a + 1 \in Entries /\ m[i] = Weight[a + 1]
      BY <2>1, <2>5
    <3>2. PICK b \in Entries : l[j] # 0 /\ l[j] = Weight[b] /\ b + 1 \in Entries /\ m[j] = Weight[b + 1]
      BY <2>1, <2>5
    <3>3. a + 1 = b + 1
      BY <3>1, <3>2, WeightsDiffer, Zenon
    <3>4. a = b
      BY <3>3 DEF Entries
    <3> QED BY <3>1, <3>2, <3>4 DEF Chain, Distinct
  <2> QED BY <2>4, <2>5
<1>9. ASSUME NEW i \in Entries, m[i] # 0 PROVE \E k \in Entries : Rank(m, i, k)
  <2>1. CASE i = e
    BY <2>1, <1>2, <1>0 DEF Rank
  <2>2. CASE i # e
    <3>1. PICK k \in Entries : Rank(l, i, k) /\ l[i] # 0
      BY <2>2, <1>6, <1>7, <1>9
    <3>2. k + 1 \in Entries /\ m[i] = Weight[k + 1]
      BY <3>1, <1>5
    <3>3. ASSUME NEW j \in 0..(k + 1) PROVE \E f \in Entries : m[f] = Weight[j]
      <4>1. CASE j = 0
        BY <4>1, <1>2
      <4>2. CASE j # 0
        <5>1. j - 1 \in 0..k /\ j - 1 \in Entries /\ (j - 1) + 1 = j
          BY <4>2, CacheAssumption DEF Entries
        <5>2. PICK f \in Entries : l[f] = Weight[j - 1]
          BY <5>1, <3>1 DEF Rank
        <5>3. PICK q \in Entries : Rank(l, f, q) /\ l[f] # 0
          BY <5>1, <5>2, WeightsDiffer, <1>6
        <5>4. q = j - 1
          <6>1. Weight[q] = Weight[j - 1]
            BY <5>2, <5>3 DEF Rank
          <6> QED BY <6>1, <5>1, WeightsDiffer
        <5>5. m[f] = Weight[(j - 1) + 1]
          BY <5>3, <5>4, <1>5
        <5> QED BY <5>1, <5>5
      <4> QED BY <4>1, <4>2
    <3> QED BY <3>2, <3>3 DEF Rank
  <2> QED BY <2>1, <2>2
<1> QED BY <1>2, <1>4, <1>7, <1>8, <1>9 DEF Chain, m

-----------------------------------------------------------------------------
LEMMA ChainIsLruChain == LruChain <=> Chain(LruOf(cache))
  BY DEF LruChain, Chain, Distinct, Rank, LruOf, Valid

\* updateLRU touches nothing but the LRU fields.
LEMMA UpdateLRUOnlyAges ==
    ASSUME NEW en \in [Entries -> Entry], NEW e \in Entries,
           Aged(LruOf(en), e) \in Lrus
    PROVE  /\ UpdateLRU(en, e) \in [Entries -> Entry]
           /\ LruOf(UpdateLRU(en, e)) = Aged(LruOf(en), e)
           /\ \A i \in Entries : /\ UpdateLRU(en, e)[i].block = en[i].block
                                 /\ UpdateLRU(en, e)[i].dirty = en[i].dirty
                                 /\ UpdateLRU(en, e)[i].clustNum = en[i].clustNum
                                 /\ UpdateLRU(en, e)[i].LRU = Aged(LruOf(en), e)[i]
<1> DEFINE u == UpdateLRU(en, e)
<1>1. \A i \in Entries : /\ u[i] = [en[i] EXCEPT !.LRU = Aged(LruOf(en), e)[i]]
                         /\ en[i] \in Entry
                         /\ Aged(LruOf(en), e)[i] \in 0..255
  <2> SUFFICES ASSUME NEW i \in Entries
               PROVE  /\ u[i] = [en[i] EXCEPT !.LRU = Aged(LruOf(en), e)[i]]
                      /\ en[i] \in Entry
                      /\ Aged(LruOf(en), e)[i] \in 0..255
    OBVIOUS
  <2>1. en[i] \in Entry
    OBVIOUS
  <2>2. Aged(LruOf(en), e)[i] \in 0..255
    BY DEF Lrus
  <2>3. CASE i = e
    <3>1. u[e] = [en[e] EXCEPT !.LRU = LRU_START_VAL]
      BY DEF UpdateLRU
    <3>2. Aged(LruOf(en), e)[e] = LRU_START_VAL
      BY DEF Aged
    <3> QED BY <2>1, <2>2, <2>3, <3>1, <3>2
  <2>4. CASE i # e /\ en[i].LRU # 0 /\ en[i].LRU > en[e].LRU
    BY <2>4, <2>1 DEF UpdateLRU, Aged, LruOf, Entry
  <2>5. CASE i # e /\ ~(en[i].LRU # 0 /\ en[i].LRU > en[e].LRU)
    BY <2>5, <2>1 DEF UpdateLRU, Aged, LruOf, Entry
  <2> QED BY <2>1, <2>2, <2>3, <2>4, <2>5
<1>2. u = [i \in Entries |-> u[i]]
  BY DEF UpdateLRU
<1> HIDE DEF u
<1>3. ASSUME NEW i \in Entries
      PROVE  /\ u[i] \in Entry
             /\ u[i].block = en[i].block
             /\ u[i].dirty = en[i].dirty
             /\ u[i].clustNum = en[i].clustNum
             /\ u[i].LRU = Aged(LruOf(en), e)[i]
  <2> DEFINE a == Aged(LruOf(en), e)[i]
  <2>1. u[i] = [en[i] EXCEPT !.LRU = a] /\ en[i] \in Entry /\ a \in 0..255
    BY <1>1
  <2> HIDE DEF a
  <2>2. /\ [en[i] EXCEPT !.LRU = a] \in Entry
        /\ [en[i] EXCEPT !.LRU = a].block = en[i].block
        /\ [en[i] EXCEPT !.LRU = a].dirty = en[i].dirty
        /\ [en[i] EXCEPT !.LRU = a].clustNum = en[i].clustNum
        /\ [en[i] EXCEPT !.LRU = a].LRU = a
    BY <2>1 DEF Entry
  <2>3. u[i].LRU = a
    BY <2>1, <2>2
  <2> QED BY <2>1, <2>2, <2>3 DEF a
<1>4. LruOf(u) = Aged(LruOf(en), e)
  BY <1>3 DEF LruOf, Aged
<1>5. u \in [Entries -> Entry]
  BY <1>2, <1>3
<1> QED BY <1>3, <1>4, <1>5 DEF u

\* The entries after a hit on e.
LEMMA HitStep ==
    ASSUME IInv, NEW e \in Entries, Valid(e)
    PROVE  /\ UpdateLRU(cache, e) \in [Entries -> Entry]
           /\ Chain(LruOf(UpdateLRU(cache, e)))
           /\ \A i \in Entries : /\ UpdateLRU(cache, e)[i].block = cache[i].block
                                 /\ UpdateLRU(cache, e)[i].dirty = cache[i].dirty
                                 /\ UpdateLRU(cache, e)[i].clustNum = cache[i].clustNum
                                 /\ UpdateLRU(cache, e)[i].LRU = 0 <=> cache[i].LRU = 0
<1>1. cache \in [Entries -> Entry]
  BY DEF IInv, TypeOK
<1>2. LruOf(cache) \in Lrus /\ \A i \in Entries : LruOf(cache)[i] = cache[i].LRU
  BY <1>1 DEF LruOf, Lrus, Entry
<1>3. Chain(LruOf(cache)) /\ LruOf(cache)[e] # 0
  BY <1>2, ChainIsLruChain DEF IInv, Valid
<1>4. /\ Aged(LruOf(cache), e) \in Lrus
      /\ Chain(Aged(LruOf(cache), e))
      /\ \A i \in Entries : Aged(LruOf(cache), e)[i] = 0 <=> LruOf(cache)[i] = 0
  BY <1>2, <1>3, HitKeepsChain
<1> QED BY <1>1, <1>2, <1>4, UpdateLRUOnlyAges

\* The entries after the victim v was taken out for cluster c.
LEMMA EvictStep ==
    ASSUME IInv, NEW v \in Entries, FindVictim(v),
           NEW c \in Clusters, NEW b \in Values \cup {Unset}
    PROVE  /\ Imported(v, c, b) \in [Entries -> Entry]
           /\ LruOf(Imported(v, c, b)) \in Lrus
           /\ Chain(LruOf(Imported(v, c, b)))
           /\ Imported(v, c, b)[v] = [LRU |-> 0, block |-> b, dirty |-> 0, clustNum |-> c]
           /\ \A i \in Entries : i # v => Imported(v, c, b)[i] = cache[i]
<1> DEFINE u == Imported(v, c, b)
<1>1. cache \in [Entries -> Entry]
  BY DEF IInv, TypeOK
<1>2. LruOf(cache) \in Lrus /\ \A i \in Entries : LruOf(cache)[i] = cache[i].LRU
  BY <1>1 DEF LruOf, Lrus, Entry
<1>3. /\ u \in [Entries -> Entry]
      /\ u[v] = [LRU |-> 0, block |-> b, dirty |-> 0, clustNum |-> c]
      /\ \A i \in Entries : i # v => u[i] = cache[i]
  BY <1>1 DEF Imported, Entry
<1>4. LruOf(u) = [LruOf(cache) EXCEPT ![v] = 0]
  <2>1. \A i \in Entries : u[i].LRU = IF i = v THEN 0 ELSE cache[i].LRU
    BY <1>3
  <2> HIDE DEF u
  <2> QED BY <2>1 DEF LruOf
<1>5. [LruOf(cache) EXCEPT ![v] = 0] \in Lrus /\ Chain([LruOf(cache) EXCEPT ![v] = 0])
  <2>1. \A i \in Entries : LruOf(cache)[v] <= LruOf(cache)[i]
    BY <1>2 DEF FindVictim
  <2> QED BY <2>1, <1>2, EvictKeepsChain, ChainIsLruChain DEF IInv
<1> QED BY <1>3, <1>4, <1>5

\* The entries after cluster c with contents b replaced the victim v.
LEMMA LoadStep ==
    ASSUME IInv, NEW v \in Entries, FindVictim(v),
           NEW c \in Clusters, NEW b \in Values
    PROVE  LET u == UpdateLRU(Imported(v, c, b), v) IN
           /\ u \in [Entries -> Entry]
           /\ Chain(LruOf(u))
           /\ u[v].block = b /\ u[v].dirty = 0 /\ u[v].clustNum = c /\ u[v].LRU # 0
           /\ \A i \in Entries : i # v => /\ u[i].block = cache[i].block
                                          /\ u[i].dirty = cache[i].dirty
                                          /\ u[i].clustNum = cache[i].clustNum
                                          /\ u[i].LRU = 0 <=> cache[i].LRU = 0
<1> DEFINE w == Imported(v, c, b)
<1>1. /\ w \in [Entries -> Entry] /\ LruOf(w) \in Lrus /\ Chain(LruOf(w))
      /\ w[v] = [LRU |-> 0, block |-> b, dirty |-> 0, clustNum |-> c]
      /\ \A i \in Entries : i # v => w[i] = cache[i]
  BY EvictStep
<1> HIDE DEF w
<1>2. \A i \in Entries : LruOf(w)[i] = w[i].LRU
  BY DEF LruOf
<1>3. LruOf(w)[v] = 0
  BY <1>1, <1>2
<1>4. /\ Aged(LruOf(w), v) \in Lrus
      /\ Chain(Aged(LruOf(w), v))
      /\ Aged(LruOf(w), v)[v] # 0
      /\ \A i \in Entries : i # v => (Aged(LruOf(w), v)[i] = 0 <=> LruOf(w)[i] = 0)
  BY <1>1, <1>3, MissKeepsChain
<1>5. /\ UpdateLRU(w, v) \in [Entries -> Entry]
      /\ LruOf(UpdateLRU(w, v)) = Aged(LruOf(w), v)
      /\ \A i \in Entries : /\ UpdateLRU(w, v)[i].block = w[i].block
                            /\ UpdateLRU(w, v)[i].dirty = w[i].dirty
                            /\ UpdateLRU(w, v)[i].clustNum = w[i].clustNum
                            /\ UpdateLRU(w, v)[i].LRU = Aged(LruOf(w), v)[i]
  BY <1>1, <1>4, UpdateLRUOnlyAges
<1>6. \A i \in Entries : i # v => (Aged(LruOf(w), v)[i] = 0 <=> cache[i].LRU = 0)
  BY <1>1, <1>2, <1>4
<1> QED BY <1>1, <1>4, <1>5, <1>6 DEF w

-----------------------------------------------------------------------------
THEOREM InitIInv == Init => IInv
<1> SUFFICES ASSUME Init PROVE IInv
  OBVIOUS
<1>1. \A e \in Entries : ~Valid(e)
  BY DEF Init, EmptyCache, EmptyEntry, Valid
<1>2. EmptyEntry \in Entry
  BY DEF EmptyEntry, Entry
<1>3. cache \in [Entries -> Entry]
  BY <1>2 DEF Init, EmptyCache
<1>4. ret \in Answers
  BY DEF Init, Idle, Answers
<1>5. TypeOK
  BY <1>1, <1>3, <1>4 DEF Init, TypeOK
<1> QED BY <1>1, <1>5 DEF IInv, NoDoubleEntry, CleanIsOnDisk, LruChain

\* What expell does to the partition: at most the victim's own cluster changes,
\* and it then holds the victim's block.
LEMMA ExpellStep ==
    ASSUME IInv, NEW v \in Entries
    PROVE  /\ Expelled(v) \in [Clusters -> Values]
           /\ Valid(v) => Expelled(v)[cache[v].clustNum] = cache[v].block
           /\ \A i \in Entries : i # v /\ Valid(i) =>
                 Expelled(v)[cache[i].clustNum] = disk[cache[i].clustNum]
           /\ \A c \in Clusters : Expelled(v)[c] # disk[c] =>
                 NeedsWrite(v) /\ c = cache[v].clustNum
<1>1. /\ disk \in [Clusters -> Values]
      /\ \A i \in Entries : Valid(i) => cache[i].clustNum \in Clusters /\ cache[i].block \in Values
      /\ cache[v].dirty \in {0, 1}
  BY DEF IInv, TypeOK, Entry
<1>2. \A i \in Entries : Valid(i) /\ Valid(v) /\ i # v => cache[i].clustNum # cache[v].clustNum
  BY DEF IInv, NoDoubleEntry
<1>3. CASE NeedsWrite(v)
  BY <1>1, <1>2, <1>3 DEF Expelled, NeedsWrite
<1>4. CASE ~NeedsWrite(v)
  <2>1. Valid(v) => disk[cache[v].clustNum] = cache[v].block
    BY <1>4, <1>1 DEF NeedsWrite, IInv, CleanIsOnDisk
  <2> QED BY <1>1, <1>4, <2>1 DEF Expelled
<1> QED BY <1>3, <1>4

\* Every step that leaves some entries as they were (up to their LRU fields, but
\* with none emptied or filled) and sets at most one, v, to cluster c keeps IInv.
LEMMA OneEntryChanges ==
    ASSUME IInv,
           disk' \in [Clusters -> Values], live' \in BOOLEAN, ret' \in Answers,
           cache' \in [Entries -> Entry], Chain(LruOf(cache)'),
           NEW v \in Entries, NEW c \in Clusters,
           \A i \in Entries : i # v => /\ cache'[i].block = cache[i].block
                                       /\ cache'[i].dirty = cache[i].dirty
                                       /\ cache'[i].clustNum = cache[i].clustNum
                                       /\ cache'[i].LRU = 0 <=> cache[i].LRU = 0,
           \A i \in Entries : i # v /\ Valid(i) =>
               disk'[cache[i].clustNum] = disk[cache[i].clustNum],
           \/ cache'[v].LRU = 0
           \/ /\ cache'[v].clustNum = c /\ cache'[v].block \in Values
              /\ \A i \in Entries : i # v /\ Valid(i) => cache[i].clustNum # c
              /\ cache'[v].dirty # 0 \/ cache'[v].block = disk'[c]
    PROVE  IInv'
<1>1. \A i \in Entries : i # v /\ cache'[i].LRU # 0 =>
         /\ Valid(i) /\ cache[i].clustNum \in Clusters /\ cache[i].block \in Values
  BY DEF IInv, TypeOK, Valid
<1>2. TypeOK'
  <2>1. ASSUME NEW i \in Entries, cache'[i].LRU # 0
        PROVE  cache'[i].clustNum \in Clusters /\ cache'[i].block \in Values
    <3>1. CASE i = v
      BY <3>1, <2>1
    <3>2. CASE i # v
      BY <3>2, <2>1, <1>1
    <3> QED BY <3>1, <3>2
  <2> QED BY <2>1 DEF TypeOK, Valid
<1>3. NoDoubleEntry'
  <2> SUFFICES ASSUME NEW i \in Entries, NEW j \in Entries, i # j,
                      cache'[i].LRU # 0, cache'[j].LRU # 0,
                      cache'[i].clustNum = cache'[j].clustNum
               PROVE  FALSE
    BY DEF NoDoubleEntry, Valid
  <2>1. CASE i # v /\ j # v
    BY <2>1, <1>1 DEF IInv, NoDoubleEntry
  <2>2. CASE i = v /\ j # v
    BY <2>2, <1>1
  <2>3. CASE i # v /\ j = v
    BY <2>3, <1>1
  <2> QED BY <2>1, <2>2, <2>3
<1>4. CleanIsOnDisk'
  <2> SUFFICES ASSUME NEW i \in Entries, cache'[i].LRU # 0, cache'[i].dirty = 0
               PROVE  cache'[i].block = disk'[cache'[i].clustNum]
    BY DEF CleanIsOnDisk, Valid
  <2>1. CASE i = v
    BY <2>1
  <2>2. CASE i # v
    <3>1. Valid(i) /\ cache[i].dirty = 0
      BY <1>1, <2>2
    <3> QED BY <2>2, <3>1 DEF IInv, CleanIsOnDisk
  <2> QED BY <2>1, <2>2
<1>5. LruChain'
  BY DEF LruChain, Chain, Distinct, Rank, LruOf, Valid
<1> QED BY <1>2, <1>3, <1>4, <1>5 DEF IInv

LEMMA AnswersTyped ==
    /\ Idle \in Answers
    /\ \A op \in {"read", "write"}, c \in Clusters : Failure(op, c) \in Answers
    /\ \A op \in {"read", "write"}, c \in Clusters, v \in Values : Answer(op, c, v) \in Answers
  BY DEF Idle, Failure, Answer, Answers

LEMMA ImportFailsKeepsIInv ==
    ASSUME IInv, NEW c \in Clusters, ImportFails(c), live' = live, ret' \in Answers
    PROVE  IInv'
<1>1. PICK v \in Entries : /\ FindVictim(v)
                           /\ \/ NeedsWrite(v) /\ UNCHANGED <<disk, cache>>
                              \/ /\ disk' = Expelled(v)
                                 /\ cache' = Imported(v, c, cache[v].block)
  BY DEF ImportFails
<1>2. CASE UNCHANGED <<disk, cache>>
  BY <1>2 DEF IInv, TypeOK, NoDoubleEntry, CleanIsOnDisk, LruChain, Valid
<1>3. CASE disk' = Expelled(v) /\ cache' = Imported(v, c, cache[v].block)
  <2>1. cache[v].block \in Values \cup {Unset}
    BY DEF IInv, TypeOK, Entry
  <2>2. /\ cache' \in [Entries -> Entry] /\ Chain(LruOf(cache)')
        /\ cache'[v].LRU = 0
        /\ \A i \in Entries : i # v => cache'[i] = cache[i]
    <3> DEFINE w == Imported(v, c, cache[v].block)
    <3>1. /\ w \in [Entries -> Entry] /\ Chain(LruOf(w))
          /\ w[v] = [LRU |-> 0, block |-> cache[v].block, dirty |-> 0, clustNum |-> c]
          /\ \A i \in Entries : i # v => w[i] = cache[i]
      BY <1>1, <2>1, EvictStep
    <3>2. cache' = w
      BY <1>3
    <3> HIDE DEF w
    <3>3. LruOf(cache)' = LruOf(w)
      BY <3>2 DEF LruOf
    <3> QED BY <3>1, <3>2, <3>3
  <2>3. live' \in BOOLEAN
    BY DEF IInv, TypeOK
  <2> QED BY <1>3, <2>2, <2>3, ExpellStep, OneEntryChanges
<1> QED BY <1>1, <1>2, <1>3

\* A hit on e, whether its block is kept (a read) or replaced (a write).
LEMMA HitKeepsIInv ==
    ASSUME IInv, NEW c \in Clusters, NEW e \in Entries, FindEntry(e, c),
           UNCHANGED <<disk, live>>, ret' \in Answers,
           \/ cache' = UpdateLRU(cache, e)
           \/ \E v \in Values : cache' = Stored(UpdateLRU(cache, e), e, v)
    PROVE  IInv'
<1> DEFINE u == UpdateLRU(cache, e)
<1>1. Valid(e) /\ cache[e].clustNum = c
  BY DEF FindEntry
<1>2. /\ u \in [Entries -> Entry]
      /\ Chain(LruOf(u))
      /\ \A i \in Entries : /\ u[i].block = cache[i].block
                            /\ u[i].dirty = cache[i].dirty
                            /\ u[i].clustNum = cache[i].clustNum
                            /\ u[i].LRU = 0 <=> cache[i].LRU = 0
  BY <1>1, HitStep
<1> HIDE DEF u
<1>3. \A i \in Entries : i # e /\ Valid(i) => cache[i].clustNum # c
  BY <1>1 DEF IInv, NoDoubleEntry
<1>4. cache[e].block \in Values /\ cache[e].dirty \in {0, 1}
      /\ (cache[e].dirty = 0 => cache[e].block = disk[c])
  BY <1>1 DEF IInv, TypeOK, Entry, CleanIsOnDisk
<1>5. CASE cache' = u
  <2>1. LruOf(cache)' = LruOf(u)
    BY <1>5 DEF LruOf
  <2>2. \A i \in Entries : /\ cache'[i].block = cache[i].block
                           /\ cache'[i].dirty = cache[i].dirty
                           /\ cache'[i].clustNum = cache[i].clustNum
                           /\ cache'[i].LRU = 0 <=> cache[i].LRU = 0
    BY <1>2, <1>5
  <2>3. cache' \in [Entries -> Entry] /\ Chain(LruOf(cache)')
    BY <1>2, <1>5, <2>1
  <2>4. disk' \in [Clusters -> Values] /\ live' \in BOOLEAN
    BY DEF IInv, TypeOK
  <2>5. /\ cache'[e].clustNum = c /\ cache'[e].block \in Values
        /\ \A i \in Entries : i # e /\ Valid(i) => cache[i].clustNum # c
        /\ cache'[e].dirty # 0 \/ cache'[e].block = disk'[c]
    BY <1>1, <1>3, <1>4, <2>2
  <2> QED BY <2>2, <2>3, <2>4, <2>5, OneEntryChanges
<1>6. ASSUME NEW v \in Values, cache' = Stored(u, e, v) PROVE IInv'
  <2>1. /\ cache' \in [Entries -> Entry]
        /\ cache'[e].block = v /\ cache'[e].dirty = 1
        /\ cache'[e].clustNum = u[e].clustNum /\ cache'[e].LRU = u[e].LRU
        /\ \A i \in Entries : i # e => cache'[i] = u[i]
    BY <1>2, <1>6 DEF Stored, Entry
  <2>2. LruOf(cache)' = LruOf(u)
    BY <2>1 DEF LruOf
  <2>3. disk' \in [Clusters -> Values] /\ live' \in BOOLEAN
    BY DEF IInv, TypeOK
  <2>4. \A i \in Entries : i # e => /\ cache'[i].block = cache[i].block
                                    /\ cache'[i].dirty = cache[i].dirty
                                    /\ cache'[i].clustNum = cache[i].clustNum
                                    /\ cache'[i].LRU = 0 <=> cache[i].LRU = 0
    BY <2>1, <1>2
  <2>5. cache'[e].clustNum = c
    BY <2>1, <1>1, <1>2
  <2> QED BY <1>2, <1>3, <2>1, <2>2, <2>3, <2>4, <2>5, OneEntryChanges
<1> QED BY <1>5, <1>6 DEF u

\* A miss that imports c over the victim v, for a read or for a write.
LEMMA MissKeepsIInv ==
    ASSUME IInv, NEW c \in Clusters, NEW v \in Entries, ~Cached(c), FindVictim(v),
           disk' = Expelled(v), live' = live, ret' \in Answers,
           \/ cache' = UpdateLRU(Imported(v, c, Expelled(v)[c]), v)
           \/ \E x \in Values : cache' = Stored(UpdateLRU(Imported(v, c, Expelled(v)[c]), v), v, x)
    PROVE  IInv'
<1> DEFINE b == Expelled(v)[c]
           u == UpdateLRU(Imported(v, c, b), v)
<1>1. b \in Values /\ disk' \in [Clusters -> Values] /\ live' \in BOOLEAN
  BY ExpellStep DEF IInv, TypeOK
<1>2. /\ u \in [Entries -> Entry]
      /\ Chain(LruOf(u))
      /\ u[v].block = b /\ u[v].dirty = 0 /\ u[v].clustNum = c /\ u[v].LRU # 0
      /\ \A i \in Entries : i # v => /\ u[i].block = cache[i].block
                                     /\ u[i].dirty = cache[i].dirty
                                     /\ u[i].clustNum = cache[i].clustNum
                                     /\ u[i].LRU = 0 <=> cache[i].LRU = 0
  BY <1>1, LoadStep
<1>3. \A i \in Entries : i # v /\ Valid(i) => /\ cache[i].clustNum # c
                                              /\ disk'[cache[i].clustNum] = disk[cache[i].clustNum]
  BY ExpellStep DEF Cached
<1>4. disk'[c] = b
  OBVIOUS
<1>5. cache' = u \/ \E x \in Values : cache' = Stored(u, v, x)
  OBVIOUS
<1> HIDE DEF u, b
<1>6. CASE cache' = u
  <2>1. LruOf(cache)' = LruOf(u)
    BY <1>6 DEF LruOf
  <2> QED BY <1>1, <1>2, <1>3, <1>4, <1>6, <2>1, OneEntryChanges
<1>7. ASSUME NEW x \in Values, cache' = Stored(u, v, x) PROVE IInv'
  <2>1. /\ cache' \in [Entries -> Entry]
        /\ cache'[v].block = x /\ cache'[v].dirty = 1
        /\ cache'[v].clustNum = u[v].clustNum /\ cache'[v].LRU = u[v].LRU
        /\ \A i \in Entries : i # v => cache'[i] = u[i]
    BY <1>2, <1>7 DEF Stored, Entry
  <2>2. LruOf(cache)' = LruOf(u)
    BY <2>1 DEF LruOf
  <2>3. \A i \in Entries : i # v => /\ cache'[i].block = cache[i].block
                                    /\ cache'[i].dirty = cache[i].dirty
                                    /\ cache'[i].clustNum = cache[i].clustNum
                                    /\ cache'[i].LRU = 0 <=> cache[i].LRU = 0
    BY <2>1, <1>2
  <2> QED BY <1>1, <1>2, <1>3, <2>1, <2>2, <2>3, OneEntryChanges
<1> QED BY <1>5, <1>6, <1>7

\* An empty cache satisfies the invariant whatever is on the partition.
LEMMA EmptyCacheKeepsIInv ==
    ASSUME disk' \in [Clusters -> Values], live' \in BOOLEAN, ret' \in Answers,
           cache' = EmptyCache
    PROVE  IInv'
<1>1. EmptyEntry \in Entry
  BY DEF EmptyEntry, Entry
<1>2. cache' \in [Entries -> Entry]
  BY <1>1 DEF EmptyCache
<1>3. \A e \in Entries : cache'[e].LRU = 0
  BY DEF EmptyCache, EmptyEntry
<1>4. TypeOK'
  BY <1>2, <1>3 DEF TypeOK, Valid
<1> QED BY <1>3, <1>4 DEF IInv, NoDoubleEntry, CleanIsOnDisk, LruChain, Valid

LEMMA DestroyKeepsIInv == IInv /\ Destroy => IInv'
<1> SUFFICES ASSUME IInv, Destroy PROVE IInv'
  OBVIOUS
<1> DEFINE Blocks(es, c) == {e \in es : cache[e].clustNum = c}
           last(es, c)   == CHOOSE e \in Blocks(es, c) : \A i \in Blocks(es, c) : i <= e
<1>1. PICK es \in SUBSET {e \in Entries : NeedsWrite(e)} :
         disk' = [c \in Clusters |-> IF Blocks(es, c) = {} THEN disk[c]
                                                          ELSE cache[last(es, c)].block]
  BY DEF Destroy
<1>2. ASSUME NEW c \in Clusters, Blocks(es, c) # {}
      PROVE  cache[last(es, c)].block \in Values
  <2>1. PICK e \in es : cache[e].clustNum = c
    BY <1>2
  <2>2. \A f \in es : f \in Entries /\ Valid(f) /\ cache[f].block \in Values
    BY DEF NeedsWrite, IInv, TypeOK
  <2>3. \A i \in Blocks(es, c) : i = e
    BY <2>1, <2>2 DEF IInv, NoDoubleEntry
  <2>4. e \in Blocks(es, c) /\ e <= e
    BY <2>1, <2>2 DEF Entries
  <2>5. last(es, c) \in Blocks(es, c)
    BY <2>3, <2>4
  <2> QED BY <2>2, <2>5
<1>3. disk' \in [Clusters -> Values]
  <2>1. disk \in [Clusters -> Values]
    BY DEF IInv, TypeOK
  <2> HIDE DEF Blocks, last
  <2>2. \A c \in Clusters : (IF Blocks(es, c) = {} THEN disk[c] ELSE cache[last(es, c)].block) \in Values
    BY <1>2, <2>1
  <2> QED BY <1>1, <2>2
<1> QED BY <1>3, AnswersTyped, EmptyCacheKeepsIInv DEF Destroy

\* Every step of the cache keeps the invariant.
THEOREM StepIInv == IInv /\ [Next]_vars => IInv'
<1> SUFFICES ASSUME IInv, [Next]_vars PROVE IInv'
  OBVIOUS
<1>1. CASE Create
  <2>1. disk' \in [Clusters -> Values]
    BY <1>1 DEF Create, IInv, TypeOK
  <2> QED BY <1>1, <2>1, AnswersTyped, EmptyCacheKeepsIInv DEF Create
<1>2. ASSUME NEW c \in Clusters, ReadCluster(c) PROVE IInv'
  <2>1. CASE ReadHit(c)
    <3>1. PICK e \in Entries : /\ FindEntry(e, c)
                               /\ cache' = UpdateLRU(cache, e)
                               /\ ret' = Answer("read", c, cache[e].block)
                               /\ UNCHANGED disk
      BY <2>1 DEF ReadHit
    <3>2. ret' \in Answers
      BY <3>1, AnswersTyped DEF FindEntry, IInv, TypeOK
    <3> QED BY <1>2, <3>1, <3>2, HitKeepsIInv DEF ReadCluster
  <2>2. CASE ReadMiss(c)
    <3>1. PICK v \in Entries :
             /\ FindVictim(v)
             /\ disk' = Expelled(v)
             /\ cache' = UpdateLRU(Imported(v, c, Expelled(v)[c]), v)
             /\ ret' = Answer("read", c, Expelled(v)[c])
      BY <2>2 DEF ReadMiss
    <3>2. ret' \in Answers
      BY <3>1, AnswersTyped, ExpellStep
    <3> QED BY <1>2, <2>2, <3>1, <3>2, MissKeepsIInv DEF ReadCluster, ReadMiss
  <2>3. CASE ImportFails(c) /\ ret' = Failure("read", c)
    BY <1>2, <2>3, AnswersTyped, ImportFailsKeepsIInv DEF ReadCluster
  <2> QED BY <1>2, <2>1, <2>2, <2>3 DEF ReadCluster
<1>3. ASSUME NEW c \in Clusters, NEW x \in Values, WriteCluster(c, x) PROVE IInv'
  <2>1. CASE WriteHit(c, x) /\ ret' = Answer("write", c, x)
    <3>1. PICK e \in Entries : /\ FindEntry(e, c)
                               /\ cache' = Stored(UpdateLRU(cache, e), e, x)
                               /\ UNCHANGED disk
      BY <2>1 DEF WriteHit
    <3>2. ret' \in Answers
      BY <2>1, AnswersTyped
    <3> QED BY <1>3, <3>1, <3>2, HitKeepsIInv DEF WriteCluster
  <2>2. CASE WriteMiss(c, x) /\ ret' = Answer("write", c, x)
    <3>1. PICK v \in Entries :
             /\ FindVictim(v)
             /\ disk' = Expelled(v)
             /\ cache' = Stored(UpdateLRU(Imported(v, c, Expelled(v)[c]), v), v, x)
      BY <2>2 DEF WriteMiss
    <3>2. ret' \in Answers
      BY <2>2, AnswersTyped
    <3> QED BY <1>3, <2>2, <3>1, <3>2, MissKeepsIInv DEF WriteCluster, WriteMiss
  <2>3. CASE ImportFails(c) /\ ret' = Failure("write", c)
    BY <1>3, <2>3, AnswersTyped, ImportFailsKeepsIInv DEF WriteCluster
  <2> QED BY <1>3, <2>1, <2>2, <2>3 DEF WriteCluster
<1>4. CASE Destroy
  BY <1>4, DestroyKeepsIInv
<1>5. CASE UNCHANGED vars
  BY <1>5 DEF vars, IInv, TypeOK, NoDoubleEntry, CleanIsOnDisk, LruChain, Valid
<1> QED BY <1>1, <1>2, <1>3, <1>4, <1>5 DEF Next

LEMMA AlwaysIInv == Spec => []IInv
BY InitIInv, StepIInv, PTL DEF Spec

\* The variables of the cache always have their types.
THEOREM CacheTypeCorrect == Spec => []TypeOK
BY AlwaysIInv, PTL DEF IInv

\* At no time do two entries hold the same cluster.
THEOREM CacheNoDoubleEntry == Spec => []NoDoubleEntry
BY AlwaysIInv, PTL DEF IInv

\* A clean entry always holds what is on the partition.
THEOREM CacheCleanIsOnDisk == Spec => []CleanIsOnDisk
BY AlwaysIInv, PTL DEF IInv

\* The LRU fields always form the chain, so halving one never empties an entry.
THEOREM CacheLruChain == Spec => []LruChain
BY AlwaysIInv, PTL DEF IInv

-----------------------------------------------------------------------------
\* What every step other than Create, Destroy does to the entries: a hit changes
\* no block but that of the entry e that was hit, ...
LEMMA HitShape ==
    ASSUME IInv, NEW c \in Clusters, NEW e \in Entries, FindEntry(e, c),
           \/ cache' = UpdateLRU(cache, e)
           \/ \E v \in Values : cache' = Stored(UpdateLRU(cache, e), e, v)
    PROVE  /\ \A i \in Entries : /\ cache'[i].clustNum = cache[i].clustNum
                                 /\ cache'[i].LRU = 0 <=> cache[i].LRU = 0
           /\ \A i \in Entries : i # e => cache'[i].block = cache[i].block
<1> DEFINE u == UpdateLRU(cache, e)
<1>1. /\ u \in [Entries -> Entry]
      /\ \A i \in Entries : /\ u[i].block = cache[i].block
                            /\ u[i].clustNum = cache[i].clustNum
                            /\ u[i].LRU = 0 <=> cache[i].LRU = 0
  BY HitStep DEF FindEntry
<1>2. cache' = u \/ \E v \in Values : cache' = Stored(u, e, v)
  OBVIOUS
<1> HIDE DEF u
<1>3. CASE cache' = u
  BY <1>1, <1>3
<1>4. ASSUME NEW v \in Values, cache' = Stored(u, e, v)
      PROVE  /\ \A i \in Entries : /\ cache'[i].clustNum = cache[i].clustNum
                                   /\ cache'[i].LRU = 0 <=> cache[i].LRU = 0
             /\ \A i \in Entries : i # e => cache'[i].block = cache[i].block
  <2>1. /\ cache'[e].clustNum = u[e].clustNum /\ cache'[e].LRU = u[e].LRU
        /\ \A i \in Entries : i # e => cache'[i] = u[i]
    BY <1>1, <1>4 DEF Stored, Entry
  <2> QED BY <1>1, <2>1
<1> QED BY <1>2, <1>3, <1>4

\* ... a miss none but that of the victim, which then holds c.
LEMMA MissShape ==
    ASSUME IInv, NEW c \in Clusters, NEW v \in Entries, FindVictim(v),
           \/ cache' = UpdateLRU(Imported(v, c, Expelled(v)[c]), v)
           \/ \E x \in Values : cache' = Stored(UpdateLRU(Imported(v, c, Expelled(v)[c]), v), v, x)
    PROVE  /\ cache'[v].clustNum = c /\ cache'[v].LRU # 0
           /\ \A i \in Entries : i # v => /\ cache'[i].block = cache[i].block
                                          /\ cache'[i].clustNum = cache[i].clustNum
                                          /\ cache'[i].LRU = 0 <=> cache[i].LRU = 0
<1> DEFINE b == Expelled(v)[c]
           u == UpdateLRU(Imported(v, c, b), v)
<1>1. b \in Values
  BY ExpellStep
<1>2. /\ u \in [Entries -> Entry]
      /\ u[v].clustNum = c /\ u[v].LRU # 0
      /\ \A i \in Entries : i # v => /\ u[i].block = cache[i].block
                                     /\ u[i].clustNum = cache[i].clustNum
                                     /\ u[i].LRU = 0 <=> cache[i].LRU = 0
  BY <1>1, LoadStep
<1>3. cache' = u \/ \E x \in Values : cache' = Stored(u, v, x)
  OBVIOUS
<1> HIDE DEF u, b
<1>4. CASE cache' = u
  BY <1>2, <1>4
<1>5. ASSUME NEW x \in Values, cache' = Stored(u, v, x)
      PROVE  /\ cache'[v].clustNum = u[v].clustNum /\ cache'[v].LRU = u[v].LRU
             /\ \A i \in Entries : i # v => cache'[i] = u[i]
  BY <1>2, <1>5 DEF Stored, Entry
<1> QED BY <1>2, <1>3, <1>4, <1>5

BlockKept ==
    live /\ live' =>
      \A e \in Entries : Valid(e) =>
         \/ \E f \in Entries : cache'[f].LRU # 0 /\ cache'[f].clustNum = cache[e].clustNum
         \/ disk'[cache[e].clustNum] = cache[e].block

LEMMA VictimIsSaved ==
    ASSUME IInv, NEW v \in Entries, disk' = Expelled(v),
           \A i \in Entries : i # v => /\ cache'[i].clustNum = cache[i].clustNum
                                       /\ cache'[i].LRU = 0 <=> cache[i].LRU = 0
    PROVE  BlockKept
<1> SUFFICES ASSUME NEW e \in Entries, Valid(e)
             PROVE  \/ \E f \in Entries : cache'[f].LRU # 0 /\ cache'[f].clustNum = cache[e].clustNum
                    \/ disk'[cache[e].clustNum] = cache[e].block
  BY DEF BlockKept
<1>1. CASE e = v
  BY <1>1, ExpellStep
<1>2. CASE e # v
  BY <1>2 DEF Valid
<1> QED BY <1>1, <1>2

LEMMA FailedImportShape ==
    ASSUME IInv, NEW c \in Clusters, ImportFails(c)
    PROVE  \/ UNCHANGED <<disk, cache>>
           \/ \E v \in Entries : /\ FindVictim(v)
                                 /\ disk' = Expelled(v)
                                 /\ cache'[v].LRU = 0
                                 /\ \A i \in Entries : i # v => cache'[i] = cache[i]
<1>1. SUFFICES ASSUME NEW v \in Entries, FindVictim(v), disk' = Expelled(v),
                      cache' = Imported(v, c, cache[v].block)
               PROVE  cache'[v].LRU = 0 /\ \A i \in Entries : i # v => cache'[i] = cache[i]
  BY DEF ImportFails
<1>2. cache[v].block \in Values \cup {Unset}
  BY DEF IInv, TypeOK, Entry
<1>3. cache \in [Entries -> Entry]
  BY DEF IInv, TypeOK
<1> QED BY <1>1, <1>2, <1>3 DEF Imported

\* While the cache lives a block leaves it only for the partition.
LEMMA StepKeepsBlocks == IInv /\ [Next]_vars => BlockKept
<1> SUFFICES ASSUME IInv, [Next]_vars PROVE BlockKept
  OBVIOUS
<1>1. CASE Create
  BY <1>1 DEF Create, BlockKept
<1>2. ASSUME NEW c \in Clusters, ImportFails(c) PROVE BlockKept
  <2>1. CASE UNCHANGED <<disk, cache>>
    BY <2>1 DEF BlockKept, Valid
  <2>2. CASE \E v \in Entries : /\ FindVictim(v)
                                /\ disk' = Expelled(v)
                                /\ cache'[v].LRU = 0
                                /\ \A i \in Entries : i # v => cache'[i] = cache[i]
    BY <2>2, VictimIsSaved
  <2> QED BY <1>2, <2>1, <2>2, FailedImportShape
<1>3. ASSUME NEW c \in Clusters, NEW e \in Entries, FindEntry(e, c),
             \/ cache' = UpdateLRU(cache, e)
             \/ \E v \in Values : cache' = Stored(UpdateLRU(cache, e), e, v)
      PROVE  BlockKept
  <2>1. \A i \in Entries : cache'[i].clustNum = cache[i].clustNum /\ (cache'[i].LRU = 0 <=> cache[i].LRU = 0)
    BY <1>3, HitShape
  <2> QED BY <2>1 DEF BlockKept, Valid
<1>4. ASSUME NEW c \in Clusters, NEW v \in Entries, FindVictim(v), disk' = Expelled(v),
             \/ cache' = UpdateLRU(Imported(v, c, Expelled(v)[c]), v)
             \/ \E x \in Values : cache' = Stored(UpdateLRU(Imported(v, c, Expelled(v)[c]), v), v, x)
      PROVE  BlockKept
  BY <1>4, MissShape, VictimIsSaved
<1>5. ASSUME NEW c \in Clusters, ReadCluster(c) PROVE BlockKept
  BY <1>2, <1>3, <1>4, <1>5 DEF ReadCluster, ReadHit, ReadMiss
<1>6. ASSUME NEW c \in Clusters, NEW x \in Values, WriteCluster(c, x) PROVE BlockKept
  BY <1>2, <1>3, <1>4, <1>6 DEF WriteCluster, WriteHit, WriteMiss
<1>7. CASE Destroy
  BY <1>7 DEF Destroy, BlockKept
<1>8. CASE UNCHANGED vars
  BY <1>8 DEF vars, BlockKept, Valid
<1> QED BY <1>1, <1>5, <1>6, <1>7, <1>8 DEF Next

\* Whatever the partition answers, no block is dropped by a living cache.
THEOREM CacheNoBlockLost == Spec => NoBlockLost
<1>1. IInv /\ [Next]_vars => [live /\ live' =>
         \A e \in Entries : Valid(e) =>
            \/ \E f \in Entries : cache'[f].LRU # 0 /\ cache'[f].clustNum = cache[e].clustNum
            \/ disk'[cache[e].clustNum] = cache[e].block]_vars
  BY StepKeepsBlocks DEF BlockKept
<1> QED BY <1>1, AlwaysIInv, PTL DEF Spec, NoBlockLost

-----------------------------------------------------------------------------
\* Refinement: the cache implements the store of clusters.

ClosedIsEmpty == ~live => cache = EmptyCache

LEMMA AlwaysClosedIsEmpty == Spec => []ClosedIsEmpty
<1>1. Init => ClosedIsEmpty
  BY DEF Init, ClosedIsEmpty
<1>2. ClosedIsEmpty /\ [Next]_vars => ClosedIsEmpty'
  BY DEF ClosedIsEmpty, Next, vars, Create, ReadCluster, WriteCluster, Destroy
<1> QED BY <1>1, <1>2, PTL DEF Spec

\* What a reader sees of a cluster that is, or is not, in the cache.
LEMMA StoreIs ==
    ASSUME IInv
    PROVE  /\ Store = [c \in Clusters |-> Store[c]]
           /\ \A e \in Entries : Valid(e) => Store[cache[e].clustNum] = cache[e].block
           /\ \A c \in Clusters : ~Cached(c) => Store[c] = disk[c]
<1>1. Store = [c \in Clusters |-> Store[c]] /\ \A c \in Clusters : ~Cached(c) => Store[c] = disk[c]
  BY DEF Store
<1>2. ASSUME NEW e \in Entries, Valid(e) PROVE Store[cache[e].clustNum] = cache[e].block
  <2> DEFINE c == cache[e].clustNum
             f == CHOOSE i \in Entries : FindEntry(i, c)
  <2>1. c \in Clusters /\ Cached(c)
    BY <1>2 DEF IInv, TypeOK, Cached
  <2>2. \A i \in Entries : Valid(i) /\ cache[i].clustNum = c => i = e
    BY <1>2 DEF IInv, NoDoubleEntry
  <2>3. FindEntry(e, c)
    BY <1>2, <2>2 DEF FindEntry, Entries
  <2>4. f \in Entries /\ FindEntry(f, c)
    BY <2>3
  <2>5. f = e
    BY <2>2, <2>4 DEF FindEntry
  <2>6. Store[c] = cache[f].block
    BY <2>1 DEF Store
  <2> QED BY <2>5, <2>6
<1> QED BY <1>1, <1>2

StoreFacts ==
    /\ Store = [c \in Clusters |-> Store[c]]
    /\ \A e \in Entries : Valid(e) => Store[cache[e].clustNum] = cache[e].block
    /\ \A c \in Clusters : ~Cached(c) => Store[c] = disk[c]

LEMMA StoreFactsHold == IInv => StoreFacts
  BY StoreIs DEF StoreFacts

LEMMA StoreIsPrimed ==
    ASSUME IInv'
    PROVE  /\ Store' = [c \in Clusters |-> Store'[c]]
           /\ \A e \in Entries : Valid(e)' => Store'[cache'[e].clustNum] = cache'[e].block
           /\ \A c \in Clusters : ~Cached(c)' => Store'[c] = disk'[c]
<1>1. IInv' => StoreFacts'
  BY StoreFactsHold, PTL
<1> QED BY <1>1 DEF StoreFacts

\* The partition only ever catches up with what a reader sees.
LEMMA CatchesUp ==
    ASSUME IInv, disk' \in [Clusters -> Values],
           \A c \in Clusters : disk'[c] = disk[c] \/ disk'[c] = Store[c]
    PROVE  Abstract!CatchUp(Store)
<1> DEFINE S == {c \in Clusters : disk'[c] = Store[c]}
<1>1. disk' = [c \in Clusters |-> IF c \in S THEN Store[c] ELSE disk[c]]
  OBVIOUS
<1>2. S \in SUBSET Clusters
  OBVIOUS
<1> QED BY <1>1, <1>2 DEF Abstract!CatchUp

LEMMA ExpellCatchesUp ==
    ASSUME IInv, NEW v \in Entries, disk' = Expelled(v)
    PROVE  Abstract!CatchUp(Store)
<1>1. ASSUME NEW c \in Clusters PROVE disk'[c] = disk[c] \/ disk'[c] = Store[c]
  <2>1. CASE disk'[c] # disk[c]
    <3>1. Valid(v) /\ c = cache[v].clustNum
      BY <2>1, ExpellStep DEF NeedsWrite
    <3> QED BY <3>1, ExpellStep, StoreIs
  <2> QED BY <2>1
<1> QED BY <1>1, ExpellStep, CatchesUp

LEMMA SameDiskCatchesUp ==
    ASSUME IInv, disk' = disk PROVE Abstract!CatchUp(Store)
BY CatchesUp DEF IInv, TypeOK

\* A hit shows at most the cluster that was hit in a new light.
LEMMA HitStore ==
    ASSUME IInv, IInv', NEW c \in Clusters, NEW e \in Entries, FindEntry(e, c), disk' = disk,
           \/ cache' = UpdateLRU(cache, e)
           \/ \E v \in Values : cache' = Stored(UpdateLRU(cache, e), e, v)
    PROVE  Store' = [Store EXCEPT ![c] = cache'[e].block]
<1>1. /\ \A i \in Entries : /\ cache'[i].clustNum = cache[i].clustNum
                            /\ cache'[i].LRU = 0 <=> cache[i].LRU = 0
      /\ \A i \in Entries : i # e => cache'[i].block = cache[i].block
  BY HitShape
<1>2. Valid(e) /\ cache[e].clustNum = c
  BY DEF FindEntry
<1>3. ASSUME NEW d \in Clusters PROVE Store'[d] = IF d = c THEN cache'[e].block ELSE Store[d]
  <2>1. CASE d = c
    BY <2>1, <1>1, <1>2, StoreIsPrimed DEF Valid
  <2>2. CASE d # c /\ Cached(d)
    <3>1. PICK i \in Entries : Valid(i) /\ cache[i].clustNum = d
      BY <2>2 DEF Cached
    <3> QED BY <2>2, <3>1, <1>1, <1>2, StoreIs, StoreIsPrimed DEF Valid
  <2>3. CASE d # c /\ ~Cached(d)
    <3>1. ~Cached(d)'
      BY <2>3, <1>1 DEF Cached, Valid
    <3> QED BY <2>3, <3>1, StoreIs, StoreIsPrimed
  <2> QED BY <2>1, <2>2, <2>3
<1> QED BY <1>3, StoreIs, StoreIsPrimed

\* Evicting v changes nothing a reader sees; c may be in the cache afterwards.
LEMMA EvictStore ==
    ASSUME IInv, IInv', NEW c \in Clusters, NEW v \in Entries, ~Cached(c), disk' = Expelled(v),
           \A i \in Entries : i # v => /\ cache'[i].block = cache[i].block
                                       /\ cache'[i].clustNum = cache[i].clustNum
                                       /\ cache'[i].LRU = 0 <=> cache[i].LRU = 0,
           cache'[v].LRU = 0 \/ cache'[v].clustNum = c
    PROVE  /\ \A d \in Clusters : d # c => Store'[d] = Store[d]
           /\ cache'[v].LRU = 0 => Store'[c] = Store[c]
           /\ Expelled(v)[c] = Store[c]
<1>1. Expelled(v)[c] = disk[c] /\ Store[c] = disk[c]
  BY ExpellStep, StoreIs DEF Cached, NeedsWrite
<1>2. cache'[v].LRU = 0 => Store'[c] = Store[c]
  <2> SUFFICES ASSUME cache'[v].LRU = 0 PROVE Store'[c] = Store[c]
    OBVIOUS
  <2>1. ~Cached(c)'
    BY DEF Cached, Valid
  <2> QED BY <1>1, <2>1, StoreIsPrimed
<1>3. ASSUME NEW d \in Clusters, d # c PROVE Store'[d] = Store[d]
  <2>1. CASE \E i \in Entries : i # v /\ Valid(i) /\ cache[i].clustNum = d
    <3>1. PICK i \in Entries : i # v /\ Valid(i) /\ cache[i].clustNum = d
      BY <2>1
    <3> QED BY <3>1, StoreIs, StoreIsPrimed DEF Valid
  <2>2. CASE ~\E i \in Entries : i # v /\ Valid(i) /\ cache[i].clustNum = d
    <3>1. ~Cached(d)'
      BY <1>3, <2>2 DEF Cached, Valid
    <3>2. Store'[d] = Expelled(v)[d]
      BY <3>1, StoreIsPrimed
    <3>3. CASE Valid(v) /\ cache[v].clustNum = d
      BY <3>2, <3>3, ExpellStep, StoreIs
    <3>4. CASE ~(Valid(v) /\ cache[v].clustNum = d)
      <4>1. ~Cached(d)
        BY <2>2, <3>4 DEF Cached
      <4>2. Expelled(v)[d] = disk[d]
        BY <3>4, ExpellStep DEF NeedsWrite
      <4> QED BY <3>2, <4>1, <4>2, StoreIs
    <3> QED BY <3>3, <3>4
  <2> QED BY <2>1, <2>2
<1> QED BY <1>1, <1>2, <1>3

LEMMA FailureStore ==
    ASSUME IInv, IInv', NEW c \in Clusters, ImportFails(c)
    PROVE  Store' = Store /\ Abstract!CatchUp(Store)
<1>1. CASE UNCHANGED <<disk, cache>>
  <2>1. Store' = Store
    BY <1>1 DEF Store, FindEntry, Cached, Valid
  <2> QED BY <1>1, <2>1, SameDiskCatchesUp
<1>2. ASSUME NEW v \in Entries, FindVictim(v), disk' = Expelled(v), cache'[v].LRU = 0,
             \A i \in Entries : i # v => cache'[i] = cache[i]
      PROVE  Store' = Store /\ Abstract!CatchUp(Store)
  <2>1. ~Cached(c)
    BY DEF ImportFails
  <2>2. \A d \in Clusters : Store'[d] = Store[d]
    BY <1>2, <2>1, EvictStore
  <2> QED BY <1>2, <2>2, StoreIs, StoreIsPrimed, ExpellCatchesUp
<1> QED BY <1>1, <1>2, FailedImportShape

LEMMA HitRefines ==
    ASSUME IInv, IInv', NEW c \in Clusters, NEW e \in Entries, FindEntry(e, c),
           disk' = disk, cache' = UpdateLRU(cache, e)
    PROVE  Store' = Store /\ Abstract!CatchUp(Store) /\ cache[e].block = Store[c]
<1>1. cache[e].block = Store[c] /\ Valid(e)
  BY StoreIs DEF FindEntry
<1>2. cache'[e].block = cache[e].block
  BY <1>1, HitStep
<1>3. Store' = [Store EXCEPT ![c] = Store[c]]
  BY <1>1, <1>2, HitStore
<1> QED BY <1>1, <1>3, StoreIs, SameDiskCatchesUp

LEMMA MissRefines ==
    ASSUME IInv, IInv', NEW c \in Clusters, NEW v \in Entries, ~Cached(c), FindVictim(v),
           disk' = Expelled(v),
           \/ cache' = UpdateLRU(Imported(v, c, Expelled(v)[c]), v)
           \/ \E x \in Values : cache' = Stored(UpdateLRU(Imported(v, c, Expelled(v)[c]), v), v, x)
    PROVE  /\ Store' = [Store EXCEPT ![c] = cache'[v].block]
           /\ Abstract!CatchUp(Store)
           /\ Expelled(v)[c] = Store[c]
<1>1. /\ cache'[v].clustNum = c /\ cache'[v].LRU # 0
      /\ \A i \in Entries : i # v => /\ cache'[i].block = cache[i].block
                                     /\ cache'[i].clustNum = cache[i].clustNum
                                     /\ cache'[i].LRU = 0 <=> cache[i].LRU = 0
  BY MissShape
<1>2. /\ \A d \in Clusters : d # c => Store'[d] = Store[d]
      /\ Expelled(v)[c] = Store[c]
  BY <1>1, EvictStore
<1>3. Store'[c] = cache'[v].block
  BY <1>1, StoreIsPrimed DEF Valid
<1> QED BY <1>2, <1>3, StoreIs, StoreIsPrimed, ExpellCatchesUp

LEMMA ReadRefines ==
    ASSUME IInv, IInv', NEW c \in Clusters, ReadCluster(c)
    PROVE  Abstract!Read(c)
<1>1. SUFFICES /\ Store' = Store /\ Abstract!CatchUp(Store)
               /\ ret' = Answer("read", c, Store[c]) \/ ret' = Failure("read", c)
  BY DEF ReadCluster, Abstract!Read, Answer, Failure, Abstract!Answer, Abstract!Failure
<1>2. CASE ReadHit(c)
  <2>1. PICK e \in Entries : /\ FindEntry(e, c)
                             /\ cache' = UpdateLRU(cache, e)
                             /\ ret' = Answer("read", c, cache[e].block)
                             /\ UNCHANGED disk
    BY <1>2 DEF ReadHit
  <2> QED BY <2>1, HitRefines
<1>3. CASE ReadMiss(c)
  <2>1. PICK v \in Entries : /\ ~Cached(c) /\ FindVictim(v)
                             /\ disk' = Expelled(v)
                             /\ cache' = UpdateLRU(Imported(v, c, Expelled(v)[c]), v)
                             /\ ret' = Answer("read", c, Expelled(v)[c])
    BY <1>3 DEF ReadMiss
  <2>2. /\ Store' = [Store EXCEPT ![c] = cache'[v].block]
        /\ Abstract!CatchUp(Store)
        /\ Expelled(v)[c] = Store[c]
    BY <2>1, MissRefines
  <2>3. cache'[v].block = Store[c]
    BY <2>1, <2>2, LoadStep, ExpellStep
  <2>4. Store' = Store
    BY <2>2, <2>3, StoreIs
  <2> QED BY <2>1, <2>2, <2>4
<1>4. CASE ImportFails(c) /\ ret' = Failure("read", c)
  BY <1>4, FailureStore
<1> QED BY <1>2, <1>3, <1>4 DEF ReadCluster

LEMMA WriteRefines ==
    ASSUME IInv, IInv', NEW c \in Clusters, NEW x \in Values, WriteCluster(c, x)
    PROVE  Abstract!Write(c, x)
<1>1. SUFFICES /\ Abstract!CatchUp(Store)
               /\ \/ Store' = [Store EXCEPT ![c] = x] /\ ret' = Answer("write", c, x)
                  \/ Store' = Store /\ ret' = Failure("write", c)
  BY DEF WriteCluster, Abstract!Write, Answer, Failure, Abstract!Answer, Abstract!Failure
<1>2. cache \in [Entries -> Entry]
  BY DEF IInv, TypeOK
<1>3. CASE WriteHit(c, x) /\ ret' = Answer("write", c, x)
  <2>1. PICK e \in Entries : /\ FindEntry(e, c)
                             /\ cache' = Stored(UpdateLRU(cache, e), e, x)
                             /\ disk' = disk
    BY <1>3 DEF WriteHit
  <2>2. UpdateLRU(cache, e) \in [Entries -> Entry]
    BY <2>1, HitStep DEF FindEntry
  <2>3. cache'[e].block = x
    BY <2>1, <2>2 DEF Stored, Entry
  <2>4. Store' = [Store EXCEPT ![c] = cache'[e].block]
    BY <2>1, HitStore
  <2> QED BY <1>3, <2>1, <2>3, <2>4, SameDiskCatchesUp
<1>4. CASE WriteMiss(c, x) /\ ret' = Answer("write", c, x)
  <2>1. PICK v \in Entries :
           /\ ~Cached(c) /\ FindVictim(v)
           /\ disk' = Expelled(v)
           /\ cache' = Stored(UpdateLRU(Imported(v, c, Expelled(v)[c]), v), v, x)
    BY <1>4 DEF WriteMiss
  <2>2. Expelled(v)[c] \in Values
    BY ExpellStep
  <2>3. UpdateLRU(Imported(v, c, Expelled(v)[c]), v) \in [Entries -> Entry]
    BY <2>1, <2>2, LoadStep
  <2>4. cache'[v].block = x
    BY <2>1, <2>3 DEF Stored, Entry
  <2>5. Store' = [Store EXCEPT ![c] = cache'[v].block] /\ Abstract!CatchUp(Store)
    BY <2>1, MissRefines
  <2> QED BY <1>4, <2>4, <2>5
<1>5. CASE ImportFails(c) /\ ret' = Failure("write", c)
  BY <1>5, FailureStore
<1> QED BY <1>3, <1>4, <1>5 DEF WriteCluster

LEMMA EmptyStore ==
    ASSUME cache' = EmptyCache PROVE Store' = [c \in Clusters |-> disk'[c]]
<1>1. \A c \in Clusters : ~Cached(c)'
  BY DEF Cached, Valid, EmptyCache, EmptyEntry
<1> QED BY <1>1 DEF Store

LEMMA CreateRefines == IInv /\ ClosedIsEmpty /\ Create => Abstract!Open
<1> SUFFICES ASSUME IInv, ClosedIsEmpty, Create PROVE Abstract!Open
  OBVIOUS
<1>1. cache' = cache /\ disk' = disk
  BY DEF Create, ClosedIsEmpty
<1>2. Store' = Store
  BY <1>1 DEF Store, Cached, FindEntry, Valid
<1> QED BY <1>2 DEF Create, Abstract!Open, Idle, Abstract!Idle

LEMMA DestroyRefines == IInv /\ IInv' /\ Destroy => Abstract!Close
<1> SUFFICES ASSUME IInv, IInv', Destroy PROVE Abstract!Close
  OBVIOUS
<1> DEFINE Blocks(es, c) == {e \in es : cache[e].clustNum = c}
           last(es, c)   == CHOOSE e \in Blocks(es, c) : \A i \in Blocks(es, c) : i <= e
<1>1. PICK es \in SUBSET {e \in Entries : NeedsWrite(e)} :
         disk' = [c \in Clusters |-> IF Blocks(es, c) = {} THEN disk[c]
                                                          ELSE cache[last(es, c)].block]
  BY DEF Destroy
<1>2. ASSUME NEW c \in Clusters, Blocks(es, c) # {}
      PROVE  cache[last(es, c)].block = Store[c]
  <2>1. PICK e \in es : cache[e].clustNum = c
    BY <1>2
  <2>2. \A f \in es : f \in Entries /\ Valid(f)
    BY DEF NeedsWrite
  <2>3. \A i \in Blocks(es, c) : i = e
    BY <2>1, <2>2 DEF IInv, NoDoubleEntry
  <2>4. e \in Blocks(es, c) /\ e <= e
    BY <2>1, <2>2 DEF Entries
  <2>5. last(es, c) \in Blocks(es, c)
    BY <2>3, <2>4
  <2> QED BY <2>2, <2>5, StoreIs
<1> HIDE DEF Blocks, last
<1>3. \A c \in Clusters : disk'[c] = disk[c] \/ disk'[c] = Store[c]
  BY <1>1, <1>2
<1>4. Abstract!CatchUp(Store)
  BY <1>3, CatchesUp DEF IInv, TypeOK
<1>5. Store' = disk'
  BY EmptyStore DEF Destroy, IInv, TypeOK
<1> QED BY <1>4, <1>5 DEF Destroy, Abstract!Close, Idle, Abstract!Idle

LEMMA StepRefines == IInv /\ IInv' /\ ClosedIsEmpty /\ [Next]_vars => [Abstract!Next]_(Abstract!vars)
<1> SUFFICES ASSUME IInv, IInv', ClosedIsEmpty, [Next]_vars
             PROVE  [Abstract!Next]_(Abstract!vars)
  OBVIOUS
<1>1. CASE Create
  BY <1>1, CreateRefines DEF Abstract!Next
<1>2. ASSUME NEW c \in Clusters, ReadCluster(c) PROVE Abstract!Next
  BY <1>2, ReadRefines DEF Abstract!Next
<1>3. ASSUME NEW c \in Clusters, NEW x \in Values, WriteCluster(c, x) PROVE Abstract!Next
  BY <1>3, WriteRefines DEF Abstract!Next
<1>4. CASE Destroy
  BY <1>4, DestroyRefines DEF Abstract!Next
<1>5. CASE UNCHANGED vars
  <2>1. Store' = Store
    BY <1>5 DEF vars, Store, Cached, FindEntry, Valid
  <2> QED BY <1>5, <2>1 DEF vars, Abstract!vars
<1> QED BY <1>1, <1>2, <1>3, <1>4, <1>5 DEF Next

LEMMA InitRefines == Init => Abstract!Init
<1> SUFFICES ASSUME Init PROVE Abstract!Init
  OBVIOUS
<1>1. Store = disk
  <2>1. \A c \in Clusters : ~Cached(c)
    BY DEF Init, Cached, Valid, EmptyCache, EmptyEntry
  <2> QED BY <2>1 DEF Store, Init
<1> QED BY <1>1 DEF Init, Abstract!Init, Idle, Abstract!Idle

\* The cache implements the store of clusters, for any number of entries.
THEOREM CacheImplementsStore == Spec => ImplementsStore
<1> QED BY InitRefines, StepRefines, AlwaysIInv, AlwaysClosedIsEmpty, PTL
        DEF Spec, ImplementsStore, Abstract!Spec

=============================================================================

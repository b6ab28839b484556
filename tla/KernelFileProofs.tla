---------------------------- MODULE KernelFileProofs ----------------------------
(***************************************************************************)
(* Proofs about KernelFile: what a file is made of stays allocated, its    *)
(* own, and within reach of the walk that releases it, for any number of   *)
(* files, any geometry of clusters and indices and any partition, as long  *)
(* as no cluster is asked for while a file is cut.                         *)
(***************************************************************************)
EXTENDS KernelFile, FiniteSetTheorems, TLAPS

\* The conditions: the files fit the two levels of an index, ...
FilesFit ==
    \A f \in Files :
        MaxSize(f) < ClusterSize * (I_LEV_DATA_POINTERS + II_LEV_POINTERS * II_LEV_DATA_POINTERS)

\* ... and from the time a file is cut, by a truncation or a write that failed, until
\* it is deleted or rewritten no file is given a cluster and the file itself does not
\* grow: its counters and its index still speak of what was cut.
GrowsUncut ==
    cut # {} =>
        /\ allocated' \subseteq allocated
        /\ \A f \in Files :
              /\ At(f, "writes") /\ slot[f].cursor = slot[f].size
              /\ f \in cut \/ AtBoundary(slot[f])
              => slot'[f] = slot[f]

-----------------------------------------------------------------------------
\* Numbers

LEMMA DivMod ==
    ASSUME NEW k \in Nat \ {0}, NEW n \in Nat
    PROVE  n \div k \in Nat /\ n % k \in 0..k - 1 /\ n = (k * (n \div k)) + (n % k)
<1>1. n % k \in 0..k - 1 /\ n = (k * (n \div k)) + (n % k)
  OBVIOUS
<1> QED
  BY <1>1

LEMMA DivUnique ==
    ASSUME NEW k \in Nat \ {0}, NEW x \in Int, NEW y \in Int, NEW a \in 0..k - 1,
           NEW b \in 0..k - 1, k * x + a = k * y + b
    PROVE  x = y /\ a = b
<1>1. k * (x - y) = b - a
  OBVIOUS
<1>2. ASSUME x - y >= 1 PROVE FALSE
  <2>1. k * (x - y) >= k
    BY <1>2
  <2> QED
    BY <2>1, <1>1
<1>3. ASSUME x - y <= -1 PROVE FALSE
  <2>1. k * (x - y) <= -k
    BY <1>3
  <2> QED
    BY <2>1, <1>1
<1> QED
  BY <1>1, <1>2, <1>3

LEMMA DivIs ==
    ASSUME NEW k \in Nat \ {0}, NEW n \in Nat, NEW x \in Int, NEW a \in 0..k - 1, n = k * x + a
    PROVE  n \div k = x /\ n % k = a
BY DivMod, DivUnique

\* As many as it takes: UpTo rounds the quotient up.
LEMMA RoundsUp ==
    ASSUME NEW k \in Nat \ {0}, NEW n \in Nat
    PROVE  /\ UpTo(n, k) \in Nat
           /\ UpTo(n, k) = IF n % k = 0 THEN n \div k ELSE n \div k + 1
           /\ UpTo(n + 1, k) = n \div k + 1
           /\ \A b \in Nat : b < UpTo(n, k) <=> k * b < n
           /\ \A p \in 0..n - 1 : p \div k < UpTo(n, k)
<1> DEFINE q == n \div k
           r == n % k
<1>1. q \in Nat /\ r \in 0..k - 1 /\ n = k * q + r
  BY DivMod
<1> HIDE DEF q, r
<1>2. UpTo(n, k) = IF r = 0 THEN q ELSE q + 1
  <2>1. CASE r = 0
    <3>1. n + k - 1 = k * q + (k - 1)
      BY <1>1, <2>1
    <3> QED
      BY <1>1, <2>1, <3>1, DivIs DEF UpTo
  <2>2. CASE r # 0
    <3>1. n + k - 1 = k * (q + 1) + (r - 1)
      BY <1>1, <2>2
    <3> QED
      BY <1>1, <2>2, <3>1, DivIs DEF UpTo
  <2> QED
    BY <2>1, <2>2
<1>3. UpTo(n + 1, k) = q + 1
  <2>1. n + 1 + k - 1 = k * (q + 1) + r
    BY <1>1
  <2> QED
    BY <1>1, <2>1, DivIs DEF UpTo
<1>4. ASSUME NEW b \in Nat PROVE b < UpTo(n, k) <=> k * b < n
  <2>1. ASSUME b <= q PROVE k * b <= k * q
    BY <1>1, <2>1
  <2>2. ASSUME b < q PROVE k * b <= k * q - k
    <3>1. b <= q - 1
      BY <1>1, <2>2
    <3>2. k * b <= k * (q - 1)
      BY <1>1, <3>1
    <3> QED
      BY <1>1, <3>2
  <2>3. ASSUME b > q PROVE k * b >= k * q + k
    <3>1. b >= q + 1
      BY <1>1, <2>3
    <3>2. k * b >= k * (q + 1)
      BY <1>1, <3>1
    <3> QED
      BY <1>1, <3>2
  <2> QED
    BY <1>1, <1>2, <2>1, <2>2, <2>3
<1>5. ASSUME NEW p \in 0..n - 1 PROVE p \div k < UpTo(n, k)
  <2>1. p \div k \in Nat /\ k * (p \div k) <= p
    BY DivMod
  <2> QED
    BY <2>1, <1>4
<1> QED
  BY <1>1, <1>2, <1>3, <1>4, <1>5 DEF q, r


-----------------------------------------------------------------------------
\* Blocks and entries

\* The entries of an index that lead to second-level indices.  The places of the
\* clusters of a file: <<HERE, HERE>> is its index, <<i, HERE>> what entry i of that
\* leads to, <<i, e>> what entry e of the second-level index there leads to.
SecondEntries == I_LEV_DATA_POINTERS..IEnd - 1
HERE   == -1
Places == Entries \cup {HERE}

\* The block at entry e of the second-level index at entry i.
BlockAt(i, e) == I_LEV_DATA_POINTERS + II_LEV_DATA_POINTERS * (i - I_LEV_DATA_POINTERS) + e

LEMMA Geometry ==
    /\ ClusterSize \in Nat \ {0} /\ I_LEV_DATA_POINTERS \in Nat \ {0}
    /\ II_LEV_POINTERS \in Nat \ {0} /\ II_LEV_DATA_POINTERS \in Nat \ {0}
    /\ II_LEV_DATA_POINTERS = I_LEV_DATA_POINTERS + II_LEV_POINTERS
    /\ IEnd = II_LEV_DATA_POINTERS
    /\ Entries = 0..II_LEV_DATA_POINTERS - 1 /\ Entries = IEntries \cup SecondEntries
    /\ IEntries = 0..I_LEV_DATA_POINTERS - 1
    /\ SecondEntries = I_LEV_DATA_POINTERS..II_LEV_DATA_POINTERS - 1
    /\ HERE = -1 /\ HERE \notin Entries
BY LayoutAssumption DEF IEnd, Entries, IEntries, SecondEntries, HERE

LEMMA EntryOfBlock ==
    ASSUME NEW b \in Nat, b >= I_LEV_DATA_POINTERS
    PROVE  /\ IIEntry(b) \in Nat /\ IIEntry(b) >= I_LEV_DATA_POINTERS
           /\ InII(b) \in Entries /\ b = BlockAt(IIEntry(b), InII(b))
<1> DEFINE x == b - I_LEV_DATA_POINTERS
<1>1. x \in Nat
  BY Geometry
<1>2. x \div II_LEV_DATA_POINTERS \in Nat /\ x % II_LEV_DATA_POINTERS \in 0..II_LEV_DATA_POINTERS - 1
      /\ x = II_LEV_DATA_POINTERS * (x \div II_LEV_DATA_POINTERS) + (x % II_LEV_DATA_POINTERS)
  BY <1>1, DivMod, Geometry
<1> DEFINE y == x \div II_LEV_DATA_POINTERS
<1>3. IIEntry(b) = y + I_LEV_DATA_POINTERS /\ y \in Nat
  BY <1>2 DEF IIEntry
<1>4. InII(b) = x % II_LEV_DATA_POINTERS
  BY DEF InII
<1>5. IIEntry(b) - I_LEV_DATA_POINTERS = y
  BY <1>3, Geometry
<1>6. x = II_LEV_DATA_POINTERS * y + InII(b)
  BY <1>2, <1>4
<1>7. b = x + I_LEV_DATA_POINTERS
  BY Geometry
<1> HIDE DEF x, y
<1> QED
  BY <1>2, <1>3, <1>4, <1>5, <1>6, <1>7, Geometry DEF BlockAt

LEMMA BlockOfEntry ==
    ASSUME NEW i \in Nat, i >= I_LEV_DATA_POINTERS, NEW e \in Entries
    PROVE  /\ BlockAt(i, e) \in Nat /\ BlockAt(i, e) >= I_LEV_DATA_POINTERS
           /\ IIEntry(BlockAt(i, e)) = i /\ InII(BlockAt(i, e)) = e
           /\ BlockAt(i, 0) <= BlockAt(i, e) /\ BlockAt(i + 1, 0) = BlockAt(i, 0) + II_LEV_DATA_POINTERS
<1> DEFINE x == BlockAt(i, e) - I_LEV_DATA_POINTERS
<1>1. II_LEV_DATA_POINTERS * (i - I_LEV_DATA_POINTERS) \in Nat
  BY Geometry
<1>2. x \in Nat /\ x = II_LEV_DATA_POINTERS * (i - I_LEV_DATA_POINTERS) + e
  BY <1>1, Geometry DEF BlockAt
<1>3. x \div II_LEV_DATA_POINTERS = i - I_LEV_DATA_POINTERS /\ x % II_LEV_DATA_POINTERS = e
  <2> HIDE DEF x
  <2>1. i - I_LEV_DATA_POINTERS \in Int
    BY Geometry
  <2> QED
    BY <1>2, <2>1, DivIs, Geometry
<1>4. IIEntry(BlockAt(i, e)) = i /\ InII(BlockAt(i, e)) = e
  BY <1>3, Geometry DEF IIEntry, InII
<1>5. II_LEV_DATA_POINTERS * (i + 1 - I_LEV_DATA_POINTERS)
        = II_LEV_DATA_POINTERS * (i - I_LEV_DATA_POINTERS) + II_LEV_DATA_POINTERS
  BY Geometry
<1> QED
  BY <1>1, <1>2, <1>4, <1>5, Geometry DEF BlockAt

LEMMA SecondBlocks ==
    \A i \in SecondEntries : \A e \in Entries :
        /\ BlockAt(i, e) \in Nat /\ BlockAt(i, 0) \in Nat
        /\ BlockAt(i, 0) <= BlockAt(i, e) /\ BlockAt(i, 0) >= I_LEV_DATA_POINTERS
<1> TAKE i \in SecondEntries
<1> TAKE e \in Entries
<1>1. i \in Nat /\ i >= I_LEV_DATA_POINTERS /\ 0 \in Entries
  BY Geometry
<1> QED
  BY <1>1, BlockOfEntry

\* A file of B blocks has B blocks of the first level at most, the rest in the second.
Beyond(B) == IF B > I_LEV_DATA_POINTERS THEN B - I_LEV_DATA_POINTERS ELSE 0

LEMMA SecondCount ==
    ASSUME NEW B \in Nat
    PROVE  /\ Beyond(B) \in Nat /\ UpTo(Beyond(B), II_LEV_DATA_POINTERS) \in Nat
           /\ \A i \in Nat : i >= I_LEV_DATA_POINTERS =>
                 (BlockAt(i, 0) < B <=>
                    i - I_LEV_DATA_POINTERS < UpTo(Beyond(B), II_LEV_DATA_POINTERS))
           /\ B <= I_LEV_DATA_POINTERS => UpTo(Beyond(B), II_LEV_DATA_POINTERS) = 0
<1>1. Beyond(B) \in Nat
  BY Geometry DEF Beyond
<1>2. ASSUME NEW i \in Nat, i >= I_LEV_DATA_POINTERS
      PROVE  BlockAt(i, 0) < B <=>
                i - I_LEV_DATA_POINTERS < UpTo(Beyond(B), II_LEV_DATA_POINTERS)
  <2>1. i - I_LEV_DATA_POINTERS \in Nat
    BY <1>2, Geometry
  <2>2. i - I_LEV_DATA_POINTERS < UpTo(Beyond(B), II_LEV_DATA_POINTERS)
          <=> II_LEV_DATA_POINTERS * (i - I_LEV_DATA_POINTERS) < Beyond(B)
    BY <1>1, <2>1, RoundsUp, Geometry
  <2>3. II_LEV_DATA_POINTERS * (i - I_LEV_DATA_POINTERS) \in Nat
    BY <2>1, Geometry
  <2> QED
    BY <2>2, <2>3, Geometry DEF BlockAt, Beyond
<1>3. UpTo(0, II_LEV_DATA_POINTERS) = 0
  BY DivIs, Geometry DEF UpTo
<1>4. UpTo(Beyond(B), II_LEV_DATA_POINTERS) \in Nat
  BY <1>1, RoundsUp, Geometry
<1>5. B <= I_LEV_DATA_POINTERS => Beyond(B) = 0
  BY Geometry DEF Beyond
<1> QED
  BY <1>1, <1>2, <1>3, <1>4, <1>5

LEMMA BlockOfByte ==
    ASSUME NEW n \in Nat
    PROVE  /\ Block(n) \in Nat /\ n % ClusterSize \in 0..ClusterSize - 1
           /\ n = (ClusterSize * Block(n)) + (n % ClusterSize)
           /\ ClusterSize * Block(n) \in Nat /\ ClusterSize * Block(n) <= n
<1>1. /\ n \div ClusterSize \in Nat /\ n % ClusterSize \in 0..ClusterSize - 1
      /\ n = (ClusterSize * (n \div ClusterSize)) + (n % ClusterSize)
  BY DivMod, Geometry
<1>2. ClusterSize * Block(n) \in Nat
  BY <1>1, Geometry DEF Block
<1> QED
  BY <1>1, <1>2, Geometry DEF Block

LEMMA FirstFreedRoundsUp ==
    ASSUME NEW n \in Nat
    PROVE  FirstFreed(n) = UpTo(n, ClusterSize)
BY RoundsUp, Geometry DEF FirstFreed, Block


-----------------------------------------------------------------------------
\* The invariant

DiskType == [Clusters -> [bytes : [0..ClusterSize - 1 -> Bytes \cup {Nothing}],
                          pointers : [Entries -> Clusters]]]
SlotRecord == [at : {"closed", "open", "writes", "rewrites", "lost"}, mode : {"r", "w", "a"},
               cursor : Nat, left : Nat, done : Nat, size : Nat, num : Clusters,
               index : [Entries -> Clusters], IILevel : {"none", "loaded"},
               II : [Entries -> Clusters], IInum : Nat, ILevLeft : Int,
               IILevDataLeft : Int, IILevLeft : 0..II_LEV_POINTERS]
SlotType == {s \in SlotRecord : s.IILevel = "loaded" =>
                s.IInum \in Clusters /\ s.IILevDataLeft \in 0..II_LEV_DATA_POINTERS}

\* With an index g, allocated clusters A and second-level indices in d: which places
\* lead to an allocated cluster, and to which.
Held(g, A, d, i, e) ==
    \/ i = HERE /\ e = HERE
    \/ i \in Entries /\ e = HERE /\ Live(A, g[i])
    \/ i \in SecondEntries /\ e \in Entries /\ Live(A, g[i]) /\ Live(A, d[g[i]].pointers[e])
On(num, g, d, i, e) ==
    IF i = HERE THEN num ELSE IF e = HERE THEN g[i] ELSE d[g[i]].pointers[e]

\* No place before one that is held is not.
Prefixes(g, A, d) ==
    /\ \A i, j \in IEntries : j <= i /\ Held(g, A, d, i, HERE) => Held(g, A, d, j, HERE)
    /\ \A i, j \in SecondEntries : j <= i /\ Held(g, A, d, i, HERE) => Held(g, A, d, j, HERE)
    /\ \A i \in SecondEntries : \A e, c \in Entries :
          c <= e /\ Held(g, A, d, i, e) => Held(g, A, d, i, c)

\* The places of B blocks are held; behind them there is nothing.
Covers(g, A, d, B) ==
    /\ \A i \in IEntries : i < B => Held(g, A, d, i, HERE)
    /\ \A i \in SecondEntries : BlockAt(i, 0) < B => Held(g, A, d, i, HERE)
    /\ \A i \in SecondEntries : \A e \in Entries : BlockAt(i, e) < B => Held(g, A, d, i, e)
Ends(g, A, d, B) ==
    /\ \A i \in IEntries : i >= B => g[i] = NoCluster
    /\ \A i \in SecondEntries : BlockAt(i, 0) >= B => g[i] = NoCluster
    /\ \A i \in SecondEntries : \A e \in Entries :
          Held(g, A, d, i, HERE) /\ BlockAt(i, e) >= B => d[g[i]].pointers[e] = NoCluster

\* The disk as the user of a file sees it, and the clusters the file has.
Store(f) == Flushed(disk, slot[f])
InUse(f, i, e)     == IsFile(f) /\ Held(IndexOf(f), allocated, Store(f), i, e)
ClusterOn(f, i, e) == On(NumOf(f), IndexOf(f), Store(f), i, e)
Used(f) == {c \in Data : \E i, e \in Places : InUse(f, i, e) /\ c = ClusterOn(f, i, e)}

Layout(f) ==
    IsFile(f) =>
        /\ NumOf(f) \in allocated
        /\ Prefixes(IndexOf(f), allocated, Store(f))
        /\ Covers(IndexOf(f), allocated, Store(f), Blocks(f))
        /\ f \notin cut => Ends(IndexOf(f), allocated, Store(f), Blocks(f))

IsOpen(f) == slot[f].at \in {"open", "writes"}

Handle(f) ==
    /\ IsOpen(f) => Exists(f) /\ slot[f].num = dir[f].num /\ slot[f].cursor <= slot[f].size
    /\ IsOpen(f) /\ slot[f].mode = "r" => slot[f].size = dir[f].size
    /\ At(f, "writes") => /\ slot[f].mode # "r" /\ slot[f].left > 0
                          /\ slot[f].cursor + slot[f].left <= MaxSize(f)
    /\ At(f, "rewrites") => Exists(f)
    /\ At(f, "closed") => slot[f].IILevel = "none"
    /\ IsFile(f) => SizeOf(f) <= MaxSize(f)
    /\ f \in cut => IsFile(f)

\* The second-level index in memory is the last of the file.  (Of one that has been
\* cut, it is one its index leads to.)
Loaded(f) ==
    LET s == slot[f] IN
    IsOpen(f) =>
        /\ IIs(f) > 0 => s.IILevel = "loaded"
        /\ s.IILevel = "loaded" => \E i \in SecondEntries : s.IInum = s.index[i]
        /\ f \notin cut => /\ s.IILevel = "none" <=> IIs(f) = 0
                           /\ s.IILevel = "loaded" => s.IInum = s.index[I_LEV_DATA_POINTERS + IIs(f) - 1]

Lefts(f) ==
    f \notin cut /\ IsOpen(f) =>
        /\ slot[f].ILevLeft = I_LEV_DATA_POINTERS - (Blocks(f) - InSecond(f))
        /\ slot[f].IILevLeft = II_LEV_POINTERS - IIs(f)
        /\ slot[f].IILevel = "loaded" =>
              slot[f].IILevDataLeft = IIs(f) * II_LEV_DATA_POINTERS - InSecond(f)

\* A cluster is used at one place of one file.
Distinct ==
    \A f, g \in Files : \A i, e, j, c \in Places :
        InUse(f, i, e) /\ InUse(g, j, c) /\ ClusterOn(f, i, e) = ClusterOn(g, j, c)
            => f = g /\ i = j /\ e = c

\* What is allocated and of no file was so at first.
Accounted ==
    (\A f \in Files : ~At(f, "lost")) => allocated \ UNION {Used(f) : f \in Files} \in Taken

Inv ==
    /\ TypeOK
    /\ \A f \in Files : Handle(f) /\ Layout(f) /\ Loaded(f) /\ Lefts(f)
    /\ Distinct /\ Accounted

-----------------------------------------------------------------------------
\* What the types say of a file

LEMMA DiskTypes == ASSUME TypeOK PROVE disk \in DiskType /\ slot \in [Files -> SlotType]
BY DEF TypeOK, DiskType, SlotType, SlotRecord

LEMMA DiskPointers ==
    ASSUME NEW d \in DiskType, NEW c \in Clusters
    PROVE  d[c].pointers \in [Entries -> Clusters]
BY DEF DiskType

LEMMA ClustersAreNumbers == NoCluster \in Clusters /\ \A c \in Clusters : c \in Nat
BY LayoutAssumption DEF Clusters, NoCluster

LEMMA FlushedType ==
    ASSUME NEW d \in DiskType, NEW s \in SlotType
    PROVE  /\ Flushed(d, s) \in DiskType
           /\ \A c \in Clusters : Flushed(d, s)[c].pointers
                 = IF s.IILevel = "loaded" /\ s.IInum = c THEN s.II ELSE d[c].pointers
<1>1. [d EXCEPT ![s.IInum] = AsIndex(s.II)] \in DiskType
  BY DEF DiskType, SlotType, SlotRecord, AsIndex, Blank
<1> QED
  BY <1>1 DEF DiskType, SlotType, SlotRecord, AsIndex, Flushed

LEMMA FileTypes ==
    ASSUME TypeOK, NEW f \in Files
    PROVE  /\ slot[f] \in SlotType /\ dir[f] \in [num : Clusters, size : Nat]
           /\ IndexOf(f) \in [Entries -> Clusters] /\ NumOf(f) \in Clusters /\ SizeOf(f) \in Nat
           /\ Store(f) \in DiskType
           /\ \A c \in Clusters : Store(f)[c].pointers = IIOf(f, c)
<1>1. slot[f] \in SlotType /\ dir[f] \in [num : Clusters, size : Nat] /\ disk \in DiskType
  BY DiskTypes DEF TypeOK
<1>2. IndexOf(f) \in [Entries -> Clusters] /\ NumOf(f) \in Clusters /\ SizeOf(f) \in Nat
  BY <1>1 DEF IndexOf, NumOf, SizeOf, SlotType, SlotRecord, DiskType
<1> QED
  BY <1>1, <1>2, FlushedType DEF Store, IIOf

LEMMA FileNumbers ==
    ASSUME NEW f \in Files, SizeOf(f) \in Nat
    PROVE  /\ Blocks(f) \in Nat /\ Blocks(f) = UpTo(SizeOf(f), ClusterSize)
           /\ InSecond(f) = Beyond(Blocks(f)) /\ InSecond(f) \in Nat
           /\ IIs(f) = UpTo(Beyond(Blocks(f)), II_LEV_DATA_POINTERS) /\ IIs(f) \in Nat
BY RoundsUp, SecondCount, Geometry DEF Blocks, InSecond, IIs, Beyond

\* A file has second-level indices just when the first level does not hold it.
LEMMA SecondIsUsed ==
    ASSUME NEW f \in Files, SizeOf(f) \in Nat
    PROVE  IIs(f) > 0 <=> Blocks(f) > I_LEV_DATA_POINTERS
<1> DEFINE B == Blocks(f)
           x == InSecond(f)
           m == IIs(f)
           T == II_LEV_DATA_POINTERS
<1>1. B \in Nat /\ x \in Nat /\ m \in Nat /\ T \in Nat \ {0} /\ I_LEV_DATA_POINTERS \in Nat
  BY FileNumbers, Geometry
<1>2. m = UpTo(x, T)
  BY DEF IIs
<1>3. x = IF B > I_LEV_DATA_POINTERS THEN B - I_LEV_DATA_POINTERS ELSE 0
  BY DEF InSecond
<1> HIDE DEF B, x, m, T
<1>4. 0 < m <=> T * 0 < x
  BY <1>1, <1>2, RoundsUp
<1>5. m > 0 <=> B > I_LEV_DATA_POINTERS
  BY <1>1, <1>3, <1>4
<1> QED
  BY <1>5 DEF B, m

-----------------------------------------------------------------------------
\* The walk that releases a file comes to every cluster the file has, to no other.

LEMMA RunIsLive ==
    ASSUME NEW g, NEW A, NEW a \in Int, NEW b \in Int, NEW i \in Int, a <= i,
           \A k, l \in a..b - 1 : l <= k /\ Live(A, g[k]) => Live(A, g[l])
    PROVE  LiveRun(g, A, i, b) = {k \in i..b - 1 : Live(A, g[k])}
BY DEF LiveRun

LEMMA WalkIs ==
    ASSUME TypeOK, NEW f \in Files, IsFile(f), Layout(f), allocated \subseteq Data
    PROVE  \A c : c \in Walk(f) <=> \E i, e \in Places : InUse(f, i, e) /\ c = ClusterOn(f, i, e)
<1> DEFINE g == IndexOf(f)
           J == {j \in I_LEV_DATA_POINTERS..IEnd - 1 : Live(allocated, g[j])}
           Run(j) == LiveRun(IIOf(f, g[j]), allocated, 0, II_LEV_DATA_POINTERS)
<1>1. /\ g \in [Entries -> Clusters]
      /\ \A c \in Clusters : Store(f)[c].pointers = IIOf(f, c)
      /\ Prefixes(g, allocated, Store(f))
  BY FileTypes DEF Layout
<1>2. LiveRun(g, allocated, 0, I_LEV_DATA_POINTERS)
        = {k \in 0..I_LEV_DATA_POINTERS - 1 : Live(allocated, g[k])}
  <2>1. \A k, l \in 0..I_LEV_DATA_POINTERS - 1 : l <= k /\ Live(allocated, g[k]) => Live(allocated, g[l])
    BY <1>1, Geometry DEF Prefixes, Held
  <2> QED
    BY <2>1, Geometry DEF LiveRun
<1>3. \A j \in J : Run(j) = {k \in 0..II_LEV_DATA_POINTERS - 1 : Live(allocated, IIOf(f, g[j])[k])}
  <2> TAKE j \in J
  <2>1. j \in SecondEntries /\ g[j] \in Clusters /\ Live(allocated, g[j])
    BY <1>1, Geometry
  <2>2. \A k, l \in 0..II_LEV_DATA_POINTERS - 1 :
           l <= k /\ Live(allocated, IIOf(f, g[j])[k]) => Live(allocated, IIOf(f, g[j])[l])
    BY <1>1, <2>1, Geometry DEF Prefixes, Held
  <2> HIDE DEF g
  <2> QED
    BY <2>2, Geometry DEF LiveRun, Run
<1>4. Walk(f) = {NumOf(f)} \cup {g[i] : i \in LiveRun(g, allocated, 0, I_LEV_DATA_POINTERS)}
          \cup {g[j] : j \in J} \cup UNION {{IIOf(f, g[j])[k] : k \in Run(j)} : j \in J}
  BY DEF Walk
<1>5. \A i, e : InUse(f, i, e) <=>
          \/ i = HERE /\ e = HERE
          \/ i \in Entries /\ e = HERE /\ Live(allocated, g[i])
          \/ i \in J /\ e \in Entries /\ Live(allocated, IIOf(f, g[i])[e])
  BY <1>1, Geometry DEF InUse, Held
<1>6. \A i, e : InUse(f, i, e) =>
         ClusterOn(f, i, e) = IF i = HERE THEN NumOf(f) ELSE IF e = HERE THEN g[i] ELSE IIOf(f, g[i])[e]
  BY <1>1, Geometry DEF InUse, Held, ClusterOn, On
<1>7. HERE \in Places /\ Entries \subseteq Places /\ J \subseteq Entries
      /\ \A i \in Entries : i # HERE
  BY Geometry DEF Places
<1>8. \A i \in Entries : Live(allocated, g[i]) => i \in J \/ i \in 0..I_LEV_DATA_POINTERS - 1
  BY Geometry
<1>9. 0..I_LEV_DATA_POINTERS - 1 \subseteq Entries /\ Entries = 0..II_LEV_DATA_POINTERS - 1
  BY Geometry
<1> HIDE DEF g, J, Run
<1>10. ASSUME NEW c, c \in Walk(f)
       PROVE  \E i, e \in Places : InUse(f, i, e) /\ c = ClusterOn(f, i, e)
  <2>1. CASE c = NumOf(f)
    BY <2>1, <1>5, <1>6, <1>7
  <2>2. CASE \E i \in 0..I_LEV_DATA_POINTERS - 1 : Live(allocated, g[i]) /\ c = g[i]
    BY <2>2, <1>5, <1>6, <1>7, <1>9
  <2>3. CASE \E j \in J : c = g[j]
    <3>1. \A j \in J : Live(allocated, g[j])
      BY DEF J
    <3> QED
      BY <2>3, <3>1, <1>5, <1>6, <1>7
  <2>4. CASE \E j \in J : \E k \in Run(j) : c = IIOf(f, g[j])[k]
    <3>1. PICK j \in J : \E k \in Run(j) : c = IIOf(f, g[j])[k]
      BY <2>4
    <3>2. PICK k \in Run(j) : c = IIOf(f, g[j])[k]
      BY <3>1
    <3>3. k \in Entries /\ Live(allocated, IIOf(f, g[j])[k])
      BY <1>3, <1>9
    <3> QED
      BY <3>2, <3>3, <1>5, <1>6, <1>7
  <2> QED
    BY <1>10, <1>4, <1>2, <2>1, <2>2, <2>3, <2>4
<1>11. ASSUME NEW i \in Places, NEW e \in Places, InUse(f, i, e) PROVE ClusterOn(f, i, e) \in Walk(f)
  <2>1. CASE i = HERE /\ e = HERE
    BY <2>1, <1>4, <1>6, <1>11
  <2>2. CASE i \in Entries /\ e = HERE /\ Live(allocated, g[i])
    <3>1. ClusterOn(f, i, e) = g[i]
      BY <2>2, <1>6, <1>7, <1>11
    <3> QED
      BY <2>2, <3>1, <1>2, <1>4, <1>8
  <2>3. CASE i \in J /\ e \in Entries /\ Live(allocated, IIOf(f, g[i])[e])
    <3>1. ClusterOn(f, i, e) = IIOf(f, g[i])[e]
      BY <2>3, <1>6, <1>7, <1>11
    <3>2. e \in Run(i)
      BY <2>3, <1>3, <1>9
    <3> QED
      BY <2>3, <3>1, <3>2, <1>4
  <2> QED
    BY <1>5, <1>11, <2>1, <2>2, <2>3
<1> QED
  BY <1>10, <1>11

-----------------------------------------------------------------------------
\* What the invariant says

LEMMA InjectiveImage ==
    ASSUME NEW n \in Nat, NEW h, NEW T, h \in [0..n - 1 -> T],
           \A x, y \in 0..n - 1 : h[x] = h[y] => x = y, \A t \in T : \E x \in 0..n - 1 : t = h[x]
    PROVE  IsFiniteSet(T) /\ Cardinality(T) = n
<1> DEFINE S == 0..n - 1
<1>1. IsFiniteSet(S) /\ Cardinality(S) = n
  BY FS_Interval
<1>2. h \in [S -> T] /\ (\A x, y \in S : h[x] = h[y] => x = y) /\ (\A t \in T : \E x \in S : h[x] = t)
  OBVIOUS
<1> HIDE DEF S
<1>4. h \in Surjection(S, T) /\ h \in Injection(S, T)
  BY <1>2 DEF Surjection, Injection, IsInjective
<1>3. IsFiniteSet(T) /\ Cardinality(T) = Cardinality(S)
  BY <1>1, <1>4, FS_Surjection, FS_CardinalityType
<1> QED
  BY <1>1, <1>3

LEMMA SumOfThree ==
    ASSUME NEW x, NEW S, NEW T, IsFiniteSet(S), IsFiniteSet(T), x \notin S, x \notin T,
           S \cap T = {}
    PROVE  Cardinality({x} \cup S \cup T) = 1 + Cardinality(S) + Cardinality(T)
<1>1. IsFiniteSet(S \cup T) /\ Cardinality(S \cup T) = Cardinality(S) + Cardinality(T)
  <2>1. Cardinality(S \cap T) = 0
    BY FS_EmptySet
  <2> QED
    <3>1. Cardinality(S) \in Nat /\ Cardinality(T) \in Nat
      BY FS_CardinalityType
    <3>2. IsFiniteSet(S \cup T)
          /\ Cardinality(S \cup T) = Cardinality(S) + Cardinality(T) - Cardinality(S \cap T)
      BY FS_Union
    <3> QED
      BY <2>1, <3>1, <3>2
<1>2. Cardinality((S \cup T) \cup {x}) = Cardinality(S \cup T) + 1
  BY <1>1, FS_AddElement
<1>3. (S \cup T) \cup {x} = {x} \cup S \cup T
  OBVIOUS
<1> QED
  BY <1>1, <1>2, <1>3, FS_CardinalityType

\* The entries for the blocks of a file that fits are entries of its index.
LEMMA FitsEntries ==
    ASSUME FilesFit, NEW f \in Files, NEW n \in Nat, n <= MaxSize(f)
    PROVE  /\ \A b \in Nat : ClusterSize * b <= n /\ b >= I_LEV_DATA_POINTERS
                 => IIEntry(b) \in SecondEntries
           /\ \A i \in Nat : i >= I_LEV_DATA_POINTERS /\ BlockAt(i, 0) <= Block(n)
                 => i \in SecondEntries
           /\ UpTo(Beyond(UpTo(n, ClusterSize)), II_LEV_DATA_POINTERS) <= II_LEV_POINTERS
<1>0. 0 \in Entries
  BY Geometry
<1> DEFINE top == I_LEV_DATA_POINTERS + II_LEV_POINTERS * II_LEV_DATA_POINTERS
<1>1. n < ClusterSize * top /\ top \in Nat
  BY Geometry, LayoutAssumption DEF FilesFit
<1>2. \A b \in Nat : ClusterSize * b <= n => b < top
  <2> TAKE b \in Nat
  <2>1. ASSUME b >= top PROVE ClusterSize * b >= ClusterSize * top
    BY <1>1, <2>1, Geometry
  <2> HIDE DEF top
  <2> QED
    BY <1>1, <2>1, Geometry
<1>3. \A i \in Nat : i >= IEnd => BlockAt(i, 0) >= top
  <2> TAKE i \in Nat
  <2>1. ASSUME i >= IEnd
        PROVE II_LEV_DATA_POINTERS * (i - I_LEV_DATA_POINTERS) >= II_LEV_DATA_POINTERS * II_LEV_POINTERS
    BY <2>1, Geometry
  <2> QED
    BY <2>1, Geometry DEF BlockAt
<1> HIDE DEF top
<1>4. \A i \in Nat : i >= I_LEV_DATA_POINTERS /\ BlockAt(i, 0) < top => i \in SecondEntries
  <2> TAKE i \in Nat
  <2>1. ASSUME i >= I_LEV_DATA_POINTERS, i >= IEnd PROVE ~(BlockAt(i, 0) < top)
    <3>1. BlockAt(i, 0) \in Nat
      BY <1>0, <2>1, BlockOfEntry
    <3> QED
      BY <1>1, <1>3, <2>1, <3>1
  <2> QED
    BY <2>1, Geometry
<1>5. \A b \in Nat : b < top /\ b >= I_LEV_DATA_POINTERS => IIEntry(b) \in SecondEntries
  <2> TAKE b \in Nat
  <2>1. ASSUME b < top, b >= I_LEV_DATA_POINTERS PROVE IIEntry(b) \in SecondEntries
    <3>1. BlockAt(IIEntry(b), 0) <= b /\ IIEntry(b) \in Nat /\ IIEntry(b) >= I_LEV_DATA_POINTERS
      BY <2>1, EntryOfBlock, BlockOfEntry
    <3>2. BlockAt(IIEntry(b), 0) \in Nat
      BY SMTT(30), <3>1, BlockOfEntry, Geometry
    <3> QED
      BY <1>1, <1>4, <2>1, <3>1, <3>2
  <2> QED
    BY <2>1
<1>6. Block(n) < top
  <2> QED
    BY BlockOfByte, <1>2
<1>7. UpTo(Beyond(UpTo(n, ClusterSize)), II_LEV_DATA_POINTERS) <= II_LEV_POINTERS
  <2> DEFINE B == UpTo(n, ClusterSize)
  <2>1. B \in Nat /\ B <= top
    <3>1. \A b \in Nat : b < B <=> ClusterSize * b < n
      BY RoundsUp, Geometry
    <3>2. ~(top < B) /\ B \in Nat
      BY SMTT(30), <1>1, <3>1, RoundsUp, Geometry
    <3> QED
      BY <3>2, <1>1
  <2>2. IEnd \in Nat /\ IEnd >= I_LEV_DATA_POINTERS /\ IEnd - I_LEV_DATA_POINTERS = II_LEV_POINTERS
        /\ BlockAt(IEnd, 0) \in Nat
    BY Geometry, BlockOfEntry
  <2> HIDE DEF B
  <2>3. ~(BlockAt(IEnd, 0) < B)
    BY <1>1, <1>3, <2>1, <2>2
  <2>4. ~(II_LEV_POINTERS < UpTo(Beyond(B), II_LEV_DATA_POINTERS))
        /\ UpTo(Beyond(B), II_LEV_DATA_POINTERS) \in Nat
    BY <2>1, <2>2, <2>3, SecondCount
  <2> QED
    BY <2>4, Geometry DEF B
<1>8. \A b \in Nat : ClusterSize * b <= n /\ b >= I_LEV_DATA_POINTERS
         => IIEntry(b) \in SecondEntries
  BY <1>2, <1>5
<1>9. \A i \in Nat : i >= I_LEV_DATA_POINTERS /\ BlockAt(i, 0) <= Block(n) => i \in SecondEntries
  <2> TAKE i \in Nat
  <2>1. ASSUME i >= I_LEV_DATA_POINTERS, BlockAt(i, 0) <= Block(n) PROVE BlockAt(i, 0) < top
    <3>1. BlockAt(i, 0) \in Nat /\ Block(n) \in Nat
      BY <1>0, <2>1, BlockOfEntry, BlockOfByte
    <3> QED
      BY <1>1, <1>6, <2>1, <3>1
  <2> QED
    BY <2>1, <1>4
<1> QED
  BY <1>7, <1>8, <1>9

\* The places of a second-level index and of a block of a file, and where they are.
LEMMA PlacesOfFile ==
    ASSUME FilesFit, Inv, NEW f \in Files, IsFile(f)
    PROVE  /\ \A j \in 0..IIs(f) - 1 :
                 /\ I_LEV_DATA_POINTERS + j \in SecondEntries
                 /\ InUse(f, I_LEV_DATA_POINTERS + j, HERE)
                 /\ ClusterOn(f, I_LEV_DATA_POINTERS + j, HERE) = IndexOf(f)[I_LEV_DATA_POINTERS + j]
           /\ \A b \in 0..Blocks(f) - 1 :
                 b < I_LEV_DATA_POINTERS =>
                    /\ b \in IEntries /\ InUse(f, b, HERE) /\ ClusterOn(f, b, HERE) = ClusterOf(f, b)
           /\ \A b \in 0..Blocks(f) - 1 :
                 b >= I_LEV_DATA_POINTERS =>
                    /\ IIEntry(b) \in SecondEntries /\ InII(b) \in Entries
                    /\ b = BlockAt(IIEntry(b), InII(b))
                    /\ InUse(f, IIEntry(b), InII(b))
                    /\ ClusterOn(f, IIEntry(b), InII(b)) = ClusterOf(f, b)
           /\ InUse(f, HERE, HERE) /\ ClusterOn(f, HERE, HERE) = NumOf(f)
<1>1. /\ TypeOK /\ SizeOf(f) \in Nat /\ SizeOf(f) <= MaxSize(f)
      /\ Covers(IndexOf(f), allocated, Store(f), Blocks(f))
      /\ \A c \in Clusters : Store(f)[c].pointers = IIOf(f, c)
      /\ IndexOf(f) \in [Entries -> Clusters]
  BY FileTypes DEF Inv, Handle, Layout
<1>2. /\ Blocks(f) \in Nat /\ Blocks(f) = UpTo(SizeOf(f), ClusterSize) /\ IIs(f) \in Nat
      /\ IIs(f) = UpTo(Beyond(Blocks(f)), II_LEV_DATA_POINTERS)
  BY <1>1, FileNumbers
<1>3. ASSUME NEW j \in 0..IIs(f) - 1
      PROVE  /\ I_LEV_DATA_POINTERS + j \in SecondEntries
             /\ InUse(f, I_LEV_DATA_POINTERS + j, HERE)
             /\ ClusterOn(f, I_LEV_DATA_POINTERS + j, HERE) = IndexOf(f)[I_LEV_DATA_POINTERS + j]
  <2>1. j < II_LEV_POINTERS
    BY <1>1, <1>2, FitsEntries, Geometry
  <2>2. I_LEV_DATA_POINTERS + j \in SecondEntries /\ I_LEV_DATA_POINTERS + j \in Nat
    BY <2>1, Geometry
  <2>3. BlockAt(I_LEV_DATA_POINTERS + j, 0) < Blocks(f)
    <3>1. I_LEV_DATA_POINTERS + j >= I_LEV_DATA_POINTERS
          /\ (I_LEV_DATA_POINTERS + j) - I_LEV_DATA_POINTERS = j /\ j < IIs(f)
      BY <1>2, Geometry
    <3> QED
      BY <1>2, <2>2, <3>1, SecondCount
  <2> QED
    BY <1>1, <2>2, <2>3, Geometry DEF Covers, InUse, ClusterOn, On
<1>4. ASSUME NEW b \in 0..Blocks(f) - 1, b < I_LEV_DATA_POINTERS
      PROVE  b \in IEntries /\ InUse(f, b, HERE) /\ ClusterOn(f, b, HERE) = ClusterOf(f, b)
  BY <1>1, <1>2, <1>4, Geometry DEF Covers, InUse, ClusterOn, On, ClusterOf
<1>5. ASSUME NEW b \in 0..Blocks(f) - 1, b >= I_LEV_DATA_POINTERS
      PROVE  /\ IIEntry(b) \in SecondEntries /\ InII(b) \in Entries
             /\ b = BlockAt(IIEntry(b), InII(b))
             /\ InUse(f, IIEntry(b), InII(b))
             /\ ClusterOn(f, IIEntry(b), InII(b)) = ClusterOf(f, b)
  <2>1. b \in Nat /\ ClusterSize * b < SizeOf(f)
    <3>1. b \in Nat /\ b < UpTo(SizeOf(f), ClusterSize)
      BY <1>2
    <3> QED
      BY <1>1, <3>1, RoundsUp, Geometry
  <2>2. IIEntry(b) \in SecondEntries
    BY <1>1, <1>5, <2>1, FitsEntries, Geometry
  <2>3. InII(b) \in Entries /\ b = BlockAt(IIEntry(b), InII(b))
    BY <1>5, <2>1, EntryOfBlock
  <2>4. Held(IndexOf(f), allocated, Store(f), IIEntry(b), InII(b))
    BY <1>1, <1>2, <2>2, <2>3 DEF Covers
  <2>5. IndexOf(f)[IIEntry(b)] \in Clusters /\ IIEntry(b) # HERE /\ InII(b) # HERE
    BY <1>1, <2>2, <2>3, Geometry
  <2> QED
    BY <1>1, <1>5, <2>2, <2>3, <2>4, <2>5, Geometry DEF InUse, ClusterOn, On, ClusterOf
<1> QED
  BY <1>3, <1>4, <1>5 DEF InUse, Held, ClusterOn, On

\* Everything a file is made of is at a place of it.
LEMMA OwnedIsUsed ==
    ASSUME FilesFit, Inv, NEW f \in Files, IsFile(f), NEW c, c \in Owned(f)
    PROVE  \E i, e \in Places : InUse(f, i, e) /\ c = ClusterOn(f, i, e)
<1>1. SecondEntries \subseteq Places /\ Entries \subseteq Places /\ IEntries \subseteq Places
      /\ HERE \in Places
  BY Geometry DEF Places
<1>2. CASE c = NumOf(f)
  BY <1>1, <1>2, PlacesOfFile
<1>3. CASE \E j \in 0..IIs(f) - 1 : c = IndexOf(f)[I_LEV_DATA_POINTERS + j]
  BY <1>1, <1>3, PlacesOfFile
<1>4. CASE \E b \in 0..Blocks(f) - 1 : c = ClusterOf(f, b)
  <2>1. PICK b \in 0..Blocks(f) - 1 : c = ClusterOf(f, b)
    BY <1>4
  <2>2. CASE b < I_LEV_DATA_POINTERS
    <3>1. b \in Places /\ InUse(f, b, HERE) /\ ClusterOn(f, b, HERE) = c
      BY <1>1, <2>1, <2>2, PlacesOfFile
    <3> QED
      BY <3>1, <1>1
  <2>3. CASE b >= I_LEV_DATA_POINTERS
    <3>1. IIEntry(b) \in Places /\ InII(b) \in Places /\ InUse(f, IIEntry(b), InII(b))
          /\ ClusterOn(f, IIEntry(b), InII(b)) = c
      BY <1>1, <2>1, <2>3, PlacesOfFile
    <3> QED
      BY <3>1
  <2>4. b \in Int
    BY FileTypes, FileNumbers DEF Inv
  <2> QED
    BY <2>2, <2>3, <2>4, Geometry
<1> QED
  BY <1>2, <1>3, <1>4 DEF Owned

LEMMA UsedIsAllocatedData ==
    ASSUME Inv, NEW f \in Files, NEW i, NEW e, InUse(f, i, e)
    PROVE  ClusterOn(f, i, e) \in allocated /\ ClusterOn(f, i, e) \in Data
<1>1. NumOf(f) \in allocated /\ allocated \subseteq Data
  BY DEF Inv, Layout, InUse, TypeOK
<1> QED
  BY <1>1, Geometry DEF InUse, Held, ClusterOn, On, Live

LEMMA OwnedIsCounted ==
    ASSUME FilesFit, Inv, NEW f \in Files, IsFile(f)
    PROVE  Cardinality(Owned(f)) = 1 + IIs(f) + Blocks(f)
<1> DEFINE n == IIs(f)
           B == Blocks(f)
           S == {IndexOf(f)[I_LEV_DATA_POINTERS + j] : j \in 0..n - 1}
           T == {ClusterOf(f, b) : b \in 0..B - 1}
           hs == [j \in 0..n - 1 |-> IndexOf(f)[I_LEV_DATA_POINTERS + j]]
           ht == [b \in 0..B - 1 |-> ClusterOf(f, b)]
<1>1. n \in Nat /\ B \in Nat
  BY FileTypes, FileNumbers DEF Inv
<1>2. SecondEntries \subseteq Places /\ Entries \subseteq Places /\ IEntries \subseteq Places
      /\ HERE \in Places /\ HERE \notin Entries /\ IEntries \cap SecondEntries = {}
      /\ IEntries \subseteq Entries /\ SecondEntries \subseteq Entries
  BY Geometry DEF Places
<1>3. \A i, e, j, c \in Places :
         InUse(f, i, e) /\ InUse(f, j, c) /\ ClusterOn(f, i, e) = ClusterOn(f, j, c) => i = j /\ e = c
  BY DEF Inv, Distinct
<1>4. \A j \in 0..n - 1 : /\ I_LEV_DATA_POINTERS + j \in SecondEntries
                          /\ InUse(f, I_LEV_DATA_POINTERS + j, HERE)
                          /\ ClusterOn(f, I_LEV_DATA_POINTERS + j, HERE) = hs[j]
  BY PlacesOfFile
<1>5. \A b \in 0..B - 1 : b < I_LEV_DATA_POINTERS =>
         b \in IEntries /\ InUse(f, b, HERE) /\ ClusterOn(f, b, HERE) = ht[b]
  BY PlacesOfFile
<1>6. \A b \in 0..B - 1 : b >= I_LEV_DATA_POINTERS =>
         /\ IIEntry(b) \in SecondEntries /\ InII(b) \in Entries
         /\ b = BlockAt(IIEntry(b), InII(b))
         /\ InUse(f, IIEntry(b), InII(b)) /\ ClusterOn(f, IIEntry(b), InII(b)) = ht[b]
  BY PlacesOfFile
<1>7. InUse(f, HERE, HERE) /\ ClusterOn(f, HERE, HERE) = NumOf(f)
  BY PlacesOfFile
<1>8. hs \in [0..n - 1 -> S] /\ (\A t \in S : \E x \in 0..n - 1 : t = hs[x])
      /\ ht \in [0..B - 1 -> T] /\ (\A t \in T : \E x \in 0..B - 1 : t = ht[x])
  OBVIOUS
<1>9. Owned(f) = {NumOf(f)} \cup S \cup T
  BY DEF Owned
<1> HIDE DEF hs, ht, S, T, n, B
<1>10. \A x, y \in 0..n - 1 : hs[x] = hs[y] => x = y
  <2> TAKE x, y \in 0..n - 1
  <2>1. ASSUME hs[x] = hs[y] PROVE I_LEV_DATA_POINTERS + x = I_LEV_DATA_POINTERS + y
    BY <1>2, <1>3, <1>4, <2>1
  <2> QED
    BY <2>1, <1>1, Geometry
<1>11. ASSUME NEW x \in 0..B - 1, NEW y \in 0..B - 1, ht[x] = ht[y] PROVE x = y
  <2>1. x \in Nat /\ y \in Nat
    BY <1>1
  <2>2. CASE x < I_LEV_DATA_POINTERS /\ y < I_LEV_DATA_POINTERS
    BY <2>2, <1>2, <1>3, <1>5, <1>11
  <2>3. CASE x >= I_LEV_DATA_POINTERS /\ y >= I_LEV_DATA_POINTERS
    <3>1. IIEntry(x) = IIEntry(y) /\ InII(x) = InII(y)
      BY <2>3, <1>2, <1>3, <1>6, <1>11
    <3> QED
      BY <2>3, <3>1, <1>6
  <2>4. CASE x < I_LEV_DATA_POINTERS /\ y >= I_LEV_DATA_POINTERS
    BY <2>4, <1>2, <1>3, <1>5, <1>6, <1>11
  <2>5. CASE x >= I_LEV_DATA_POINTERS /\ y < I_LEV_DATA_POINTERS
    BY <2>5, <1>2, <1>3, <1>5, <1>6, <1>11
  <2> QED
    BY <2>1, <2>2, <2>3, <2>4, <2>5, Geometry
<1>12. ASSUME NEW x \in 0..n - 1, NEW y \in 0..B - 1 PROVE hs[x] # ht[y]
  <2>1. y \in Nat
    BY <1>1
  <2>2. CASE y < I_LEV_DATA_POINTERS
    <3> SUFFICES ASSUME hs[x] = ht[y] PROVE FALSE
      OBVIOUS
    <3>1. I_LEV_DATA_POINTERS + x = y
      BY <2>2, <1>2, <1>3, <1>4, <1>5
    <3> QED
      BY <3>1, <2>2, <1>1, Geometry
  <2>3. CASE y >= I_LEV_DATA_POINTERS
    BY <2>3, <1>2, <1>3, <1>4, <1>6
  <2> QED
    BY <2>1, <2>2, <2>3, Geometry
<1>13. \A x \in 0..n - 1 : hs[x] # NumOf(f)
  BY <1>2, <1>3, <1>4, <1>7
<1>14. ASSUME NEW y \in 0..B - 1 PROVE ht[y] # NumOf(f)
  <2>1. y \in Nat
    BY <1>1
  <2>2. CASE y < I_LEV_DATA_POINTERS
    BY <2>2, <1>2, <1>3, <1>5, <1>7
  <2>3. CASE y >= I_LEV_DATA_POINTERS
    BY <2>3, <1>2, <1>3, <1>6, <1>7
  <2> QED
    BY <2>1, <2>2, <2>3, Geometry
<1>15. IsFiniteSet(S) /\ Cardinality(S) = n
  BY <1>1, <1>8, <1>10, InjectiveImage
<1>16. IsFiniteSet(T) /\ Cardinality(T) = B
  <2>1. \A x, y \in 0..B - 1 : ht[x] = ht[y] => x = y
    BY <1>11
  <2> QED
    BY <1>1, <1>8, <2>1, InjectiveImage
<1>17. S \cap T = {} /\ NumOf(f) \notin S /\ NumOf(f) \notin T
  BY <1>8, <1>12, <1>13, <1>14
<1>18. Cardinality({NumOf(f)} \cup S \cup T) = 1 + Cardinality(S) + Cardinality(T)
  BY <1>15, <1>16, <1>17, SumOfThree
<1> QED
  BY <1>9, <1>15, <1>16, <1>18 DEF n, B

LEMMA InvImplies ==
    ASSUME FilesFit, Inv
    PROVE  UsedIsAllocated /\ ReleasesOnlyOwn /\ NothingLeaks /\ LeftMatchesSize
<1>1. UsedIsAllocated
  BY OwnedIsUsed, OwnedIsCounted, UsedIsAllocatedData DEF UsedIsAllocated
<1>2. \A f \in Files : IsFile(f) =>
         \A c : c \in Walk(f) <=> \E i, e \in Places : InUse(f, i, e) /\ c = ClusterOn(f, i, e)
  BY WalkIs DEF Inv, TypeOK
<1>3. ReleasesOnlyOwn
  <2> SUFFICES ASSUME NEW f \in Files, NEW g \in Files, f # g, IsFile(f), IsFile(g),
                      NEW c, c \in Walk(f), c \in Owned(g)
               PROVE  FALSE
    BY DEF ReleasesOnlyOwn
  <2>1. PICK i, e \in Places : InUse(f, i, e) /\ c = ClusterOn(f, i, e)
    BY <1>2
  <2>2. PICK j, d \in Places : InUse(g, j, d) /\ c = ClusterOn(g, j, d)
    BY OwnedIsUsed
  <2> QED
    BY <2>1, <2>2 DEF Inv, Distinct
<1>4. NothingLeaks
  <2>1. \A f \in Files : Used(f) = IF IsFile(f) THEN Walk(f) ELSE {}
    BY <1>2, UsedIsAllocatedData DEF Used, InUse
  <2>2. UNION {Used(f) : f \in Files} = UNION {Walk(f) : f \in {g \in Files : IsFile(g)}}
    BY <2>1
  <2> QED
    BY <2>2 DEF Inv, Accounted, NothingLeaks
<1>5. LeftMatchesSize
  <2> SUFFICES ASSUME NEW f \in Files \ cut, slot[f].at \in {"open", "writes"}
               PROVE  /\ slot[f].ILevLeft = I_LEV_DATA_POINTERS - (Blocks(f) - InSecond(f))
                      /\ slot[f].IILevLeft = II_LEV_POINTERS - IIs(f)
                      /\ slot[f].IILevel = "loaded" <=> IIs(f) > 0
                      /\ IIs(f) > 0 =>
                            slot[f].IILevDataLeft = IIs(f) * II_LEV_DATA_POINTERS - InSecond(f)
    BY DEF LeftMatchesSize
  <2>1. Lefts(f) /\ Loaded(f) /\ IsOpen(f)
    BY DEF Inv, IsOpen
  <2>2. slot[f].IILevel \in {"none", "loaded"} /\ IIs(f) \in Nat
    BY FileTypes, FileNumbers DEF Inv, SlotType, SlotRecord
  <2> QED
    BY <2>1, <2>2 DEF Lefts, Loaded
<1> QED
  BY <1>1, <1>3, <1>4, <1>5

-----------------------------------------------------------------------------
\* What a step of one file leaves alone

\* The file is where it was, at the same places.
Same(g) ==
    /\ IsFile(g)' <=> IsFile(g)
    /\ \A i, e \in Places : InUse(g, i, e)' <=> InUse(g, i, e)
    /\ IsFile(g) =>
          /\ NumOf(g)' = NumOf(g) /\ IndexOf(g)' = IndexOf(g)
          /\ \A i \in SecondEntries : InUse(g, i, HERE) =>
                Store(g)'[IndexOf(g)[i]].pointers = Store(g)[IndexOf(g)[i]].pointers

LEMMA PlacesAre ==
    /\ SecondEntries \subseteq Entries /\ IEntries \subseteq Entries /\ Entries \subseteq Places
    /\ HERE \in Places /\ HERE \notin Entries /\ \A i \in Places : i = HERE \/ i \in Entries
    /\ \A i \in Entries : i \in IEntries \/ i \in SecondEntries
BY Geometry DEF Places

LEMMA SameClusters ==
    ASSUME NEW g \in Files, Same(g), NEW i \in Places, NEW e \in Places, InUse(g, i, e)
    PROVE  ClusterOn(g, i, e)' = ClusterOn(g, i, e)
<1>1. IsFile(g) /\ Held(IndexOf(g), allocated, Store(g), i, e)
  BY DEF InUse
<1>2. CASE i = HERE \/ e = HERE
  BY <1>1, <1>2 DEF Same, ClusterOn, On
<1>3. CASE i # HERE /\ e # HERE
  <2>1. i \in SecondEntries /\ e \in Entries /\ InUse(g, i, HERE)
    BY <1>1, <1>3, PlacesAre DEF InUse, Held
  <2> QED
    BY <1>1, <1>3, <2>1 DEF Same, ClusterOn, On
<1> QED
  BY <1>2, <1>3

LEMMA SameLayout ==
    ASSUME NEW g \in Files, Layout(g), Same(g), Blocks(g)' = Blocks(g), g \in cut' <=> g \in cut,
           IsFile(g) => NumOf(g) \in allocated'
    PROVE  Layout(g)'
<1> SUFFICES ASSUME IsFile(g), IsFile(g)' PROVE Layout(g)'
  BY DEF Layout, Same
<1>1. \A i, e \in Places : Held(IndexOf(g), allocated, Store(g), i, e)'
                             <=> Held(IndexOf(g), allocated, Store(g), i, e)
  BY DEF Same, InUse
<1>2. Prefixes(IndexOf(g), allocated, Store(g))'
  BY <1>1, PlacesAre DEF Layout, Prefixes
<1>3. Covers(IndexOf(g), allocated, Store(g), Blocks(g))'
  BY <1>1, PlacesAre DEF Layout, Covers
<1>4. ASSUME g \notin cut PROVE Ends(IndexOf(g), allocated, Store(g), Blocks(g))'
  <2>1. Ends(IndexOf(g), allocated, Store(g), Blocks(g)) /\ IndexOf(g)' = IndexOf(g)
    BY <1>4 DEF Layout, Same
  <2>2. \A i \in SecondEntries : Held(IndexOf(g), allocated, Store(g), i, HERE)' =>
           Store(g)'[IndexOf(g)[i]].pointers = Store(g)[IndexOf(g)[i]].pointers
    BY <1>1, PlacesAre DEF Same, InUse
  <2> QED
    BY <1>1, <2>1, <2>2, PlacesAre DEF Ends
<1> QED
  BY <1>2, <1>3, <1>4 DEF Layout, Same

\* A step of f allocates N, releases R and writes the indices of no other file.
StepOf(f, N, R) ==
    /\ \A g \in Files \ {f} :
          slot'[g] = slot[g] /\ dir'[g] = dir[g] /\ (g \in cut' <=> g \in cut)
    /\ allocated' = (allocated \cup N) \ R /\ N \cap allocated = {} /\ N \subseteq Data
    /\ R \subseteq Used(f) \cup N
    /\ \A c \in Clusters :
          disk'[c].pointers = disk[c].pointers \/ c \notin allocated \/ c \in Used(f)
    /\ N = {} \/ cut = {}

LEMMA OthersAreSame ==
    ASSUME Inv, TypeOK', NEW f \in Files, NEW N, NEW R, StepOf(f, N, R), NEW g \in Files, g # f
    PROVE  Same(g) /\ (IsFile(g) => NumOf(g) \in allocated') /\ SizeOf(g)' = SizeOf(g)
<1>1. slot'[g] = slot[g] /\ dir'[g] = dir[g] /\ (g \in cut' <=> g \in cut)
  BY DEF StepOf
<1>2. IsFile(g)' = IsFile(g) /\ NumOf(g)' = NumOf(g) /\ SizeOf(g)' = SizeOf(g)
  BY <1>1 DEF IsFile, Exists, NumOf, SizeOf, At
<1> SUFFICES ASSUME IsFile(g) PROVE Same(g) /\ NumOf(g) \in allocated'
  BY <1>2 DEF Same, InUse
<1>3. \A i, e \in Places : InUse(g, i, e) =>
         /\ ClusterOn(g, i, e) \in Clusters /\ ClusterOn(g, i, e) \notin R
         /\ disk'[ClusterOn(g, i, e)].pointers = disk[ClusterOn(g, i, e)].pointers
         /\ ClusterOn(g, i, e) \in allocated'
  <2> TAKE i, e \in Places
  <2> SUFFICES ASSUME InUse(g, i, e)
               PROVE  /\ ClusterOn(g, i, e) \in Clusters /\ ClusterOn(g, i, e) \notin R
                      /\ disk'[ClusterOn(g, i, e)].pointers = disk[ClusterOn(g, i, e)].pointers
                      /\ ClusterOn(g, i, e) \in allocated'
    OBVIOUS
  <2>1. ClusterOn(g, i, e) \in allocated /\ ClusterOn(g, i, e) \in Data
    BY UsedIsAllocatedData
  <2>2. ClusterOn(g, i, e) \notin Used(f)
    BY DEF Used, Inv, Distinct
  <2> QED
    BY <2>1, <2>2 DEF StepOf, Clusters
<1>4. InUse(g, HERE, HERE) /\ ClusterOn(g, HERE, HERE) = NumOf(g)
  BY DEF InUse, Held, ClusterOn, On
<1>5. NumOf(g) \in allocated' /\ NumOf(g) \in Clusters
      /\ disk'[NumOf(g)].pointers = disk[NumOf(g)].pointers
  BY <1>3, <1>4, PlacesAre
<1>6. IndexOf(g)' = IndexOf(g)
  BY <1>1, <1>5 DEF IndexOf, NumOf, At
<1>7. /\ IndexOf(g) \in [Entries -> Clusters] /\ Store(g) \in DiskType /\ Store(g)' \in DiskType
      /\ slot[g] \in SlotType /\ disk \in DiskType /\ disk' \in DiskType
  <2>1. slot' \in [Files -> SlotType] /\ disk' \in DiskType
    BY DEF TypeOK, DiskType, SlotType, SlotRecord
  <2> QED
    BY <1>1, <2>1, FileTypes, DiskTypes, FlushedType DEF Inv, Store
<1>8. \A c \in Clusters : disk'[c].pointers = disk[c].pointers
         => Store(g)'[c].pointers = Store(g)[c].pointers
  BY <1>1, <1>7, FlushedType DEF Store
<1>9. \A i \in SecondEntries : InUse(g, i, HERE) =>
         Store(g)'[IndexOf(g)[i]].pointers = Store(g)[IndexOf(g)[i]].pointers
  <2> TAKE i \in SecondEntries
  <2> SUFFICES ASSUME InUse(g, i, HERE)
               PROVE  Store(g)'[IndexOf(g)[i]].pointers = Store(g)[IndexOf(g)[i]].pointers
    OBVIOUS
  <2>1. ClusterOn(g, i, HERE) = IndexOf(g)[i]
    BY PlacesAre DEF ClusterOn, On
  <2> QED
    BY <1>3, <1>8, <2>1, PlacesAre
<1>10. N = {} \/ Ends(IndexOf(g), allocated, Store(g), Blocks(g))
  BY DEF StepOf, Inv, Layout
<1>11. \A p \in Clusters : Live(allocated', p) => Live(allocated, p) \/ (N # {} /\ p # NoCluster)
  BY DEF StepOf, Live
<1>12. ASSUME NEW i \in Entries
       PROVE  /\ Live(allocated', IndexOf(g)[i]) <=> Live(allocated, IndexOf(g)[i])
              /\ InUse(g, i, HERE)' <=> InUse(g, i, HERE)
  <2>1. IndexOf(g)[i] \in Clusters /\ i \in Places /\ i # HERE
    BY <1>7, PlacesAre
  <2>2. ClusterOn(g, i, HERE) = IndexOf(g)[i]
    BY <2>1 DEF ClusterOn, On
  <2>3. InUse(g, i, HERE) <=> Live(allocated, IndexOf(g)[i])
    BY <2>1, PlacesAre DEF InUse, Held
  <2>4. InUse(g, i, HERE)' <=> Live(allocated', IndexOf(g)[i])
    BY <1>2, <1>6, <2>1, PlacesAre DEF InUse, Held
  <2>5. Live(allocated, IndexOf(g)[i]) => Live(allocated', IndexOf(g)[i])
    BY <1>3, <2>1, <2>2, <2>3, PlacesAre DEF Live
  <2>6. ASSUME Live(allocated', IndexOf(g)[i]) PROVE Live(allocated, IndexOf(g)[i])
    <3>1. CASE N # {} /\ IndexOf(g)[i] # NoCluster
      <4>1. (i \in IEntries /\ ~(i >= Blocks(g))) \/ (i \in SecondEntries /\ ~(BlockAt(i, 0) >= Blocks(g)))
        BY <1>10, <3>1, PlacesAre DEF Ends
      <4>2. i \in Int /\ Blocks(g) \in Nat
        BY FileTypes, FileNumbers, Geometry DEF Inv
      <4>4. i \in SecondEntries => BlockAt(i, 0) \in Nat
        BY SecondBlocks
      <4>3. Covers(IndexOf(g), allocated, Store(g), Blocks(g))
        BY DEF Inv, Layout
      <4> QED
        BY <2>1, <2>3, <4>1, <4>2, <4>3, <4>4 DEF Covers, InUse
    <3> QED
      BY <1>11, <2>1, <2>6, <3>1
  <2> QED
    BY <2>3, <2>4, <2>5, <2>6
<1>13. ASSUME NEW i \in SecondEntries, NEW e \in Entries
       PROVE  InUse(g, i, e)' <=> InUse(g, i, e)
  <2>0. i \in Entries /\ i # HERE /\ e # HERE /\ i \in Places /\ e \in Places
    BY PlacesAre
  <2>1. IndexOf(g)[i] \in Clusters
    BY <1>7, <2>0
  <2> SUFFICES ASSUME Live(allocated, IndexOf(g)[i]) PROVE InUse(g, i, e)' <=> InUse(g, i, e)
    BY <1>2, <1>6, <1>12, <2>0 DEF InUse, Held
  <2>2. InUse(g, i, HERE) /\ Store(g)'[IndexOf(g)[i]].pointers = Store(g)[IndexOf(g)[i]].pointers
    BY <1>9, <2>0 DEF InUse, Held
  <2> DEFINE p == Store(g)[IndexOf(g)[i]].pointers[e]
  <2>3. p \in Clusters
    BY <1>7, <2>1, DiskPointers
  <2>4. InUse(g, i, e) <=> Live(allocated, p)
    BY <2>0 DEF InUse, Held
  <2>5. InUse(g, i, e)' <=> Live(allocated', p)
    BY <1>2, <1>6, <1>12, <2>0, <2>2 DEF InUse, Held
  <2>6. ClusterOn(g, i, e) = p
    BY <2>0 DEF ClusterOn, On
  <2> HIDE DEF p
  <2>7. Live(allocated, p) => Live(allocated', p)
    BY <1>3, <2>0, <2>4, <2>6 DEF Live
  <2>8. ASSUME Live(allocated', p), N # {}, p # NoCluster PROVE Live(allocated, p)
    <3>1. ~(BlockAt(i, e) >= Blocks(g))
      BY <1>10, <2>2, <2>8 DEF Ends, InUse, p
    <3>2. Blocks(g) \in Nat /\ BlockAt(i, e) \in Nat
      BY FileTypes, FileNumbers, SecondBlocks DEF Inv
    <3>3. Covers(IndexOf(g), allocated, Store(g), Blocks(g))
      BY DEF Inv, Layout
    <3> QED
      BY <2>4, <3>1, <3>2, <3>3 DEF Covers, InUse
  <2> QED
    BY <1>11, <2>3, <2>4, <2>5, <2>7, <2>8
<1>14. \A i, e \in Places : InUse(g, i, e)' <=> InUse(g, i, e)
  <2> TAKE i, e \in Places
  <2>1. CASE i = HERE
    BY <2>1, <1>2, PlacesAre DEF InUse, Held
  <2>2. CASE i \in Entries /\ e = HERE
    BY <2>2, <1>12
  <2>3. CASE i \in SecondEntries /\ e \in Entries
    BY <2>3, <1>13
  <2>4. CASE i \in Entries /\ i \notin SecondEntries /\ e \in Entries
    BY <2>4, PlacesAre DEF InUse, Held
  <2> QED
    BY <2>1, <2>2, <2>3, <2>4, PlacesAre
<1> QED
  BY <1>2, <1>5, <1>6, <1>9, <1>14 DEF Same

LEMMA OthersKept ==
    ASSUME Inv, TypeOK', NEW f \in Files, NEW N, NEW R, StepOf(f, N, R), NEW g \in Files, g # f
    PROVE  Handle(g)' /\ Layout(g)' /\ Loaded(g)' /\ Lefts(g)'
<1>1. /\ slot'[g] = slot[g] /\ dir'[g] = dir[g] /\ (g \in cut' <=> g \in cut)
      /\ SizeOf(g)' = SizeOf(g) /\ Same(g) /\ (IsFile(g) => NumOf(g) \in allocated')
      /\ Handle(g) /\ Layout(g) /\ Loaded(g) /\ Lefts(g)
  BY OthersAreSame DEF StepOf, Inv
<1>2. Blocks(g)' = Blocks(g) /\ InSecond(g)' = InSecond(g) /\ IIs(g)' = IIs(g)
  BY <1>1 DEF Blocks, InSecond, IIs
<1>3. IsOpen(g)' = IsOpen(g) /\ IsFile(g)' = IsFile(g) /\ Exists(g)' = Exists(g)
      /\ \A k : At(g, k)' = At(g, k)
  BY <1>1 DEF IsOpen, IsFile, Exists, At
<1>4. Handle(g)'
  BY <1>1, <1>3 DEF Handle
<1>5. Layout(g)'
  BY <1>1, <1>2, SameLayout
<1>6. Loaded(g)'
  BY <1>1, <1>2, <1>3 DEF Loaded
<1>7. Lefts(g)'
  BY <1>1, <1>2, <1>3 DEF Lefts
<1> QED
  BY <1>4, <1>5, <1>6, <1>7

\* The clusters of f are those it had, without R, and N.
Moves(f, N, R) ==
    /\ \A i, e \in Places : InUse(f, i, e)' =>
          \/ InUse(f, i, e) /\ ClusterOn(f, i, e)' = ClusterOn(f, i, e)
          \/ ClusterOn(f, i, e)' \in N
    /\ \A i, e, j, c \in Places :
          InUse(f, i, e)' /\ InUse(f, j, c)' /\ ClusterOn(f, i, e)' \in N
             /\ ClusterOn(f, i, e)' = ClusterOn(f, j, c)' => i = j /\ e = c
    /\ At(f, "lost") => At(f, "lost")'
    /\ ~At(f, "lost")' =>
          /\ \A i, e \in Places : InUse(f, i, e) /\ ClusterOn(f, i, e) \notin R =>
                InUse(f, i, e)' /\ ClusterOn(f, i, e)' = ClusterOn(f, i, e)
          /\ \A c \in N \ R : \E i, e \in Places : InUse(f, i, e)' /\ ClusterOn(f, i, e)' = c

LEMMA InvKept ==
    ASSUME Inv, TypeOK', NEW f \in Files, NEW N, NEW R, StepOf(f, N, R), Moves(f, N, R),
           Handle(f)', Layout(f)', Loaded(f)', Lefts(f)'
    PROVE  Inv'
<1>1. \A g \in Files : Handle(g)' /\ Layout(g)' /\ Loaded(g)' /\ Lefts(g)'
  <2> TAKE g \in Files
  <2> QED
    BY OthersKept
<1>2. \A g \in Files \ {f} : \A i, e \in Places :
         /\ InUse(g, i, e)' <=> InUse(g, i, e)
         /\ InUse(g, i, e) => ClusterOn(g, i, e)' = ClusterOn(g, i, e)
  <2> TAKE g \in Files \ {f}
  <2> TAKE i, e \in Places
  <2>1. Same(g)
    BY OthersAreSame
  <2> QED
    BY <2>1, SameClusters DEF Same
<1>3. \A g \in Files : \A i, e \in Places : InUse(g, i, e)' =>
         \/ InUse(g, i, e) /\ ClusterOn(g, i, e)' = ClusterOn(g, i, e)
         \/ g = f /\ ClusterOn(g, i, e)' \in N
  BY <1>2 DEF Moves
<1>4. \A g \in Files : \A i, e \in Places : InUse(g, i, e) =>
         ClusterOn(g, i, e) \in allocated /\ ClusterOn(g, i, e) \in Data /\ ClusterOn(g, i, e) \notin N
  <2> TAKE g \in Files
  <2> TAKE i, e \in Places
  <2> QED
    BY UsedIsAllocatedData DEF StepOf
<1>5. Distinct'
  <2> SUFFICES ASSUME NEW g \in Files, NEW h \in Files, NEW i \in Places, NEW e \in Places,
                      NEW j \in Places, NEW c \in Places, InUse(g, i, e)', InUse(h, j, c)',
                      ClusterOn(g, i, e)' = ClusterOn(h, j, c)'
               PROVE  g = h /\ i = j /\ e = c
    BY DEF Distinct
  <2>1. CASE /\ InUse(g, i, e) /\ ClusterOn(g, i, e)' = ClusterOn(g, i, e)
             /\ InUse(h, j, c) /\ ClusterOn(h, j, c)' = ClusterOn(h, j, c)
    <3>1. Distinct
      BY DEF Inv
    <3>2. ClusterOn(g, i, e) = ClusterOn(h, j, c)
      BY <2>1
    <3> QED
      BY <2>1, <3>1, <3>2 DEF Distinct
  <2>2. CASE g = f /\ ClusterOn(g, i, e)' \in N
    <3>1. h = f
      BY <2>2, <1>3, <1>4
    <3> QED
      BY <2>2, <3>1 DEF Moves
  <2>3. CASE h = f /\ ClusterOn(h, j, c)' \in N
    <3>1. g = f
      BY <2>3, <1>3, <1>4
    <3> QED
      BY <2>3, <3>1 DEF Moves
  <2> QED
    BY <1>3, <2>1, <2>2, <2>3
<1>6. Accounted'
  <2> SUFFICES ASSUME \A g \in Files : ~At(g, "lost")'
               PROVE  allocated' \ UNION {Used(g)' : g \in Files} \in Taken
    BY DEF Accounted
  <2>1. \A g \in Files : ~At(g, "lost")
    <3> TAKE g \in Files
    <3>1. g # f => At(g, "lost")' = At(g, "lost")
      BY DEF StepOf, At
    <3> QED
      BY <3>1 DEF Moves
  <2> DEFINE U == UNION {Used(g) : g \in Files}
             W == UNION {Used(g)' : g \in Files}
  <2>2. \A c : c \in U <=> c \in Data /\ \E g \in Files : \E i, e \in Places :
                              InUse(g, i, e) /\ c = ClusterOn(g, i, e)
    BY DEF Used
  <2>3. \A c : c \in W <=> c \in Data /\ \E g \in Files : \E i, e \in Places :
                              InUse(g, i, e)' /\ c = ClusterOn(g, i, e)'
    BY DEF Used
  <2>4. Used(f) \subseteq U
    OBVIOUS
  <2> HIDE DEF U, W
  <2>5. W \subseteq U \cup N
    BY <1>3, <2>2, <2>3
  <2>6. U \ R \subseteq W
    <3> SUFFICES ASSUME NEW c, c \in U, c \notin R PROVE c \in W
      OBVIOUS
    <3>1. PICK g \in Files : \E i, e \in Places : InUse(g, i, e) /\ c = ClusterOn(g, i, e)
      BY <2>2
    <3>2. PICK i, e \in Places : InUse(g, i, e) /\ c = ClusterOn(g, i, e)
      BY <3>1
    <3>3. InUse(g, i, e)' /\ ClusterOn(g, i, e)' = ClusterOn(g, i, e)
      BY <3>2, <1>2 DEF Moves
    <3>4. c \in Data
      BY <2>2
    <3> QED
      BY <2>3, <3>2, <3>3, <3>4
  <2>7. N \ R \subseteq W
    BY <2>3 DEF Moves, StepOf
  <2>8. allocated' \ W = allocated \ U
    BY <2>4, <2>5, <2>6, <2>7 DEF StepOf
  <2> QED
    BY <2>1, <2>8 DEF Inv, Accounted, U, W
<1> QED
  BY <1>1, <1>5, <1>6 DEF Inv

\* A step of f after which its clusters are the same, and as many blocks of it.
LEMMA SameWhen ==
    ASSUME NEW f \in Files, allocated' = allocated, IsFile(f)' <=> IsFile(f),
           IsFile(f) =>
              /\ NumOf(f)' = NumOf(f) /\ IndexOf(f)' = IndexOf(f)
              /\ \A i \in SecondEntries : InUse(f, i, HERE) =>
                    Store(f)'[IndexOf(f)[i]].pointers = Store(f)[IndexOf(f)[i]].pointers
    PROVE  Same(f)
<1> SUFFICES ASSUME IsFile(f) PROVE \A i, e \in Places : InUse(f, i, e)' <=> InUse(f, i, e)
  BY DEF Same, InUse
<1> TAKE i, e \in Places
<1>1. \A j \in Entries : InUse(f, j, HERE) <=> Live(allocated, IndexOf(f)[j])
  BY PlacesAre DEF InUse, Held
<1>2. \A j \in SecondEntries : Live(allocated, IndexOf(f)[j]) =>
         Store(f)'[IndexOf(f)[j]].pointers = Store(f)[IndexOf(f)[j]].pointers
  BY <1>1, PlacesAre
<1> QED
  BY <1>2 DEF InUse, Held

LEMMA QuietStep ==
    ASSUME Inv, TypeOK', NEW f \in Files, StepOf(f, {}, {}), Same(f), cut' = cut,
           IsFile(f) => Blocks(f)' = Blocks(f), At(f, "lost")' <=> At(f, "lost"),
           Handle(f)', Loaded(f)', Lefts(f)'
    PROVE  Inv'
<1>1. Moves(f, {}, {})
  BY SameClusters DEF Moves, Same
<1>2. allocated' = allocated
  BY DEF StepOf
<1>3. Layout(f)'
  <2>1. CASE IsFile(f)
    BY <2>1, <1>2, SameLayout DEF Inv, Layout
  <2>2. CASE ~IsFile(f)
    BY <2>2 DEF Same, Layout
  <2> QED
    BY <2>1, <2>2
<1> QED
  BY <1>1, <1>3, InvKept

\* A file that is lost, or not yet rewritten, has no places.
LEMMA GoneStep ==
    ASSUME Inv, TypeOK', NEW f \in Files, NEW R, StepOf(f, {}, R), ~IsFile(f)', Handle(f)',
           \/ At(f, "lost")'
           \/ ~At(f, "lost") /\ ~At(f, "lost")' /\ (IsFile(f) => Used(f) \subseteq R),
           ~IsOpen(f)'
    PROVE  Inv'
<1>1. Moves(f, {}, R)
  <2>1. \A i, e \in Places : InUse(f, i, e) => ClusterOn(f, i, e) \in Used(f)
    BY UsedIsAllocatedData DEF Used
  <2> QED
    BY <2>1 DEF Moves, InUse
<1>2. Layout(f)' /\ Loaded(f)' /\ Lefts(f)'
  BY DEF Layout, Loaded, Lefts
<1> QED
  BY <1>1, <1>2, InvKept

-----------------------------------------------------------------------------
\* The steps

LEMMA InitKeeps == Init => Inv
<1> SUFFICES ASSUME Init PROVE Inv
  OBVIOUS
<1>1. NoPointers \in [Entries -> Clusters] /\ Closed \in SlotType /\ Blank \in [0..ClusterSize - 1 -> Bytes \cup {Nothing}]
  <2>1. Closed \in SlotRecord /\ Closed.IILevel = "none"
    BY Geometry DEF NoPointers, Clusters, NoCluster, Closed, SlotRecord
  <2>2. NoPointers \in [Entries -> Clusters] /\ Blank \in [0..ClusterSize - 1 -> Bytes \cup {Nothing}]
    BY DEF NoPointers, Clusters, Blank
  <2> QED
    BY <2>1, <2>2 DEF SlotType
<1>2. TypeOK
  <2>1. allocated \subseteq Data
    BY LayoutAssumption DEF Init
  <2>2. disk \in DiskType
    BY <1>1 DEF Init, AsIndex, DiskType
  <2>3. slot \in [Files -> SlotType]
    BY <1>1 DEF Init
  <2>4. dir \in [Files -> [num : Clusters, size : Nat]]
    BY DEF Init, NoEntry, Clusters
  <2> QED
    BY <2>1, <2>2, <2>3, <2>4 DEF Init, TypeOK, DiskType, SlotType, SlotRecord
<1>3. \A f \in Files : At(f, "closed") /\ slot[f].IILevel = "none" /\ ~IsFile(f) /\ ~IsOpen(f)
  BY DEF Init, At, Closed, IsFile, Exists, NoEntry, IsOpen
<1>4. \A f \in Files : Handle(f) /\ Layout(f) /\ Loaded(f) /\ Lefts(f)
  BY <1>3 DEF Init, Handle, Layout, Loaded, Lefts, At
<1>5. Distinct
  BY <1>3 DEF Distinct, InUse
<1>6. Accounted
  <2>1. \A f \in Files : Used(f) = {}
    BY <1>3 DEF Used, InUse
  <2>2. UNION {Used(f) : f \in Files} = {}
    BY <2>1
  <2> QED
    BY <2>2 DEF Init, Accounted
<1> QED
  BY <1>2, <1>4, <1>5, <1>6 DEF Inv

\* The types after a step that gives f the slot s.
LEMMA TypesAfter ==
    ASSUME TypeOK, NEW f \in Files, NEW s \in SlotType, slot' = [slot EXCEPT ![f] = s],
           allocated' \subseteq Data, disk' \in DiskType, dir' \in [Files -> [num : Clusters, size : Nat]],
           cut' \subseteq Files, ret' \in Bytes \cup {Nothing}
    PROVE  TypeOK' /\ slot'[f] = s /\ slot' \in [Files -> SlotType]
<1>1. slot \in [Files -> SlotType]
  BY DiskTypes
<1>2. slot' \in [Files -> SlotType] /\ slot'[f] = s
  BY <1>1
<1> QED
  BY <1>2 DEF TypeOK, DiskType, SlotType, SlotRecord

LEMMA FailsKeep ==
    ASSUME Inv, NEW f \in Files, CreateFails(f) \/ RewriteFails(f)
    PROVE  Inv'
<1> DEFINE s == [slot[f] EXCEPT !.at = "lost"]
<1>1. slot[f] \in SlotType /\ TypeOK /\ allocated \subseteq Data /\ disk \in DiskType
      /\ cut \subseteq Files /\ dir \in [Files -> [num : Clusters, size : Nat]]
      /\ slot \in [Files -> SlotType]
  BY FileTypes, DiskTypes DEF Inv, TypeOK
<1>2. slot' = [slot EXCEPT ![f] = s] /\ s \in SlotType
  BY <1>1 DEF SlotType, SlotRecord, CreateFails, RewriteFails
<1>3. ret' = Nothing /\ allocated' = allocated /\ disk' = disk /\ dir' = dir /\ cut' = cut
      /\ ~IsOpen(f) /\ ~IsFile(f)
  BY DEF CreateFails, RewriteFails, IsOpen, IsFile, At
<1> HIDE DEF s
<1>4. TypeOK' /\ slot'[f] = s
  BY <1>1, <1>2, <1>3, TypesAfter
<1>5. At(f, "lost")' /\ ~IsFile(f)' /\ ~IsOpen(f)'
  BY <1>1, <1>4 DEF s, At, IsFile, IsOpen, SlotType, SlotRecord
<1>6. Handle(f)'
  BY <1>1, <1>3, <1>4, <1>5 DEF Handle, At, Inv, s, SlotType, SlotRecord
<1>7. StepOf(f, {}, {})
  BY <1>1, <1>2, <1>3 DEF StepOf
<1> QED
  BY <1>4, <1>5, <1>6, <1>7, GoneStep

\* A step of the user of f after which the file has the same clusters: of the slot s
\* only the place in the call, the cursor and the size are new.
UserStep(f, s) ==
    /\ slot' = [slot EXCEPT ![f] = s] /\ s \in SlotType /\ IsOpen(f) /\ s.at \in {"open", "writes"}
    /\ s.num = slot[f].num /\ s.index = slot[f].index /\ s.mode = slot[f].mode
    /\ s.IILevel = slot[f].IILevel /\ s.II = slot[f].II /\ s.IInum = slot[f].IInum
    /\ s.ILevLeft = slot[f].ILevLeft /\ s.IILevLeft = slot[f].IILevLeft
    /\ s.IILevDataLeft = slot[f].IILevDataLeft
    /\ s.cursor <= s.size /\ s.size <= MaxSize(f)
    /\ s.size = slot[f].size \/ s.mode # "r"
    /\ UpTo(s.size, ClusterSize) = UpTo(slot[f].size, ClusterSize)
    /\ s.at = "writes" => s.mode # "r" /\ s.left > 0 /\ s.cursor + s.left <= MaxSize(f)
    /\ UNCHANGED <<allocated, dir, cut>>

LEMMA UserStepKeeps ==
    ASSUME Inv, NEW f \in Files, NEW s, UserStep(f, s), disk' \in DiskType,
           ret' \in Bytes \cup {Nothing},
           \A c \in Clusters : disk'[c].pointers = disk[c].pointers
              \/ (c \in Used(f) /\ \A i \in SecondEntries : InUse(f, i, HERE) => c # IndexOf(f)[i])
    PROVE  Inv'
<1>1. slot[f] \in SlotType /\ TypeOK /\ allocated \subseteq Data /\ disk \in DiskType
      /\ cut \subseteq Files /\ dir \in [Files -> [num : Clusters, size : Nat]]
      /\ slot \in [Files -> SlotType] /\ IndexOf(f) \in [Entries -> Clusters]
      /\ Handle(f) /\ Loaded(f) /\ Lefts(f)
  BY FileTypes, DiskTypes DEF Inv, TypeOK
<1>2. TypeOK' /\ slot'[f] = s
  BY <1>1, TypesAfter DEF UserStep
<1>3. StepOf(f, {}, {})
  BY <1>1 DEF UserStep, StepOf
<1>4. ~At(f, "closed") /\ ~At(f, "closed")' /\ ~At(f, "lost") /\ ~At(f, "lost")' /\ IsOpen(f)'
      /\ IsOpen(f) /\ ~At(f, "rewrites") /\ ~At(f, "rewrites")' /\ dir' = dir /\ cut' = cut
      /\ allocated' = allocated
  BY <1>2 DEF UserStep, IsOpen, At
<1>5. IsFile(f) /\ IsFile(f)' /\ Exists(f) /\ Exists(f)'
  BY <1>1, <1>2, <1>4 DEF Handle, IsFile, Exists, UserStep, IsOpen
<1>6. NumOf(f) = slot[f].num /\ IndexOf(f) = slot[f].index /\ SizeOf(f) = slot[f].size
      /\ NumOf(f)' = NumOf(f) /\ IndexOf(f)' = IndexOf(f) /\ SizeOf(f)' = s.size
  BY <1>2, <1>4 DEF NumOf, IndexOf, SizeOf, UserStep
<1>7. Blocks(f)' = Blocks(f) /\ InSecond(f)' = InSecond(f) /\ IIs(f)' = IIs(f)
  BY <1>6 DEF Blocks, InSecond, IIs, UserStep
<1>8. Same(f)
  <2>1. ASSUME NEW i \in SecondEntries, InUse(f, i, HERE)
        PROVE  Store(f)'[IndexOf(f)[i]].pointers = Store(f)[IndexOf(f)[i]].pointers
    <3>1. IndexOf(f)[i] \in Clusters
      BY <1>1, PlacesAre
    <3>2. disk'[IndexOf(f)[i]].pointers = disk[IndexOf(f)[i]].pointers
      BY <2>1, <3>1
    <3>3. s \in SlotType /\ s.IILevel = slot[f].IILevel /\ s.II = slot[f].II /\ s.IInum = slot[f].IInum
      BY DEF UserStep
    <3> QED
      BY SMTT(30), <1>1, <1>2, <3>1, <3>2, <3>3, FlushedType DEF Store
  <2> QED
    BY <1>4, <1>5, <1>6, <2>1, SameWhen
<1>9. Handle(f)'
  BY <1>1, <1>2, <1>4, <1>5, <1>6 DEF Handle, UserStep, At
<1>10. Loaded(f)'
  BY <1>1, <1>2, <1>4, <1>7 DEF Loaded, UserStep
<1>11. Lefts(f)'
  BY <1>1, <1>2, <1>4, <1>7 DEF Lefts, UserStep
<1> QED
  BY <1>2, <1>3, <1>4, <1>7, <1>8, <1>9, <1>10, <1>11, QuietStep

LEMMA UserStepOnly ==
    ASSUME Inv, NEW f \in Files, NEW s, UserStep(f, s), disk' = disk, ret' \in Bytes \cup {Nothing}
    PROVE  Inv'
<1>1. disk' \in DiskType
  BY DiskTypes DEF Inv
<1>2. \A c \in Clusters : disk'[c].pointers = disk[c].pointers
         \/ (c \in Used(f) /\ \A i \in SecondEntries : InUse(f, i, HERE) => c # IndexOf(f)[i])
  <2>1. \A c \in Clusters : disk'[c].pointers = disk[c].pointers
    OBVIOUS
  <2> QED
    BY <2>1
<1> QED
  BY <1>1, <1>2, UserStepKeeps

LEMMA WriteCallKeeps ==
    ASSUME Inv, NEW f \in Files, NEW n \in Lengths, WriteCall(f, n)
    PROVE  Inv'
<1> DEFINE s == [slot[f] EXCEPT !.at = "writes", !.left = n, !.done = 0]
<1>1. slot[f] \in SlotType /\ disk \in DiskType /\ n \in Nat /\ n > 0 /\ Handle(f)
      /\ slot \in [Files -> SlotType]
  BY FileTypes, DiskTypes, LayoutAssumption DEF Inv
<1>2. slot' = [slot EXCEPT ![f] = s] /\ s \in SlotType
  BY <1>1 DEF SlotType, SlotRecord, WriteCall
<1>3. IsOpen(f) /\ IsFile(f) /\ slot[f].cursor <= slot[f].size /\ SizeOf(f) = slot[f].size
      /\ slot[f].size <= MaxSize(f)
  BY <1>1 DEF WriteCall, At, IsOpen, Handle, IsFile, Exists, SizeOf
<1>4. UserStep(f, s)
  BY <1>1, <1>2, <1>3 DEF UserStep, WriteCall, SlotType, SlotRecord
<1> HIDE DEF s
<1>5. disk' = disk /\ ret' \in Bytes \cup {Nothing}
  BY DEF WriteCall
<1> QED
  BY <1>4, <1>5, UserStepOnly

LEMMA SeekKeeps ==
    ASSUME Inv, NEW f \in Files, Seek(f)
    PROVE  Inv'
<1>1. slot[f] \in SlotType /\ disk \in DiskType /\ Handle(f) /\ slot \in [Files -> SlotType]
  BY FileTypes, DiskTypes DEF Inv
<1>2. PICK p \in 0..slot[f].size : slot' = [slot EXCEPT ![f].cursor = p]
  BY DEF Seek
<1>6. slot[f].size \in Nat /\ p \in Nat /\ p <= slot[f].size
  BY <1>1, <1>2 DEF SlotType, SlotRecord
<1> DEFINE s == [slot[f] EXCEPT !.cursor = p]
<1>3. slot' = [slot EXCEPT ![f] = s] /\ s \in SlotType
  BY <1>1, <1>2, <1>6 DEF SlotType, SlotRecord
<1>4. IsOpen(f) /\ IsFile(f) /\ SizeOf(f) = slot[f].size /\ slot[f].size <= MaxSize(f)
  BY <1>1 DEF Seek, At, IsOpen, Handle, IsFile, Exists, SizeOf
<1>5. UserStep(f, s)
  BY <1>1, <1>3, <1>4, <1>6 DEF UserStep, Seek, SlotType, SlotRecord, At
<1> HIDE DEF s
<1>7. disk' = disk /\ ret' \in Bytes \cup {Nothing}
  BY DEF Seek
<1> QED
  BY <1>5, <1>7, UserStepOnly

LEMMA ReadKeeps ==
    ASSUME FilesFit, Inv, NEW f \in Files, Read(f)
    PROVE  Inv'
<1>1. slot[f] \in SlotType /\ disk \in DiskType /\ Handle(f) /\ slot \in [Files -> SlotType]
      /\ slot[f].cursor \in Nat /\ slot[f].size \in Nat
  BY FileTypes, DiskTypes DEF Inv, SlotType, SlotRecord
<1>2. IsOpen(f) /\ IsFile(f) /\ SizeOf(f) = slot[f].size /\ slot[f].size <= MaxSize(f)
      /\ slot[f].index = IndexOf(f) /\ slot[f].at = "open"
  BY <1>1 DEF Read, At, IsOpen, Handle, IsFile, Exists, SizeOf, IndexOf
<1>5. disk' = disk /\ UNCHANGED <<allocated, dir, cut>>
  BY DEF Read
<1>3. CASE slot[f].cursor >= slot[f].size
  <2> DEFINE s == [slot[f] EXCEPT !.cursor = slot[f].size]
  <2>1. slot' = [slot EXCEPT ![f] = s] /\ s \in SlotType
    BY <1>1, <1>3 DEF SlotType, SlotRecord, Read
  <2>2. UserStep(f, s)
    <3>1. /\ s.at = "open" /\ s.cursor = slot[f].size /\ s.size = slot[f].size
          /\ s.num = slot[f].num /\ s.index = slot[f].index /\ s.mode = slot[f].mode
          /\ s.IILevel = slot[f].IILevel /\ s.II = slot[f].II /\ s.IInum = slot[f].IInum
          /\ s.ILevLeft = slot[f].ILevLeft /\ s.IILevLeft = slot[f].IILevLeft
          /\ s.IILevDataLeft = slot[f].IILevDataLeft
      BY <1>1, <1>2 DEF SlotType, SlotRecord
    <3> HIDE DEF s
    <3>2. s.cursor <= s.size
      BY <1>1, <3>1
    <3> QED
      BY <1>2, <1>5, <2>1, <3>1, <3>2 DEF UserStep
  <2> HIDE DEF s
  <2>3. ret' \in Bytes \cup {Nothing}
    BY <1>3 DEF Read
  <2> QED
    BY <1>5, <2>2, <2>3, UserStepOnly
<1>4. CASE ~(slot[f].cursor >= slot[f].size)
  <2> DEFINE s == [slot[f] EXCEPT !.cursor = slot[f].cursor + 1]
             b == Block(slot[f].cursor)
             i == slot[f].cursor % ClusterSize
  <2>1. slot' = [slot EXCEPT ![f] = s] /\ s \in SlotType
    <3>1. slot' = [slot EXCEPT ![f].cursor = slot[f].cursor + 1]
      BY <1>1, <1>4 DEF Read
    <3>2. slot[f].cursor + 1 \in Nat
      BY <1>1
    <3> QED
      BY <1>1, <3>1, <3>2 DEF SlotType, SlotRecord
  <2>2. UserStep(f, s)
    <3>1. /\ s.at = "open" /\ s.cursor = slot[f].cursor + 1 /\ s.size = slot[f].size
          /\ s.num = slot[f].num /\ s.index = slot[f].index /\ s.mode = slot[f].mode
          /\ s.IILevel = slot[f].IILevel /\ s.II = slot[f].II /\ s.IInum = slot[f].IInum
          /\ s.ILevLeft = slot[f].ILevLeft /\ s.IILevLeft = slot[f].IILevLeft
          /\ s.IILevDataLeft = slot[f].IILevDataLeft
      BY <1>1, <1>2 DEF SlotType, SlotRecord
    <3> HIDE DEF s
    <3>2. s.cursor <= s.size
      BY <1>1, <1>4, <3>1
    <3> QED
      BY <1>2, <1>5, <2>1, <3>1, <3>2 DEF UserStep
  <2>3. b \in Nat /\ i \in 0..ClusterSize - 1 /\ ClusterSize * b <= slot[f].size
    <3>1. b \in Nat /\ i \in 0..ClusterSize - 1 /\ ClusterSize * b \in Nat
          /\ ClusterSize * b <= slot[f].cursor
      BY <1>1, BlockOfByte
    <3> QED
      BY <1>1, <1>4, <3>1
  <2>4. ReadFrom(slot[f], b) \in Clusters
    <3>1. slot[f].index \in [Entries -> Clusters]
      BY <1>1 DEF SlotType, SlotRecord
    <3>2. CASE b < I_LEV_DATA_POINTERS
      BY <2>3, <3>1, <3>2, Geometry DEF ReadFrom
    <3>3. CASE ~(b < I_LEV_DATA_POINTERS)
      <4>1. IIEntry(b) \in SecondEntries /\ InII(b) \in Entries
        <5> HIDE DEF b
        <5>1. b >= I_LEV_DATA_POINTERS
          BY <2>3, <3>3, Geometry
        <5> QED
          BY <1>1, <1>2, <2>3, <5>1, FitsEntries, EntryOfBlock
      <4>2. slot[f].index[IIEntry(b)] \in Clusters
        BY <3>1, <4>1, PlacesAre
      <4>3. disk[slot[f].index[IIEntry(b)]].pointers \in [Entries -> Clusters]
        BY <1>1, <4>2, DiskPointers
      <4> QED
        BY <3>3, <4>1, <4>3 DEF ReadFrom
    <3> QED
      BY <3>2, <3>3
  <2>5. ret' \in Bytes \cup {Nothing}
    <3>1. ret' = disk[ReadFrom(slot[f], b)].bytes[i]
      BY <1>4 DEF Read
    <3>2. disk[ReadFrom(slot[f], b)].bytes \in [0..ClusterSize - 1 -> Bytes \cup {Nothing}]
      BY <1>1, <2>4 DEF DiskType
    <3> HIDE DEF i, b
    <3> QED
      BY <2>3, <3>1, <3>2
  <2> HIDE DEF s
  <2> QED
    BY <1>5, <2>2, <2>5, UserStepOnly
<1> QED
  BY <1>3, <1>4

\* The round of a write puts a byte into a cluster the file has for it.
LEMMA Rounds ==
    ASSUME NEW s \in SlotType, s.left > 0
    PROVE  /\ Rounded(s, 1) \in SlotType
           /\ Rounded(s, 1).cursor = s.cursor + 1 /\ Rounded(s, 1).left = s.left - 1
           /\ Rounded(s, 1).done = s.done + 1
           /\ Rounded(s, 1).at = IF s.left = 1 THEN "open" ELSE "writes"
           /\ Rounded(s, 1).size = IF s.cursor = s.size THEN s.size + 1 ELSE s.size
           /\ Rounded(s, 1).num = s.num /\ Rounded(s, 1).index = s.index
           /\ Rounded(s, 1).mode = s.mode /\ Rounded(s, 1).IILevel = s.IILevel
           /\ Rounded(s, 1).II = s.II /\ Rounded(s, 1).IInum = s.IInum
           /\ Rounded(s, 1).ILevLeft = s.ILevLeft /\ Rounded(s, 1).IILevLeft = s.IILevLeft
           /\ Rounded(s, 1).IILevDataLeft = s.IILevDataLeft
<1> DEFINE z == IF s.cursor = s.size THEN s.size + 1 ELSE s.size
           a == IF s.left = 1 THEN "open" ELSE "writes"
<1>1. /\ s.cursor \in Nat /\ s.size \in Nat /\ s.left \in Nat /\ s.done \in Nat
      /\ s.cursor + 1 \in Nat /\ s.left - 1 \in Nat /\ s.done + 1 \in Nat /\ z \in Nat
      /\ a \in {"closed", "open", "writes", "rewrites", "lost"}
  BY DEF SlotType, SlotRecord
<1>2. Rounded(s, 1) = [s EXCEPT !.cursor = s.cursor + 1, !.left = s.left - 1, !.done = s.done + 1,
                                !.at = a, !.size = z]
  BY DEF Rounded, SlotType, SlotRecord
<1> HIDE DEF z, a
<1>3. Rounded(s, 1) \in SlotType
  BY ZenonT(30), <1>1, <1>2 DEF SlotType, SlotRecord
<1> QED
  BY <1>1, <1>2, <1>3 DEF SlotType, SlotRecord, z, a

LEMMA ByteWritten ==
    ASSUME NEW d \in DiskType, NEW c \in Clusters, NEW i \in 0..ClusterSize - 1, NEW v \in Bytes
    PROVE  WithByte(d[c], i, v) \in [bytes : [0..ClusterSize - 1 -> Bytes \cup {Nothing}],
                                     pointers : [Entries -> Clusters]]
<1>1. d[c].bytes \in [0..ClusterSize - 1 -> Bytes \cup {Nothing}] /\ NoPointers \in [Entries -> Clusters]
  BY DEF DiskType, NoPointers, Clusters
<1> QED
  BY <1>1 DEF WithByte

LEMMA Written ==
    ASSUME Inv, NEW f \in Files, NEW v \in Writes(f, slot[f].cursor), At(f, "writes")
    PROVE  /\ v \in Bytes /\ slot[f].left > 0 /\ slot[f].left \in Nat /\ slot[f].cursor \in Nat
           /\ slot[f].size \in Nat /\ slot[f].cursor <= slot[f].size
           /\ slot[f].cursor + slot[f].left <= MaxSize(f) /\ slot[f].size <= MaxSize(f)
           /\ slot[f] \in SlotType /\ slot[f].mode # "r" /\ MaxSize(f) \in Nat
           /\ IsOpen(f) /\ IsFile(f) /\ SizeOf(f) = slot[f].size
           /\ IndexOf(f) = slot[f].index /\ NumOf(f) = slot[f].num
<1>1. slot[f] \in SlotType /\ Handle(f)
  BY FileTypes DEF Inv
<1>2. IsOpen(f) /\ IsFile(f) /\ SizeOf(f) = slot[f].size /\ IndexOf(f) = slot[f].index
      /\ NumOf(f) = slot[f].num
  BY <1>1 DEF At, IsOpen, IsFile, Handle, Exists, SizeOf, IndexOf, NumOf
<1>3. slot[f].cursor \in Nat /\ slot[f].left \in Nat /\ slot[f].left > 0
      /\ slot[f].cursor + slot[f].left <= MaxSize(f) /\ MaxSize(f) \in Nat /\ slot[f].size \in Nat
  BY <1>1, LayoutAssumption DEF SlotType, SlotRecord, Handle
<1>4. slot[f].cursor \in 0..MaxSize(f)
  BY <1>3
<1> QED
  BY <1>1, <1>2, <1>3, <1>4, LayoutAssumption DEF Handle

\* The step leaves every cluster but c as it is in d.
OnlyAt(c, d) == \A k \in Clusters : k # c => disk'[k] = d[k]

\* One more byte of the call is written.
ByteDone(f) ==
    /\ slot'[f].at \in {"open", "writes"} /\ slot'[f].mode = slot[f].mode
    /\ slot'[f].cursor = slot[f].cursor + 1 /\ slot'[f].done = slot[f].done + 1

\* The byte v goes to the cluster that the file has for the block of its cursor.
InPlace(f, v) ==
    /\ At(f, "writes") /\ Block(slot[f].cursor) \in 0..Blocks(f) - 1
    /\ WriteTo(f, slot[f], ClusterOf(f, Block(slot[f].cursor)), v, disk, 1)

\* Block b is one of the file, with its cluster c.
LEMMA PutKeeps ==
    ASSUME FilesFit, Inv, NEW f \in Files, NEW v \in Writes(f, slot[f].cursor), At(f, "writes"),
           NEW b \in 0..Blocks(f) - 1, NEW c, c = ClusterOf(f, b),
           slot[f].cursor # slot[f].size \/ slot[f].cursor % ClusterSize # 0,
           WriteTo(f, slot[f], c, v, disk, 1), UNCHANGED allocated
    PROVE  Inv' /\ \E k \in Used(f) : OnlyAt(k, disk)
<1> DEFINE s == slot[f]
           r == Rounded(s, 1)
<1>1. /\ v \in Bytes /\ s.left > 0 /\ s.left \in Nat /\ s.cursor \in Nat
      /\ s.size \in Nat /\ s.cursor <= s.size /\ s.cursor + s.left <= MaxSize(f)
      /\ s.size <= MaxSize(f) /\ s \in SlotType /\ s.mode # "r" /\ MaxSize(f) \in Nat
      /\ IsOpen(f) /\ IsFile(f) /\ SizeOf(f) = s.size /\ disk \in DiskType
  BY Written, DiskTypes DEF Inv
<1>2. /\ slot' = [slot EXCEPT ![f] = r] /\ ret' = Nothing /\ UNCHANGED <<allocated, dir, cut>>
      /\ disk' = [disk EXCEPT ![c] = WithByte(@, s.cursor % ClusterSize, v)]
  BY DEF WriteTo
<1>3. c \in Used(f) /\ c \in Clusters /\ \A i \in SecondEntries : InUse(f, i, HERE) => c # IndexOf(f)[i]
  <2>1. PICK i \in Places, e \in Places :
           InUse(f, i, e) /\ ClusterOn(f, i, e) = c /\ (e = HERE => i \notin SecondEntries)
    <3>1. b \in Int
      BY <1>1, FileNumbers
    <3>2. CASE b < I_LEV_DATA_POINTERS
      <4>1. b \in IEntries /\ InUse(f, b, HERE) /\ ClusterOn(f, b, HERE) = c
        BY <1>1, <3>2, PlacesOfFile
      <4> QED
        BY <4>1, Geometry, PlacesAre
    <3>3. CASE b >= I_LEV_DATA_POINTERS
      <4>1. IIEntry(b) \in SecondEntries /\ InII(b) \in Entries /\ InUse(f, IIEntry(b), InII(b))
            /\ ClusterOn(f, IIEntry(b), InII(b)) = c
        BY <1>1, <3>3, PlacesOfFile
      <4> QED
        BY <4>1, PlacesAre
    <3> QED
      BY <3>1, <3>2, <3>3, Geometry
  <2>2. c \in Data
    BY <2>1, UsedIsAllocatedData
  <2>3. ASSUME NEW j \in SecondEntries, InUse(f, j, HERE) PROVE c # IndexOf(f)[j]
    <3>1. ClusterOn(f, j, HERE) = IndexOf(f)[j] /\ j \in Places
      BY PlacesAre DEF ClusterOn, On
    <3>2. \A i1, e1, j1, c1 \in Places :
             InUse(f, i1, e1) /\ InUse(f, j1, c1) /\ ClusterOn(f, i1, e1) = ClusterOn(f, j1, c1)
                => i1 = j1 /\ e1 = c1
      BY DEF Inv, Distinct
    <3> QED
      BY <2>1, <2>3, <3>1, <3>2, PlacesAre
  <2> QED
    BY <2>1, <2>2, <2>3 DEF Used, Clusters
<1>4. /\ r \in SlotType /\ r.cursor = s.cursor + 1 /\ r.left = s.left - 1
      /\ r.at = IF s.left = 1 THEN "open" ELSE "writes"
      /\ r.size = IF s.cursor = s.size THEN s.size + 1 ELSE s.size
      /\ r.num = s.num /\ r.index = s.index /\ r.mode = s.mode /\ r.IILevel = s.IILevel
      /\ r.II = s.II /\ r.IInum = s.IInum /\ r.ILevLeft = s.ILevLeft
      /\ r.IILevLeft = s.IILevLeft /\ r.IILevDataLeft = s.IILevDataLeft
  BY <1>1, Rounds
<1>5. UpTo(r.size, ClusterSize) = UpTo(s.size, ClusterSize)
  <2> HIDE DEF s, r
  <2>1. CASE s.cursor = s.size
    <3>1. (s.size % ClusterSize) # 0
      BY <2>1 DEF s
    <3>2. UpTo(s.size + 1, ClusterSize) = s.size \div ClusterSize + 1
      BY <1>1, RoundsUp, Geometry
    <3>3. UpTo(s.size, ClusterSize) = s.size \div ClusterSize + 1
      BY <1>1, <3>1, RoundsUp, Geometry
    <3> QED
      BY <1>4, <2>1, <3>2, <3>3
  <2>2. CASE s.cursor # s.size
    BY <1>4, <2>2
  <2> QED
    BY <2>1, <2>2
<1>6. UserStep(f, r)
  <2> HIDE DEF r
  <2>1. r.at \in {"open", "writes"} /\ r.cursor <= r.size /\ r.size <= MaxSize(f)
        /\ (r.at = "writes" => r.left > 0 /\ r.cursor + r.left <= MaxSize(f))
    BY <1>1, <1>4
  <2> QED
    BY <1>1, <1>2, <1>4, <1>5, <2>1 DEF UserStep
<1>7. disk' \in DiskType /\ \A k \in Clusters : k # c => disk'[k] = disk[k]
  <2> DEFINE i == s.cursor % ClusterSize
  <2>1. i \in 0..ClusterSize - 1 /\ c \in Clusters /\ v \in Bytes /\ disk \in DiskType
        /\ disk' = [disk EXCEPT ![c] = WithByte(@, i, v)]
    BY <1>1, <1>2, <1>3, BlockOfByte
  <2> HIDE DEF i, s, r
  <2>2. WithByte(disk[c], i, v) \in [bytes : [0..ClusterSize - 1 -> Bytes \cup {Nothing}],
                                     pointers : [Entries -> Clusters]]
    BY <2>1, ByteWritten
  <2> QED
    BY <2>1, <2>2 DEF DiskType
<1>8. \A k \in Clusters : disk'[k].pointers = disk[k].pointers
         \/ (k \in Used(f) /\ \A i \in SecondEntries : InUse(f, i, HERE) => k # IndexOf(f)[i])
  BY <1>3, <1>7
<1>9. ret' \in Bytes \cup {Nothing}
  BY <1>2
<1>10. \E k \in Used(f) : OnlyAt(k, disk)
  BY <1>3, <1>7 DEF OnlyAt
<1> HIDE DEF r, s
<1> QED
  BY <1>6, <1>7, <1>8, <1>9, <1>10, UserStepKeeps

LEMMA OverwriteKeeps ==
    ASSUME FilesFit, Inv, NEW f \in Files, NEW v \in Writes(f, slot[f].cursor), Overwrite(f, v)
    PROVE  Inv' /\ InPlace(f, v) /\ \E k \in Used(f) : OnlyAt(k, disk)
<1> DEFINE s == slot[f]
           b == Block(s.cursor)
           c == IF b < I_LEV_DATA_POINTERS THEN s.index[b] ELSE s.II[InII(b)]
<1>1. /\ At(f, "writes") /\ s.cursor # s.size /\ WriteTo(f, s, c, v, disk, 1) /\ UNCHANGED allocated
      /\ b >= I_LEV_DATA_POINTERS => s.index[IIEntry(b)] = s.IInum
  BY DEF Overwrite
<1>2. /\ s.cursor \in Nat /\ s.size \in Nat /\ s.cursor <= s.size /\ SizeOf(f) = s.size /\ IsFile(f)
      /\ IndexOf(f) = s.index /\ IsOpen(f) /\ s \in SlotType
  BY <1>1, Written
<1>3. b \in 0..Blocks(f) - 1
  <2>1. s.cursor \in 0..s.size - 1
    BY <1>1, <1>2
  <2>2. b \in Nat /\ b < UpTo(s.size, ClusterSize)
    BY <1>2, <2>1, BlockOfByte, RoundsUp, Geometry DEF Block
  <2>3. Blocks(f) = UpTo(s.size, ClusterSize) /\ Blocks(f) \in Nat
    BY <1>2, FileNumbers
  <2> HIDE DEF b
  <2> QED
    BY <2>2, <2>3
<1>4. c = ClusterOf(f, b)
  <2>1. CASE b < I_LEV_DATA_POINTERS
    BY <1>2, <2>1 DEF ClusterOf
  <2>2. CASE ~(b < I_LEV_DATA_POINTERS)
    <3>1. b \in Nat /\ b >= I_LEV_DATA_POINTERS
      <4>1. b \in Nat
        BY <1>2, BlockOfByte
      <4> QED
        BY <2>2, <4>1, Geometry
    <3>2. InUse(f, IIEntry(b), InII(b)) /\ IIEntry(b) \in SecondEntries /\ InII(b) \in Entries
      BY <1>2, <1>3, <3>1, PlacesOfFile
    <3>3. s.index[IIEntry(b)] # NoCluster /\ s.index[IIEntry(b)] = s.IInum
      BY <1>1, <1>2, <3>1, <3>2, Geometry DEF InUse, Held, Live
    <3>4. s.IILevel = "loaded"
      <4>1. Blocks(f) > I_LEV_DATA_POINTERS
        <5>1. Blocks(f) \in Nat
          BY <1>2, FileNumbers
        <5> HIDE DEF b
        <5> QED
          BY <1>3, <3>1, <5>1, Geometry
      <4>2. IIs(f) > 0
        BY <1>2, <4>1, SecondIsUsed
      <4> QED
        BY <1>2, <4>2 DEF Inv, Loaded
    <3> QED
      BY <1>2, <2>2, <3>3, <3>4 DEF ClusterOf, IIOf
  <2> QED
    BY <2>1, <2>2
<1>5. InPlace(f, v)
  BY <1>1, <1>3, <1>4 DEF InPlace
<1> HIDE DEF b, c
<1> QED
  BY <1>1, <1>3, <1>4, <1>5, PutKeeps

\* Where the last of B blocks is, when that is in the second level.
LEMMA LastBlock ==
    ASSUME NEW B \in Nat, B > I_LEV_DATA_POINTERS, NEW n, n = UpTo(Beyond(B), II_LEV_DATA_POINTERS)
    PROVE  /\ IIEntry(B - 1) = I_LEV_DATA_POINTERS + n - 1 /\ n \in Nat /\ n > 0
           /\ InII(B - 1) = II_LEV_DATA_POINTERS - (n * II_LEV_DATA_POINTERS - Beyond(B)) - 1
<1> DEFINE x == B - 1 - I_LEV_DATA_POINTERS
           y == x \div II_LEV_DATA_POINTERS
           r == x % II_LEV_DATA_POINTERS
<1>1. x \in Nat /\ Beyond(B) = x + 1
  BY Geometry DEF Beyond
<1>2. y \in Nat /\ r \in 0..II_LEV_DATA_POINTERS - 1 /\ x = (II_LEV_DATA_POINTERS * y) + r
  BY <1>1, DivMod, Geometry
<1>3. n = y + 1
  BY <1>1, RoundsUp, Geometry
<1>4. IIEntry(B - 1) = y + I_LEV_DATA_POINTERS /\ InII(B - 1) = r
  BY DEF IIEntry, InII
<1> HIDE DEF x, y, r
<1>5. n * II_LEV_DATA_POINTERS = II_LEV_DATA_POINTERS * y + II_LEV_DATA_POINTERS
  BY <1>2, <1>3, Geometry
<1>6. II_LEV_DATA_POINTERS * y \in Nat
  BY <1>2, Geometry
<1>7. r = II_LEV_DATA_POINTERS - (n * II_LEV_DATA_POINTERS - Beyond(B)) - 1
  <2> DEFINE z == II_LEV_DATA_POINTERS * y
             m == n * II_LEV_DATA_POINTERS
  <2>1. x = z + r /\ m = z + II_LEV_DATA_POINTERS /\ z \in Nat /\ Beyond(B) = x + 1
        /\ r \in Nat /\ x \in Nat /\ II_LEV_DATA_POINTERS \in Nat
    BY <1>1, <1>2, <1>5, <1>6, Geometry
  <2> HIDE DEF z, m
  <2> QED
    BY <2>1 DEF m
<1> QED
  BY <1>2, <1>3, <1>4, <1>7, Geometry

\* At the end of an uncut file the cursor is in its last block, or on the boundary behind.
LEMMA AtEnd ==
    ASSUME NEW n \in Nat
    PROVE  /\ n % ClusterSize # 0 => Block(n) = UpTo(n, ClusterSize) - 1
           /\ n % ClusterSize = 0 => Block(n) = UpTo(n, ClusterSize)
           /\ UpTo(n + 1, ClusterSize) = Block(n) + 1
           /\ Block(n) \in Nat /\ UpTo(n, ClusterSize) \in Nat
<1>1. Block(n) \in Nat
  BY BlockOfByte
<1>2. /\ UpTo(n, ClusterSize) \in Nat
      /\ UpTo(n, ClusterSize) = IF n % ClusterSize = 0 THEN n \div ClusterSize ELSE n \div ClusterSize + 1
      /\ UpTo(n + 1, ClusterSize) = n \div ClusterSize + 1
  BY RoundsUp, Geometry
<1> QED
  BY <1>1, <1>2 DEF Block

\* Who grows has not been cut; and nothing has, when it takes a cluster.
LEMMA GrowsUncutFile ==
    ASSUME Inv, GrowsUncut, NEW f \in Files, NEW v \in Writes(f, slot[f].cursor), At(f, "writes"),
           slot[f].cursor = slot[f].size, slot'[f].cursor = slot[f].cursor + 1
    PROVE  f \notin cut /\ (AtBoundary(slot[f]) => cut = {})
BY Written DEF GrowsUncut

LEMMA ExtendKeeps ==
    ASSUME FilesFit, Inv, GrowsUncut, NEW f \in Files, NEW v \in Writes(f, slot[f].cursor), Extend(f, v)
    PROVE  Inv' /\ InPlace(f, v) /\ \E k \in Used(f) : OnlyAt(k, disk)
<1> DEFINE s == slot[f]
           b == Block(s.cursor)
           n == IIs(f)
<1>1. /\ At(f, "writes") /\ s.cursor = s.size /\ WriteTo(f, s, Last(s), v, disk, 1)
      /\ UNCHANGED allocated /\ s.cursor % ClusterSize # 0
      /\ b >= I_LEV_DATA_POINTERS => s.IILevel = "loaded"
  BY DEF Extend
<1>2. /\ s.cursor \in Nat /\ s.size \in Nat /\ s.cursor <= s.size /\ SizeOf(f) = s.size /\ IsFile(f)
      /\ IndexOf(f) = s.index /\ IsOpen(f) /\ s \in SlotType /\ s.left > 0
  BY <1>1, Written
<1>3. slot'[f].cursor = s.cursor + 1
  <2>1. slot' = [slot EXCEPT ![f] = Rounded(s, 1)] /\ slot \in [Files -> SlotType]
    BY <1>1, DiskTypes DEF WriteTo, Inv
  <2> QED
    BY <1>2, <2>1, Rounds
<1>4. f \notin cut
  BY <1>1, <1>3, GrowsUncutFile
<1>5. Blocks(f) \in Nat /\ b = Blocks(f) - 1 /\ b \in Nat /\ n = UpTo(Beyond(Blocks(f)), II_LEV_DATA_POINTERS)
      /\ InSecond(f) = Beyond(Blocks(f)) /\ n \in Nat
  BY <1>1, <1>2, FileNumbers, AtEnd
<1>6. Last(s) = ClusterOf(f, b)
  <2>1. /\ s.ILevLeft = I_LEV_DATA_POINTERS - (Blocks(f) - InSecond(f))
        /\ s.IILevel = "loaded" => s.IILevDataLeft = n * II_LEV_DATA_POINTERS - InSecond(f)
        /\ s.IILevel = "loaded" => s.IInum = s.index[I_LEV_DATA_POINTERS + n - 1]
    BY <1>2, <1>4 DEF Inv, Lefts, Loaded
  <2>2. CASE b < I_LEV_DATA_POINTERS
    <3>1. Beyond(Blocks(f)) = 0 /\ I_LEV_DATA_POINTERS - s.ILevLeft - 1 = b
      <4> HIDE DEF s, b, n
      <4>1. Blocks(f) <= I_LEV_DATA_POINTERS
        BY <1>5, <2>2, Geometry
      <4>2. Beyond(Blocks(f)) = 0
        BY <4>1, <1>5, Geometry DEF Beyond
      <4>3. s.ILevLeft = I_LEV_DATA_POINTERS - Blocks(f)
        BY <4>2, <1>5, <2>1
      <4> QED
        BY <4>2, <4>3, <1>5, Geometry
    <3> QED
      BY <1>2, <2>2, <3>1 DEF Last, ClusterOf
  <2>3. CASE ~(b < I_LEV_DATA_POINTERS)
    <3>1. s.IILevel = "loaded"
      <4> HIDE DEF b
      <4> QED
        BY <1>1, <1>5, <2>3, Geometry
    <3>2. IIEntry(b) = I_LEV_DATA_POINTERS + n - 1
          /\ InII(b) = II_LEV_DATA_POINTERS - s.IILevDataLeft - 1
      <4> HIDE DEF b, n, s
      <4>1. Blocks(f) > I_LEV_DATA_POINTERS
        BY <1>5, <2>3, Geometry
      <4> QED
        BY <1>5, <2>1, <3>1, <4>1, LastBlock
    <3>3. Last(s) = s.II[InII(b)]
      BY <2>3, <3>2 DEF Last
    <3>4. ClusterOf(f, b) = IIOf(f, s.IInum)[InII(b)]
      BY <1>2, <2>1, <2>3, <3>1, <3>2 DEF ClusterOf
    <3> QED
      BY <3>1, <3>3, <3>4 DEF IIOf
  <2> QED
    BY <2>2, <2>3
<1>7. b \in 0..Blocks(f) - 1
  <2> HIDE DEF b
  <2> QED
    BY <1>5
<1>8. InPlace(f, v)
  BY <1>1, <1>6, <1>7 DEF InPlace
<1> HIDE DEF b
<1> QED
  BY <1>1, <1>6, <1>7, <1>8, PutKeeps

\* Second-level indices that are written are the file's own.
LEMMA FlushStays ==
    ASSUME Inv, NEW f \in Files, IsOpen(f), NEW d \in DiskType
    PROVE  \A c \in Clusters : Flushed(d, slot[f])[c].pointers = d[c].pointers
              \/ c \notin allocated \/ c \in Used(f)
<1>1. slot[f] \in SlotType /\ Loaded(f) /\ Handle(f) /\ IndexOf(f) \in [Entries -> Clusters]
      /\ allocated \subseteq Data
  BY FileTypes DEF Inv, TypeOK
<1>2. IsFile(f) /\ IndexOf(f) = slot[f].index
  BY <1>1 DEF Handle, IsOpen, IsFile, IndexOf, At
<1> SUFFICES ASSUME NEW c \in Clusters, slot[f].IILevel = "loaded", slot[f].IInum = c, c \in allocated
             PROVE  c \in Used(f)
  BY <1>1, FlushedType
<1>3. PICK i \in SecondEntries : c = IndexOf(f)[i]
  BY <1>1, <1>2 DEF Loaded
<1>4. Live(allocated, c)
  BY <1>1, LayoutAssumption DEF Live, NoCluster
<1>5. InUse(f, i, HERE) /\ ClusterOn(f, i, HERE) = c /\ i \in Places
  BY <1>2, <1>3, <1>4, PlacesAre DEF InUse, Held, ClusterOn, On
<1> QED
  BY <1>1, <1>5, PlacesAre DEF Used

LEMMA GrowLosesKeeps ==
    ASSUME FilesFit, Inv, GrowsUncut, NEW f \in Files, GrowLoses(f)
    PROVE  Inv'
<1> DEFINE s == [slot[f] EXCEPT !.at = "lost"]
<1>1. slot[f] \in SlotType /\ TypeOK /\ allocated \subseteq Data /\ disk \in DiskType
      /\ cut \subseteq Files /\ dir \in [Files -> [num : Clusters, size : Nat]]
      /\ slot \in [Files -> SlotType] /\ slot[f].at = "writes" /\ slot[f].cursor = slot[f].size
  BY FileTypes, DiskTypes DEF Inv, TypeOK, GrowLoses, AtBoundary
<1>2. slot' = [slot EXCEPT ![f] = s] /\ s \in SlotType /\ s.at = "lost"
  BY <1>1 DEF SlotType, SlotRecord, GrowLoses
<1>3. ret' = Nothing /\ allocated' = allocated /\ disk' = Flushed(disk, slot[f]) /\ dir' = dir
      /\ cut' = cut /\ IsOpen(f)
  BY <1>1 DEF GrowLoses, IsOpen
<1> HIDE DEF s
<1>4. disk' \in DiskType
  BY <1>1, <1>3, FlushedType
<1>5. TypeOK' /\ slot'[f] = s
  BY <1>1, <1>2, <1>3, <1>4, TypesAfter
<1>6. f \notin cut
  BY <1>1, <1>2, <1>5 DEF GrowsUncut, At
<1>7. At(f, "lost")' /\ ~IsFile(f)' /\ ~IsOpen(f)'
  BY <1>2, <1>5 DEF At, IsFile, IsOpen
<1>8. Handle(f)'
  BY <1>3, <1>6, <1>7 DEF Handle, At
<1>9. StepOf(f, {}, {})
  <2>1. \A c \in Clusters : disk'[c].pointers = disk[c].pointers \/ c \notin allocated \/ c \in Used(f)
    BY <1>1, <1>3, FlushStays
  <2> QED
    BY <1>1, <1>2, <1>3, <2>1 DEF StepOf
<1> QED
  BY <1>5, <1>7, <1>8, <1>9, GoneStep

LEMMA EmptiedType ==
    ASSUME NEW d \in DiskType, NEW R
    PROVE  /\ Emptied(d, R) \in DiskType
           /\ \A c \in Clusters : Emptied(d, R)[c].pointers = IF c \in R THEN NoPointers ELSE d[c].pointers
<1>1. AsIndex(NoPointers) \in [bytes : [0..ClusterSize - 1 -> Bytes \cup {Nothing}],
                               pointers : [Entries -> Clusters]]
  BY DEF AsIndex, Blank, NoPointers, Clusters
<1> QED
  BY <1>1 DEF Emptied, DiskType, AsIndex

LEMMA WalkIsUsed ==
    ASSUME Inv, NEW f \in Files, IsFile(f)
    PROVE  Walk(f) = Used(f) /\ Walk(f) \subseteq allocated
<1>1. \A c : c \in Walk(f) <=> \E i, e \in Places : InUse(f, i, e) /\ c = ClusterOn(f, i, e)
  BY WalkIs DEF Inv, TypeOK
<1> QED
  BY <1>1, UsedIsAllocatedData DEF Used

LEMMA CreatedType ==
    ASSUME NEW c \in Clusters
    PROVE  /\ Closed \in SlotType /\ Created("w", c) \in SlotType
           /\ Created("w", c) = [Closed EXCEPT !.at = "open", !.mode = "w", !.num = c]
           /\ [Created("w", c) EXCEPT !.at = "rewrites"] \in SlotType
           /\ [Created("w", c) EXCEPT !.at = "rewrites"].at = "rewrites"
<1>1. Closed \in SlotType
  <2>1. Closed \in SlotRecord /\ Closed.IILevel = "none"
    BY Geometry DEF NoPointers, Clusters, NoCluster, Closed, SlotRecord
  <2> QED
    BY <2>1 DEF SlotType
<1>2. Created("w", c) \in SlotType
  BY <1>1 DEF SlotType, SlotRecord, Created
<1> QED
  BY <1>1, <1>2 DEF SlotType, SlotRecord, Created

LEMMA DiscardKeeps ==
    ASSUME Inv, NEW f \in Files, Discard(f)
    PROVE  Inv'
<1> DEFINE s == [Created("w", NoCluster) EXCEPT !.at = "rewrites"]
<1>1. slot[f] \in SlotType /\ TypeOK /\ allocated \subseteq Data /\ disk \in DiskType
      /\ cut \subseteq Files /\ dir \in [Files -> [num : Clusters, size : Nat]]
      /\ slot \in [Files -> SlotType] /\ IsFile(f) /\ ~At(f, "lost") /\ Exists(f)
  BY FileTypes, DiskTypes DEF Inv, TypeOK, Discard, IsFile, At
<1>2. s \in SlotType /\ s.at = "rewrites"
  BY CreatedType DEF Clusters
<1>3. ret' = Nothing /\ allocated' = allocated \ Walk(f) /\ disk' = Emptied(disk, Walk(f))
      /\ dir' = dir /\ cut' = cut \ {f} /\ slot' = [slot EXCEPT ![f] = s]
  BY DEF Discard
<1> HIDE DEF s
<1>4. disk' \in DiskType
        /\ \A c \in Clusters : disk'[c].pointers = IF c \in Walk(f) THEN NoPointers ELSE disk[c].pointers
  BY <1>1, <1>3, EmptiedType
<1>5. TypeOK' /\ slot'[f] = s
  <2>1. allocated' \subseteq Data /\ cut' \subseteq Files /\ ret' \in Bytes \cup {Nothing}
    BY <1>1, <1>3
  <2> QED
    BY <1>1, <1>2, <1>3, <1>4, <2>1, TypesAfter
<1>6. ~At(f, "lost")' /\ ~IsFile(f)' /\ ~IsOpen(f)'
  BY <1>2, <1>5 DEF At, IsFile, IsOpen
<1>7. Handle(f)'
  BY <1>1, <1>2, <1>3, <1>5, <1>6 DEF Handle, At, Exists
<1>8. Walk(f) = Used(f)
  BY <1>1, WalkIsUsed
<1>9. StepOf(f, {}, Walk(f))
  <2>1. \A g \in Files \ {f} : slot'[g] = slot[g] /\ dir'[g] = dir[g] /\ (g \in cut' <=> g \in cut)
    BY <1>1, <1>3
  <2> QED
    BY <1>1, <1>3, <1>4, <1>8, <2>1 DEF StepOf
<1> QED
  BY <1>1, <1>5, <1>6, <1>7, <1>8, <1>9, GoneStep

LEMMA DeleteKeeps ==
    ASSUME Inv, NEW f \in Files, Delete(f)
    PROVE  Inv'
<1>1. slot[f] \in SlotType /\ TypeOK /\ allocated \subseteq Data /\ disk \in DiskType
      /\ cut \subseteq Files /\ dir \in [Files -> [num : Clusters, size : Nat]]
      /\ slot \in [Files -> SlotType] /\ IsFile(f) /\ At(f, "closed") /\ Exists(f) /\ Handle(f)
  BY FileTypes, DiskTypes DEF Inv, TypeOK, Delete, IsFile, At
<1>2. slot' = [slot EXCEPT ![f] = slot[f]]
  BY <1>1 DEF Delete
<1>3. ret' = Nothing /\ allocated' = allocated \ Walk(f) /\ disk' = Emptied(disk, Walk(f))
      /\ dir' = [dir EXCEPT ![f] = NoEntry] /\ cut' = cut \ {f}
  BY DEF Delete
<1>4. disk' \in DiskType
        /\ \A c \in Clusters : disk'[c].pointers = IF c \in Walk(f) THEN NoPointers ELSE disk[c].pointers
  BY <1>1, <1>3, EmptiedType
<1>5. TypeOK' /\ slot'[f] = slot[f]
  <2>1. allocated' \subseteq Data /\ cut' \subseteq Files /\ ret' \in Bytes \cup {Nothing}
        /\ dir' \in [Files -> [num : Clusters, size : Nat]]
    BY <1>1, <1>3 DEF NoEntry, Clusters
  <2> QED
    BY <1>1, <1>2, <1>4, <2>1, TypesAfter
<1>6. ~At(f, "lost")' /\ ~At(f, "lost") /\ ~IsFile(f)' /\ ~IsOpen(f)' /\ At(f, "closed")'
  BY <1>1, <1>3, <1>5 DEF At, IsFile, IsOpen, Exists, NoEntry
<1>7. Handle(f)'
  BY <1>1, <1>3, <1>5, <1>6 DEF Handle, At
<1>8. Walk(f) = Used(f)
  BY <1>1, WalkIsUsed
<1>9. StepOf(f, {}, Walk(f))
  <2>1. \A g \in Files \ {f} : slot'[g] = slot[g] /\ dir'[g] = dir[g] /\ (g \in cut' <=> g \in cut)
    BY <1>1, <1>2, <1>3
  <2> QED
    BY <1>1, <1>3, <1>4, <1>8, <2>1 DEF StepOf
<1> QED
  BY <1>5, <1>6, <1>7, <1>8, <1>9, GoneStep

LEMMA NoBlocks == UpTo(0, ClusterSize) = 0 /\ UpTo(Beyond(0), II_LEV_DATA_POINTERS) = 0 /\ Beyond(0) = 0
<1>1. UpTo(0, ClusterSize) = 0
  <2>1. 0 % ClusterSize = 0 /\ 0 \div ClusterSize = 0
    BY DivIs, Geometry
  <2> QED
    BY <2>1, RoundsUp, Geometry
<1> QED
  BY <1>1, SecondCount, Geometry DEF Beyond

\* A file begins as an index without pointers.
LEMMA NewIndexKeeps ==
    ASSUME Inv, GrowsUncut, NEW f \in Files, NEW c \in Free, ~IsFile(f), ~At(f, "lost"),
           allocated' = allocated \cup {c}, dir' = [dir EXCEPT ![f] = [num |-> c, size |-> 0]],
           slot' = [slot EXCEPT ![f] = Created("w", c)], ret' = Nothing, disk' = disk, cut' = cut
    PROVE  Inv'
<1>1. TypeOK /\ allocated \subseteq Data /\ disk \in DiskType /\ c \notin allocated /\ c \in Data
      /\ cut \subseteq Files /\ dir \in [Files -> [num : Clusters, size : Nat]]
      /\ slot \in [Files -> SlotType] /\ c \in Clusters /\ c # NoCluster
  BY DiskTypes, LayoutAssumption DEF Inv, TypeOK, Free, Clusters, NoCluster
<1>2. /\ Created("w", c) \in SlotType
      /\ Created("w", c) = [Closed EXCEPT !.at = "open", !.mode = "w", !.num = c]
  BY <1>1, CreatedType
<1>3. TypeOK' /\ slot'[f] = Created("w", c)
  <2>1. allocated' \subseteq Data /\ dir' \in [Files -> [num : Clusters, size : Nat]]
    BY <1>1
  <2> QED
    BY <1>1, <1>2, <2>1, TypesAfter
<1>4. dir'[f] = [num |-> c, size |-> 0]
  BY <1>1
<1>5. cut = {}
  BY <1>1 DEF GrowsUncut
<1>6. /\ slot'[f].at = "open" /\ slot'[f].mode = "w" /\ slot'[f].num = c /\ slot'[f].cursor = 0
      /\ slot'[f].size = 0 /\ slot'[f].index = NoPointers /\ slot'[f].IILevel = "none"
      /\ slot'[f].IInum = NoCluster /\ slot'[f].ILevLeft = I_LEV_DATA_POINTERS
      /\ slot'[f].IILevDataLeft = 0 /\ slot'[f].IILevLeft = II_LEV_POINTERS
  <2> DEFINE s == Created("w", c)
  <2>1. /\ s.at = "open" /\ s.mode = "w" /\ s.num = c /\ s.cursor = Closed.cursor
        /\ s.size = Closed.size /\ s.index = Closed.index /\ s.IILevel = Closed.IILevel
        /\ s.IInum = Closed.IInum /\ s.ILevLeft = Closed.ILevLeft
        /\ s.IILevDataLeft = Closed.IILevDataLeft /\ s.IILevLeft = Closed.IILevLeft
    <3> DEFINE k == Closed
    <3>1. k \in SlotType /\ s = [k EXCEPT !.at = "open", !.mode = "w", !.num = c]
      BY <1>1, <1>2, CreatedType
    <3> HIDE DEF s, k
    <3>2. /\ s.at = "open" /\ s.mode = "w" /\ s.num = c /\ s.cursor = k.cursor
          /\ s.size = k.size /\ s.index = k.index /\ s.IILevel = k.IILevel
          /\ s.IInum = k.IInum /\ s.ILevLeft = k.ILevLeft
          /\ s.IILevDataLeft = k.IILevDataLeft /\ s.IILevLeft = k.IILevLeft
      BY <3>1 DEF SlotType, SlotRecord
    <3> QED
      BY <3>2 DEF k
  <2> HIDE DEF s
  <2> QED
    BY <1>3, <2>1 DEF Closed, s
<1>7. IsFile(f)' /\ IsOpen(f)' /\ Exists(f)' /\ ~At(f, "lost")' /\ ~At(f, "writes")'
      /\ ~At(f, "rewrites")' /\ ~At(f, "closed")'
  BY <1>1, <1>4, <1>6 DEF IsFile, IsOpen, Exists, At
<1>8. NumOf(f)' = c /\ IndexOf(f)' = NoPointers /\ SizeOf(f)' = 0
  BY <1>6, <1>7 DEF NumOf, IndexOf, SizeOf
<1>9. Blocks(f)' = 0 /\ InSecond(f)' = 0 /\ IIs(f)' = 0
  <2>1. Blocks(f)' = 0
    BY <1>8, NoBlocks DEF Blocks
  <2>2. InSecond(f)' = 0
    BY <2>1, Geometry DEF InSecond
  <2> QED
    BY <2>1, <2>2, NoBlocks DEF IIs
<1>10. \A i \in Entries : ~Live(allocated', NoPointers[i]) /\ NoPointers[i] = NoCluster
  BY DEF Live, NoPointers
<1>11. \A i, e \in Places : InUse(f, i, e)' <=> i = HERE /\ e = HERE
  BY <1>7, <1>8, <1>10, PlacesAre DEF InUse, Held
<1>12. ClusterOn(f, HERE, HERE)' = c
  BY <1>8 DEF ClusterOn, On
<1>13. Moves(f, {c}, {})
  BY <1>11, <1>12, PlacesAre DEF Moves, InUse
<1>14. StepOf(f, {c}, {})
  BY <1>1, <1>5 DEF StepOf
<1>15. Layout(f)'
  <2>1. \A i \in Entries : \A e : ~Held(NoPointers, allocated', Store(f)', i, e)
    BY <1>10, PlacesAre DEF Held
  <2>2. Prefixes(NoPointers, allocated', Store(f)')
    BY <2>1, PlacesAre DEF Prefixes
  <2>3. Covers(NoPointers, allocated', Store(f)', 0)
    <3>1. \A i \in IEntries : ~(i < 0)
      BY Geometry
    <3>2. \A i \in SecondEntries : \A e \in Entries : ~(BlockAt(i, e) < 0)
      <4>1. \A i \in SecondEntries : \A e \in Entries : BlockAt(i, e) \in Nat
        BY SecondBlocks
      <4> QED
        BY <4>1
    <3> QED
      BY <3>1, <3>2, Geometry DEF Covers
  <2>4. Ends(NoPointers, allocated', Store(f)', 0)
    BY <1>10, <2>1, PlacesAre DEF Ends
  <2> QED
    BY <1>8, <1>9, <2>2, <2>3, <2>4 DEF Layout
<1>16. Handle(f)'
  BY <1>4, <1>6, <1>7, <1>8, LayoutAssumption DEF Handle
<1>17. Loaded(f)'
  BY <1>6, <1>9 DEF Loaded
<1>18. Lefts(f)'
  BY <1>6, <1>9, Geometry DEF Lefts
<1> QED
  BY <1>3, <1>13, <1>14, <1>15, <1>16, <1>17, <1>18, InvKept

LEMMA AnswersFree == \A c \in Answers(Free) : c \in Free
BY LayoutAssumption DEF Free

LEMMA CreateKeeps ==
    ASSUME Inv, GrowsUncut, NEW f \in Files, Create(f) \/ Rewrite(f)
    PROVE  Inv'
<1>1. /\ ret' = Nothing /\ disk' = disk /\ cut' = cut /\ ~IsFile(f) /\ ~At(f, "lost")
      /\ \E c \in Answers(Free) :
            /\ allocated' = allocated \cup {c}
            /\ dir' = [dir EXCEPT ![f] = [num |-> c, size |-> 0]]
            /\ slot' = [slot EXCEPT ![f] = Created("w", c)]
  BY DEF Create, Rewrite, IsFile, At
<1>2. PICK c \in Answers(Free) :
            /\ allocated' = allocated \cup {c}
            /\ dir' = [dir EXCEPT ![f] = [num |-> c, size |-> 0]]
            /\ slot' = [slot EXCEPT ![f] = Created("w", c)]
  BY <1>1
<1>3. c \in Free
  BY AnswersFree
<1> QED
  BY <1>1, <1>2, <1>3, NewIndexKeeps

\* Closing writes the indices as they are in memory.
LEMMA CloseKeeps ==
    ASSUME Inv, NEW f \in Files, Close(f)
    PROVE  Inv'
<1> DEFINE s == slot[f]
           d == [disk EXCEPT ![s.num] = AsIndex(s.index)]
<1>1. s \in SlotType /\ TypeOK /\ allocated \subseteq Data /\ disk \in DiskType
      /\ cut \subseteq Files /\ dir \in [Files -> [num : Clusters, size : Nat]] /\ s.at = "open"
      /\ slot \in [Files -> SlotType] /\ Handle(f) /\ Loaded(f) /\ Layout(f)
      /\ IndexOf(f) \in [Entries -> Clusters] /\ s.num \in Clusters /\ s.index \in [Entries -> Clusters]
  BY FileTypes, DiskTypes DEF Inv, TypeOK, Close, At, SlotType, SlotRecord
<1>2. IsOpen(f) /\ IsFile(f) /\ IndexOf(f) = s.index /\ NumOf(f) = s.num /\ SizeOf(f) = s.size
      /\ s.num = dir[f].num /\ Exists(f) /\ ~At(f, "lost") /\ s.size <= MaxSize(f)
  BY <1>1 DEF Handle, IsOpen, IsFile, IndexOf, NumOf, SizeOf, At, Exists
<1>3. /\ disk' = Flushed(d, s) /\ slot' = [slot EXCEPT ![f] = Closed] /\ ret' = Nothing
      /\ allocated' = allocated /\ cut' = cut
      /\ dir' = IF s.mode = "r" THEN dir ELSE [dir EXCEPT ![f].size = s.size]
  BY DEF Close
<1>4. d \in DiskType /\ \A c \in Clusters : d[c].pointers = IF c = s.num THEN s.index ELSE disk[c].pointers
  <2>1. AsIndex(s.index) \in [bytes : [0..ClusterSize - 1 -> Bytes \cup {Nothing}],
                              pointers : [Entries -> Clusters]]
        /\ AsIndex(s.index).pointers = s.index
    BY <1>1 DEF AsIndex, Blank
  <2> HIDE DEF s
  <2> QED
    BY <1>1, <2>1 DEF DiskType
<1> HIDE DEF d
<1>5. disk' \in DiskType
      /\ \A c \in Clusters : disk'[c].pointers =
            IF s.IILevel = "loaded" /\ s.IInum = c THEN s.II ELSE d[c].pointers
  BY <1>1, <1>3, <1>4, FlushedType
<1>6. dir' \in [Files -> [num : Clusters, size : Nat]] /\ dir'[f].num = s.num /\ dir'[f].size = s.size
      /\ \A g \in Files \ {f} : dir'[g] = dir[g]
  <2>1. CASE s.mode = "r"
    BY <1>1, <1>2, <1>3, <2>1 DEF Handle
  <2>2. CASE s.mode # "r"
    <3>1. s.size \in Nat
      BY <1>1 DEF SlotType, SlotRecord
    <3> QED
      BY <1>1, <1>2, <1>3, <2>2, <3>1
  <2> QED
    BY <2>1, <2>2
<1>7. TypeOK' /\ slot'[f] = Closed
  <2>1. Closed \in SlotType
    BY <1>1, CreatedType
  <2> QED
    BY <1>1, <1>3, <1>5, <1>6, <2>1, TypesAfter
<1>8. At(f, "closed")' /\ ~At(f, "writes")' /\ ~At(f, "rewrites")' /\ ~IsOpen(f)' /\ ~At(f, "lost")'
      /\ slot'[f].IILevel = "none"
  BY <1>7 DEF At, IsOpen, Closed
<1>9. Exists(f)' /\ IsFile(f)'
  BY <1>2, <1>6, <1>7 DEF Exists, IsFile, Closed
<1>10. \A i \in SecondEntries : InUse(f, i, HERE) => IndexOf(f)[i] # s.num
  <2> TAKE i \in SecondEntries
  <2> SUFFICES ASSUME InUse(f, i, HERE) PROVE IndexOf(f)[i] # s.num
    OBVIOUS
  <2>1. ClusterOn(f, i, HERE) = IndexOf(f)[i] /\ i \in Places /\ i # HERE
    BY PlacesAre DEF ClusterOn, On
  <2>2. InUse(f, HERE, HERE) /\ ClusterOn(f, HERE, HERE) = s.num
    BY <1>2 DEF InUse, Held, ClusterOn, On
  <2> QED
    BY <2>1, <2>2, PlacesAre DEF Inv, Distinct
<1>11. s.IILevel = "loaded" => s.IInum # s.num
  <2> SUFFICES ASSUME s.IILevel = "loaded" PROVE s.IInum # s.num
    OBVIOUS
  <2>1. PICK i \in SecondEntries : s.IInum = IndexOf(f)[i]
    BY <1>1, <1>2 DEF Loaded
  <2>2. s.num \in allocated /\ s.num # NoCluster
    BY <1>1, <1>2 DEF Layout, Exists
  <2>3. CASE s.IInum \in allocated
    <3>1. s.IInum # NoCluster
      BY <1>1, <2>3, LayoutAssumption DEF NoCluster
    <3>2. InUse(f, i, HERE)
      BY <1>2, <2>1, <2>3, <3>1, PlacesAre DEF InUse, Held, Live
    <3> QED
      BY <2>1, <3>2, <1>10
  <2> QED
    BY <2>2, <2>3
<1>12. NumOf(f)' = NumOf(f) /\ SizeOf(f)' = SizeOf(f)
  BY <1>2, <1>6, <1>8 DEF NumOf, SizeOf
<1>13. IndexOf(f)' = IndexOf(f)
  <2>1. IndexOf(f)' = disk'[s.num].pointers
    BY <1>6, <1>8 DEF IndexOf
  <2> QED
    BY <1>1, <1>2, <1>4, <1>5, <1>11, <2>1
<1>14. ASSUME NEW i \in SecondEntries, InUse(f, i, HERE)
       PROVE  Store(f)'[IndexOf(f)[i]].pointers = Store(f)[IndexOf(f)[i]].pointers
  <2>1. IndexOf(f)[i] \in Clusters /\ IndexOf(f)[i] # s.num
    BY <1>1, <1>10, <1>14, PlacesAre
  <2>2. Store(f)' = disk'
    BY <1>8 DEF Store, Flushed
  <2>3. Store(f)[IndexOf(f)[i]].pointers = IF s.IILevel = "loaded" /\ s.IInum = IndexOf(f)[i] THEN s.II
                                           ELSE disk[IndexOf(f)[i]].pointers
    BY <1>1, <2>1, FlushedType DEF Store
  <2> QED
    BY <1>4, <1>5, <2>1, <2>2, <2>3
<1>15. Same(f)
  BY <1>2, <1>3, <1>9, <1>12, <1>13, <1>14, SameWhen
<1>16. StepOf(f, {}, {})
  <2>1. s.num \in Used(f)
    <3>1. InUse(f, HERE, HERE) /\ ClusterOn(f, HERE, HERE) = s.num
      BY <1>2 DEF InUse, Held, ClusterOn, On
    <3> QED
      BY <3>1, UsedIsAllocatedData, PlacesAre DEF Used
  <2>2. ASSUME NEW c \in Clusters
        PROVE  disk'[c].pointers = disk[c].pointers \/ c \notin allocated \/ c \in Used(f)
    <3>1. disk'[c].pointers = d[c].pointers \/ c \notin allocated \/ c \in Used(f)
      BY <1>2, <1>3, <1>4, FlushStays
    <3> QED
      BY <1>4, <2>1, <3>1
  <2> QED
    BY <1>1, <1>3, <1>6, <2>2 DEF StepOf
<1>17. Blocks(f)' = Blocks(f)
  BY <1>12 DEF Blocks
<1>18. Handle(f)'
  BY <1>2, <1>3, <1>8, <1>9, <1>12 DEF Handle
<1>19. Loaded(f)' /\ Lefts(f)'
  BY <1>8 DEF Loaded, Lefts
<1> QED
  BY <1>2, <1>3, <1>7, <1>8, <1>15, <1>16, <1>17, <1>18, <1>19, QuietStep

\* How far a run of pointers goes.
LEMMA RunIs ==
    ASSUME NEW g, NEW A, NEW i \in Nat, NEW b \in Nat, NEW m \in Nat, i + m <= b,
           \A k \in i..i + m - 1 : Live(A, g[k]), i + m < b => ~Live(A, g[i + m])
    PROVE  LiveRun(g, A, i, b) = i..i + m - 1 /\ Cardinality(LiveRun(g, A, i, b)) = m
<1>1. LiveRun(g, A, i, b) = i..i + m - 1
  <2>1. ASSUME NEW k \in LiveRun(g, A, i, b) PROVE k \in i..i + m - 1
    <3>1. k \in i..b - 1 /\ \A l \in i..k : Live(A, g[l])
      BY <2>1 DEF LiveRun
    <3>2. k \in Int /\ i <= k /\ k <= b - 1
      BY <3>1
    <3>3. CASE k >= i + m
      <4>1. i + m \in i..k /\ i + m < b
        BY <3>2, <3>3
      <4> QED
        BY <3>1, <4>1
    <3> QED
      BY <3>2, <3>3
  <2>2. ASSUME NEW k \in i..i + m - 1 PROVE k \in LiveRun(g, A, i, b)
    <3>1. k \in i..b - 1 /\ \A l \in i..k : l \in i..i + m - 1
      BY <2>2
    <3> QED
      BY <3>1 DEF LiveRun
  <2> QED
    BY <2>1, <2>2
<1>2. Cardinality(i..i + m - 1) = m
  <2>1. i + m - 1 \in Int /\ i \in Int
    OBVIOUS
  <2>2. Cardinality(i..i + m - 1) = IF i > i + m - 1 THEN 0 ELSE (i + m - 1) - i + 1
    BY <2>1, FS_Interval
  <2> QED
    BY <2>2
<1> QED
  BY <1>1, <1>2

LEMMA RunCount ==
    ASSUME NEW g, NEW A, NEW i \in Nat, NEW b \in Nat, i <= b
    PROVE  Cardinality(LiveRun(g, A, i, b)) \in 0..b - i
<1>1. IsFiniteSet(i..b - 1) /\ Cardinality(i..b - 1) = b - i
  <2>1. i \in Int /\ b - 1 \in Int
    OBVIOUS
  <2>2. IsFiniteSet(i..b - 1) /\ Cardinality(i..b - 1) = IF i > b - 1 THEN 0 ELSE (b - 1) - i + 1
    BY <2>1, FS_Interval
  <2> QED
    BY <2>2
<1>2. LiveRun(g, A, i, b) \subseteq i..b - 1
  BY DEF LiveRun
<1>3. IsFiniteSet(LiveRun(g, A, i, b))
      /\ Cardinality(LiveRun(g, A, i, b)) <= Cardinality(i..b - 1)
  BY <1>1, <1>2, FS_Subset
<1>4. Cardinality(LiveRun(g, A, i, b)) \in Nat
  BY <1>3, FS_CardinalityType
<1> QED
  BY <1>1, <1>3, <1>4

LEMMA RunIsCounted ==
    ASSUME NEW g, NEW A, NEW i \in Nat, NEW b \in Nat, i < b, Live(A, g[i])
    PROVE  Cardinality(LiveRun(g, A, i, b)) # 0
<1>1. i \in LiveRun(g, A, i, b)
  BY DEF LiveRun
<1>2. IsFiniteSet(i..b - 1)
  <2>1. i \in Int /\ b - 1 \in Int
    OBVIOUS
  <2> QED
    BY <2>1, FS_Interval
<1>3. IsFiniteSet(LiveRun(g, A, i, b))
  <2>1. LiveRun(g, A, i, b) \subseteq i..b - 1
    BY DEF LiveRun
  <2> QED
    BY <1>2, <2>1, FS_Subset
<1> QED
  BY <1>1, <1>3, FS_EmptySet

\* What opening counts in an index that covers B blocks and ends there.
LEMMA Counts ==
    ASSUME NEW g, NEW A, NEW d, NEW B \in Nat, Covers(g, A, d, B), Ends(g, A, d, B),
           UpTo(Beyond(B), II_LEV_DATA_POINTERS) <= II_LEV_POINTERS
    PROVE  /\ Cardinality(LiveRun(g, A, 0, I_LEV_DATA_POINTERS)) = B - Beyond(B)
           /\ Cardinality(LiveRun(g, A, I_LEV_DATA_POINTERS, IEnd)) = UpTo(Beyond(B), II_LEV_DATA_POINTERS)
           /\ UpTo(Beyond(B), II_LEV_DATA_POINTERS) # 0 =>
                 Cardinality(LiveRun(
                    d[g[I_LEV_DATA_POINTERS + UpTo(Beyond(B), II_LEV_DATA_POINTERS) - 1]].pointers,
                    A, 0, II_LEV_DATA_POINTERS))
                   = II_LEV_DATA_POINTERS
                       - (UpTo(Beyond(B), II_LEV_DATA_POINTERS) * II_LEV_DATA_POINTERS - Beyond(B))
<1> DEFINE n == UpTo(Beyond(B), II_LEV_DATA_POINTERS)
           j == I_LEV_DATA_POINTERS + n - 1
           m == II_LEV_DATA_POINTERS - (n * II_LEV_DATA_POINTERS - Beyond(B))
           p == d[g[j]].pointers
<1>0. /\ n \in Nat /\ Beyond(B) \in Nat
      /\ \A i \in Nat : i >= I_LEV_DATA_POINTERS => (BlockAt(i, 0) < B <=> i - I_LEV_DATA_POINTERS < n)
  BY SecondCount
<1>1. ~Live(A, NoCluster) /\ 0 \in Entries
  BY Geometry DEF Live
<1>2. Cardinality(LiveRun(g, A, 0, I_LEV_DATA_POINTERS)) = B - Beyond(B)
  <2> DEFINE x == B - Beyond(B)
  <2>1. x \in Nat /\ 0 + x <= I_LEV_DATA_POINTERS /\ (x < I_LEV_DATA_POINTERS => x = B)
        /\ x <= B
    BY Geometry DEF Beyond
  <2>2. \A k \in 0..0 + x - 1 : k \in IEntries /\ k < B /\ k # HERE
    BY <2>1, Geometry
  <2>3. \A k \in 0..0 + x - 1 : Live(A, g[k])
    BY <2>2, PlacesAre DEF Covers, Held
  <2>4. 0 + x < I_LEV_DATA_POINTERS => ~Live(A, g[0 + x])
    <3> SUFFICES ASSUME 0 + x < I_LEV_DATA_POINTERS PROVE ~Live(A, g[0 + x])
      OBVIOUS
    <3>1. 0 + x = B /\ B \in IEntries
      BY <2>1, Geometry
    <3> QED
      BY <3>1, <1>1, Geometry DEF Ends
  <2> HIDE DEF x
  <2>5. Cardinality(LiveRun(g, A, 0, I_LEV_DATA_POINTERS)) = x
    BY <2>1, <2>3, <2>4, RunIs, Geometry
  <2> QED
    BY <2>5 DEF x
<1>3. Cardinality(LiveRun(g, A, I_LEV_DATA_POINTERS, IEnd)) = n
  <2>1. \A k \in I_LEV_DATA_POINTERS..I_LEV_DATA_POINTERS + n - 1 :
           k \in Nat /\ k >= I_LEV_DATA_POINTERS /\ k - I_LEV_DATA_POINTERS < n /\ k \in SecondEntries
    BY <1>0, Geometry
  <2>2. \A k \in I_LEV_DATA_POINTERS..I_LEV_DATA_POINTERS + n - 1 : Live(A, g[k])
    BY <1>0, <2>1, PlacesAre DEF Covers, Held
  <2>3. I_LEV_DATA_POINTERS + n < IEnd => ~Live(A, g[I_LEV_DATA_POINTERS + n])
    <3> DEFINE i == I_LEV_DATA_POINTERS + n
    <3> SUFFICES ASSUME i < IEnd PROVE ~Live(A, g[i])
      OBVIOUS
    <3>1. i \in SecondEntries /\ i \in Nat /\ i >= I_LEV_DATA_POINTERS /\ ~(i - I_LEV_DATA_POINTERS < n)
      BY <1>0, Geometry
    <3> HIDE DEF i
    <3>2. BlockAt(i, 0) \in Nat
      BY <3>1, <1>1, SecondBlocks
    <3>3. BlockAt(i, 0) >= B
      BY <1>0, <3>1, <3>2
    <3> QED
      BY <1>1, <3>1, <3>3 DEF Ends
  <2>4. I_LEV_DATA_POINTERS + n <= IEnd /\ IEnd \in Nat /\ I_LEV_DATA_POINTERS \in Nat
    BY <1>0, Geometry
  <2> HIDE DEF n
  <2> QED
    BY <1>0, <2>2, <2>3, <2>4, RunIs
<1>4. ASSUME n # 0 PROVE Cardinality(LiveRun(p, A, 0, II_LEV_DATA_POINTERS)) = m
  <2>1. j \in SecondEntries /\ j \in Nat /\ j >= I_LEV_DATA_POINTERS /\ j - I_LEV_DATA_POINTERS = n - 1
    BY <1>0, <1>4, Geometry
  <2>2. B > I_LEV_DATA_POINTERS
    BY <1>4, SecondCount, Geometry
  <2>3. Held(g, A, d, j, HERE)
    BY <1>0, <2>1 DEF Covers
  <2>4. InII(B - 1) = m - 1 /\ IIEntry(B - 1) = j
    BY <2>2, LastBlock
  <2>5. m - 1 \in Entries /\ B - 1 = BlockAt(j, m - 1)
    BY <2>2, <2>4, EntryOfBlock, Geometry
  <2>6. \A e \in Entries : BlockAt(j, e) = BlockAt(j, m - 1) - (m - 1) + e
    <3>1. II_LEV_DATA_POINTERS * (j - I_LEV_DATA_POINTERS) \in Nat
      <4>1. j - I_LEV_DATA_POINTERS \in Nat
        BY <2>1, Geometry
      <4> HIDE DEF j
      <4> QED
        BY <4>1, Geometry
    <3>2. m \in Int
      BY <2>5, <1>0, Geometry
    <3> HIDE DEF j, m
    <3> QED
      BY <3>1, <3>2, Geometry DEF BlockAt
  <2>7. m \in Nat /\ 0 + m <= II_LEV_DATA_POINTERS
    <3>1. m \in Int
      BY <1>0, Geometry
    <3> HIDE DEF m
    <3> QED
      BY <2>5, <3>1, Geometry
  <2> HIDE DEF j, m
  <2>8. \A k \in 0..0 + m - 1 : Live(A, p[k])
    <3> TAKE k \in 0..0 + m - 1
    <3>1. k \in Entries /\ k # HERE /\ k <= m - 1
      BY <2>7, Geometry
    <3>2. BlockAt(j, k) < B
      BY <2>5, <2>6, <2>7, <3>1
    <3> QED
      BY <2>1, <3>1, <3>2, PlacesAre DEF Covers, Held
  <2>9. 0 + m < II_LEV_DATA_POINTERS => ~Live(A, p[0 + m])
    <3> SUFFICES ASSUME 0 + m < II_LEV_DATA_POINTERS PROVE ~Live(A, p[0 + m])
      OBVIOUS
    <3>1. m \in Entries /\ 0 + m = m
      BY <2>7, Geometry
    <3>2. BlockAt(j, m) >= B
      BY <2>5, <2>6, <2>7, <3>1
    <3> QED
      BY <1>1, <2>1, <2>3, <3>1, <3>2 DEF Ends
  <2> HIDE DEF p
  <2> QED
    BY <2>7, <2>8, <2>9, RunIs, Geometry
<1> QED
  BY <1>2, <1>3, <1>4

\* What opening finds of an index.
LEMMA ReopenKeeps ==
    ASSUME FilesFit, Inv, NEW f \in Files, NEW mode \in {"r", "a"}, Reopen(f, mode)
    PROVE  Inv'
<1> DEFINE g == disk[dir[f].num].pointers
           I == Cardinality(LiveRun(g, allocated, 0, I_LEV_DATA_POINTERS))
           J == Cardinality(LiveRun(g, allocated, I_LEV_DATA_POINTERS, IEnd))
           c == g[I_LEV_DATA_POINTERS + J - 1]
           n == Cardinality(LiveRun(disk[c].pointers, allocated, 0, II_LEV_DATA_POINTERS))
           z == dir[f].size
           s0 == [Closed EXCEPT !.at = "open", !.mode = mode, !.size = z,
                                !.cursor = IF mode = "a" THEN z ELSE 0,
                                !.num = dir[f].num, !.index = g, !.ILevLeft = I_LEV_DATA_POINTERS - I]
           s1(o) == [s0 EXCEPT !.IInum = o.IInum, !.IILevDataLeft = o.IILevDataLeft]
           s2 == [s0 EXCEPT !.IILevel = "loaded", !.IInum = c, !.II = disk[c].pointers,
                            !.IILevLeft = II_LEV_POINTERS - J,
                            !.IILevDataLeft = II_LEV_DATA_POINTERS - n]
<1>1. TypeOK /\ allocated \subseteq Data /\ disk \in DiskType
      /\ cut \subseteq Files /\ dir \in [Files -> [num : Clusters, size : Nat]] /\ slot[f].at = "closed"
      /\ slot \in [Files -> SlotType] /\ Handle(f) /\ Layout(f) /\ Exists(f)
  BY ZenonT(30), DiskTypes DEF Inv, TypeOK, Reopen, At
<1>2. /\ \/ J = 0 /\ \E o \in Stale : slot' = [slot EXCEPT ![f] = s1(o)]
         \/ J > 0 /\ slot' = [slot EXCEPT ![f] = s2]
      /\ UNCHANGED <<allocated, disk, dir, cut>> /\ ret' = Nothing
  <2> HIDE DEF s0, J, I, g, n, c
  <2> QED
    BY DEF Reopen, s0, J, I, g, n, c
<1>3. IsFile(f) /\ IndexOf(f) = g /\ NumOf(f) = dir[f].num /\ SizeOf(f) = z /\ ~At(f, "lost")
      /\ Store(f) = disk /\ z \in Nat /\ g \in [Entries -> Clusters] /\ z <= MaxSize(f)
      /\ dir[f].num \in Clusters
  BY <1>1, DiskPointers DEF IsFile, IndexOf, NumOf, SizeOf, At, Store, Flushed, Handle
<1>4. I \in 0..I_LEV_DATA_POINTERS /\ J \in 0..II_LEV_POINTERS /\ n \in 0..II_LEV_DATA_POINTERS
  <2>1. I \in 0..I_LEV_DATA_POINTERS - 0
    BY SMTT(30), RunCount, Geometry
  <2>2. J \in 0..IEnd - I_LEV_DATA_POINTERS
    BY RunCount, Geometry
  <2>3. n \in 0..II_LEV_DATA_POINTERS - 0
    BY RunCount, Geometry
  <2> HIDE DEF I, J, n
  <2> QED
    BY <2>1, <2>2, <2>3, Geometry
<1>5. J # 0 => I_LEV_DATA_POINTERS + J - 1 \in SecondEntries /\ c \in Clusters
               /\ disk[c].pointers \in [Entries -> Clusters]
  <2> SUFFICES ASSUME J # 0
               PROVE  I_LEV_DATA_POINTERS + J - 1 \in SecondEntries /\ c \in Clusters
                      /\ disk[c].pointers \in [Entries -> Clusters]
    OBVIOUS
  <2> HIDE DEF g
  <2>1. I_LEV_DATA_POINTERS + J - 1 \in SecondEntries
    <3> HIDE DEF J
    <3> QED
      BY <1>4, Geometry
  <2>2. c \in Clusters
    BY <1>3, <2>1, PlacesAre
  <2> QED
    BY SMTT(30), <1>1, <2>1, <2>2, DiskPointers
<1> HIDE DEF g, I, J, c, n, z
<1>6. /\ s0 \in SlotType /\ s0.at = "open" /\ s0.mode = mode /\ s0.size = z
      /\ s0.cursor = (IF mode = "a" THEN z ELSE 0) /\ s0.num = dir[f].num /\ s0.index = g
      /\ s0.ILevLeft = I_LEV_DATA_POINTERS - I /\ s0.IILevel = "none"
      /\ s0.IILevLeft = II_LEV_POINTERS
  <2>1. Closed \in SlotType /\ Closed.IILevel = "none" /\ Closed.IILevLeft = II_LEV_POINTERS
    BY <1>3, CreatedType DEF Closed
  <2>2. (IF mode = "a" THEN z ELSE 0) \in Nat /\ I_LEV_DATA_POINTERS - I \in Int /\ mode \in {"r", "w", "a"}
    BY <1>3, <1>4, Geometry
  <2> QED
    BY ZenonT(30), <1>3, <2>1, <2>2 DEF SlotType, SlotRecord
<1> HIDE DEF s0
<1>7. \E s \in SlotType :
         /\ slot' = [slot EXCEPT ![f] = s]
         /\ s.at = "open" /\ s.mode = mode /\ s.size = z /\ s.cursor <= s.size
         /\ s.num = dir[f].num /\ s.index = g /\ s.ILevLeft = I_LEV_DATA_POINTERS - I
         /\ s.IILevLeft = II_LEV_POINTERS - J
         /\ J = 0 => s.IILevel = "none"
         /\ J # 0 => /\ s.IILevel = "loaded" /\ s.IInum = c /\ s.II = disk[c].pointers
                     /\ s.IILevDataLeft = II_LEV_DATA_POINTERS - n
  <2>0. s0.cursor <= s0.size
    BY <1>3, <1>6
  <2>1. CASE J = 0
    <3>0. ~(J > 0)
      BY <2>1
    <3>1. PICK o \in Stale : slot' = [slot EXCEPT ![f] = s1(o)]
      <4> HIDE DEF s1, s2
      <4> QED
        BY <1>2, <3>0
    <3>2. o.IInum \in Nat /\ o.IILevDataLeft \in Int
      BY LayoutAssumption
    <3>3. s1(o) = [s0 EXCEPT !.IInum = o.IInum, !.IILevDataLeft = o.IILevDataLeft]
      OBVIOUS
    <3> DEFINE w == s1(o)
    <3> HIDE DEF w
    <3>4. w = [s0 EXCEPT !.IInum = o.IInum, !.IILevDataLeft = o.IILevDataLeft]
      BY DEF w
    <3>5. w \in SlotType /\ w.at = s0.at /\ w.mode = s0.mode /\ w.size = s0.size
          /\ w.cursor = s0.cursor /\ w.num = s0.num /\ w.index = s0.index
          /\ w.ILevLeft = s0.ILevLeft /\ w.IILevLeft = s0.IILevLeft /\ w.IILevel = "none"
      BY <1>6, <3>2, <3>4 DEF SlotType, SlotRecord
    <3>6. slot' = [slot EXCEPT ![f] = w]
      BY <3>1 DEF w
    <3>7. II_LEV_POINTERS - J = II_LEV_POINTERS
      BY <2>1, Geometry
    <3> QED
      BY <1>6, <2>0, <2>1, <3>5, <3>6, <3>7
  <2>2. CASE J # 0
    <3>1. II_LEV_POINTERS - J \in 0..II_LEV_POINTERS /\ II_LEV_DATA_POINTERS - n \in 0..II_LEV_DATA_POINTERS
      BY <1>4, Geometry
    <3>2. slot' = [slot EXCEPT ![f] = s2]
      BY <1>2, <2>2
    <3>3. s2 \in SlotType
      <4>1. s0 \in SlotRecord /\ c \in Nat /\ II_LEV_DATA_POINTERS - n \in Int
        BY <1>5, <1>6, <2>2, <3>1, ClustersAreNumbers DEF SlotType
      <4>2. s2 \in SlotRecord
        BY <1>5, <2>2, <3>1, <4>1 DEF SlotRecord
      <4>3. s2.IInum = c /\ s2.IILevDataLeft = II_LEV_DATA_POINTERS - n
        BY <4>1 DEF SlotRecord
      <4> HIDE DEF s2
      <4> QED
        BY <1>5, <2>2, <3>1, <4>2, <4>3 DEF SlotType
    <3>4. /\ s2.at = s0.at /\ s2.mode = s0.mode /\ s2.size = s0.size /\ s2.cursor = s0.cursor
          /\ s2.num = s0.num /\ s2.index = s0.index /\ s2.ILevLeft = s0.ILevLeft
          /\ s2.IILevLeft = II_LEV_POINTERS - J /\ s2.IILevel = "loaded" /\ s2.IInum = c
          /\ s2.II = disk[c].pointers /\ s2.IILevDataLeft = II_LEV_DATA_POINTERS - n
      BY <1>6 DEF SlotType, SlotRecord
    <3> HIDE DEF s2
    <3> QED
      BY <1>6, <2>0, <2>2, <3>2, <3>3, <3>4
  <2> QED
    BY <2>1, <2>2
<1> HIDE DEF s1, s2
<1>20. PICK s \in SlotType :
         /\ slot' = [slot EXCEPT ![f] = s]
         /\ s.at = "open" /\ s.mode = mode /\ s.size = z /\ s.cursor <= s.size
         /\ s.num = dir[f].num /\ s.index = g /\ s.ILevLeft = I_LEV_DATA_POINTERS - I
         /\ s.IILevLeft = II_LEV_POINTERS - J
         /\ J = 0 => s.IILevel = "none"
         /\ J # 0 => /\ s.IILevel = "loaded" /\ s.IInum = c /\ s.II = disk[c].pointers
                     /\ s.IILevDataLeft = II_LEV_DATA_POINTERS - n
  BY <1>7
<1>8. TypeOK' /\ slot'[f] = s
  BY <1>1, <1>2, <1>20, TypesAfter
<1>9. IsOpen(f)' /\ IsFile(f)' /\ Exists(f)' /\ ~At(f, "lost")' /\ ~At(f, "closed")'
      /\ ~At(f, "writes")' /\ ~At(f, "rewrites")'
  BY <1>1, <1>2, <1>20, <1>8 DEF IsOpen, IsFile, Exists, At
<1>10. NumOf(f)' = NumOf(f) /\ IndexOf(f)' = IndexOf(f) /\ SizeOf(f)' = SizeOf(f)
  BY <1>3, <1>20, <1>8, <1>9 DEF NumOf, IndexOf, SizeOf
<1>11. Blocks(f)' = Blocks(f) /\ InSecond(f)' = InSecond(f) /\ IIs(f)' = IIs(f)
  BY <1>10 DEF Blocks, InSecond, IIs
<1>12. \A k \in Clusters : Store(f)'[k].pointers = disk[k].pointers
  <2> TAKE k \in Clusters
  <2>1. Store(f)' = Flushed(disk, s)
    BY <1>2, <1>8 DEF Store
  <2>2. J = 0 \/ s.II = disk[s.IInum].pointers
    BY <1>20
  <2> QED
    BY <1>1, <1>20, <2>1, <2>2, FlushedType
<1>13. Same(f)
  <2>1. \A i \in SecondEntries : IndexOf(f)[i] \in Clusters
    BY <1>3, PlacesAre
  <2> QED
    BY <1>2, <1>3, <1>9, <1>10, <1>12, <2>1, SameWhen
<1>14. StepOf(f, {}, {})
  BY <1>1, <1>2 DEF StepOf
<1>15. Handle(f)'
  BY <1>1, <1>2, <1>3, <1>20, <1>8, <1>9, <1>10 DEF Handle, z
<1>16. ASSUME f \notin cut
       PROVE  /\ I = Blocks(f) - InSecond(f) /\ J = IIs(f)
              /\ J # 0 => n = II_LEV_DATA_POINTERS - (IIs(f) * II_LEV_DATA_POINTERS - InSecond(f))
  <2>1. /\ Blocks(f) \in Nat /\ InSecond(f) = Beyond(Blocks(f)) /\ Blocks(f) = UpTo(z, ClusterSize)
        /\ IIs(f) = UpTo(Beyond(Blocks(f)), II_LEV_DATA_POINTERS)
    BY <1>3, FileNumbers
  <2>2. IIs(f) <= II_LEV_POINTERS
    BY <1>3, <2>1, FitsEntries
  <2>3. Covers(g, allocated, disk, Blocks(f)) /\ Ends(g, allocated, disk, Blocks(f))
    BY <1>1, <1>3, <1>16 DEF Layout
  <2> QED
    BY <2>1, <2>2, <2>3, Counts DEF I, J, n, c
<1>21. IIs(f) > 0 => J # 0
  <2> SUFFICES ASSUME IIs(f) > 0 PROVE J # 0
    OBVIOUS
  <2>1. Blocks(f) > I_LEV_DATA_POINTERS
    BY <1>3, SecondIsUsed
  <2>2. Covers(g, allocated, disk, Blocks(f))
    BY <1>1, <1>3 DEF Layout
  <2>3. I_LEV_DATA_POINTERS \in SecondEntries /\ BlockAt(I_LEV_DATA_POINTERS, 0) = I_LEV_DATA_POINTERS
    BY Geometry DEF BlockAt
  <2>4. Live(allocated, g[I_LEV_DATA_POINTERS])
    BY <2>1, <2>2, <2>3, PlacesAre DEF Covers, Held
  <2> QED
    BY <2>4, RunIsCounted, Geometry DEF J
<1>17. Loaded(f)'
  BY <1>2, <1>5, <1>20, <1>8, <1>11, <1>16, <1>21 DEF Loaded, c
<1>18. Lefts(f)'
  <2> SUFFICES ASSUME f \notin cut PROVE Lefts(f)'
    BY <1>2 DEF Lefts
  <2>2. J # 0 => s.IILevDataLeft = IIs(f) * II_LEV_DATA_POINTERS - InSecond(f)
    <3> SUFFICES ASSUME J # 0
                 PROVE  s.IILevDataLeft = IIs(f) * II_LEV_DATA_POINTERS - InSecond(f)
      OBVIOUS
    <3>1. /\ s.IILevDataLeft = II_LEV_DATA_POINTERS - n
          /\ n = II_LEV_DATA_POINTERS - (IIs(f) * II_LEV_DATA_POINTERS - InSecond(f))
      BY <1>20, <1>16
    <3>2. IIs(f) \in Nat /\ InSecond(f) \in Nat /\ IIs(f) * II_LEV_DATA_POINTERS \in Nat
      BY <1>3, FileNumbers, Geometry
    <3> QED
      BY <3>1, <3>2, Geometry
  <2> QED
    BY <1>2, <1>20, <1>8, <1>11, <1>16, <2>2 DEF Lefts
<1> QED
  BY SMTT(30), <1>1, <1>2, <1>3, <1>8, <1>9, <1>11, <1>13, <1>14, <1>15, <1>17, <1>18, QuietStep

\* The places of B blocks; what is at others is no pointer.
PlaceOf(B, i, e) ==
    \/ i = HERE /\ e = HERE
    \/ i \in IEntries /\ e = HERE /\ i < B
    \/ i \in SecondEntries /\ e = HERE /\ BlockAt(i, 0) < B
    \/ i \in SecondEntries /\ e \in Entries /\ BlockAt(i, e) < B
Filled(g, A, d, B) ==
    /\ \A i, e \in Places : Held(g, A, d, i, e) <=> PlaceOf(B, i, e)
    /\ \A i \in Entries : ~PlaceOf(B, i, HERE) => g[i] = NoCluster
    /\ \A i \in SecondEntries : \A e \in Entries :
          PlaceOf(B, i, HERE) /\ ~PlaceOf(B, i, e) => d[g[i]].pointers[e] = NoCluster

LEMMA Monotone ==
    \A i, j \in SecondEntries : \A e, c \in Entries :
        /\ j <= i => BlockAt(j, 0) <= BlockAt(i, 0)
        /\ c <= e => BlockAt(i, c) <= BlockAt(i, e)
<1> SUFFICES ASSUME NEW i \in SecondEntries, NEW j \in SecondEntries, NEW e \in Entries, NEW c \in Entries
             PROVE  /\ j <= i => BlockAt(j, 0) <= BlockAt(i, 0)
                    /\ c <= e => BlockAt(i, c) <= BlockAt(i, e)
  OBVIOUS
<1> DEFINE x == i - I_LEV_DATA_POINTERS
           y == j - I_LEV_DATA_POINTERS
<1>1. x \in Nat /\ y \in Nat /\ (j <= i => y <= x) /\ c \in Nat /\ e \in Nat
  BY Geometry
<1>2. /\ BlockAt(i, 0) = I_LEV_DATA_POINTERS + II_LEV_DATA_POINTERS * x
      /\ BlockAt(j, 0) = I_LEV_DATA_POINTERS + II_LEV_DATA_POINTERS * y
      /\ BlockAt(i, c) = I_LEV_DATA_POINTERS + II_LEV_DATA_POINTERS * x + c
      /\ BlockAt(i, e) = I_LEV_DATA_POINTERS + II_LEV_DATA_POINTERS * x + e
  <2>1. II_LEV_DATA_POINTERS * x \in Nat /\ II_LEV_DATA_POINTERS * y \in Nat
    <3> HIDE DEF x, y
    <3> QED
      BY <1>1, Geometry
  <2> QED
    BY <2>1, Geometry DEF BlockAt
<1> HIDE DEF x, y
<1>3. II_LEV_DATA_POINTERS * x \in Nat /\ II_LEV_DATA_POINTERS * y \in Nat
  BY <1>1, Geometry
<1>4. y <= x => II_LEV_DATA_POINTERS * y <= II_LEV_DATA_POINTERS * x
  BY <1>1, Geometry
<1> QED
  BY <1>1, <1>2, <1>3, <1>4, Geometry

LEMMA FilledIs ==
    ASSUME NEW g, NEW A, NEW d, NEW B \in Nat
    PROVE  Filled(g, A, d, B) <=> Prefixes(g, A, d) /\ Covers(g, A, d, B) /\ Ends(g, A, d, B)
<1>0. /\ \A i \in SecondEntries : i \in Entries /\ i # HERE /\ i \notin IEntries
      /\ \A i \in IEntries : i \in Entries /\ i # HERE /\ i \notin SecondEntries /\ i \in Nat
      /\ \A i \in Entries : i # HERE /\ i \in Places
      /\ 0 \in Entries /\ \A i \in SecondEntries : \A e \in Entries : BlockAt(i, e) \in Nat
      /\ ~Live(A, NoCluster)
  BY SMTT(30), PlacesAre, Geometry, SecondBlocks DEF Live
<1>1. ASSUME Covers(g, A, d, B), Ends(g, A, d, B) PROVE Filled(g, A, d, B)
  <2>1. ASSUME NEW i \in Places, NEW e \in Places PROVE Held(g, A, d, i, e) <=> PlaceOf(B, i, e)
    <3>1. PlaceOf(B, i, e) => Held(g, A, d, i, e)
      BY <1>1, <1>0 DEF PlaceOf, Covers, Held
    <3>2. CASE i = HERE
      BY <3>2, <1>0 DEF PlaceOf, Held
    <3>3. CASE i \in IEntries
      BY <3>1, <3>3, <1>0, <1>1 DEF PlaceOf, Held, Ends
    <3>4. CASE i \in SecondEntries /\ e = HERE
      BY <3>1, <3>4, <1>0, <1>1 DEF PlaceOf, Held, Ends
    <3>5. CASE i \in SecondEntries /\ e \in Entries
      <4>1. Held(g, A, d, i, e) => Held(g, A, d, i, HERE)
        BY <3>5, <1>0 DEF Held
      <4>2. Held(g, A, d, i, e) => ~(BlockAt(i, e) >= B)
        BY <3>5, <4>1, <1>0, <1>1 DEF Held, Ends
      <4> QED
        BY <3>1, <3>5, <4>2, <1>0 DEF PlaceOf
    <3> QED
      BY <3>2, <3>3, <3>4, <3>5, PlacesAre
  <2>2. ASSUME NEW i \in Entries, ~PlaceOf(B, i, HERE) PROVE g[i] = NoCluster
    BY <2>2, <1>0, <1>1, PlacesAre DEF PlaceOf, Ends
  <2>3. ASSUME NEW i \in SecondEntries, NEW e \in Entries, PlaceOf(B, i, HERE), ~PlaceOf(B, i, e)
        PROVE  d[g[i]].pointers[e] = NoCluster
    <3>1. Held(g, A, d, i, HERE) /\ BlockAt(i, e) >= B
      BY <2>1, <2>3, <1>0, PlacesAre DEF PlaceOf
    <3> QED
      BY <3>1, <1>1 DEF Ends
  <2> QED
    BY <2>1, <2>2, <2>3 DEF Filled
<1>2. ASSUME Filled(g, A, d, B) PROVE Prefixes(g, A, d) /\ Covers(g, A, d, B) /\ Ends(g, A, d, B)
  <2>1. \A i, e \in Places : Held(g, A, d, i, e) <=> PlaceOf(B, i, e)
    BY <1>2 DEF Filled
  <2>2. /\ \A i \in IEntries : Held(g, A, d, i, HERE) <=> i < B
        /\ \A i \in SecondEntries : Held(g, A, d, i, HERE) <=> BlockAt(i, 0) < B
        /\ \A i \in SecondEntries : \A e \in Entries : Held(g, A, d, i, e) <=> BlockAt(i, e) < B
    BY <2>1, <1>0, PlacesAre DEF PlaceOf
  <2>3. Covers(g, A, d, B)
    BY <2>2 DEF Covers
  <2>4. Ends(g, A, d, B)
    <3>1. \A i \in IEntries : i >= B => g[i] = NoCluster
      BY <1>0, <1>2 DEF PlaceOf, Filled
    <3>2. \A i \in SecondEntries : BlockAt(i, 0) >= B => g[i] = NoCluster
      BY <1>0, <1>2 DEF PlaceOf, Filled
    <3>3. ASSUME NEW i \in SecondEntries, NEW e \in Entries, Held(g, A, d, i, HERE), BlockAt(i, e) >= B
          PROVE  d[g[i]].pointers[e] = NoCluster
      <4>1. PlaceOf(B, i, HERE)
        BY <2>1, <3>3, <1>0, PlacesAre
      <4>2. ~PlaceOf(B, i, e)
        BY <3>3, <1>0 DEF PlaceOf
      <4> QED
        BY <4>1, <4>2, <1>2 DEF Filled
    <3> QED
      BY <3>1, <3>2, <3>3 DEF Ends
  <2>5. Prefixes(g, A, d)
    <3>1. \A i, j \in IEntries : j <= i /\ i < B => j < B
      BY <1>0
    <3>2. \A i, j \in SecondEntries : j <= i /\ BlockAt(i, 0) < B => BlockAt(j, 0) < B
      BY <1>0, Monotone
    <3>3. \A i \in SecondEntries : \A e, c \in Entries : c <= e /\ BlockAt(i, e) < B => BlockAt(i, c) < B
      BY <1>0, Monotone
    <3> QED
      BY <2>2, <3>1, <3>2, <3>3 DEF Prefixes
  <2> QED
    BY <2>3, <2>4, <2>5
<1> QED
  BY <1>1, <1>2

\* One block more is one place more, or two: of a second-level index too.
LEMMA NextPlace ==
    ASSUME NEW b \in Nat, NEW i \in Places, NEW e \in Places
    PROVE  PlaceOf(b + 1, i, e) <=>
              \/ PlaceOf(b, i, e)
              \/ b < I_LEV_DATA_POINTERS /\ i = b /\ e = HERE
              \/ /\ b >= I_LEV_DATA_POINTERS /\ i = IIEntry(b) /\ i \in SecondEntries
                 /\ e = InII(b) \/ (e = HERE /\ InII(b) = 0)
<1>0. /\ \A k \in SecondEntries : k \in Entries /\ k # HERE /\ k \notin IEntries /\ k \in Nat
                                  /\ k >= I_LEV_DATA_POINTERS
      /\ \A k \in IEntries : k \in Entries /\ k # HERE /\ k \notin SecondEntries /\ k \in Nat
                             /\ k < I_LEV_DATA_POINTERS
      /\ \A k \in Entries : k # HERE /\ k \in Places
      /\ 0 \in Entries /\ I_LEV_DATA_POINTERS \in Nat
      /\ \A k \in SecondEntries : \A l \in Entries : BlockAt(k, l) \in Nat
  BY PlacesAre, Geometry, SecondBlocks
<1>1. ASSUME NEW k \in SecondEntries, NEW l \in Entries
      PROVE  BlockAt(k, l) = b <=> b >= I_LEV_DATA_POINTERS /\ k = IIEntry(b) /\ l = InII(b)
  <2>1. BlockAt(k, l) >= I_LEV_DATA_POINTERS /\ IIEntry(BlockAt(k, l)) = k /\ InII(BlockAt(k, l)) = l
    BY <1>0, BlockOfEntry
  <2>2. b >= I_LEV_DATA_POINTERS => b = BlockAt(IIEntry(b), InII(b))
    BY EntryOfBlock
  <2> QED
    BY <2>1, <2>2
<1>2. CASE i = HERE
  BY <1>2, <1>0 DEF PlaceOf, HERE
<1>3. CASE i \in IEntries /\ e = HERE
  BY <1>3, <1>0 DEF PlaceOf
<1>4. CASE i \in SecondEntries /\ e = HERE
  <2>1. InII(b) # HERE \/ b < I_LEV_DATA_POINTERS
    BY <1>0, EntryOfBlock
  <2>2. PlaceOf(b + 1, i, e) <=> BlockAt(i, 0) < b + 1
    BY <1>4, <1>0 DEF PlaceOf
  <2>3. PlaceOf(b, i, e) <=> BlockAt(i, 0) < b
    BY <1>4, <1>0 DEF PlaceOf
  <2>4. BlockAt(i, 0) < b + 1 <=> BlockAt(i, 0) < b \/ BlockAt(i, 0) = b
    BY <1>4, <1>0
  <2> QED
    BY <1>4, <1>0, <1>1, <2>1, <2>2, <2>3, <2>4
<1>5. CASE i \in SecondEntries /\ e \in Entries
  <2>2. PlaceOf(b + 1, i, e) <=> BlockAt(i, e) < b + 1
    BY <1>5, <1>0 DEF PlaceOf
  <2>3. PlaceOf(b, i, e) <=> BlockAt(i, e) < b
    BY <1>5, <1>0 DEF PlaceOf
  <2>4. BlockAt(i, e) < b + 1 <=> BlockAt(i, e) < b \/ BlockAt(i, e) = b
    BY <1>5, <1>0
  <2> QED
    BY <1>5, <1>0, <1>1, <2>2, <2>3, <2>4
<1>6. CASE i \in IEntries /\ e \in Entries
  BY <1>6, <1>0 DEF PlaceOf
<1> QED
  BY <1>2, <1>3, <1>4, <1>5, <1>6, PlacesAre

\* A step of f after which block Blocks(f) of the file is at entries i0 and e0: in c,
\* and where that is the first block of it, the second-level index is in t.
GrownAt(f, i0, e0, t, c) ==
    /\ IsFile(f) /\ IsFile(f)' /\ f \notin cut /\ ~At(f, "lost") /\ NumOf(f)' = NumOf(f)
    /\ Blocks(f)' = Blocks(f) + 1
    /\ c \in Free /\ t \in Free /\ (e0 = 0 => t # c)
    /\ allocated' = allocated \cup (IF e0 = 0 THEN {t, c} ELSE {c})
    /\ IF Blocks(f) < I_LEV_DATA_POINTERS THEN i0 = Blocks(f) /\ e0 = HERE
       ELSE i0 = IIEntry(Blocks(f)) /\ i0 \in SecondEntries /\ e0 = InII(Blocks(f))
    /\ IndexOf(f)' = IF e0 = HERE THEN [IndexOf(f) EXCEPT ![i0] = c]
                     ELSE IF e0 = 0 THEN [IndexOf(f) EXCEPT ![i0] = t] ELSE IndexOf(f)
    /\ \A i \in SecondEntries \ {i0} : InUse(f, i, HERE) =>
          Store(f)'[IndexOf(f)[i]].pointers = Store(f)[IndexOf(f)[i]].pointers
    /\ e0 # HERE => Store(f)'[IndexOf(f)'[i0]].pointers =
          IF e0 = 0 THEN [NoPointers EXCEPT ![e0] = c]
          ELSE [Store(f)[IndexOf(f)[i0]].pointers EXCEPT ![e0] = c]

LEMMA Grown ==
    ASSUME Inv, NEW f \in Files, NEW i0, NEW e0, NEW t, NEW c, GrownAt(f, i0, e0, t, c)
    PROVE  Moves(f, IF e0 = 0 THEN {t, c} ELSE {c}, {}) /\ Layout(f)'
<1> DEFINE g == IndexOf(f)
           A == allocated
           d == Store(f)
           B == Blocks(f)
           h == IndexOf(f)'
           k == Store(f)'
           N == IF e0 = 0 THEN {t, c} ELSE {c}
           New(i, e) == (i = i0 /\ e = e0) \/ (i = i0 /\ e = HERE /\ e0 = 0)
<1>1. /\ B \in Nat /\ g \in [Entries -> Clusters] /\ d \in DiskType /\ Filled(g, A, d, B)
      /\ A \subseteq Data /\ NumOf(f) \in A
  <2>1. B \in Nat /\ g \in [Entries -> Clusters] /\ d \in DiskType /\ A \subseteq Data
    BY FileTypes, FileNumbers DEF Inv, TypeOK
  <2>2. NumOf(f) \in A /\ Prefixes(g, A, d) /\ Covers(g, A, d, B) /\ Ends(g, A, d, B)
    BY DEF Inv, Layout, GrownAt
  <2> HIDE DEF g, A, d, B
  <2> QED
    BY <2>1, <2>2, FilledIs DEF A
<1>2. /\ c \in Data \ A /\ t \in Data \ A /\ allocated' = A \cup N /\ c # NoCluster /\ t # NoCluster
      /\ c \in N /\ c \in Clusters /\ t \in Clusters /\ (e0 = 0 => t \in N /\ t # c)
      /\ Live(allocated', c) /\ (e0 = 0 => Live(allocated', t))
  BY LayoutAssumption DEF GrownAt, Free, NoCluster, Live, Clusters
<1>3. \A p \in Clusters : Live(A, p) => Live(allocated', p)
  BY <1>2 DEF Live
<1>4. i0 \in Entries /\ e0 \in Places /\ (e0 # HERE => i0 \in SecondEntries /\ e0 \in Entries)
      /\ i0 # HERE /\ i0 \in Places
  <2>1. CASE B < I_LEV_DATA_POINTERS
    BY <1>1, <2>1, PlacesAre, Geometry DEF GrownAt
  <2>2. CASE ~(B < I_LEV_DATA_POINTERS)
    <3>1. B >= I_LEV_DATA_POINTERS
      BY <1>1, <2>2, Geometry
    <3>2. InII(B) \in Entries
      BY <1>1, <3>1, EntryOfBlock
    <3> QED
      BY <2>2, <3>2, PlacesAre DEF GrownAt
  <2> QED
    BY <2>1, <2>2
<1>5. \A i, e \in Places : PlaceOf(B + 1, i, e) <=> PlaceOf(B, i, e) \/ New(i, e)
  <2> TAKE i, e \in Places
  <2>1. B < I_LEV_DATA_POINTERS <=> ~(B >= I_LEV_DATA_POINTERS)
    BY <1>1, Geometry
  <2>3. 0 # HERE
    BY DEF HERE
  <2>2. CASE B < I_LEV_DATA_POINTERS
    BY <1>1, <2>1, <2>2, <2>3, NextPlace DEF GrownAt
  <2>4. CASE B >= I_LEV_DATA_POINTERS
    BY <1>1, <2>1, <2>4, <2>3, NextPlace DEF GrownAt
  <2> QED
    BY <2>1, <2>2, <2>4
<1>6. ~PlaceOf(B, i0, e0) /\ (e0 = 0 => ~PlaceOf(B, i0, HERE)) /\ (e0 = HERE => ~PlaceOf(B, i0, HERE))
      /\ (e0 # HERE /\ e0 # 0 => PlaceOf(B, i0, HERE))
  <2>1. CASE B < I_LEV_DATA_POINTERS
    <3>1. i0 = B /\ e0 = HERE
      BY <2>1 DEF GrownAt
    <3>2. i0 \notin SecondEntries /\ e0 \notin Entries /\ i0 # HERE /\ 0 # HERE
      BY <2>1, <3>1, <1>1, <1>4, Geometry
    <3>3. ~(i0 < B)
      BY <3>1, <1>1
    <3> QED
      BY <3>1, <3>2, <3>3 DEF PlaceOf
  <2>2. CASE ~(B < I_LEV_DATA_POINTERS)
    <3>1. /\ i0 = IIEntry(B) /\ i0 \in SecondEntries /\ e0 = InII(B) /\ B >= I_LEV_DATA_POINTERS
          /\ i0 \in Nat /\ i0 >= I_LEV_DATA_POINTERS
      BY <1>1, <2>2, Geometry DEF GrownAt
    <3>2. e0 \in Entries /\ BlockAt(i0, e0) = B
      BY <1>1, <3>1, EntryOfBlock
    <3>3. e0 # HERE /\ i0 \notin IEntries /\ i0 # HERE /\ 0 \in Entries
      BY <3>1, <3>2, Geometry
    <3>4. BlockAt(i0, 0) \in Nat /\ BlockAt(i0, 0) <= BlockAt(i0, e0)
          /\ (BlockAt(i0, 0) = BlockAt(i0, e0) => e0 = 0)
      <4>1. InII(BlockAt(i0, 0)) = 0 /\ InII(BlockAt(i0, e0)) = e0
        BY <3>1, <3>2, <3>3, BlockOfEntry
      <4> QED
        BY <3>1, <3>2, <3>3, <4>1, BlockOfEntry
    <3> QED
      <4> HIDE DEF B
      <4>1. /\ PlaceOf(B, i0, HERE) <=> BlockAt(i0, 0) < B
            /\ PlaceOf(B, i0, e0) <=> BlockAt(i0, e0) < B
        BY <3>1, <3>2, <3>3, PlacesAre DEF PlaceOf
      <4> QED
        BY <1>1, <3>2, <3>3, <3>4, <4>1
  <2> QED
    BY <2>1, <2>2
<1>7. \A i \in Entries : ~New(i, HERE) => h[i] = g[i]
  BY <1>1, <1>4 DEF GrownAt
<1>8. New(i0, HERE) => h[i0] = (IF e0 = 0 THEN t ELSE c) /\ Live(allocated', h[i0])
  BY <1>1, <1>2, <1>4, Geometry DEF GrownAt
<1>9. \A i \in SecondEntries \ {i0} : PlaceOf(B, i, HERE) => k[h[i]].pointers = d[g[i]].pointers
  <2> TAKE i \in SecondEntries \ {i0}
  <2>1. PlaceOf(B, i, HERE) => InUse(f, i, HERE)
    BY <1>1, PlacesAre DEF Filled, InUse, GrownAt
  <2>2. h[i] = g[i]
    BY <1>7, PlacesAre
  <2> QED
    BY <2>1, <2>2 DEF GrownAt
<1>10. ASSUME e0 # HERE
       PROVE  /\ k[h[i0]].pointers[e0] = c
              /\ \A e \in Entries \ {e0} : k[h[i0]].pointers[e] =
                    IF e0 = 0 THEN NoCluster ELSE d[g[i0]].pointers[e]
  <2>1. d[g[i0]].pointers \in [Entries -> Clusters] /\ NoPointers \in [Entries -> Clusters]
        /\ \A e \in Entries : NoPointers[e] = NoCluster
    <3>1. g[i0] \in Clusters
      BY <1>1, <1>4
    <3> HIDE DEF d, g
    <3> QED
      BY <1>1, <3>1, DiskPointers DEF NoPointers, Clusters
  <2>2. k[h[i0]].pointers = IF e0 = 0 THEN [NoPointers EXCEPT ![e0] = c]
                            ELSE [d[g[i0]].pointers EXCEPT ![e0] = c]
    BY <1>10 DEF GrownAt
  <2> HIDE DEF d, g, k, h
  <2> QED
    BY <1>4, <1>10, <2>1, <2>2
<1>11. IsFile(f) /\ IsFile(f)' /\ f \notin cut /\ ~At(f, "lost") /\ ~At(f, "lost")'
       /\ NumOf(f)' = NumOf(f) /\ Blocks(f)' = B + 1
  BY DEF GrownAt, IsFile, At
<1>12. /\ \A i, e : InUse(f, i, e) <=> Held(g, A, d, i, e)
       /\ \A i, e : InUse(f, i, e)' <=> Held(h, allocated', k, i, e)
       /\ \A i, e : ClusterOn(f, i, e) = On(NumOf(f), g, d, i, e)
       /\ \A i, e : ClusterOn(f, i, e)' = On(NumOf(f), h, k, i, e)
  BY <1>11 DEF InUse, ClusterOn
<1>99. N = IF e0 = 0 THEN {t, c} ELSE {c}
  OBVIOUS
<1> HIDE DEF g, A, d, B, h, k, N
<1>13. ASSUME NEW i \in Entries
       PROVE  /\ Held(h, allocated', k, i, HERE) <=> PlaceOf(B + 1, i, HERE)
              /\ ~PlaceOf(B + 1, i, HERE) => h[i] = NoCluster
              /\ PlaceOf(B, i, HERE) => h[i] = g[i]
              /\ Live(allocated', h[i]) <=> PlaceOf(B + 1, i, HERE)
  <2>0. i \in Places /\ i # HERE /\ HERE \in Places /\ HERE \notin Entries /\ g[i] \in Clusters
    BY <1>1, PlacesAre
  <2>1. Held(h, allocated', k, i, HERE) <=> Live(allocated', h[i])
    BY <2>0 DEF Held
  <2>2. Live(A, g[i]) <=> PlaceOf(B, i, HERE)
    BY <1>1, <2>0 DEF Filled, Held
  <2>3. ~PlaceOf(B, i, HERE) => g[i] = NoCluster
    BY <1>1 DEF Filled
  <2>4. CASE New(i, HERE)
    BY <2>0, <2>1, <2>4, <1>5, <1>6, <1>8
  <2>5. CASE ~New(i, HERE)
    <3>1. h[i] = g[i] /\ (PlaceOf(B + 1, i, HERE) <=> PlaceOf(B, i, HERE))
      BY <2>0, <2>5, <1>5, <1>7
    <3> QED
      BY <2>0, <2>1, <2>2, <2>3, <3>1, <1>3 DEF Live
  <2> QED
    BY <2>4, <2>5
<1>14. ASSUME NEW i \in SecondEntries, NEW e \in Entries
       PROVE  /\ Held(h, allocated', k, i, e) <=> PlaceOf(B + 1, i, e)
              /\ PlaceOf(B + 1, i, HERE) /\ ~PlaceOf(B + 1, i, e) => k[h[i]].pointers[e] = NoCluster
              /\ PlaceOf(B, i, e) => k[h[i]].pointers[e] = d[g[i]].pointers[e]
  <2>0. i \in Places /\ i # HERE /\ HERE \in Places /\ HERE \notin Entries /\ g[i] \in Clusters
        /\ i \in Entries /\ e \in Places /\ e # HERE /\ d[g[i]].pointers[e] \in Clusters
    <3>1. i \in Entries
      BY PlacesAre
    <3>2. g[i] \in Clusters
      BY <1>1, <3>1
    <3> QED
      BY <1>1, <3>1, <3>2, PlacesAre, DiskPointers
  <2>1. Held(h, allocated', k, i, e) <=> PlaceOf(B + 1, i, HERE) /\ Live(allocated', k[h[i]].pointers[e])
    BY <2>0, <1>13 DEF Held
  <2>2. PlaceOf(B, i, e) <=> PlaceOf(B, i, HERE) /\ Live(A, d[g[i]].pointers[e])
    <3>1. Held(g, A, d, i, e) <=> Held(g, A, d, i, HERE) /\ Live(A, d[g[i]].pointers[e])
      BY <2>0 DEF Held
    <3> QED
      BY <2>0, <3>1, <1>1 DEF Filled
  <2>3. PlaceOf(B, i, HERE) /\ ~PlaceOf(B, i, e) => d[g[i]].pointers[e] = NoCluster
    BY <1>1 DEF Filled
  <2>6. ~Live(allocated', NoCluster)
    BY DEF Live
  <2>4. CASE i # i0
    <3>1. /\ PlaceOf(B + 1, i, HERE) <=> PlaceOf(B, i, HERE)
          /\ PlaceOf(B + 1, i, e) <=> PlaceOf(B, i, e)
          /\ PlaceOf(B, i, HERE) => k[h[i]].pointers = d[g[i]].pointers
      BY <2>0, <2>4, <1>5, <1>9
    <3> QED
      BY <2>0, <2>1, <2>2, <2>3, <2>6, <3>1, <1>3
  <2>5. CASE i = i0
    <3>1. CASE e0 = HERE
      <4>1. B < I_LEV_DATA_POINTERS /\ i0 = B
        <5>1. B >= I_LEV_DATA_POINTERS => InII(B) \in Entries
          BY <1>1, EntryOfBlock
        <5> QED
          BY <1>1, <3>1, <5>1, <2>0, Geometry DEF GrownAt, B
      <4> QED
        BY <4>1, <2>5, Geometry
    <3>2. CASE e0 # HERE /\ e = e0
      <4>1. PlaceOf(B + 1, i, e) /\ PlaceOf(B + 1, i, HERE) /\ ~PlaceOf(B, i, e)
        BY <2>0, <2>5, <3>2, <1>5, <1>6
      <4>2. k[h[i]].pointers[e] = c
        BY <2>5, <3>2, <1>10
      <4> QED
        BY <2>1, <4>1, <4>2, <1>2
    <3>3. CASE e0 # HERE /\ e # e0
      <4>1. PlaceOf(B + 1, i, e) <=> PlaceOf(B, i, e)
        BY <2>0, <2>5, <3>3, <1>5
      <4>2. k[h[i]].pointers[e] = IF e0 = 0 THEN NoCluster ELSE d[g[i]].pointers[e]
        BY <2>5, <3>3, <1>10
      <4>3. CASE e0 = 0
        <5>1. ~PlaceOf(B, i, e)
          BY <2>2, <2>5, <4>3, <1>6
        <5> QED
          BY <2>1, <2>6, <4>1, <4>2, <4>3, <5>1
      <4>4. CASE e0 # 0
        <5>1. PlaceOf(B, i, HERE) /\ PlaceOf(B + 1, i, HERE)
          BY <2>0, <2>5, <3>3, <4>4, <1>5, <1>6
        <5> QED
          BY <2>0, <2>1, <2>2, <2>3, <2>6, <4>1, <4>2, <4>4, <5>1, <1>3
      <4> QED
        BY <4>3, <4>4
    <3> QED
      BY <3>1, <3>2, <3>3
  <2> QED
    BY <2>4, <2>5
<1>15. Filled(h, allocated', k, B + 1)
  <2>1. \A i, e \in Places : Held(h, allocated', k, i, e) <=> PlaceOf(B + 1, i, e)
    <3> TAKE i, e \in Places
    <3>1. CASE i = HERE
      BY <3>1, PlacesAre DEF Held, PlaceOf
    <3>2. CASE i \in Entries /\ e = HERE
      BY <3>2, <1>13
    <3>3. CASE i \in SecondEntries /\ e \in Entries
      BY <3>3, <1>14
    <3>4. CASE i \in Entries /\ i \notin SecondEntries /\ e \in Entries
      BY <3>4, PlacesAre DEF Held, PlaceOf
    <3> QED
      BY <3>1, <3>2, <3>3, <3>4, PlacesAre
  <2> QED
    BY <2>1, <1>13, <1>14 DEF Filled
<1>16. Layout(f)'
  <2>1. Prefixes(h, allocated', k) /\ Covers(h, allocated', k, B + 1) /\ Ends(h, allocated', k, B + 1)
    <3>1. B + 1 \in Nat
      BY <1>1
    <3> QED
      BY <1>15, <3>1, FilledIs
  <2>2. NumOf(f)' \in allocated'
    BY <1>1, <1>2, <1>11
  <2>3. Layout(f)' <=> (IsFile(f)' => /\ NumOf(f)' \in allocated' /\ Prefixes(h, allocated', k)
                                      /\ Covers(h, allocated', k, Blocks(f)')
                                      /\ f \notin cut' => Ends(h, allocated', k, Blocks(f)'))
    BY DEF Layout, h, k
  <2> QED
    BY <1>11, <2>1, <2>2, <2>3
<1>17. ASSUME NEW i \in Places, NEW e \in Places, PlaceOf(B, i, e)
       PROVE  On(NumOf(f), h, k, i, e) = On(NumOf(f), g, d, i, e)
  <2>1. CASE i = HERE
    BY <2>1 DEF On
  <2>2. CASE i \in Entries /\ e = HERE
    BY <2>2, <1>13, <1>17 DEF On
  <2>3. CASE i \in SecondEntries /\ e \in Entries
    BY <2>3, <1>14, <1>17, PlacesAre DEF On
  <2>4. CASE i \in Entries /\ i \notin SecondEntries /\ e \in Entries
    BY <2>4, <1>17, PlacesAre DEF PlaceOf
  <2> QED
    BY <2>1, <2>2, <2>3, <2>4, PlacesAre
<1>18. /\ On(NumOf(f), h, k, i0, e0) = c
       /\ e0 = 0 => On(NumOf(f), h, k, i0, HERE) = t
  BY <1>4, <1>8, <1>10, PlacesAre DEF On, HERE
<1>19. \A i, e \in Places : /\ InUse(f, i, e) <=> PlaceOf(B, i, e)
                            /\ InUse(f, i, e)' <=> PlaceOf(B, i, e) \/ New(i, e)
  BY <1>1, <1>5, <1>12, <1>15 DEF Filled
<1>20. Moves(f, N, {})
  <2>1. \A i, e \in Places : InUse(f, i, e) => InUse(f, i, e)' /\ ClusterOn(f, i, e)' = ClusterOn(f, i, e)
    BY <1>12, <1>17, <1>19
  <2>2. \A i, e \in Places : InUse(f, i, e)' /\ ~InUse(f, i, e) =>
           /\ ClusterOn(f, i, e)' \in N
           /\ i = i0
           /\ \/ e = e0 /\ ClusterOn(f, i, e)' = c
              \/ e = HERE /\ e0 = 0 /\ ClusterOn(f, i, e)' = t
    BY <1>2, <1>12, <1>18, <1>19
  <2>3. \A i, e \in Places : InUse(f, i, e) => ClusterOn(f, i, e)' \notin N
    <3> TAKE i, e \in Places
    <3> SUFFICES ASSUME InUse(f, i, e) PROVE ClusterOn(f, i, e)' \notin N
      OBVIOUS
    <3>1. ClusterOn(f, i, e) \in A
      BY UsedIsAllocatedData DEF A
    <3> QED
      BY <1>2, <1>99, <2>1, <3>1
  <2>4. \A q \in N : \E i, e \in Places : InUse(f, i, e)' /\ ClusterOn(f, i, e)' = q
    <3>1. InUse(f, i0, e0)' /\ ClusterOn(f, i0, e0)' = c
      BY <1>4, <1>12, <1>18, <1>19
    <3>2. e0 = 0 => InUse(f, i0, HERE)' /\ ClusterOn(f, i0, HERE)' = t
      BY <1>4, <1>12, <1>18, <1>19, PlacesAre
    <3> QED
      BY <1>4, <1>99, <3>1, <3>2, PlacesAre
  <2>5. ~At(f, "lost")
    BY <1>11
  <2>6. \A i, e, j, q \in Places :
           InUse(f, i, e)' /\ InUse(f, j, q)' /\ ClusterOn(f, i, e)' \in N
             /\ ClusterOn(f, i, e)' = ClusterOn(f, j, q)' => i = j /\ e = q
    BY <1>2, <2>2, <2>3
  <2> QED
    BY <2>1, <2>2, <2>4, <2>5, <2>6 DEF Moves
<1> QED
  BY <1>16, <1>20 DEF N

\* What a slot is after a cluster, or a second-level index, has been added to it.
LEMMA WithClusterIs ==
    ASSUME NEW s \in SlotType, NEW c \in Clusters
    PROVE  LET w == WithCluster(s, c)
               b == Block(s.cursor)
           IN  /\ b < I_LEV_DATA_POINTERS =>
                     /\ w \in SlotType /\ w.index = [s.index EXCEPT ![b] = c]
                     /\ w.ILevLeft = s.ILevLeft - 1
                     /\ w.II = s.II /\ w.IILevDataLeft = s.IILevDataLeft
               /\ b >= I_LEV_DATA_POINTERS /\ s.IILevel = "loaded" /\ s.IILevDataLeft # 0 =>
                     /\ w \in SlotType /\ w.II = [s.II EXCEPT ![InII(b)] = c]
                     /\ w.IILevDataLeft = s.IILevDataLeft - 1
                     /\ w.index = s.index /\ w.ILevLeft = s.ILevLeft
               /\ w.at = s.at /\ w.mode = s.mode /\ w.cursor = s.cursor /\ w.left = s.left
               /\ w.done = s.done /\ w.size = s.size /\ w.num = s.num
               /\ w.IILevel = s.IILevel /\ w.IInum = s.IInum /\ w.IILevLeft = s.IILevLeft
<1> DEFINE w == WithCluster(s, c)
           b == Block(s.cursor)
<1>1. b \in Nat /\ I_LEV_DATA_POINTERS \in Nat
  BY BlockOfByte, Geometry DEF SlotType, SlotRecord
<1>2. CASE b < I_LEV_DATA_POINTERS
  <2>1. w = [s EXCEPT !.index[b] = c, !.ILevLeft = s.ILevLeft - 1]
    BY <1>2 DEF WithCluster
  <2>2. s.ILevLeft - 1 \in Int /\ [s.index EXCEPT ![b] = c] \in [Entries -> Clusters]
    <3>1. s.ILevLeft \in Int /\ s.index \in [Entries -> Clusters]
      BY DEF SlotType, SlotRecord
    <3>2. [s.index EXCEPT ![b] = c] \in [Entries -> Clusters]
      <4> HIDE DEF b
      <4> QED
        BY <3>1
    <3> QED
      BY <3>1, <3>2
  <2> HIDE DEF w, b
  <2>3. w \in SlotType /\ w.index = [s.index EXCEPT ![b] = c] /\ w.ILevLeft = s.ILevLeft - 1
    BY <2>1, <2>2 DEF SlotType, SlotRecord
  <2>4. /\ w.at = s.at /\ w.mode = s.mode /\ w.cursor = s.cursor /\ w.left = s.left
        /\ w.done = s.done /\ w.size = s.size /\ w.num = s.num /\ w.IILevLeft = s.IILevLeft
        /\ w.IILevel = s.IILevel /\ w.IInum = s.IInum /\ w.II = s.II /\ w.IILevDataLeft = s.IILevDataLeft
    BY <2>1 DEF SlotType, SlotRecord
  <2> QED
    BY <1>1, <1>2, <2>3, <2>4 DEF w, b
<1>3. CASE b >= I_LEV_DATA_POINTERS
  <2>1. w = [s EXCEPT !.II[InII(b)] = c, !.IILevDataLeft = s.IILevDataLeft - 1]
    BY <1>1, <1>3 DEF WithCluster
  <2>2. [s.II EXCEPT ![InII(b)] = c] \in [Entries -> Clusters]
        /\ s.IILevDataLeft \in Int /\ s.IInum \in Nat
        /\ (s.IILevel = "loaded" => s.IInum \in Clusters)
        /\ (s.IILevel = "loaded" /\ s.IILevDataLeft # 0
              => s.IILevDataLeft - 1 \in 0..II_LEV_DATA_POINTERS)
    <3>1. /\ s.IILevDataLeft \in Int /\ s.IInum \in Nat /\ s.II \in [Entries -> Clusters]
          /\ s.IILevel = "loaded" =>
                s.IInum \in Clusters /\ s.IILevDataLeft \in 0..II_LEV_DATA_POINTERS
      BY DEF SlotType, SlotRecord
    <3>2. [s.II EXCEPT ![InII(b)] = c] \in [Entries -> Clusters]
      <4> HIDE DEF b
      <4> QED
        BY <3>1
    <3> QED
      BY <3>1, <3>2, Geometry
  <2> HIDE DEF w, b
  <2>3. /\ w.II = [s.II EXCEPT ![InII(b)] = c] /\ w.IILevDataLeft = s.IILevDataLeft - 1
        /\ s.IILevel = "loaded" /\ s.IILevDataLeft # 0 => w \in SlotType
    <3>1. s \in SlotRecord /\ s.IILevDataLeft - 1 \in Int
      BY <2>2 DEF SlotType
    <3>2. w \in SlotRecord
      BY <2>1, <2>2, <3>1 DEF SlotRecord
    <3>3. /\ w.II = [s.II EXCEPT ![InII(b)] = c] /\ w.IILevDataLeft = s.IILevDataLeft - 1
          /\ w.IILevel = s.IILevel /\ w.IInum = s.IInum
      BY <2>1, <3>1 DEF SlotRecord
    <3> QED
      BY <2>2, <3>2, <3>3 DEF SlotType
  <2>4. /\ w.at = s.at /\ w.mode = s.mode /\ w.cursor = s.cursor /\ w.left = s.left
        /\ w.done = s.done /\ w.size = s.size /\ w.num = s.num /\ w.IILevLeft = s.IILevLeft
        /\ w.IILevel = s.IILevel /\ w.IInum = s.IInum /\ w.index = s.index /\ w.ILevLeft = s.ILevLeft
    BY <2>1 DEF SlotType, SlotRecord
  <2> QED
    BY <1>1, <1>3, <2>3, <2>4 DEF w, b
<1> QED
  BY <1>1, <1>2, <1>3

\* The same for a block of the second level.
LEMMA WithClusterInSecond ==
    ASSUME NEW s \in SlotType, NEW c \in Clusters, Block(s.cursor) >= I_LEV_DATA_POINTERS,
           s.IILevel = "loaded", s.IILevDataLeft # 0
    PROVE  LET w == WithCluster(s, c) IN
           /\ w \in SlotType /\ w.II = [s.II EXCEPT ![InII(Block(s.cursor))] = c]
           /\ w.IILevDataLeft = s.IILevDataLeft - 1 /\ w.index = s.index /\ w.ILevLeft = s.ILevLeft
           /\ w.at = s.at /\ w.mode = s.mode /\ w.cursor = s.cursor /\ w.left = s.left
           /\ w.done = s.done /\ w.size = s.size /\ w.num = s.num
           /\ w.IILevel = s.IILevel /\ w.IInum = s.IInum /\ w.IILevLeft = s.IILevLeft
BY WithClusterIs

LEMMA WithIIIs ==
    ASSUME NEW s \in SlotType, NEW t \in Clusters, s.IILevLeft > 0
    PROVE  LET w == WithII(s, t) IN
           /\ w \in SlotType
           /\ w.index = [s.index EXCEPT ![II_LEV_POINTERS - s.IILevLeft + I_LEV_DATA_POINTERS] = t]
           /\ w.IInum = t /\ w.IILevel = "loaded" /\ w.II = NoPointers
           /\ w.IILevLeft = s.IILevLeft - 1 /\ w.IILevDataLeft = II_LEV_DATA_POINTERS
           /\ w.at = s.at /\ w.mode = s.mode /\ w.cursor = s.cursor /\ w.left = s.left
           /\ w.done = s.done /\ w.size = s.size /\ w.num = s.num /\ w.ILevLeft = s.ILevLeft
<1> DEFINE w == WithII(s, t)
           i == II_LEV_POINTERS - s.IILevLeft + I_LEV_DATA_POINTERS
<1>1. w = [s EXCEPT !.index[i] = t, !.IInum = t, !.IILevel = "loaded", !.II = NoPointers,
                    !.IILevLeft = s.IILevLeft - 1, !.IILevDataLeft = II_LEV_DATA_POINTERS]
  BY DEF WithII
<1>2. [s.index EXCEPT ![i] = t] \in [Entries -> Clusters] /\ NoPointers \in [Entries -> Clusters]
      /\ s.IILevLeft - 1 \in 0..II_LEV_POINTERS /\ II_LEV_DATA_POINTERS \in 0..II_LEV_DATA_POINTERS
  BY SMTT(30), Geometry DEF SlotType, SlotRecord, NoPointers, Clusters
<1> HIDE DEF w, i
<1>3. w \in SlotType
  <2>1. s \in SlotRecord /\ t \in Nat /\ II_LEV_DATA_POINTERS \in Int
    BY <1>2, ClustersAreNumbers, Geometry DEF SlotType
  <2>2. w \in SlotRecord
    BY <1>1, <1>2, <2>1 DEF SlotRecord
  <2>3. w.IInum = t /\ w.IILevDataLeft = II_LEV_DATA_POINTERS
    BY <1>1, <2>1 DEF SlotRecord
  <2> QED
    BY <1>2, <2>2, <2>3 DEF SlotType
<1>4. /\ w.index = [s.index EXCEPT ![i] = t]
      /\ w.IInum = t /\ w.IILevel = "loaded" /\ w.II = NoPointers
      /\ w.IILevLeft = s.IILevLeft - 1 /\ w.IILevDataLeft = II_LEV_DATA_POINTERS
  BY <1>1 DEF SlotType, SlotRecord
<1>5. /\ w.at = s.at /\ w.mode = s.mode /\ w.cursor = s.cursor /\ w.left = s.left
      /\ w.done = s.done /\ w.size = s.size /\ w.num = s.num /\ w.ILevLeft = s.ILevLeft
  BY <1>1 DEF SlotType, SlotRecord
<1> QED
  BY <1>3, <1>4, <1>5 DEF w, i

\* Where the next block goes in the second level, when m entries of it are left.
LEMMA NextInSecond ==
    ASSUME NEW B \in Nat, B >= I_LEV_DATA_POINTERS, NEW n, n = UpTo(Beyond(B), II_LEV_DATA_POINTERS),
           NEW m \in 0..II_LEV_DATA_POINTERS, m = n * II_LEV_DATA_POINTERS - Beyond(B)
    PROVE  /\ Beyond(B + 1) = Beyond(B) + 1 /\ n \in Nat /\ Beyond(B) \in Nat
           /\ m # 0 => /\ IIEntry(B) = I_LEV_DATA_POINTERS + n - 1 /\ n # 0
                       /\ InII(B) = II_LEV_DATA_POINTERS - m /\ InII(B) # 0
                       /\ UpTo(Beyond(B + 1), II_LEV_DATA_POINTERS) = n
           /\ m = 0 => /\ IIEntry(B) = I_LEV_DATA_POINTERS + n /\ InII(B) = 0
                       /\ UpTo(Beyond(B + 1), II_LEV_DATA_POINTERS) = n + 1
           /\ m - 1 = n * II_LEV_DATA_POINTERS - (Beyond(B) + 1)
           /\ m = 0 => II_LEV_DATA_POINTERS - 1 = (n + 1) * II_LEV_DATA_POINTERS - (Beyond(B) + 1)
<1> DEFINE x == B - I_LEV_DATA_POINTERS
           T == II_LEV_DATA_POINTERS
<1>1. x \in Nat /\ Beyond(B) = x /\ Beyond(B + 1) = x + 1 /\ T \in Nat \ {0} /\ m \in 0..T
  BY Geometry DEF Beyond
<1>2. /\ UpTo(x, T) \in Nat /\ UpTo(x, T) = (IF x % T = 0 THEN x \div T ELSE x \div T + 1)
      /\ UpTo(x + 1, T) = x \div T + 1
  BY <1>1, RoundsUp
<1>3. IIEntry(B) = x \div T + I_LEV_DATA_POINTERS /\ InII(B) = x % T
  BY DEF IIEntry, InII
<1>4. n = UpTo(x, T) /\ m = n * T - x
  BY <1>1
<1>5. I_LEV_DATA_POINTERS \in Nat
  BY Geometry
<1> HIDE DEF x, T
<1>6. T * n \in Nat /\ n * T = T * n /\ T * (n - 1) = T * n - T /\ (n + 1) * T = T * n + T
  BY <1>1, <1>2, <1>4
<1>7. ASSUME m # 0 PROVE x \div T = n - 1 /\ x % T = T - m /\ n # 0 /\ x % T # 0
  <2>1. n - 1 \in Int /\ T - m \in 0..T - 1 /\ x = T * (n - 1) + (T - m)
    <3> DEFINE z == T * n
               y == T * (n - 1)
    <3>1. z \in Nat /\ y = z - T /\ m = z - x /\ n \in Nat
      BY <1>2, <1>4, <1>6
    <3>2. x = y + (T - m)
      <4> HIDE DEF z, y
      <4> QED
        BY <1>1, <3>1
    <3> QED
      BY <1>1, <1>7, <3>1, <3>2
  <2>2. x \div T = n - 1 /\ x % T = T - m
    BY ZenonT(30), <1>1, <2>1, DivIs
  <2>3. x % T # 0
    BY <1>2, <1>4, <2>2
  <2>4. n # 0
    <3>1. x \div T \in Nat
      BY <1>1, DivMod
    <3> QED
      BY <2>2, <3>1
  <2> QED
    BY <2>2, <2>3, <2>4
<1>8. ASSUME m = 0 PROVE x \div T = n /\ x % T = 0
  <2>1. n \in Int /\ 0 \in 0..T - 1 /\ x = T * n + 0
    <3> DEFINE z == T * n
    <3>1. z \in Nat /\ m = z - x /\ n \in Nat
      BY <1>2, <1>4, <1>6
    <3>2. x = z + 0
      <4> HIDE DEF z
      <4> QED
        BY <1>1, <1>8, <3>1
    <3> QED
      BY <1>1, <3>1, <3>2
  <2> QED
    BY <1>1, <2>1, DivIs
<1>9. m - 1 = n * T - (x + 1) /\ (m = 0 => T - 1 = (n + 1) * T - (x + 1))
  BY <1>1, <1>2, <1>4, <1>6
<1> QED
  BY <1>1, <1>2, <1>3, <1>4, <1>5, <1>7, <1>8, <1>9 DEF T

LEMMA GrownKeeps ==
    ASSUME Inv, NEW f \in Files, NEW r \in SlotType, NEW i0, NEW e0, NEW t, NEW c,
           slot' = [slot EXCEPT ![f] = r], UNCHANGED <<dir, cut>>, ret' \in Bytes \cup {Nothing},
           cut = {}, disk' \in DiskType, GrownAt(f, i0, e0, t, c), IsOpen(f),
           \A k \in Clusters :
              disk'[k].pointers = disk[k].pointers \/ k \notin allocated \/ k \in Used(f),
           r.at \in {"open", "writes"}, r.cursor <= r.size, r.size <= MaxSize(f),
           r.num = slot[f].num, r.mode # "r",
           r.at = "writes" => r.left > 0 /\ r.cursor + r.left <= MaxSize(f),
           Loaded(f)', Lefts(f)'
    PROVE  Inv'
<1> DEFINE N == IF e0 = 0 THEN {t, c} ELSE {c}
<1>1. slot[f] \in SlotType /\ TypeOK /\ allocated \subseteq Data
      /\ cut \subseteq Files /\ dir \in [Files -> [num : Clusters, size : Nat]]
      /\ slot \in [Files -> SlotType] /\ Handle(f)
  BY FileTypes, DiskTypes DEF Inv, TypeOK
<1>2. allocated' = allocated \cup N /\ N \subseteq Data /\ N \cap allocated = {}
  BY DEF GrownAt, Free
<1> HIDE DEF N
<1>3. TypeOK' /\ slot'[f] = r
  BY <1>1, <1>2, TypesAfter
<1>4. StepOf(f, N, {})
  BY <1>1, <1>2 DEF StepOf
<1>5. Moves(f, N, {}) /\ Layout(f)'
  BY Grown DEF N
<1>6. IsOpen(f)' /\ ~At(f, "closed")' /\ ~At(f, "rewrites")' /\ IsFile(f)' /\ Exists(f)'
      /\ SizeOf(f)' = r.size
  BY <1>3 DEF IsOpen, At, GrownAt, IsFile, SizeOf
<1>7. Handle(f)'
  BY <1>1, <1>3, <1>6 DEF Handle, At
<1> QED
  BY <1>3, <1>4, <1>5, <1>7, InvKept

\* The end of a file on the boundary of a cluster.
LEMMA EndOfFile ==
    ASSUME FilesFit, Inv, NEW f \in Files, f \notin cut, AtBoundary(slot[f]), IsFile(f), IsOpen(f),
           SizeOf(f) = slot[f].size
    PROVE  LET s == slot[f]
               B == Blocks(f)
               n == IIs(f)
           IN  /\ B \in Nat /\ Block(s.cursor) = B /\ UpTo(s.size + 1, ClusterSize) = B + 1
               /\ n = UpTo(Beyond(B), II_LEV_DATA_POINTERS) /\ n \in Nat
               /\ Beyond(B) \in Nat /\ InSecond(f) = Beyond(B)
               /\ s.ILevLeft = I_LEV_DATA_POINTERS - (B - Beyond(B))
               /\ s.IILevLeft = II_LEV_POINTERS - n
               /\ s.IILevel = "loaded" => s.IILevDataLeft = n * II_LEV_DATA_POINTERS - Beyond(B)
               /\ n * II_LEV_DATA_POINTERS - Beyond(B) \in 0..II_LEV_DATA_POINTERS
               /\ s.IILevel = "none" <=> n = 0
               /\ s.IILevel = "loaded" => s.IInum = s.index[I_LEV_DATA_POINTERS + n - 1]
               /\ B >= I_LEV_DATA_POINTERS => IIEntry(B) \in SecondEntries
<1> DEFINE s == slot[f]
           B == Blocks(f)
           n == IIs(f)
<1>1. s \in SlotType /\ s.cursor = s.size /\ s.cursor % ClusterSize = 0 /\ s.size \in Nat
      /\ Lefts(f) /\ Loaded(f) /\ s.size <= MaxSize(f)
  BY FileTypes DEF Inv, AtBoundary, SlotType, SlotRecord, Handle
<1>2. /\ B \in Nat /\ B = UpTo(s.size, ClusterSize) /\ InSecond(f) = Beyond(B) /\ InSecond(f) \in Nat
      /\ n = UpTo(Beyond(B), II_LEV_DATA_POINTERS) /\ n \in Nat
  BY <1>1, FileNumbers
<1>3. Block(s.cursor) = B /\ UpTo(s.size + 1, ClusterSize) = B + 1
  BY <1>1, <1>2, AtEnd
<1>4. B >= I_LEV_DATA_POINTERS => IIEntry(B) \in SecondEntries
  <2>1. ClusterSize * B <= s.size
    BY <1>1, <1>3, BlockOfByte
  <2> HIDE DEF B, s
  <2> QED
    BY <1>1, <1>2, <2>1, FitsEntries
<1>5. n * II_LEV_DATA_POINTERS - Beyond(B) \in 0..II_LEV_DATA_POINTERS
  <2>1. CASE s.IILevel = "loaded"
    <3>1. s.IILevDataLeft \in 0..II_LEV_DATA_POINTERS
      BY <1>1, <2>1 DEF SlotType, SlotRecord
    <3> QED
      BY <1>1, <1>2, <2>1, <3>1 DEF Lefts
  <2>2. CASE s.IILevel # "loaded"
    <3>1. n = 0
      BY <1>1, <1>2, <2>2 DEF Loaded, SlotType, SlotRecord
    <3>2. Beyond(B) = 0
      <4>1. ~(B > I_LEV_DATA_POINTERS)
        BY <1>1, <3>1, SecondIsUsed, Geometry
      <4> HIDE DEF B
      <4> QED
        BY <4>1, <1>2, Geometry DEF Beyond
    <3> QED
      BY <3>1, <3>2, Geometry
  <2> QED
    BY <2>1, <2>2
<1> QED
  BY <1>1, <1>2, <1>3, <1>4, <1>5 DEF Lefts, Loaded

\* The byte v goes to a new cluster of the file, otherwise the clusters are those of d.
AtNewEnd(f, v, d) ==
    \E i0, e0, t, c :
        /\ GrownAt(f, i0, e0, t, c) /\ OnlyAt(c, d) /\ Block(slot[f].cursor) = Blocks(f)
        /\ disk'[c].bytes[slot[f].cursor % ClusterSize] = v
        /\ SizeOf(f)' = SizeOf(f) + 1 /\ ByteDone(f)

LEMMA GrowKeeps ==
    ASSUME FilesFit, Inv, GrowsUncut, NEW f \in Files, NEW v \in Writes(f, slot[f].cursor), Grow(f, v)
    PROVE  Inv' /\ AtNewEnd(f, v, disk) /\ \E c \in Free : OnlyAt(c, disk)
<1> DEFINE s == slot[f]
           B == Blocks(f)
           n == IIs(f)
           T == II_LEV_DATA_POINTERS
<1>1. At(f, "writes") /\ AtBoundary(s) /\ s.cursor = s.size /\ ~NeedsII(s)
  BY DEF Grow, AtBoundary, At
<1>2. /\ v \in Bytes /\ s.left > 0 /\ s.left \in Nat /\ s.cursor \in Nat
      /\ s.size \in Nat /\ s.cursor <= s.size /\ s.cursor + s.left <= MaxSize(f)
      /\ s.size <= MaxSize(f) /\ s \in SlotType /\ s.mode # "r" /\ MaxSize(f) \in Nat
      /\ IsOpen(f) /\ IsFile(f) /\ SizeOf(f) = s.size /\ disk \in DiskType
      /\ IndexOf(f) = s.index /\ NumOf(f) = s.num
      /\ slot \in [Files -> SlotType]
  BY <1>1, Written, DiskTypes DEF Inv
<1>3. PICK c \in Answers(Free) :
          /\ allocated' = allocated \cup {c}
          /\ WriteTo(f, WithCluster(s, c), Last(WithCluster(s, c)), v, disk, 1)
  BY DEF Grow
<1> DEFINE w == WithCluster(s, c)
           r == Rounded(w, 1)
<1>4. c \in Free /\ c \in Clusters /\ c \in Data /\ c \notin allocated
  BY AnswersFree DEF Free, Clusters
<1>5. /\ Block(s.cursor) < I_LEV_DATA_POINTERS =>
            /\ w \in SlotType /\ w.index = [s.index EXCEPT ![Block(s.cursor)] = c]
            /\ w.ILevLeft = s.ILevLeft - 1 /\ w.II = s.II /\ w.IILevDataLeft = s.IILevDataLeft
      /\ Block(s.cursor) >= I_LEV_DATA_POINTERS /\ s.IILevel = "loaded" /\ s.IILevDataLeft # 0 =>
            /\ w \in SlotType /\ w.II = [s.II EXCEPT ![InII(Block(s.cursor))] = c]
            /\ w.IILevDataLeft = s.IILevDataLeft - 1 /\ w.index = s.index /\ w.ILevLeft = s.ILevLeft
      /\ w.at = s.at /\ w.mode = s.mode /\ w.cursor = s.cursor /\ w.left = s.left
      /\ w.done = s.done /\ w.size = s.size /\ w.num = s.num
      /\ w.IILevel = s.IILevel /\ w.IInum = s.IInum /\ w.IILevLeft = s.IILevLeft
  BY <1>2, <1>4, WithClusterIs
<1>6. /\ slot' = [slot EXCEPT ![f] = r] /\ ret' = Nothing /\ UNCHANGED <<dir, cut>>
      /\ disk' = [disk EXCEPT ![Last(w)] = WithByte(@, s.cursor % ClusterSize, v)]
      /\ allocated' = allocated \cup {c}
  BY <1>3, <1>5 DEF WriteTo
<1>7. Block(s.cursor) < I_LEV_DATA_POINTERS
         \/ (Block(s.cursor) >= I_LEV_DATA_POINTERS /\ s.IILevDataLeft # 0 /\ s.IILevel = "loaded")
  <2>1. Block(s.cursor) \in Nat /\ s.IILevel \in {"none", "loaded"}
    BY <1>2, BlockOfByte DEF SlotType, SlotRecord
  <2> QED
    BY <1>1, <2>1, Geometry DEF NeedsII
<1>8. w \in SlotType
  BY <1>5, <1>7
<1> HIDE DEF w
<1>9. /\ r \in SlotType /\ r.cursor = s.cursor + 1 /\ r.left = s.left - 1 /\ r.done = s.done + 1
      /\ r.at = (IF s.left = 1 THEN "open" ELSE "writes") /\ r.size = s.size + 1
      /\ r.num = s.num /\ r.index = w.index /\ r.mode = s.mode /\ r.IILevel = s.IILevel
      /\ r.II = w.II /\ r.IInum = s.IInum /\ r.ILevLeft = w.ILevLeft
      /\ r.IILevLeft = s.IILevLeft /\ r.IILevDataLeft = w.IILevDataLeft
  BY <1>1, <1>2, <1>5, <1>8, Rounds
<1> HIDE DEF r
<1>10. slot'[f] = r
  BY <1>2, <1>6
<1>11. cut = {}
  BY <1>1, <1>9, <1>10, GrowsUncutFile
<1>12. /\ B \in Nat /\ Block(s.cursor) = B /\ UpTo(s.size + 1, ClusterSize) = B + 1
       /\ n = UpTo(Beyond(B), T) /\ n \in Nat
       /\ Beyond(B) \in Nat /\ InSecond(f) = Beyond(B)
       /\ s.ILevLeft = I_LEV_DATA_POINTERS - (B - Beyond(B))
       /\ s.IILevLeft = II_LEV_POINTERS - n
       /\ s.IILevel = "loaded" => s.IILevDataLeft = n * T - Beyond(B)
       /\ n * T - Beyond(B) \in 0..T
       /\ s.IILevel = "none" <=> n = 0
       /\ s.IILevel = "loaded" => s.IInum = s.index[I_LEV_DATA_POINTERS + n - 1]
       /\ B >= I_LEV_DATA_POINTERS => IIEntry(B) \in SecondEntries
  BY <1>1, <1>2, <1>11, EndOfFile
<1>13. IsOpen(f)' /\ IsFile(f)' /\ ~At(f, "closed")' /\ ~At(f, "lost") /\ ~At(f, "closed")
  BY <1>1, <1>2, <1>6, <1>9, <1>10 DEF IsOpen, IsFile, At, Exists
<1>14. NumOf(f)' = NumOf(f) /\ IndexOf(f)' = w.index /\ SizeOf(f)' = s.size + 1
  BY <1>2, <1>9, <1>10, <1>13 DEF NumOf, IndexOf, SizeOf
<1>15. Blocks(f)' = B + 1 /\ InSecond(f)' = Beyond(B + 1) /\ IIs(f)' = UpTo(Beyond(B + 1), T)
  <2>1. Blocks(f)' = B + 1
    BY <1>12, <1>14 DEF Blocks
  <2>2. InSecond(f)' = Beyond(B + 1)
    BY <2>1 DEF InSecond, Beyond
  <2> QED
    BY <2>1, <2>2 DEF IIs
<1>16. Last(w) = c
  <2>1. CASE B < I_LEV_DATA_POINTERS
    <3>1. I_LEV_DATA_POINTERS - w.ILevLeft - 1 = B /\ B \in Entries /\ s.index \in [Entries -> Clusters]
          /\ w.cursor = s.cursor
      <4>1. Beyond(B) = 0 /\ w.ILevLeft = I_LEV_DATA_POINTERS - B - 1 /\ B \in Entries
        <5> HIDE DEF B
        <5>1. Beyond(B) = 0 /\ B \in Entries
          BY <1>12, <2>1, Geometry DEF Beyond
        <5> QED
          BY <1>5, <1>12, <2>1, <5>1, Geometry
      <4>2. s.index \in [Entries -> Clusters]
        BY <1>2 DEF SlotType, SlotRecord
      <4> HIDE DEF B
      <4> QED
        BY <1>5, <1>12, <4>1, <4>2, Geometry
    <3> QED
      BY <1>5, <1>12, <2>1, <3>1 DEF Last
  <2>2. CASE ~(B < I_LEV_DATA_POINTERS)
    <3>1. B >= I_LEV_DATA_POINTERS
      BY <1>12, <2>2, Geometry
    <3>2. s.IILevDataLeft # 0 /\ w.IILevDataLeft = s.IILevDataLeft - 1 /\ w.II = [s.II EXCEPT ![InII(B)] = c]
          /\ s.IILevDataLeft = n * T - Beyond(B) /\ s.IILevDataLeft \in 0..T
      BY <1>5, <1>7, <1>12, <2>2, <3>1
    <3>3. InII(B) = T - s.IILevDataLeft
      BY <1>12, <3>1, <3>2, NextInSecond
    <3>4. T - w.IILevDataLeft - 1 = InII(B) /\ InII(B) \in Entries /\ s.II \in [Entries -> Clusters]
      <4>1. InII(B) \in Entries
        BY <1>12, <3>1, EntryOfBlock
      <4>2. s.II \in [Entries -> Clusters]
        BY <1>2 DEF SlotType, SlotRecord
      <4>3. s.IILevDataLeft \in Int
        BY <1>2 DEF SlotType, SlotRecord
      <4>4. T - w.IILevDataLeft - 1 = T - s.IILevDataLeft
        <5> HIDE DEF s
        <5> QED
          BY <3>2, <4>3, Geometry
      <4> QED
        BY <3>3, <4>1, <4>2, <4>4
    <3> QED
      BY <1>5, <1>12, <2>2, <3>2, <3>4 DEF Last
  <2> QED
    BY <2>1, <2>2
<1>17. /\ disk' \in DiskType /\ \A k \in Clusters : k # c => disk'[k] = disk[k]
       /\ disk'[c].bytes[s.cursor % ClusterSize] = v
  <2> DEFINE i == s.cursor % ClusterSize
  <2>1. i \in 0..ClusterSize - 1 /\ disk' = [disk EXCEPT ![c] = WithByte(@, i, v)]
    BY <1>2, <1>6, <1>16, BlockOfByte
  <2>2. WithByte(disk[c], i, v) \in [bytes : [0..ClusterSize - 1 -> Bytes \cup {Nothing}],
                                     pointers : [Entries -> Clusters]]
    BY <1>2, <1>4, <2>1, ByteWritten
  <2>3. WithByte(disk[c], i, v).bytes[i] = v
    BY <1>2, <1>4, <2>1 DEF WithByte, DiskType
  <2>4. disk'[c] = WithByte(disk[c], i, v)
    BY <1>2, <1>4, <2>1 DEF DiskType
  <2>5. disk'[c].bytes[i] = v
    BY <2>3, <2>4
  <2>6. disk' \in DiskType /\ \A k \in Clusters : k # c => disk'[k] = disk[k]
    <3> HIDE DEF i, s
    <3> QED
      BY <1>2, <1>4, <2>1, <2>2 DEF DiskType
  <2> QED
    BY <2>5, <2>6
<1>18. ASSUME NEW k \in Clusters
       PROVE  /\ Store(f)'[k].pointers = IF s.IILevel = "loaded" /\ s.IInum = k THEN w.II
                                         ELSE disk'[k].pointers
              /\ Store(f)[k].pointers = IF s.IILevel = "loaded" /\ s.IInum = k THEN s.II
                                        ELSE disk[k].pointers
  BY <1>2, <1>9, <1>10, <1>17, FlushedType DEF Store
<1>19. \A i \in SecondEntries : InUse(f, i, HERE) =>
          s.index[i] \in Clusters /\ s.index[i] # c /\ ClusterOn(f, i, HERE) = s.index[i]
  <2> TAKE i \in SecondEntries
  <2> SUFFICES ASSUME InUse(f, i, HERE)
               PROVE  s.index[i] \in Clusters /\ s.index[i] # c /\ ClusterOn(f, i, HERE) = s.index[i]
    OBVIOUS
  <2>1. ClusterOn(f, i, HERE) = s.index[i]
    BY <1>2, PlacesAre DEF ClusterOn, On
  <2>2. s.index[i] \in allocated /\ s.index[i] \in Data
    BY <2>1, UsedIsAllocatedData
  <2> QED
    BY <1>4, <2>1, <2>2 DEF Clusters
<1>20. ASSUME B < I_LEV_DATA_POINTERS
       PROVE  Inv' /\ \E i0, e0 : GrownAt(f, i0, e0, c, c)
  <2>1. w.index = [s.index EXCEPT ![B] = c] /\ w.ILevLeft = s.ILevLeft - 1 /\ w.II = s.II
        /\ w.IILevDataLeft = s.IILevDataLeft
    BY <1>5, <1>12, <1>20
  <2>2. GrownAt(f, B, HERE, c, c)
    <3>1. \A i \in SecondEntries : InUse(f, i, HERE) =>
             Store(f)'[IndexOf(f)[i]].pointers = Store(f)[IndexOf(f)[i]].pointers
      BY <1>2, <1>17, <1>18, <1>19, <2>1
    <3>2. HERE # 0
      BY Geometry
    <3> QED
      BY <1>2, <1>4, <1>6, <1>11, <1>13, <1>14, <1>15, <1>20, <2>1, <3>1, <3>2 DEF GrownAt
  <2>3. Beyond(B + 1) = 0 /\ Beyond(B) = 0 /\ UpTo(Beyond(B + 1), T) = n
    <3>1. B + 1 <= I_LEV_DATA_POINTERS /\ B <= I_LEV_DATA_POINTERS
      <4>1. B \in Nat
        BY <1>12
      <4> HIDE DEF B
      <4> QED
        BY <4>1, <1>20, Geometry
    <3>2. Beyond(B + 1) = 0 /\ Beyond(B) = 0
      BY <1>12, <3>1, Geometry DEF Beyond
    <3> QED
      BY <1>12, <3>2
  <2>4. n = 0
    BY <1>12, <2>3, NoBlocks
  <2>5. Loaded(f)'
    BY <1>9, <1>10, <1>12, <1>15, <2>3, <2>4, <1>2 DEF Loaded, Inv
  <2>6. Lefts(f)'
    <3>1. w.ILevLeft = I_LEV_DATA_POINTERS - (B + 1 - 0)
      BY <1>12, <2>1, <2>3, Geometry
    <3> QED
      BY <1>9, <1>10, <1>12, <1>15, <2>1, <2>3, <3>1 DEF Lefts
  <2>7. \A k \in Clusters : disk'[k].pointers = disk[k].pointers \/ k \notin allocated \/ k \in Used(f)
    BY <1>4, <1>17
  <2>8. /\ r.at \in {"open", "writes"} /\ r.cursor <= r.size /\ r.size <= MaxSize(f)
        /\ r.at = "writes" => r.left > 0 /\ r.cursor + r.left <= MaxSize(f)
    BY <1>1, <1>2, <1>9
  <2> HIDE DEF B, s
  <2>9. Inv'
    BY <1>2, <1>6, <1>9, <1>11, <1>17, <2>2, <2>5, <2>6, <2>7, <2>8, GrownKeeps DEF s
  <2> QED
    BY <2>2, <2>9
<1>21. ASSUME ~(B < I_LEV_DATA_POINTERS)
       PROVE  Inv' /\ \E i0, e0 : GrownAt(f, i0, e0, c, c)
  <2>0. B >= I_LEV_DATA_POINTERS /\ s.IILevDataLeft # 0 /\ s.IILevel = "loaded"
    BY <1>7, <1>12, <1>21, Geometry
  <2>1. /\ w.index = s.index /\ w.ILevLeft = s.ILevLeft /\ w.II = [s.II EXCEPT ![InII(B)] = c]
        /\ w.IILevDataLeft = s.IILevDataLeft - 1
    BY <1>5, <1>12, <2>0
  <2>2. /\ IIEntry(B) = I_LEV_DATA_POINTERS + n - 1 /\ n # 0 /\ InII(B) # 0
        /\ UpTo(Beyond(B + 1), T) = n /\ Beyond(B + 1) = Beyond(B) + 1
        /\ w.IILevDataLeft = n * T - Beyond(B + 1)
    BY <1>12, <2>0, <2>1, NextInSecond
  <2>3. IIEntry(B) \in SecondEntries /\ InII(B) \in Entries /\ s.IInum = s.index[IIEntry(B)]
    BY <1>12, <2>0, <2>2, EntryOfBlock
  <2>4. InUse(f, IIEntry(B), HERE)
    <3>1. n - 1 \in 0..n - 1 /\ I_LEV_DATA_POINTERS + (n - 1) = IIEntry(B)
      <4>1. n \in Nat /\ n # 0 /\ IIEntry(B) = I_LEV_DATA_POINTERS + n - 1
        BY <1>12, <2>2
      <4> HIDE DEF n, B
      <4> QED
        BY <4>1, Geometry
    <3>2. \A j \in 0..IIs(f) - 1 : InUse(f, I_LEV_DATA_POINTERS + j, HERE)
      BY <1>2, PlacesOfFile
    <3> QED
      BY <3>1, <3>2
  <2>5. \A i \in SecondEntries \ {IIEntry(B)} : InUse(f, i, HERE) => s.index[i] # s.IInum
    <3> TAKE i \in SecondEntries \ {IIEntry(B)}
    <3>1. ClusterOn(f, IIEntry(B), HERE) = s.IInum
      BY <1>19, <2>3, <2>4
    <3>2. \A i1, e1, j1, c1 \in Places :
             InUse(f, i1, e1) /\ InUse(f, j1, c1) /\ ClusterOn(f, i1, e1) = ClusterOn(f, j1, c1)
                => i1 = j1 /\ e1 = c1
      BY DEF Inv, Distinct
    <3> QED
      BY <1>19, <2>3, <2>4, <3>1, <3>2, PlacesAre
  <2>6. GrownAt(f, IIEntry(B), InII(B), c, c)
    <3>1. \A i \in SecondEntries \ {IIEntry(B)} : InUse(f, i, HERE) =>
             Store(f)'[IndexOf(f)[i]].pointers = Store(f)[IndexOf(f)[i]].pointers
      BY <1>2, <1>17, <1>18, <1>19, <2>5
    <3>2. InII(B) # HERE
      BY <2>3, PlacesAre
    <3>3. Store(f)'[s.index[IIEntry(B)]].pointers = [Store(f)[s.index[IIEntry(B)]].pointers EXCEPT ![InII(B)] = c]
      BY <1>18, <1>19, <2>0, <2>1, <2>3, <2>4
    <3> QED
      BY <1>2, <1>4, <1>6, <1>11, <1>13, <1>14, <1>15, <1>21, <2>1, <2>2, <2>3, <3>1, <3>2, <3>3
         DEF GrownAt
  <2>7. Loaded(f)'
    BY <1>9, <1>10, <1>12, <1>15, <2>0, <2>1, <2>2, <2>3 DEF Loaded
  <2>8. Lefts(f)'
    <3>1. s.ILevLeft = I_LEV_DATA_POINTERS - (B + 1 - Beyond(B + 1))
      <4>1. s.ILevLeft = I_LEV_DATA_POINTERS - (B - Beyond(B)) /\ Beyond(B + 1) = Beyond(B) + 1
            /\ B \in Nat /\ Beyond(B) \in Nat
        BY <1>12, <2>2
      <4> HIDE DEF s, B
      <4> QED
        BY <4>1, Geometry
    <3> QED
      BY <1>9, <1>10, <1>12, <1>15, <2>1, <2>2, <3>1 DEF Lefts
  <2>9. \A k \in Clusters : disk'[k].pointers = disk[k].pointers \/ k \notin allocated \/ k \in Used(f)
    BY <1>4, <1>17
  <2>10. /\ r.at \in {"open", "writes"} /\ r.cursor <= r.size /\ r.size <= MaxSize(f)
         /\ r.at = "writes" => r.left > 0 /\ r.cursor + r.left <= MaxSize(f)
    BY <1>1, <1>2, <1>9
  <2> HIDE DEF B, s
  <2>11. Inv'
    BY <1>2, <1>6, <1>9, <1>11, <1>17, <2>6, <2>7, <2>8, <2>9, <2>10, GrownKeeps DEF s
  <2> QED
    BY <2>6, <2>11
<1>22. Inv' /\ \E i0, e0 : GrownAt(f, i0, e0, c, c)
  BY <1>20, <1>21
<1>23. OnlyAt(c, disk)
  BY <1>17 DEF OnlyAt
<1>24. ByteDone(f)
  BY <1>9, <1>10 DEF ByteDone
<1>25. AtNewEnd(f, v, disk)
  BY <1>2, <1>12, <1>14, <1>17, <1>22, <1>23, <1>24 DEF AtNewEnd
<1> QED
  BY <1>4, <1>22, <1>23, <1>25

LEMMA GrowIIKeeps ==
    ASSUME FilesFit, Inv, GrowsUncut, NEW f \in Files, NEW v \in Writes(f, slot[f].cursor), GrowII(f, v)
    PROVE  /\ Inv' /\ AtNewEnd(f, v, Flushed(disk, slot[f]))
           /\ \E c \in Free : OnlyAt(c, Flushed(disk, slot[f]))
<1> DEFINE s == slot[f]
           B == Blocks(f)
           n == IIs(f)
           T == II_LEV_DATA_POINTERS
           i0 == IIEntry(B)
<1>1. At(f, "writes") /\ AtBoundary(s) /\ s.cursor = s.size /\ NeedsII(s) /\ s.IILevLeft > 0
  BY DEF GrowII, AtBoundary, At
<1>2. /\ v \in Bytes /\ s.left > 0 /\ s.left \in Nat /\ s.cursor \in Nat
      /\ s.size \in Nat /\ s.cursor <= s.size /\ s.cursor + s.left <= MaxSize(f)
      /\ s.size <= MaxSize(f) /\ s \in SlotType /\ s.mode # "r" /\ MaxSize(f) \in Nat
      /\ IsOpen(f) /\ IsFile(f) /\ SizeOf(f) = s.size /\ disk \in DiskType
      /\ IndexOf(f) = s.index /\ NumOf(f) = s.num
      /\ slot \in [Files -> SlotType]
  BY <1>1, Written, DiskTypes DEF Inv
<1>3. PICK t \in Answers(Free) : \E c \in Answers(Free \ {t}) :
          LET s1 == WithCluster(WithII(s, t), c) IN
          /\ allocated' = allocated \cup {t, c}
          /\ WriteTo(f, s1, Last(s1), v, Flushed(disk, s), 1)
  BY DEF GrowII
<1>4. PICK c \in Answers(Free \ {t}) :
          LET s1 == WithCluster(WithII(s, t), c) IN
          /\ allocated' = allocated \cup {t, c}
          /\ WriteTo(f, s1, Last(s1), v, Flushed(disk, s), 1)
  BY <1>3
<1> DEFINE u == WithII(s, t)
           w == WithCluster(u, c)
           r == Rounded(w, 1)
<1>5. /\ t \in Free /\ t \in Clusters /\ t \in Data /\ t \notin allocated
      /\ c \in Free /\ c \in Clusters /\ c \in Data /\ c \notin allocated /\ t # c
  <2>1. t \in Free
    BY AnswersFree
  <2>2. Free \ {t} \in SUBSET Data
    BY DEF Free
  <2>3. c \in Free \ {t}
    BY <2>2, LayoutAssumption
  <2> QED
    BY <2>1, <2>3 DEF Free, Clusters
<1>6. /\ u \in SlotType
      /\ u.index = [s.index EXCEPT ![II_LEV_POINTERS - s.IILevLeft + I_LEV_DATA_POINTERS] = t]
      /\ u.IInum = t /\ u.IILevel = "loaded" /\ u.II = NoPointers
      /\ u.IILevLeft = s.IILevLeft - 1 /\ u.IILevDataLeft = T
      /\ u.at = s.at /\ u.mode = s.mode /\ u.cursor = s.cursor /\ u.left = s.left
      /\ u.done = s.done /\ u.size = s.size /\ u.num = s.num /\ u.ILevLeft = s.ILevLeft
  BY <1>1, <1>2, <1>5, WithIIIs
<1> HIDE DEF u
<1>7. Block(u.cursor) >= I_LEV_DATA_POINTERS /\ u.IILevDataLeft # 0
  BY <1>1, <1>6, Geometry DEF NeedsII
<1>8. /\ w \in SlotType /\ w.II = [u.II EXCEPT ![InII(Block(s.cursor))] = c]
      /\ w.IILevDataLeft = T - 1 /\ w.index = u.index /\ w.ILevLeft = s.ILevLeft
      /\ w.at = s.at /\ w.mode = s.mode /\ w.cursor = s.cursor /\ w.left = s.left
      /\ w.done = s.done /\ w.size = s.size /\ w.num = s.num
      /\ w.IILevel = "loaded" /\ w.IInum = t /\ w.IILevLeft = s.IILevLeft - 1
  <2>1. /\ w \in SlotType /\ w.II = [u.II EXCEPT ![InII(Block(u.cursor))] = c]
        /\ w.IILevDataLeft = u.IILevDataLeft - 1 /\ w.index = u.index /\ w.ILevLeft = u.ILevLeft
        /\ w.at = u.at /\ w.mode = u.mode /\ w.cursor = u.cursor /\ w.left = u.left
        /\ w.done = u.done /\ w.size = u.size /\ w.num = u.num
        /\ w.IILevel = u.IILevel /\ w.IInum = u.IInum /\ w.IILevLeft = u.IILevLeft
    <3>1. u \in SlotType /\ c \in Clusters
      BY <1>5, <1>6
    <3> QED
      BY <1>6, <1>7, <3>1, WithClusterInSecond
  <2> HIDE DEF w
  <2> QED
    BY <1>6, <2>1
<1>9. /\ slot' = [slot EXCEPT ![f] = r] /\ ret' = Nothing /\ UNCHANGED <<dir, cut>>
      /\ disk' = [Flushed(disk, s) EXCEPT ![Last(w)] = WithByte(@, w.cursor % ClusterSize, v)]
      /\ allocated' = allocated \cup {t, c}
  BY <1>4 DEF WriteTo, u
<1> HIDE DEF w
<1>10. /\ r \in SlotType /\ r.cursor = s.cursor + 1 /\ r.left = s.left - 1 /\ r.done = s.done + 1
       /\ r.at = (IF s.left = 1 THEN "open" ELSE "writes") /\ r.size = s.size + 1
       /\ r.num = s.num /\ r.index = u.index /\ r.mode = s.mode /\ r.IILevel = "loaded"
       /\ r.II = w.II /\ r.IInum = t /\ r.ILevLeft = s.ILevLeft
       /\ r.IILevLeft = s.IILevLeft - 1 /\ r.IILevDataLeft = T - 1
  BY <1>1, <1>2, <1>8, Rounds
<1> HIDE DEF r
<1>11. slot'[f] = r
  BY <1>2, <1>9
<1>12. cut = {}
  BY <1>1, <1>10, <1>11, GrowsUncutFile
<1>13. /\ B \in Nat /\ Block(s.cursor) = B /\ UpTo(s.size + 1, ClusterSize) = B + 1
       /\ n = UpTo(Beyond(B), T) /\ n \in Nat
       /\ Beyond(B) \in Nat /\ InSecond(f) = Beyond(B)
       /\ s.ILevLeft = I_LEV_DATA_POINTERS - (B - Beyond(B))
       /\ s.IILevLeft = II_LEV_POINTERS - n
       /\ s.IILevel = "loaded" => s.IILevDataLeft = n * T - Beyond(B)
       /\ n * T - Beyond(B) \in 0..T
       /\ s.IILevel = "none" <=> n = 0
       /\ s.IILevel = "loaded" => s.IInum = s.index[I_LEV_DATA_POINTERS + n - 1]
       /\ B >= I_LEV_DATA_POINTERS => IIEntry(B) \in SecondEntries
  BY <1>1, <1>2, <1>12, EndOfFile
<1>14. B >= I_LEV_DATA_POINTERS /\ i0 \in SecondEntries
  BY <1>1, <1>13 DEF NeedsII
<1>15. n * T - Beyond(B) = 0
  <2>1. CASE s.IILevel = "none"
    <3>1. n * T - Beyond(B) # 0 => n # 0
      BY <1>13, <1>14, NextInSecond
    <3> QED
      BY <1>13, <2>1, <3>1
  <2>2. CASE s.IILevel # "none"
    <3>1. s.IILevel = "loaded"
      BY <1>2, <2>2 DEF SlotType, SlotRecord
    <3> QED
      BY <1>1, <1>13, <2>2, <3>1 DEF NeedsII
  <2> QED
    BY <2>1, <2>2
<1>16. /\ i0 = I_LEV_DATA_POINTERS + n /\ InII(B) = 0 /\ UpTo(Beyond(B + 1), T) = n + 1
       /\ Beyond(B + 1) = Beyond(B) + 1 /\ T - 1 = (n + 1) * T - Beyond(B + 1)
  BY <1>13, <1>14, <1>15, NextInSecond
<1>17. IsOpen(f)' /\ IsFile(f)' /\ ~At(f, "closed")' /\ ~At(f, "lost") /\ ~At(f, "closed")
  BY <1>1, <1>2, <1>9, <1>10, <1>11 DEF IsOpen, IsFile, At, Exists
<1>18. NumOf(f)' = NumOf(f) /\ IndexOf(f)' = u.index /\ SizeOf(f)' = s.size + 1
  BY <1>2, <1>10, <1>11, <1>17 DEF NumOf, IndexOf, SizeOf
<1>19. Blocks(f)' = B + 1 /\ InSecond(f)' = Beyond(B + 1) /\ IIs(f)' = n + 1
  <2>1. Blocks(f)' = B + 1
    BY <1>13, <1>18 DEF Blocks
  <2>2. InSecond(f)' = Beyond(B + 1)
    BY <2>1 DEF InSecond, Beyond
  <2> QED
    BY <1>16, <2>1, <2>2 DEF IIs
<1>20. u.index = [s.index EXCEPT ![i0] = t] /\ i0 \in Entries /\ s.index \in [Entries -> Clusters]
       /\ w.II = [NoPointers EXCEPT ![0] = c] /\ 0 \in Entries /\ NoPointers \in [Entries -> Clusters]
  <2>1. II_LEV_POINTERS - s.IILevLeft + I_LEV_DATA_POINTERS = i0
    <3>1. s.IILevLeft = II_LEV_POINTERS - n /\ n \in Nat /\ i0 = I_LEV_DATA_POINTERS + n
      BY <1>13, <1>16
    <3> HIDE DEF s, i0, n
    <3> QED
      BY <3>1, Geometry
  <2>2. s.index \in [Entries -> Clusters]
    BY <1>2 DEF SlotType, SlotRecord
  <2>3. u.index = [s.index EXCEPT ![i0] = t]
    BY <1>6, <2>1
  <2>4. i0 \in Entries
    BY <1>14, PlacesAre
  <2>5. w.II = [NoPointers EXCEPT ![0] = c]
    <3>1. InII(Block(s.cursor)) = 0
      BY <1>13, <1>16
    <3> QED
      BY <1>6, <1>8, <3>1
  <2>6. 0 \in Entries
    BY Geometry
  <2>7. NoPointers \in [Entries -> Clusters]
    BY DEF NoPointers, Clusters
  <2> HIDE DEF s, i0
  <2> QED
    BY <2>2, <2>3, <2>4, <2>5, <2>6, <2>7
<1>21. Last(w) = c
  <2>1. II_LEV_DATA_POINTERS - w.IILevDataLeft - 1 = 0
    BY <1>8, Geometry
  <2>2. ~(Block(w.cursor) < I_LEV_DATA_POINTERS)
    <3>1. Block(w.cursor) = B /\ B \in Nat
      BY <1>8, <1>13
    <3> QED
      BY <1>14, <3>1, Geometry
  <2> QED
    BY <1>20, <2>1, <2>2 DEF Last
<1>22. Flushed(disk, s) \in DiskType
       /\ \A k \in Clusters : Flushed(disk, s)[k].pointers = Store(f)[k].pointers
  BY <1>2, FlushedType DEF Store
<1>23. /\ disk' \in DiskType /\ \A k \in Clusters : k # c => disk'[k] = Flushed(disk, s)[k]
       /\ disk'[c].bytes[s.cursor % ClusterSize] = v
  <2> DEFINE i == w.cursor % ClusterSize
             d == Flushed(disk, s)
  <2>1. i \in 0..ClusterSize - 1 /\ disk' = [d EXCEPT ![c] = WithByte(@, i, v)]
    BY <1>2, <1>8, <1>9, <1>21, BlockOfByte
  <2>2. WithByte(d[c], i, v) \in [bytes : [0..ClusterSize - 1 -> Bytes \cup {Nothing}],
                                  pointers : [Entries -> Clusters]]
    BY <1>2, <1>5, <1>22, <2>1, ByteWritten
  <2>3. d \in DiskType /\ i = s.cursor % ClusterSize
    BY <1>8, <1>22
  <2> HIDE DEF i, d
  <2>4. disk' \in DiskType /\ \A k \in Clusters : k # c => disk'[k] = d[k]
    BY <1>5, <2>1, <2>2, <2>3 DEF DiskType
  <2>5. disk'[c] = WithByte(d[c], i, v) /\ WithByte(d[c], i, v).bytes[i] = v
    BY <1>5, <2>1, <2>3 DEF WithByte, DiskType
  <2> QED
    BY <2>3, <2>4, <2>5 DEF d
<1>24. \A k \in Clusters : Store(f)'[k].pointers = IF k = t THEN w.II ELSE disk'[k].pointers
  <2>1. Store(f)' = Flushed(disk', r)
    BY <1>11 DEF Store
  <2> QED
    BY <1>10, <1>23, <2>1, FlushedType
<1>25. \A i \in SecondEntries : InUse(f, i, HERE) =>
          s.index[i] \in Clusters /\ s.index[i] # c /\ s.index[i] # t
  <2> TAKE i \in SecondEntries
  <2> SUFFICES ASSUME InUse(f, i, HERE)
               PROVE  s.index[i] \in Clusters /\ s.index[i] # c /\ s.index[i] # t
    OBVIOUS
  <2>1. ClusterOn(f, i, HERE) = s.index[i]
    BY <1>2, PlacesAre DEF ClusterOn, On
  <2>2. s.index[i] \in allocated /\ s.index[i] \in Data
    BY <2>1, UsedIsAllocatedData
  <2> QED
    BY <1>5, <2>2 DEF Clusters
<1>26. GrownAt(f, i0, 0, t, c)
  <2>1. \A i \in SecondEntries : InUse(f, i, HERE) =>
           Store(f)'[IndexOf(f)[i]].pointers = Store(f)[IndexOf(f)[i]].pointers
    BY <1>2, <1>22, <1>23, <1>24, <1>25
  <2>2. 0 # HERE /\ ~(B < I_LEV_DATA_POINTERS)
    BY <1>13, <1>14, Geometry
  <2>3. Store(f)'[u.index[i0]].pointers = [NoPointers EXCEPT ![0] = c]
    BY <1>5, <1>20, <1>24
  <2> QED
    BY <1>2, <1>5, <1>9, <1>12, <1>13, <1>14, <1>16, <1>17, <1>18, <1>19, <1>20, <2>1, <2>2, <2>3
       DEF GrownAt
<1>27. Loaded(f)'
  <2>1. n + 1 # 0 /\ I_LEV_DATA_POINTERS + (n + 1) - 1 = i0
    <3>1. n \in Nat
      BY <1>13
    <3> HIDE DEF n
    <3> QED
      BY <1>16, <3>1, Geometry
  <2>2. u.index[i0] = t
    BY <1>20
  <2> QED
    BY <1>10, <1>11, <1>14, <1>19, <2>1, <2>2 DEF Loaded
<1>28. Lefts(f)'
  <2>1. s.ILevLeft = I_LEV_DATA_POINTERS - ((B + 1) - Beyond(B + 1)) /\ s.IILevLeft - 1 = II_LEV_POINTERS - (n + 1)
    <3>1. s.ILevLeft = I_LEV_DATA_POINTERS - (B - Beyond(B)) /\ Beyond(B + 1) = Beyond(B) + 1
          /\ B \in Nat /\ Beyond(B) \in Nat /\ n \in Nat /\ s.IILevLeft = II_LEV_POINTERS - n
      BY <1>13, <1>16
    <3> HIDE DEF s, B, n
    <3> QED
      BY <3>1, Geometry
  <2>2. T - 1 = (n + 1) * T - Beyond(B + 1)
    BY <1>16
  <2>3. /\ slot'[f].ILevLeft = I_LEV_DATA_POINTERS - ((B + 1) - Beyond(B + 1))
        /\ slot'[f].IILevLeft = II_LEV_POINTERS - (n + 1)
        /\ slot'[f].IILevDataLeft = (n + 1) * T - Beyond(B + 1)
    BY <1>10, <1>11, <2>1, <2>2
  <2> HIDE DEF s, B, n
  <2>4. I_LEV_DATA_POINTERS - (Blocks(f)' - InSecond(f)') = I_LEV_DATA_POINTERS - ((B + 1) - Beyond(B + 1))
    BY <1>19
  <2>5. II_LEV_POINTERS - IIs(f)' = II_LEV_POINTERS - (n + 1)
    BY <1>19
  <2>6. IIs(f)' * T - InSecond(f)' = (n + 1) * T - Beyond(B + 1)
    BY <1>19
  <2> QED
    BY <2>3, <2>4, <2>5, <2>6 DEF Lefts
<1>29. \A k \in Clusters : disk'[k].pointers = disk[k].pointers \/ k \notin allocated \/ k \in Used(f)
  <2>1. \A k \in Clusters : Flushed(disk, s)[k].pointers = disk[k].pointers
           \/ k \notin allocated \/ k \in Used(f)
    BY <1>2, FlushStays
  <2> QED
    BY <1>5, <1>23, <2>1
<1>30. /\ r.at \in {"open", "writes"} /\ r.cursor <= r.size /\ r.size <= MaxSize(f)
       /\ r.at = "writes" => r.left > 0 /\ r.cursor + r.left <= MaxSize(f)
  BY <1>1, <1>2, <1>10
<1>31. c \in Free /\ OnlyAt(c, Flushed(disk, slot[f])) /\ ByteDone(f)
  BY <1>5, <1>10, <1>11, <1>23 DEF OnlyAt, ByteDone
<1>32. AtNewEnd(f, v, Flushed(disk, slot[f]))
  BY <1>2, <1>13, <1>18, <1>23, <1>26, <1>31 DEF AtNewEnd
<1> HIDE DEF B, s, i0
<1>33. Inv'
  BY <1>2, <1>9, <1>10, <1>12, <1>23, <1>26, <1>27, <1>28, <1>29, <1>30, GrownKeeps DEF s
<1> QED
  BY <1>31, <1>32, <1>33

-----------------------------------------------------------------------------
\* Cutting a file

\* The places that are released when a file is cut to start bytes.
GoneAt(start, i, e) ==
    LET q     == Block(start)
        inI   == q < I_LEV_DATA_POINTERS
        up    == FirstFreed(start)
        first == IF inI THEN IF up < I_LEV_DATA_POINTERS THEN I_LEV_DATA_POINTERS ELSE IEnd
                 ELSE (q - I_LEV_DATA_POINTERS) \div II_LEV_POINTERS + I_LEV_DATA_POINTERS
        upII  == ((q - I_LEV_DATA_POINTERS) % II_LEV_POINTERS) + up - q
    IN  \/ i \in IEntries /\ e = HERE /\ i >= up
        \/ i \in SecondEntries /\ e = HERE /\ i >= first /\ (inI \/ i # first)
        \/ i \in SecondEntries /\ e \in Entries /\ i >= first /\ (inI \/ i # first \/ e >= upII)

LEMMA CutNumbers ==
    ASSUME NEW start \in Nat
    PROVE  LET q     == Block(start)
               inI   == q < I_LEV_DATA_POINTERS
               up    == FirstFreed(start)
               first == IF inI THEN IF up < I_LEV_DATA_POINTERS THEN I_LEV_DATA_POINTERS ELSE IEnd
                        ELSE (q - I_LEV_DATA_POINTERS) \div II_LEV_POINTERS + I_LEV_DATA_POINTERS
               upII  == ((q - I_LEV_DATA_POINTERS) % II_LEV_POINTERS) + up - q
           IN  /\ q \in Nat /\ up \in {q, q + 1} /\ up \in Nat
               /\ first \in Nat /\ first >= I_LEV_DATA_POINTERS
               /\ ~inI => /\ upII \in Nat /\ q - I_LEV_DATA_POINTERS \in Nat
                          /\ (q - I_LEV_DATA_POINTERS) \div II_LEV_POINTERS \in Nat
                          /\ (q - I_LEV_DATA_POINTERS) % II_LEV_POINTERS \in 0..II_LEV_POINTERS - 1
                          /\ q - I_LEV_DATA_POINTERS =
                               (II_LEV_POINTERS * ((q - I_LEV_DATA_POINTERS) \div II_LEV_POINTERS))
                                 + ((q - I_LEV_DATA_POINTERS) % II_LEV_POINTERS)
<1> DEFINE q == Block(start)
           up == FirstFreed(start)
           x == q - I_LEV_DATA_POINTERS
           a == x \div II_LEV_POINTERS
           r == x % II_LEV_POINTERS
<1>1. q \in Nat /\ up \in {q, q + 1}
  BY BlockOfByte DEF FirstFreed
<1>2. ASSUME ~(q < I_LEV_DATA_POINTERS)
      PROVE  x \in Nat /\ a \in Nat /\ r \in 0..II_LEV_POINTERS - 1 /\ x = (II_LEV_POINTERS * a) + r
  <2>1. x \in Nat
    <3> HIDE DEF q
    <3> QED
      BY <1>1, <1>2, Geometry
  <2> HIDE DEF x
  <2> QED
    BY <2>1, DivMod, Geometry
<1>3. ASSUME ~(q < I_LEV_DATA_POINTERS) PROVE r + up - q \in Nat
  <2> HIDE DEF q, up, r
  <2> QED
    BY <1>1, <1>2, <1>3, Geometry
<1>4. ASSUME ~(q < I_LEV_DATA_POINTERS)
      PROVE  a + I_LEV_DATA_POINTERS \in Nat /\ a + I_LEV_DATA_POINTERS >= I_LEV_DATA_POINTERS
  <2>1. a \in Nat
    BY <1>2, <1>4
  <2> HIDE DEF a
  <2> QED
    BY <2>1, Geometry
<1>5. up \in Nat
  BY <1>1
<1> HIDE DEF q, up, a, r
<1> QED
  BY <1>1, <1>2, <1>3, <1>4, <1>5, Geometry DEF q, up, a, r

\* The blocks before the cut stay: counting their entries by fewer than an index has
\* can only reach further.
LEMMA StaysBefore ==
    ASSUME NEW start \in Nat
    PROVE  /\ \A i \in IEntries : i < FirstFreed(start) => ~GoneAt(start, i, HERE)
           /\ \A i \in SecondEntries : BlockAt(i, 0) < FirstFreed(start) => ~GoneAt(start, i, HERE)
           /\ \A i \in SecondEntries : \A e \in Entries :
                 BlockAt(i, e) < FirstFreed(start) => ~GoneAt(start, i, e)
           /\ Block(start) >= I_LEV_DATA_POINTERS => ~GoneAt(start, IIEntry(Block(start)), HERE)
<1> DEFINE q == Block(start)
           up == FirstFreed(start)
           x == q - I_LEV_DATA_POINTERS
           a == x \div II_LEV_POINTERS
           r == x % II_LEV_POINTERS
<1>1. /\ q \in Nat /\ up \in {q, q + 1} /\ up \in Nat
      /\ ~(q < I_LEV_DATA_POINTERS) =>
            x \in Nat /\ a \in Nat /\ r \in 0..II_LEV_POINTERS - 1 /\ x = (II_LEV_POINTERS * a) + r
  BY CutNumbers
<1>2. \A i \in SecondEntries : i \in Nat /\ i >= I_LEV_DATA_POINTERS /\ i < IEnd /\ i \notin IEntries
  BY Geometry
<1>3. \A i \in SecondEntries : \A e \in Entries : BlockAt(i, e) \in Nat /\ BlockAt(i, e) >= I_LEV_DATA_POINTERS
  <2> TAKE i \in SecondEntries
  <2> TAKE e \in Entries
  <2>1. BlockAt(i, e) \in Nat /\ BlockAt(i, 0) \in Nat
        /\ BlockAt(i, 0) <= BlockAt(i, e) /\ BlockAt(i, 0) >= I_LEV_DATA_POINTERS
    BY SecondBlocks
  <2> QED
    BY <2>1, Geometry
<1>4. ASSUME ~(q < I_LEV_DATA_POINTERS), NEW j \in Nat, NEW e \in Nat,
             II_LEV_DATA_POINTERS * j + e <= x
      PROVE  j <= a /\ (j = a => e <= r) /\ (j = a /\ II_LEV_DATA_POINTERS * j + e < x => e < r)
  <2> HIDE DEF x, a, r
  <2>1. II_LEV_DATA_POINTERS * j = (II_LEV_POINTERS * j) + (I_LEV_DATA_POINTERS * j)
        /\ I_LEV_DATA_POINTERS * j \in Nat /\ II_LEV_POINTERS * j \in Nat
    BY Geometry
  <2>2. (II_LEV_POINTERS * j) + e <= (II_LEV_POINTERS * a) + r /\ r < II_LEV_POINTERS /\ r \in Nat
        /\ (II_LEV_DATA_POINTERS * j + e < x => (II_LEV_POINTERS * j) + e < (II_LEV_POINTERS * a) + r)
    <3>1. II_LEV_POINTERS * a \in Nat /\ r < II_LEV_POINTERS /\ r \in Nat /\ x = (II_LEV_POINTERS * a) + r
      BY <1>1, <1>4, Geometry
    <3> DEFINE X == II_LEV_POINTERS * a
               Y == II_LEV_POINTERS * j
               Z == I_LEV_DATA_POINTERS * j
               W == II_LEV_DATA_POINTERS * j
    <3> HIDE DEF X, Y, Z, W
    <3> QED
      BY <1>4, <2>1, <3>1 DEF X, Y, Z, W
  <2>3. j <= a
    <3> SUFFICES ASSUME j >= a + 1 PROVE FALSE
      BY <1>1, <1>4
    <3>0. a \in Nat /\ II_LEV_POINTERS \in Nat /\ j \in Nat
      BY <1>1, <1>4, Geometry
    <3>1. II_LEV_POINTERS * j >= II_LEV_POINTERS * (a + 1)
      BY <3>0
    <3>2. II_LEV_POINTERS * (a + 1) = (II_LEV_POINTERS * a) + II_LEV_POINTERS
          /\ II_LEV_POINTERS * a \in Nat
      BY <3>0
    <3> QED
      BY <2>1, <2>2, <3>0, <3>1, <3>2
  <2> QED
    BY <1>1, <1>4, <2>1, <2>2, <2>3
<1>5. ASSUME ~(q < I_LEV_DATA_POINTERS), NEW i \in SecondEntries, NEW e \in Entries
      PROVE  /\ BlockAt(i, e) <= q => /\ i <= a + I_LEV_DATA_POINTERS
                                      /\ i = a + I_LEV_DATA_POINTERS => e <= r
             /\ BlockAt(i, e) < q => (i = a + I_LEV_DATA_POINTERS => e < r)
  <2> DEFINE j == i - I_LEV_DATA_POINTERS
             W == II_LEV_DATA_POINTERS * j
  <2>1. j \in Nat /\ e \in Nat /\ i = j + I_LEV_DATA_POINTERS /\ a \in Nat
    BY <1>1, <1>2, <1>5, Geometry
  <2>2. W \in Nat
    <3> HIDE DEF j
    <3> QED
      BY <2>1, Geometry
  <2>3. BlockAt(i, e) = I_LEV_DATA_POINTERS + W + e
    BY DEF BlockAt
  <2>4. W + e <= x => j <= a /\ (j = a => e <= r) /\ (j = a /\ W + e < x => e < r)
    <3> HIDE DEF j, a, r
    <3> QED
      BY <1>4, <1>5, <2>1
  <2> HIDE DEF j, W, a, r, q
  <2> QED
    BY <1>1, <2>1, <2>2, <2>3, <2>4, Geometry DEF x
<1>6. ASSUME NEW i \in IEntries, i < up PROVE ~GoneAt(start, i, HERE)
  BY <1>1, <1>6, Geometry DEF GoneAt, up
<1>7. ASSUME NEW i \in SecondEntries, NEW e \in Places, e = HERE \/ e \in Entries,
             q < I_LEV_DATA_POINTERS, up < I_LEV_DATA_POINTERS => FALSE
      PROVE  ~GoneAt(start, i, e)
  BY <1>2, <1>7, Geometry DEF GoneAt, up, q
<1>8. ASSUME NEW i \in SecondEntries, ~(q < I_LEV_DATA_POINTERS)
      PROVE  /\ GoneAt(start, i, HERE) => i >= a + I_LEV_DATA_POINTERS /\ i # a + I_LEV_DATA_POINTERS
             /\ \A e \in Entries : GoneAt(start, i, e) =>
                   i >= a + I_LEV_DATA_POINTERS /\ (i = a + I_LEV_DATA_POINTERS => e >= r + up - q)
  <2>1. i \notin IEntries /\ HERE \notin Entries
    BY <1>2, Geometry
  <2> QED
    BY <1>8, <2>1 DEF GoneAt
<1>9. ASSUME NEW i \in SecondEntries, BlockAt(i, 0) < up PROVE ~GoneAt(start, i, HERE)
  <2>1. BlockAt(i, 0) \in Nat /\ BlockAt(i, 0) >= I_LEV_DATA_POINTERS /\ 0 \in Entries /\ HERE \in Places
    BY <1>3, Geometry, PlacesAre
  <2>2. CASE q < I_LEV_DATA_POINTERS
    <3>1. ~(up < I_LEV_DATA_POINTERS)
      <4> HIDE DEF up
      <4> QED
        BY <1>1, <1>9, <2>1, Geometry
    <3> QED
      BY <1>7, <2>1, <2>2, <3>1
  <2>3. CASE ~(q < I_LEV_DATA_POINTERS)
    <3>1. BlockAt(i, 0) <= q
      <4> HIDE DEF up, q
      <4> QED
        BY <1>1, <1>9, <2>1
    <3>2. i <= a + I_LEV_DATA_POINTERS /\ i \in Nat /\ a + I_LEV_DATA_POINTERS \in Nat
      <4>1. i <= a + I_LEV_DATA_POINTERS
        BY <1>5, <2>1, <2>3, <3>1
      <4>2. a \in Nat
        BY <1>1, <2>3
      <4> HIDE DEF a
      <4> QED
        BY <1>2, <4>1, <4>2, Geometry
    <3>3. GoneAt(start, i, HERE) => i >= a + I_LEV_DATA_POINTERS /\ i # a + I_LEV_DATA_POINTERS
      BY <1>8, <2>3
    <3> HIDE DEF a
    <3> QED
      BY <3>2, <3>3
  <2> QED
    BY <2>2, <2>3
<1>10. ASSUME NEW i \in SecondEntries, NEW e \in Entries, BlockAt(i, e) < up PROVE ~GoneAt(start, i, e)
  <2>1. BlockAt(i, e) \in Nat /\ BlockAt(i, e) >= I_LEV_DATA_POINTERS /\ e \in Places
    BY <1>3, PlacesAre
  <2>2. CASE q < I_LEV_DATA_POINTERS
    <3>1. ~(up < I_LEV_DATA_POINTERS)
      <4> HIDE DEF up
      <4> QED
        BY <1>1, <1>10, <2>1, Geometry
    <3> QED
      BY <1>7, <2>1, <2>2, <3>1
  <2>3. CASE ~(q < I_LEV_DATA_POINTERS)
    <3> SUFFICES ASSUME GoneAt(start, i, e) PROVE FALSE
      OBVIOUS
    <3>1. BlockAt(i, e) <= q /\ (up = q => BlockAt(i, e) < q)
      <4> HIDE DEF up, q
      <4> QED
        BY <1>1, <1>10, <2>1
    <3>2. i <= a + I_LEV_DATA_POINTERS /\ (i = a + I_LEV_DATA_POINTERS => e <= r /\ (up = q => e < r))
      BY <1>5, <2>3, <3>1
    <3>3. i >= a + I_LEV_DATA_POINTERS /\ (i = a + I_LEV_DATA_POINTERS => e >= r + up - q)
      BY <1>8, <2>3
    <3>4. a \in Nat /\ r \in Nat /\ i \in Nat /\ e \in Nat
      BY <1>1, <1>2, <2>3, Geometry
    <3> HIDE DEF a, r, q, up
    <3>5. i = a + I_LEV_DATA_POINTERS
      BY <3>2, <3>3, <3>4, Geometry
    <3> QED
      BY <1>1, <3>2, <3>3, <3>4, <3>5
  <2> QED
    BY <2>2, <2>3
<1>11. ASSUME q >= I_LEV_DATA_POINTERS PROVE ~GoneAt(start, IIEntry(q), HERE)
  <2> DEFINE i == IIEntry(q)
  <2>1. i \in Nat /\ i >= I_LEV_DATA_POINTERS /\ InII(q) \in Entries /\ q = BlockAt(i, InII(q))
    BY <1>1, <1>11, EntryOfBlock
  <2>2. CASE i \in SecondEntries
    <3>0. ~(q < I_LEV_DATA_POINTERS)
      <4> HIDE DEF q
      <4> QED
        BY <1>1, <1>11, Geometry
    <3>1. i <= a + I_LEV_DATA_POINTERS
      <4>1. BlockAt(i, InII(q)) <= q
        BY <1>1, <2>1
      <4> HIDE DEF i, a, r
      <4> QED
        BY <1>5, <2>1, <2>2, <3>0, <4>1
    <3>2. GoneAt(start, i, HERE) => i >= a + I_LEV_DATA_POINTERS /\ i # a + I_LEV_DATA_POINTERS
      BY <1>8, <2>2, <3>0
    <3>3. a \in Nat
      BY <1>1, <3>0
    <3> HIDE DEF i, a
    <3> QED
      BY <2>1, <3>1, <3>2, <3>3, Geometry DEF i
  <2>3. CASE i \notin SecondEntries
    <3>1. i \notin IEntries
      BY <2>1, Geometry
    <3> HIDE DEF i
    <3>2. ~GoneAt(start, i, HERE)
      BY <2>3, <3>1 DEF GoneAt
    <3> QED
      BY <3>2 DEF i
  <2> QED
    BY <2>2, <2>3
<1> QED
  BY <1>6, <1>9, <1>10, <1>11

LEMMA GoneOrder ==
    ASSUME NEW start \in Nat
    PROVE  /\ \A i, j \in IEntries : j <= i /\ GoneAt(start, j, HERE) => GoneAt(start, i, HERE)
           /\ \A i, j \in SecondEntries : j <= i /\ GoneAt(start, j, HERE) => GoneAt(start, i, HERE)
           /\ \A i \in SecondEntries : \A e, c \in Entries :
                 c <= e /\ GoneAt(start, i, c) => GoneAt(start, i, e)
           /\ \A i \in SecondEntries : \A e \in Entries :
                 GoneAt(start, i, HERE) => GoneAt(start, i, e)
           /\ ~GoneAt(start, HERE, HERE)
<1> DEFINE q     == Block(start)
           inI   == q < I_LEV_DATA_POINTERS
           up    == FirstFreed(start)
           first == IF inI THEN IF up < I_LEV_DATA_POINTERS THEN I_LEV_DATA_POINTERS ELSE IEnd
                    ELSE (q - I_LEV_DATA_POINTERS) \div II_LEV_POINTERS + I_LEV_DATA_POINTERS
           upII  == ((q - I_LEV_DATA_POINTERS) % II_LEV_POINTERS) + up - q
<1>1. up \in Nat /\ first \in Nat /\ (~inI => upII \in Nat)
  BY CutNumbers
<1>2. \A i, e : GoneAt(start, i, e) <=>
         \/ i \in IEntries /\ e = HERE /\ i >= up
         \/ i \in SecondEntries /\ e = HERE /\ i >= first /\ (inI \/ i # first)
         \/ i \in SecondEntries /\ e \in Entries /\ i >= first /\ (inI \/ i # first \/ e >= upII)
  BY DEF GoneAt
<1>3. IEntries \subseteq Nat /\ SecondEntries \subseteq Nat /\ Entries \subseteq Nat
      /\ HERE \notin Entries /\ IEntries \cap SecondEntries = {}
      /\ HERE \notin IEntries /\ HERE \notin SecondEntries
  BY Geometry
<1> HIDE DEF inI, up, first, upII
<1>4. ASSUME NEW i \in IEntries, NEW j \in IEntries, j <= i, GoneAt(start, j, HERE)
      PROVE  GoneAt(start, i, HERE)
  BY <1>1, <1>2, <1>3, <1>4
<1>5. ASSUME NEW i \in SecondEntries, NEW j \in SecondEntries, j <= i, GoneAt(start, j, HERE)
      PROVE  GoneAt(start, i, HERE)
  BY <1>1, <1>2, <1>3, <1>5
<1>6. ASSUME NEW i \in SecondEntries, NEW e \in Entries, NEW c \in Entries, c <= e, GoneAt(start, i, c)
      PROVE  GoneAt(start, i, e)
  BY <1>1, <1>2, <1>3, <1>6
<1>7. ASSUME NEW i \in SecondEntries, NEW e \in Entries, GoneAt(start, i, HERE)
      PROVE  GoneAt(start, i, e)
  BY <1>1, <1>2, <1>3, <1>7
<1>8. ~GoneAt(start, HERE, HERE)
  BY <1>2, <1>3
<1> QED
  BY <1>4, <1>5, <1>6, <1>7, <1>8

\* What a cut releases: what the places behind it lead to.
LEMMA RestIs ==
    ASSUME NEW g, NEW A, NEW d, NEW num, NEW start \in Nat, Prefixes(g, A, d)
    PROVE  \A c : c \in Rest(g, A, d, start) <=>
              \E i, e \in Places : Held(g, A, d, i, e) /\ GoneAt(start, i, e) /\ c = On(num, g, d, i, e)
<1> DEFINE q     == Block(start)
           inI   == q < I_LEV_DATA_POINTERS
           up    == FirstFreed(start)
           first == IF inI THEN IF up < I_LEV_DATA_POINTERS THEN I_LEV_DATA_POINTERS ELSE IEnd
                    ELSE (q - I_LEV_DATA_POINTERS) \div II_LEV_POINTERS + I_LEV_DATA_POINTERS
           upII  == ((q - I_LEV_DATA_POINTERS) % II_LEV_POINTERS) + up - q
           J     == LiveRun(g, A, first, IEnd)
           From(j) == IF ~inI /\ j = first THEN upII ELSE 0
           Run(j)  == LiveRun(d[g[j]].pointers, A, From(j), II_LEV_DATA_POINTERS)
           X == {g[i] : i \in LiveRun(g, A, up, I_LEV_DATA_POINTERS)}
           Y == {g[j] : j \in IF inI THEN J ELSE J \ {first}}
           Z == UNION {{d[g[j]].pointers[k] : k \in Run(j)} : j \in J}
<1>1. up \in Nat /\ first \in Nat /\ first >= I_LEV_DATA_POINTERS /\ (~inI => upII \in Nat)
  BY CutNumbers
<1>2. \A i, e : GoneAt(start, i, e) <=>
         \/ i \in IEntries /\ e = HERE /\ i >= up
         \/ i \in SecondEntries /\ e = HERE /\ i >= first /\ (inI \/ i # first)
         \/ i \in SecondEntries /\ e \in Entries /\ i >= first /\ (inI \/ i # first \/ e >= upII)
  BY DEF GoneAt
<1>3. Rest(g, A, d, start) = X \cup Y \cup Z
  BY DEF Rest
<1> HIDE DEF inI, up, first, upII
<1>4. LiveRun(g, A, up, I_LEV_DATA_POINTERS) = {k \in up..I_LEV_DATA_POINTERS - 1 : Live(A, g[k])}
  <2>1. \A k, l \in 0..I_LEV_DATA_POINTERS - 1 : l <= k /\ Live(A, g[k]) => Live(A, g[l])
    BY Geometry, PlacesAre DEF Prefixes, Held
  <2>2. 0 \in Int /\ I_LEV_DATA_POINTERS \in Int /\ up \in Int /\ 0 <= up
    BY <1>1, Geometry
  <2> QED
    BY <2>1, <2>2 DEF LiveRun
<1>5. J = {k \in first..IEnd - 1 : Live(A, g[k])}
  <2>1. \A k, l \in I_LEV_DATA_POINTERS..IEnd - 1 : l <= k /\ Live(A, g[k]) => Live(A, g[l])
    BY PlacesAre DEF Prefixes, Held, SecondEntries
  <2>2. I_LEV_DATA_POINTERS \in Int /\ IEnd \in Int /\ first \in Int
    BY <1>1, Geometry
  <2>3. LiveRun(g, A, first, IEnd) = {k \in first..IEnd - 1 : Live(A, g[k])}
    BY <1>1, <2>1, <2>2, RunIsLive
  <2> QED
    BY <2>3
<1>6. \A j \in J : j \in SecondEntries /\ Live(A, g[j]) /\ j >= first
  BY <1>1, <1>5, Geometry
<1>7. ASSUME NEW j \in J
      PROVE  Run(j) = {k \in From(j)..II_LEV_DATA_POINTERS - 1 : Live(A, d[g[j]].pointers[k])}
  <2> DEFINE h == d[g[j]].pointers
  <2>1. \A k, l \in 0..II_LEV_DATA_POINTERS - 1 : l <= k /\ Live(A, h[k]) => Live(A, h[l])
    BY <1>6, Geometry DEF Prefixes, Held
  <2>2. From(j) \in Nat
    BY <1>1
  <2> HIDE DEF h, From
  <2>3. LiveRun(h, A, From(j), II_LEV_DATA_POINTERS) = {k \in From(j)..II_LEV_DATA_POINTERS - 1 : Live(A, h[k])}
    BY <2>1, <2>2, RunIsLive, Geometry
  <2> QED
    BY <2>3 DEF h, From
<1> HIDE DEF J, Run
<1>8. \A c : c \in X <=> \E i \in IEntries : Live(A, g[i]) /\ i >= up /\ c = g[i]
  BY <1>1, <1>4, Geometry
<1>9. \A c : c \in Y <=> \E i \in SecondEntries : Live(A, g[i]) /\ i >= first /\ (inI \/ i # first) /\ c = g[i]
  <2>1. \A i \in SecondEntries : Live(A, g[i]) /\ i >= first <=> i \in J
    BY <1>1, <1>5, Geometry
  <2> QED
    BY <1>6, <2>1
<1>10. \A c : c \in Z <=> \E i \in SecondEntries : \E e \in Entries :
          /\ Live(A, g[i]) /\ i >= first /\ (inI \/ i # first \/ e >= upII)
          /\ Live(A, d[g[i]].pointers[e]) /\ c = d[g[i]].pointers[e]
  <2>1. \A i \in SecondEntries : Live(A, g[i]) /\ i >= first <=> i \in J
    BY <1>1, <1>5, Geometry
  <2>2. \A j \in J : \A e : e \in Run(j) <=>
           e \in Entries /\ (inI \/ j # first \/ e >= upII) /\ Live(A, d[g[j]].pointers[e])
    <3> TAKE j \in J
    <3> TAKE e
    <3>1. e \in Run(j) <=> e \in From(j)..II_LEV_DATA_POINTERS - 1 /\ Live(A, d[g[j]].pointers[e])
      BY <1>7
    <3>2. e \in From(j)..II_LEV_DATA_POINTERS - 1 <=> e \in Entries /\ (inI \/ j # first \/ e >= upII)
      BY <1>1, Geometry
    <3> QED
      BY <3>1, <3>2
  <2>3. \A c : c \in Z <=> \E j \in J : \E e \in Run(j) : c = d[g[j]].pointers[e]
    OBVIOUS
  <2> HIDE DEF Z, From
  <2> QED
    BY <1>6, <2>1, <2>2, <2>3
<1> HIDE DEF X, Y, Z
<1> SUFFICES ASSUME NEW c
             PROVE  c \in X \cup Y \cup Z <=>
                      \E i, e \in Places : Held(g, A, d, i, e) /\ GoneAt(start, i, e) /\ c = On(num, g, d, i, e)
  BY <1>3
<1>11. ASSUME c \in X \cup Y \cup Z
       PROVE  \E i, e \in Places : Held(g, A, d, i, e) /\ GoneAt(start, i, e) /\ c = On(num, g, d, i, e)
  <2>1. CASE c \in X
    <3>1. PICK i \in IEntries : Live(A, g[i]) /\ i >= up /\ c = g[i]
      BY <2>1, <1>8
    <3>2. Held(g, A, d, i, HERE) /\ GoneAt(start, i, HERE) /\ c = On(num, g, d, i, HERE)
          /\ i \in Places /\ HERE \in Places
      BY <3>1, <1>2, PlacesAre DEF Held, On
    <3> QED
      BY <3>2
  <2>2. CASE c \in Y
    <3>1. PICK i \in SecondEntries : Live(A, g[i]) /\ i >= first /\ (inI \/ i # first) /\ c = g[i]
      BY <2>2, <1>9
    <3>2. Held(g, A, d, i, HERE) /\ GoneAt(start, i, HERE) /\ c = On(num, g, d, i, HERE)
          /\ i \in Places /\ HERE \in Places
      BY <3>1, <1>2, PlacesAre DEF Held, On
    <3> QED
      BY <3>2
  <2>3. CASE c \in Z
    <3>1. PICK i \in SecondEntries : \E e \in Entries :
             /\ Live(A, g[i]) /\ i >= first /\ (inI \/ i # first \/ e >= upII)
             /\ Live(A, d[g[i]].pointers[e]) /\ c = d[g[i]].pointers[e]
      BY <2>3, <1>10
    <3>2. PICK e \in Entries :
             /\ Live(A, g[i]) /\ i >= first /\ (inI \/ i # first \/ e >= upII)
             /\ Live(A, d[g[i]].pointers[e]) /\ c = d[g[i]].pointers[e]
      BY <3>1
    <3>3. GoneAt(start, i, e)
      BY <3>2, <1>2
    <3>4. Held(g, A, d, i, e) /\ c = On(num, g, d, i, e) /\ i \in Places /\ e \in Places
      BY <3>2, PlacesAre DEF Held, On
    <3> QED
      BY <3>3, <3>4
  <2> QED
    BY <1>11, <2>1, <2>2, <2>3
<1>12. ASSUME NEW i \in Places, NEW e \in Places, Held(g, A, d, i, e), GoneAt(start, i, e), c = On(num, g, d, i, e)
       PROVE  c \in X \cup Y \cup Z
  <2>1. CASE i \in IEntries /\ e = HERE /\ i >= up
    BY <1>8, <1>12, <2>1, PlacesAre DEF Held, On
  <2>2. CASE i \in SecondEntries /\ e = HERE /\ i >= first /\ (inI \/ i # first)
    BY <1>9, <1>12, <2>2, PlacesAre DEF Held, On
  <2>3. CASE i \in SecondEntries /\ e \in Entries /\ i >= first /\ (inI \/ i # first \/ e >= upII)
    <3>1. Live(A, g[i]) /\ Live(A, d[g[i]].pointers[e]) /\ c = d[g[i]].pointers[e]
      BY <1>12, <2>3, PlacesAre DEF Held, On
    <3> QED
      BY <1>10, <2>3, <3>1
  <2> QED
    BY <1>2, <1>12, <2>1, <2>2, <2>3
<1> QED
  BY <1>11, <1>12

\* The places of an index lead to different clusters.
Apart(num, g, A, d) ==
    \A i, e, j, c \in Places :
        Held(g, A, d, i, e) /\ Held(g, A, d, j, c) /\ On(num, g, d, i, e) = On(num, g, d, j, c)
            => i = j /\ e = c
Wiped(k, d, R) == \A c \in Clusters : k[c].pointers = IF c \in R THEN NoPointers ELSE d[c].pointers

\* R is released of an index g, allocated clusters A and second-level indices in d,
\* which leaves k.
CutTo(num, g, A, d, start, R, k) ==
    /\ g \in [Entries -> Clusters] /\ start \in Nat /\ Prefixes(g, A, d) /\ Apart(num, g, A, d)
    /\ R = Rest(g, A, d, start) /\ Wiped(k, d, R)

\* After a cut the index leads to what it led to at the places that stay, and to
\* nothing else.
CutDone(num, g, A, d, start, R, k) ==
    /\ \A i, e \in Places : Held(g, A, d, i, e) =>
          (GoneAt(start, i, e) <=> On(num, g, d, i, e) \in R)
    /\ \A i, e \in Places :
          Held(g, A \ R, k, i, e) <=> Held(g, A, d, i, e) /\ ~GoneAt(start, i, e)
    /\ \A i, e \in Places : Held(g, A \ R, k, i, e) => On(num, g, k, i, e) = On(num, g, d, i, e)
    /\ \A i \in SecondEntries : ~GoneAt(start, i, HERE) => g[i] \notin R
    /\ num \notin R

LEMMA CutLeaves ==
    ASSUME NEW num, NEW g, NEW A, NEW d, NEW start, NEW R, NEW k, CutTo(num, g, A, d, start, R, k)
    PROVE  CutDone(num, g, A, d, start, R, k)
<1>0. /\ g \in [Entries -> Clusters] /\ start \in Nat /\ Prefixes(g, A, d) /\ Apart(num, g, A, d)
      /\ R = Rest(g, A, d, start) /\ Wiped(k, d, R)
  BY DEF CutTo
<1>1. \A c : c \in R <=>
         \E i, e \in Places : Held(g, A, d, i, e) /\ GoneAt(start, i, e) /\ c = On(num, g, d, i, e)
  BY <1>0, RestIs
<1>2. \A i, e \in Places : Held(g, A, d, i, e) =>
         (GoneAt(start, i, e) <=> On(num, g, d, i, e) \in R)
  BY <1>0, <1>1 DEF Apart
<1>3. HERE \in Places /\ HERE \notin Entries /\ ~GoneAt(start, HERE, HERE)
      /\ SecondEntries \subseteq Entries /\ Entries \subseteq Places
  BY <1>0, GoneOrder, PlacesAre
<1>4. num \notin R
  BY <1>2, <1>3 DEF Held, On
<1>5. \A i \in Entries : Held(g, A, d, i, HERE) <=> Live(A, g[i])
  BY <1>3 DEF Held
<1>6. ASSUME NEW i \in Entries
      PROVE  /\ g[i] \in Clusters
             /\ g[i] \in R => Live(A, g[i])
             /\ Live(A, g[i]) => (GoneAt(start, i, HERE) <=> g[i] \in R)
             /\ Held(g, A \ R, k, i, HERE) <=> Held(g, A, d, i, HERE) /\ ~GoneAt(start, i, HERE)
  <2>1. g[i] \in R => Live(A, g[i])
    <3> SUFFICES ASSUME g[i] \in R PROVE Live(A, g[i])
      OBVIOUS
    <3>1. PICK j \in Places : \E c \in Places :
             Held(g, A, d, j, c) /\ GoneAt(start, j, c) /\ g[i] = On(num, g, d, j, c)
      BY <1>1
    <3>2. PICK c \in Places :
             Held(g, A, d, j, c) /\ GoneAt(start, j, c) /\ g[i] = On(num, g, d, j, c)
      BY <3>1
    <3>3. ~(j = HERE /\ c = HERE)
      BY <1>3, <3>2
    <3> QED
      BY <1>3, <3>2, <3>3 DEF Held, On
  <2>2. On(num, g, d, i, HERE) = g[i] /\ i \in Places
    BY <1>3 DEF On
  <2>5. g[i] \in Clusters
    BY <1>0
  <2>3. Live(A, g[i]) => (GoneAt(start, i, HERE) <=> g[i] \in R)
    BY <1>2, <1>3, <1>5, <2>2
  <2>4. Held(g, A \ R, k, i, HERE) <=> Live(A, g[i]) /\ g[i] \notin R
    BY <1>3 DEF Held, Live
  <2> QED
    BY <1>5, <2>1, <2>3, <2>4, <2>5
<1>7. \A i \in SecondEntries : ~GoneAt(start, i, HERE) => g[i] \notin R
  BY <1>3, <1>6
<1>8. ASSUME NEW i \in SecondEntries, NEW e \in Entries
      PROVE  /\ Held(g, A \ R, k, i, e) <=> Held(g, A, d, i, e) /\ ~GoneAt(start, i, e)
             /\ Held(g, A \ R, k, i, e) => On(num, g, k, i, e) = On(num, g, d, i, e)
  <2>1. i # HERE /\ e # HERE /\ i \in Places /\ e \in Places /\ i \in Entries
    BY <1>3
  <2>2. GoneAt(start, i, HERE) => GoneAt(start, i, e)
    BY <1>0, GoneOrder
  <2>3. Held(g, A, d, i, e) => Live(A, g[i]) /\ Live(A, d[g[i]].pointers[e])
        /\ (GoneAt(start, i, e) <=> d[g[i]].pointers[e] \in R)
    BY <1>2, <2>1 DEF Held, On
  <2>4. Held(g, A \ R, k, i, e) <=>
           Live(A, g[i]) /\ g[i] \notin R /\ Live(A \ R, k[g[i]].pointers[e])
    BY <2>1 DEF Held, Live
  <2>5. g[i] \notin R => k[g[i]].pointers = d[g[i]].pointers
    BY <1>0, <1>6, <2>1 DEF Wiped
  <2>6. Held(g, A, d, i, e) <=> Live(A, g[i]) /\ Live(A, d[g[i]].pointers[e])
    BY <2>1 DEF Held
  <2>7. Held(g, A \ R, k, i, e) =>
           Held(g, A, d, i, e) /\ d[g[i]].pointers[e] \notin R /\ On(num, g, k, i, e) = On(num, g, d, i, e)
    BY <2>1, <2>4, <2>5, <2>6 DEF Live, On
  <2>8. Held(g, A, d, i, e) /\ ~GoneAt(start, i, e) => Held(g, A \ R, k, i, e)
    BY <1>6, <2>1, <2>2, <2>3, <2>4, <2>5 DEF Live
  <2> QED
    BY <2>3, <2>7, <2>8
<1>9. ASSUME NEW i \in Places, NEW e \in Places
      PROVE  /\ Held(g, A \ R, k, i, e) <=> Held(g, A, d, i, e) /\ ~GoneAt(start, i, e)
             /\ Held(g, A \ R, k, i, e) => On(num, g, k, i, e) = On(num, g, d, i, e)
  <2>1. CASE i = HERE /\ e = HERE
    BY <1>3, <2>1 DEF Held, On
  <2>2. CASE i \in Entries /\ e = HERE
    BY <1>3, <1>6, <2>2 DEF On
  <2>3. CASE i \in SecondEntries /\ e \in Entries
    BY <1>8, <2>3
  <2>4. CASE (i = HERE /\ e # HERE) \/ (i \in Entries /\ i \notin SecondEntries /\ e # HERE)
    BY <1>3, <2>4 DEF Held
  <2> QED
    BY <2>1, <2>2, <2>3, <2>4, PlacesAre
<1> QED
  BY <1>2, <1>4, <1>7, <1>9 DEF CutDone

LEMMA CutCovers ==
    ASSUME NEW g \in [Entries -> Clusters], NEW A, NEW d, NEW start \in Nat, NEW k, NEW R,
           Prefixes(g, A, d), NEW B \in Nat, Covers(g, A, d, B), FirstFreed(start) <= B,
           \A i, e \in Places :
              Held(g, A \ R, k, i, e) <=> Held(g, A, d, i, e) /\ ~GoneAt(start, i, e)
    PROVE  Prefixes(g, A \ R, k) /\ Covers(g, A \ R, k, FirstFreed(start))
<1>1. SecondEntries \subseteq Places /\ IEntries \subseteq Places /\ Entries \subseteq Places /\ HERE \in Places
  BY PlacesAre
<1>2. FirstFreed(start) \in Nat
  BY CutNumbers
<1>3. Prefixes(g, A \ R, k)
  <2>1. \A i, j \in IEntries : j <= i /\ Held(g, A \ R, k, i, HERE) => Held(g, A \ R, k, j, HERE)
    BY <1>1, GoneOrder DEF Prefixes
  <2>2. \A i, j \in SecondEntries : j <= i /\ Held(g, A \ R, k, i, HERE) => Held(g, A \ R, k, j, HERE)
    BY <1>1, GoneOrder DEF Prefixes
  <2>3. \A i \in SecondEntries : \A e, c \in Entries :
           c <= e /\ Held(g, A \ R, k, i, e) => Held(g, A \ R, k, i, c)
    BY <1>1, GoneOrder DEF Prefixes
  <2> QED
    BY <2>1, <2>2, <2>3 DEF Prefixes
<1>4. \A i \in IEntries : i < FirstFreed(start) => Held(g, A \ R, k, i, HERE)
  <2> TAKE i \in IEntries
  <2>1. i \in Nat
    BY Geometry
  <2> QED
    BY <1>1, <1>2, <2>1, StaysBefore DEF Covers
<1>5. \A i \in SecondEntries : BlockAt(i, 0) < FirstFreed(start) => Held(g, A \ R, k, i, HERE)
  <2> TAKE i \in SecondEntries
  <2>1. BlockAt(i, 0) \in Nat
    BY SecondBlocks, Geometry
  <2> QED
    BY <1>1, <1>2, <2>1, StaysBefore DEF Covers
<1>6. \A i \in SecondEntries : \A e \in Entries : BlockAt(i, e) < FirstFreed(start) => Held(g, A \ R, k, i, e)
  <2> TAKE i \in SecondEntries
  <2> TAKE e \in Entries
  <2>1. BlockAt(i, e) \in Nat
    BY SecondBlocks
  <2> QED
    BY <1>1, <1>2, <2>1, StaysBefore DEF Covers
<1> QED
  BY <1>3, <1>4, <1>5, <1>6 DEF Covers

LEMMA UpToMonotone ==
    ASSUME NEW m \in Nat, NEW n \in Nat, m <= n
    PROVE  UpTo(m, ClusterSize) <= UpTo(n, ClusterSize)
<1> DEFINE a == UpTo(m, ClusterSize)
           b == UpTo(n, ClusterSize)
<1>1. a \in Nat /\ b \in Nat /\ (\A x \in Nat : x < a <=> ClusterSize * x < m)
      /\ (\A x \in Nat : x < b <=> ClusterSize * x < n)
  BY RoundsUp, Geometry
<1>2. ClusterSize * b \in Nat
  BY <1>1, Geometry
<1>3. ~(ClusterSize * b < n)
  BY <1>1
<1>4. ~(ClusterSize * b < m)
  BY <1>2, <1>3
<1> QED
  BY <1>1, <1>4

\* What a cut leaves of a slot.
LEMMA CutSlot ==
    ASSUME FilesFit, NEW f \in Files, NEW s \in SlotType, NEW A, NEW d \in DiskType, NEW start \in Nat,
           start <= MaxSize(f), slot \in [Files -> SlotType], CutAt(f, s, A, d, start)
    PROVE  \E r \in SlotType :
              /\ slot' = [slot EXCEPT ![f] = r]
              /\ r.at = "open" /\ r.cursor = start /\ r.size = start /\ r.num = s.num
              /\ r.mode = s.mode /\ r.index = s.index
              /\ \/ r.IILevel = "none" /\ Block(start) < I_LEV_DATA_POINTERS
                 \/ /\ r.IILevel = "loaded" /\ r.II = Flushed(d, s)[r.IInum].pointers
                    /\ \E i \in SecondEntries : r.IInum = s.index[i] /\ ~GoneAt(start, i, HERE)
<1> DEFINE q  == Block(start)
           d1 == Flushed(d, s)
           i  == IIEntry(q)
           m  == I_LEV_DATA_POINTERS - q - 1
           s1 == [s EXCEPT !.at = "open", !.left = 0, !.done = 0, !.cursor = start, !.size = start,
                           !.ILevLeft = m]
<1>1. q \in Nat /\ ClusterSize * q <= start /\ m \in Int
  <2>1. q \in Nat /\ ClusterSize * q <= start
    BY BlockOfByte
  <2> HIDE DEF q
  <2> QED
    BY <2>1, Geometry
<1>2. s1 \in SlotType /\ s1.at = "open" /\ s1.cursor = start /\ s1.size = start /\ s1.num = s.num
      /\ s1.mode = s.mode /\ s1.index = s.index
  BY <1>1 DEF SlotType, SlotRecord
<1>3. d1 \in DiskType /\ s.index \in [Entries -> Clusters]
  BY FlushedType DEF SlotType, SlotRecord
<1>4. CASE q < I_LEV_DATA_POINTERS
  <2> DEFINE r == [s1 EXCEPT !.IILevel = "none", !.II = NoPointers, !.IInum = NoCluster,
                             !.IILevLeft = II_LEV_POINTERS, !.IILevDataLeft = 0]
  <2>1. slot' = [slot EXCEPT ![f] = r]
    BY <1>4 DEF CutAt
  <2>2. NoPointers \in [Entries -> Clusters] /\ NoCluster \in Clusters
        /\ II_LEV_POINTERS \in 0..II_LEV_POINTERS /\ 0 \in 0..II_LEV_DATA_POINTERS
    BY Geometry DEF NoPointers, Clusters
  <2> HIDE DEF s1
  <2>3. r \in SlotType /\ r.at = s1.at /\ r.cursor = s1.cursor /\ r.size = s1.size /\ r.num = s1.num
        /\ r.mode = s1.mode /\ r.index = s1.index /\ r.IILevel = "none"
    <3>1. s1 \in SlotRecord /\ NoCluster \in Nat /\ 0 \in Int
      BY <1>2, ClustersAreNumbers DEF SlotType
    <3>2. r \in SlotRecord /\ r.IILevel = "none"
      BY <2>2, <3>1 DEF SlotRecord
    <3>3. /\ r.at = s1.at /\ r.cursor = s1.cursor /\ r.size = s1.size /\ r.num = s1.num
          /\ r.mode = s1.mode /\ r.index = s1.index
      BY <3>1 DEF SlotRecord
    <3> HIDE DEF r
    <3> QED
      BY <3>2, <3>3 DEF SlotType
  <2> HIDE DEF r
  <2> QED
    BY <1>2, <1>4, <2>1, <2>3
<1>5. CASE ~(q < I_LEV_DATA_POINTERS)
  <2> DEFINE a == II_LEV_POINTERS - (i - I_LEV_DATA_POINTERS + 1)
             b == II_LEV_DATA_POINTERS - (InII(q) + 1)
             c == s.index[i]
             p == d1[c].pointers
             r == [s1 EXCEPT !.IILevel = "loaded", !.IInum = c, !.II = p,
                             !.IILevLeft = a, !.IILevDataLeft = b]
  <2>1. slot' = [slot EXCEPT ![f] = r]
    BY <1>5 DEF CutAt
  <2>2. i \in SecondEntries /\ InII(q) \in Entries /\ ~GoneAt(start, i, HERE)
    <3>1. q >= I_LEV_DATA_POINTERS
      <4> HIDE DEF q
      <4> QED
        BY <1>1, <1>5, Geometry
    <3> QED
      BY <1>1, <3>1, FitsEntries, EntryOfBlock, StaysBefore
  <2>3. a \in 0..II_LEV_POINTERS /\ b \in 0..II_LEV_DATA_POINTERS
    <3> HIDE DEF i
    <3> QED
      BY <2>2, Geometry
  <2>4. c \in Clusters /\ p \in [Entries -> Clusters]
    <3>1. c \in Clusters
      BY <1>3, <2>2, PlacesAre
    <3> HIDE DEF d1, c
    <3> QED
      BY <1>3, <3>1, DiskPointers
  <2> HIDE DEF s1, a, b, c, p
  <2>5. r \in SlotType /\ r.at = s1.at /\ r.cursor = s1.cursor /\ r.size = s1.size /\ r.num = s1.num
        /\ r.mode = s1.mode /\ r.index = s1.index /\ r.IILevel = "loaded" /\ r.IInum = c /\ r.II = p
    <3>1. s1 \in SlotRecord /\ c \in Nat /\ b \in Int
      BY <1>2, <2>3, <2>4, ClustersAreNumbers DEF SlotType
    <3>2. r \in SlotRecord
      BY <2>3, <2>4, <3>1 DEF SlotRecord
    <3>3. /\ r.at = s1.at /\ r.cursor = s1.cursor /\ r.size = s1.size /\ r.num = s1.num
          /\ r.mode = s1.mode /\ r.index = s1.index /\ r.IILevel = "loaded" /\ r.IInum = c /\ r.II = p
          /\ r.IILevDataLeft = b
      BY <3>1 DEF SlotRecord
    <3> HIDE DEF r
    <3> QED
      BY <2>3, <2>4, <3>2, <3>3 DEF SlotType
  <2> HIDE DEF r
  <2> QED
    BY <1>2, <2>1, <2>2, <2>5 DEF c, p
<1> QED
  BY <1>4, <1>5

\* Before a cut the clusters of f, and the new N, are at the places of the index g.
CutReady(f, N, A, g, num, d) ==
    /\ A = allocated \cup N /\ N \subseteq Data /\ N \cap allocated = {} /\ (N = {} \/ cut = {})
    /\ Prefixes(g, A, d) /\ Covers(g, A, d, Blocks(f))
    /\ Apart(num, g, A, d)
    /\ \A i, e \in Places : Held(g, A, d, i, e) =>
          \/ InUse(f, i, e) /\ On(num, g, d, i, e) = ClusterOn(f, i, e)
          \/ On(num, g, d, i, e) \in N
    /\ \A i, e \in Places : InUse(f, i, e) =>
          Held(g, A, d, i, e) /\ On(num, g, d, i, e) = ClusterOn(f, i, e)
    /\ \A c \in N : \E i, e \in Places : Held(g, A, d, i, e) /\ On(num, g, d, i, e) = c
    /\ \A c \in Clusters : d[c].pointers = disk[c].pointers \/ c \notin allocated \/ c \in Used(f)

\* The file ends at start; what it has up to there is in the clusters it was in, which
\* hold what they do in d.
CutStays(f, start, d) ==
    /\ slot'[f].at = "open" /\ slot'[f].cursor = start /\ slot'[f].mode = slot[f].mode
    /\ IsFile(f)' /\ SizeOf(f)' = start /\ dir' = dir /\ ret' = Nothing
    /\ \A i, e \in Places : InUse(f, i, e) /\ ~GoneAt(start, i, e) =>
          /\ ClusterOn(f, i, e)' = ClusterOn(f, i, e)
          /\ disk'[ClusterOn(f, i, e)] = d[ClusterOn(f, i, e)]

\* Cutting a file whose slot is s, after N has been allocated for it.
LEMMA CutKeeps ==
    ASSUME FilesFit, Inv, NEW f \in Files, NEW s \in SlotType, NEW N, NEW A, NEW d \in DiskType,
           NEW start \in Nat, IsOpen(f), start <= SizeOf(f), s.mode # "r", s.mode = slot[f].mode,
           s.num = slot[f].num,
           NEW g, NEW num, NEW d1, g = s.index, num = s.num, d1 = Flushed(d, s),
           CutReady(f, N, A, g, num, d1),
           CutAt(f, s, A, d, start)
    PROVE  Inv' /\ CutStays(f, start, d1)
<1> DEFINE R == Rest(g, A, d1, start)
           k == Store(f)'
<1>1. /\ TypeOK /\ allocated \subseteq Data /\ disk \in DiskType
      /\ cut \subseteq Files /\ dir \in [Files -> [num : Clusters, size : Nat]]
      /\ slot \in [Files -> SlotType] /\ slot[f] \in SlotType /\ Handle(f)
      /\ SizeOf(f) \in Nat /\ Blocks(f) \in Nat /\ Blocks(f) = UpTo(SizeOf(f), ClusterSize)
  BY FileTypes, FileNumbers, DiskTypes DEF Inv, TypeOK
<1>2. IsFile(f) /\ Exists(f) /\ NumOf(f) = num /\ ~At(f, "lost") /\ SizeOf(f) <= MaxSize(f)
  BY <1>1 DEF Handle, IsOpen, IsFile, At, NumOf
<1>3. start <= MaxSize(f) /\ MaxSize(f) \in Nat
  BY <1>1, <1>2, LayoutAssumption
<1>4. PICK r \in SlotType :
              /\ slot' = [slot EXCEPT ![f] = r]
              /\ r.at = "open" /\ r.cursor = start /\ r.size = start /\ r.num = num
              /\ r.mode = s.mode /\ r.index = g
              /\ \/ r.IILevel = "none" /\ Block(start) < I_LEV_DATA_POINTERS
                 \/ /\ r.IILevel = "loaded" /\ r.II = d1[r.IInum].pointers
                    /\ \E i \in SecondEntries : r.IInum = g[i] /\ ~GoneAt(start, i, HERE)
  BY <1>1, <1>3, CutSlot
<1>5. /\ disk' = Emptied(d1, R) /\ allocated' = A \ R /\ cut' = cut \cup {f}
      /\ ret' = Nothing /\ dir' = dir
  BY DEF CutAt
<1>6. d1 \in DiskType /\ g \in [Entries -> Clusters]
  BY FlushedType DEF SlotType, SlotRecord
<1> HIDE DEF R
<1>7. disk' \in DiskType
      /\ \A c \in Clusters : disk'[c].pointers = IF c \in R THEN NoPointers ELSE d1[c].pointers
  BY <1>5, <1>6, EmptiedType
<1>8. TypeOK' /\ slot'[f] = r
  <2>1. allocated' \subseteq Data /\ cut' \subseteq Files
    BY <1>1, <1>5 DEF CutReady
  <2> QED
    BY <1>1, <1>4, <1>5, <1>7, <2>1, TypesAfter
<1>9. k \in DiskType /\ \A c \in Clusters : k[c].pointers
         = IF r.IILevel = "loaded" /\ r.IInum = c THEN r.II ELSE disk'[c].pointers
  <2>1. k = Flushed(disk', r)
    BY <1>8 DEF Store
  <2> QED
    BY <1>7, <2>1, FlushedType
<1>10. /\ \A c : c \in R <=> \E i, e \in Places : Held(g, A, d1, i, e) /\ GoneAt(start, i, e)
                                                 /\ c = On(num, g, d1, i, e)
       /\ \A i, e \in Places : Held(g, A, d1, i, e) => (GoneAt(start, i, e) <=> On(num, g, d1, i, e) \in R)
       /\ \A i \in SecondEntries : ~GoneAt(start, i, HERE) => g[i] \notin R
       /\ num \notin R
  <2>0. Prefixes(g, A, d1)
    BY DEF CutReady
  <2>1. \A c : c \in R <=> \E i, e \in Places : Held(g, A, d1, i, e) /\ GoneAt(start, i, e)
                                                 /\ c = On(num, g, d1, i, e)
    BY <2>0, RestIs DEF R
  <2> DEFINE h == Emptied(d1, R)
  <2>2. Wiped(h, d1, R)
    BY <1>6, EmptiedType DEF Wiped
  <2> HIDE DEF h
  <2>3. R = Rest(g, A, d1, start) /\ Prefixes(g, A, d1)
    BY DEF R, CutReady
  <2>4. Apart(num, g, A, d1)
    BY DEF CutReady
  <2>5. /\ \A i, e \in Places : Held(g, A, d1, i, e) => (GoneAt(start, i, e) <=> On(num, g, d1, i, e) \in R)
        /\ \A i \in SecondEntries : ~GoneAt(start, i, HERE) => g[i] \notin R
        /\ num \notin R
    <3>1. CutTo(num, g, A, d1, start, R, h)
      BY <1>6, <2>2, <2>3, <2>4 DEF CutTo
    <3>2. CutDone(num, g, A, d1, start, R, h)
      BY <3>1, CutLeaves
    <3> QED
      BY <3>2 DEF CutDone
  <2> QED
    BY <2>1, <2>5
<1>11. Wiped(k, d1, R)
  <2>1. r.IILevel = "loaded" => r.IInum \notin R /\ r.II = d1[r.IInum].pointers
    BY <1>4, <1>10
  <2> QED
    BY <1>7, <1>9, <2>1 DEF Wiped
<1>12. /\ \A i, e \in Places : Held(g, A \ R, k, i, e) <=> Held(g, A, d1, i, e) /\ ~GoneAt(start, i, e)
       /\ \A i, e \in Places : Held(g, A \ R, k, i, e) => On(num, g, k, i, e) = On(num, g, d1, i, e)
  <2>3. R = Rest(g, A, d1, start) /\ Prefixes(g, A, d1)
    BY DEF R, CutReady
  <2>4. Apart(num, g, A, d1)
    BY DEF CutReady
  <2> HIDE DEF k
  <2>5. CutTo(num, g, A, d1, start, R, k)
    BY <1>6, <1>11, <2>3, <2>4 DEF CutTo
  <2>6. CutDone(num, g, A, d1, start, R, k)
    BY <2>5, CutLeaves
  <2> QED
    BY <2>6 DEF CutDone
<1>13. IsOpen(f)' /\ IsFile(f)' /\ Exists(f)' /\ ~At(f, "lost")' /\ NumOf(f)' = num /\ IndexOf(f)' = g
       /\ SizeOf(f)' = start /\ ~At(f, "closed")' /\ ~At(f, "writes")' /\ ~At(f, "rewrites")'
  <2>1. IsOpen(f)' /\ ~At(f, "lost")' /\ ~At(f, "closed")' /\ ~At(f, "writes")' /\ ~At(f, "rewrites")'
    BY <1>4, <1>8 DEF IsOpen, At
  <2>2. IsFile(f)' /\ Exists(f)'
    BY <1>2, <1>4, <1>5, <1>8 DEF IsFile, Exists
  <2>3. NumOf(f)' = num /\ IndexOf(f)' = g /\ SizeOf(f)' = start
    BY <1>4, <1>8, <2>1 DEF NumOf, IndexOf, SizeOf
  <2> QED
    BY <2>1, <2>2, <2>3
<1>14. Blocks(f)' = FirstFreed(start) /\ FirstFreed(start) <= Blocks(f)
  <2>1. Blocks(f)' = UpTo(start, ClusterSize)
    BY <1>13 DEF Blocks
  <2>2. FirstFreed(start) = UpTo(start, ClusterSize)
    BY FirstFreedRoundsUp
  <2>3. UpTo(start, ClusterSize) <= UpTo(SizeOf(f), ClusterSize)
    BY <1>1, UpToMonotone
  <2> QED
    BY <1>1, <2>1, <2>2, <2>3
<1>15. Handle(f)'
  <2>1. slot'[f].num = dir'[f].num
    BY <1>1, <1>4, <1>5, <1>8 DEF Handle
  <2> QED
    BY <1>3, <1>4, <1>8, <1>13, <2>1 DEF Handle
<1>16. Layout(f)'
  <2>1. num \in allocated'
    BY <1>2, <1>5, <1>10 DEF Inv, Layout, CutReady
  <2>2. Prefixes(g, A \ R, k) /\ Covers(g, A \ R, k, FirstFreed(start))
    <3>1. Prefixes(g, A, d1) /\ Covers(g, A, d1, Blocks(f))
      BY DEF CutReady
    <3> HIDE DEF k
    <3> QED
      BY <1>1, <1>6, <1>12, <1>14, <3>1, CutCovers
  <2> QED
    BY <1>5, <1>13, <1>14, <2>1, <2>2 DEF Layout
<1>17. Loaded(f)'
  <2>1. IIs(f)' > 0 => r.IILevel = "loaded"
    <3> SUFFICES ASSUME Block(start) < I_LEV_DATA_POINTERS PROVE ~(IIs(f)' > 0)
      BY <1>4
    <3>1. FirstFreed(start) \in Nat /\ FirstFreed(start) <= I_LEV_DATA_POINTERS
      <4>1. Block(start) \in Nat /\ FirstFreed(start) \in {Block(start), Block(start) + 1}
        BY BlockOfByte DEF FirstFreed
      <4> QED
        BY <4>1, Geometry
    <3>2. InSecond(f)' = 0
      BY <1>14, <3>1, Geometry DEF InSecond
    <3>3. IIs(f)' = UpTo(0, II_LEV_DATA_POINTERS)
      BY <3>2 DEF IIs
    <3>4. UpTo(0, II_LEV_DATA_POINTERS) = 0
      BY DivIs, Geometry DEF UpTo
    <3> QED
      BY <3>3, <3>4
  <2> QED
    BY <1>4, <1>5, <1>8, <2>1 DEF Loaded
<1>18. Lefts(f)'
  BY <1>5 DEF Lefts
<1>19. \A i, e \in Places : InUse(f, i, e)' <=> Held(g, A \ R, k, i, e)
  BY <1>5, <1>13 DEF InUse
<1>20. \A i, e \in Places : ClusterOn(f, i, e)' = On(num, g, k, i, e)
  BY <1>13 DEF ClusterOn
<1>21. \A i, e \in Places : Held(g, A, d1, i, e) =>
          \/ InUse(f, i, e) /\ On(num, g, d1, i, e) = ClusterOn(f, i, e)
          \/ On(num, g, d1, i, e) \in N
  BY DEF CutReady
<1> HIDE DEF k
<1>22. R \subseteq Used(f) \cup N
  <2> SUFFICES ASSUME NEW c, c \in R PROVE c \in Used(f) \cup N
    OBVIOUS
  <2>1. PICK i \in Places : \E e \in Places : Held(g, A, d1, i, e) /\ c = On(num, g, d1, i, e)
    BY <1>10
  <2>2. PICK e \in Places : Held(g, A, d1, i, e) /\ c = On(num, g, d1, i, e)
    BY <2>1
  <2>3. CASE InUse(f, i, e) /\ c = ClusterOn(f, i, e)
    <3>1. c \in Data
      BY <2>3, UsedIsAllocatedData
    <3> QED
      BY <2>3, <3>1 DEF Used
  <2> QED
    BY <1>21, <2>2, <2>3
<1>23. StepOf(f, N, R)
  <2>1. \A h \in Files \ {f} : slot'[h] = slot[h] /\ dir'[h] = dir[h] /\ (h \in cut' <=> h \in cut)
    BY <1>1, <1>4, <1>5
  <2>2. /\ \A c \in Clusters : d1[c].pointers = disk[c].pointers \/ c \notin allocated \/ c \in Used(f)
        /\ A = allocated \cup N /\ N \subseteq Data /\ N \cap allocated = {} /\ (N = {} \/ cut = {})
    BY DEF CutReady
  <2>3. \A c \in Clusters : disk'[c].pointers = disk[c].pointers \/ c \notin allocated \/ c \in Used(f)
    BY <1>7, <1>22, <2>2
  <2> QED
    BY <1>5, <1>22, <2>1, <2>2, <2>3 DEF StepOf
<1>24. Moves(f, N, R)
  <2>1. \A i, e \in Places : InUse(f, i, e)' =>
           Held(g, A, d1, i, e) /\ ClusterOn(f, i, e)' = On(num, g, d1, i, e)
    <3> TAKE i, e \in Places
    <3> QED
      BY <1>12, <1>19, <1>20
  <2>2. \A i, e \in Places : Held(g, A, d1, i, e) /\ On(num, g, d1, i, e) \notin R =>
           InUse(f, i, e)' /\ ClusterOn(f, i, e)' = On(num, g, d1, i, e)
    <3> TAKE i, e \in Places
    <3>1. Held(g, A, d1, i, e) => (GoneAt(start, i, e) <=> On(num, g, d1, i, e) \in R)
      BY <1>10
    <3> QED
      BY <1>12, <1>19, <1>20, <3>1
  <2>3. \A i, e \in Places : InUse(f, i, e)' =>
          \/ InUse(f, i, e) /\ ClusterOn(f, i, e)' = ClusterOn(f, i, e)
          \/ ClusterOn(f, i, e)' \in N
    <3> TAKE i, e \in Places
    <3> QED
      BY <1>21, <2>1
  <2>4. \A i, e, j, c \in Places :
          InUse(f, i, e)' /\ InUse(f, j, c)' /\ ClusterOn(f, i, e)' \in N
             /\ ClusterOn(f, i, e)' = ClusterOn(f, j, c)' => i = j /\ e = c
    <3> TAKE i, e, j, c \in Places
    <3>1. Held(g, A, d1, i, e) /\ Held(g, A, d1, j, c) /\ On(num, g, d1, i, e) = On(num, g, d1, j, c)
            => i = j /\ e = c
      BY DEF CutReady, Apart
    <3> QED
      BY <2>1, <3>1
  <2>5. \A i, e \in Places : InUse(f, i, e) /\ ClusterOn(f, i, e) \notin R =>
           InUse(f, i, e)' /\ ClusterOn(f, i, e)' = ClusterOn(f, i, e)
    <3> TAKE i, e \in Places
    <3>1. InUse(f, i, e) => Held(g, A, d1, i, e) /\ On(num, g, d1, i, e) = ClusterOn(f, i, e)
      BY DEF CutReady
    <3> QED
      BY <2>2, <3>1
  <2>6. \A c \in N \ R : \E i, e \in Places : InUse(f, i, e)' /\ ClusterOn(f, i, e)' = c
    <3> TAKE c \in N \ R
    <3>1. \E i, e \in Places : Held(g, A, d1, i, e) /\ On(num, g, d1, i, e) = c
      BY DEF CutReady
    <3> QED
      BY <2>2, <3>1
  <2> QED
    BY <1>2, <2>3, <2>4, <2>5, <2>6 DEF Moves
<1>25. CutStays(f, start, d1)
  <2>1. ASSUME NEW i \in Places, NEW e \in Places, InUse(f, i, e), ~GoneAt(start, i, e)
        PROVE  /\ ClusterOn(f, i, e)' = ClusterOn(f, i, e)
               /\ disk'[ClusterOn(f, i, e)] = d1[ClusterOn(f, i, e)]
    <3>1. Held(g, A, d1, i, e) /\ On(num, g, d1, i, e) = ClusterOn(f, i, e)
      BY <2>1 DEF CutReady
    <3>2. ClusterOn(f, i, e) \notin R
      BY <1>10, <2>1, <3>1
    <3>3. ClusterOn(f, i, e)' = ClusterOn(f, i, e)
      BY <1>12, <1>20, <2>1, <3>1
    <3>4. ClusterOn(f, i, e) \in Clusters
      BY <2>1, UsedIsAllocatedData DEF Clusters
    <3> QED
      BY <1>5, <3>2, <3>3, <3>4 DEF Emptied
  <2>2. /\ slot'[f].at = "open" /\ slot'[f].cursor = start /\ slot'[f].mode = slot[f].mode
        /\ IsFile(f)' /\ SizeOf(f)' = start /\ dir' = dir /\ ret' = Nothing
    BY <1>4, <1>5, <1>8, <1>13
  <2> QED
    BY <2>1, <2>2 DEF CutStays
<1> QED
  BY <1>25, <1>8, <1>15, <1>16, <1>17, <1>18, <1>23, <1>24, InvKept

LEMMA ReadyNow ==
    ASSUME Inv, NEW f \in Files, IsOpen(f)
    PROVE  CutReady(f, {}, allocated, slot[f].index, slot[f].num, Flushed(disk, slot[f]))
<1> DEFINE g == slot[f].index
           num == slot[f].num
           d == Store(f)
<1>1. d = Flushed(disk, slot[f])
  BY DEF Store
<1>2. IsFile(f) /\ IndexOf(f) = g /\ NumOf(f) = num
  BY DEF Inv, Handle, IsOpen, IsFile, At, IndexOf, NumOf
<1>3. Prefixes(g, allocated, d) /\ Covers(g, allocated, d, Blocks(f))
  BY <1>2 DEF Inv, Layout
<1> HIDE DEF g, num, d
<1>4. \A i, e \in Places : /\ InUse(f, i, e) <=> Held(g, allocated, d, i, e)
                           /\ ClusterOn(f, i, e) = On(num, g, d, i, e)
  BY <1>2 DEF InUse, ClusterOn, d
<1>5. Apart(num, g, allocated, d)
  BY <1>4 DEF Apart, Inv, Distinct
<1>6. \A c \in Clusters : d[c].pointers = disk[c].pointers \/ c \notin allocated \/ c \in Used(f)
  BY <1>1, FlushStays, DiskTypes DEF Inv
<1>7. CutReady(f, {}, allocated, g, num, d)
  BY <1>3, <1>4, <1>5, <1>6 DEF CutReady
<1> QED
  BY <1>1, <1>7 DEF g, num

LEMMA TruncateKeeps ==
    ASSUME FilesFit, Inv, NEW f \in Files, Truncate(f)
    PROVE  Inv' /\ CutStays(f, slot[f].cursor, Flushed(disk, slot[f]))
<1>1. IsOpen(f) /\ slot[f].mode # "r" /\ CutAt(f, slot[f], allocated, disk, slot[f].cursor)
  BY DEF Truncate, IsOpen, At
<1>2. slot[f] \in SlotType /\ disk \in DiskType /\ slot[f].cursor \in Nat
  BY FileTypes, DiskTypes DEF Inv, SlotType, SlotRecord
<1>3. slot[f].cursor <= SizeOf(f)
  BY <1>1 DEF Inv, Handle, SizeOf, IsOpen, At
<1>4. CutReady(f, {}, allocated, slot[f].index, slot[f].num, Flushed(disk, slot[f]))
  BY <1>1, ReadyNow
<1> QED
  BY <1>1, <1>2, <1>3, <1>4, CutKeeps

\* An index g of B blocks whose entry i0 is given an empty second-level index t: h, k.
EmptyIndex(num, g, A, d, B, i0, t, h, k) ==
    /\ g \in [Entries -> Clusters] /\ A \subseteq Data /\ Filled(g, A, d, B)
    /\ i0 \in SecondEntries /\ ~PlaceOf(B, i0, HERE) /\ t \in Data /\ t \notin A
    /\ h = [g EXCEPT ![i0] = t] /\ Wiped(k, d, {t})
OneMore(num, g, A, d, i0, t, h, k) ==
    /\ \A i, e \in Places : Held(h, A \cup {t}, k, i, e)
                               <=> Held(g, A, d, i, e) \/ (i = i0 /\ e = HERE)
    /\ \A i, e \in Places : Held(g, A, d, i, e) => On(num, h, k, i, e) = On(num, g, d, i, e)
    /\ On(num, h, k, i0, HERE) = t
    /\ \A e \in Places : ~Held(g, A, d, i0, e)

LEMMA WithEmptyIndex ==
    ASSUME NEW num, NEW g, NEW A, NEW d, NEW B, NEW i0, NEW t, NEW h, NEW k,
           EmptyIndex(num, g, A, d, B, i0, t, h, k)
    PROVE  OneMore(num, g, A, d, i0, t, h, k)
<1>0. /\ g \in [Entries -> Clusters] /\ A \subseteq Data /\ Filled(g, A, d, B)
      /\ i0 \in SecondEntries /\ ~PlaceOf(B, i0, HERE) /\ t \in Data /\ t \notin A
      /\ h = [g EXCEPT ![i0] = t]
      /\ \A c \in Clusters : k[c].pointers = IF c = t THEN NoPointers ELSE d[c].pointers
  BY DEF EmptyIndex, Wiped
<1>1. HERE \in Places /\ HERE \notin Entries /\ SecondEntries \subseteq Entries /\ Entries \subseteq Places
  BY PlacesAre
<1>2. t # NoCluster /\ t \in Clusters /\ \A c \in Clusters : Live(A, c) => c # t /\ Live(A \cup {t}, c)
  BY <1>0, LayoutAssumption DEF Clusters, NoCluster, Live
<1>3. h[i0] = t /\ \A i \in Entries \ {i0} : h[i] = g[i] /\ g[i] \in Clusters
  BY <1>0, <1>1
<1>4. g[i0] = NoCluster /\ \A e \in Places : ~Held(g, A, d, i0, e)
  BY <1>0, <1>1 DEF Filled, Held, Live
<1>5. \A i \in Entries \ {i0} : Live(A \cup {t}, h[i]) <=> Live(A, g[i])
  <2> TAKE i \in Entries \ {i0}
  <2>1. g[i] = NoCluster \/ Live(A, g[i])
    BY <1>0, <1>1 DEF Filled, Held
  <2> QED
    BY <1>2, <1>3, <2>1 DEF Live
<1>6. \A i \in Entries : Held(h, A \cup {t}, k, i, HERE) <=> Held(g, A, d, i, HERE) \/ i = i0
  <2> TAKE i \in Entries
  <2>1. Live(A \cup {t}, t)
    BY <1>2 DEF Live
  <2> QED
    BY <1>1, <1>3, <1>5, <2>1 DEF Held
<1>7. ASSUME NEW i \in SecondEntries, NEW e \in Entries
      PROVE  /\ Held(h, A \cup {t}, k, i, e) <=> Held(g, A, d, i, e)
             /\ Held(g, A, d, i, e) => On(num, h, k, i, e) = On(num, g, d, i, e)
  <2>0. i \in Entries /\ i \in Places /\ e \in Places /\ i # HERE /\ e # HERE
    BY <1>1
  <2>1. CASE i = i0
    <3>1. k[h[i]].pointers[e] = NoCluster
      BY <1>0, <1>2, <1>3, <2>1 DEF NoPointers
    <3> QED
      BY <1>4, <2>0, <2>1, <3>1 DEF Held, Live
  <2>2. CASE i # i0 /\ Live(A, g[i])
    <3>1. h[i] = g[i] /\ g[i] \in Clusters /\ k[h[i]].pointers = d[g[i]].pointers /\ Live(A \cup {t}, h[i])
      BY <1>0, <1>2, <1>3, <1>5, <2>0, <2>2
    <3>2. d[g[i]].pointers[e] = NoCluster \/ Held(g, A, d, i, e)
      <4>1. Held(g, A, d, i, HERE)
        BY <2>0, <2>2, <1>1 DEF Held
      <4> QED
        BY <1>0, <1>1, <2>0, <4>1 DEF Filled
    <3>3. Held(g, A, d, i, e) <=> Live(A, d[g[i]].pointers[e])
      BY <2>0, <2>2 DEF Held
    <3>4. Held(h, A \cup {t}, k, i, e) <=> Live(A \cup {t}, d[g[i]].pointers[e])
      BY <2>0, <3>1 DEF Held
    <3>5. Live(A, d[g[i]].pointers[e]) => Live(A \cup {t}, d[g[i]].pointers[e])
      BY DEF Live
    <3>6. d[g[i]].pointers[e] = NoCluster => ~Live(A \cup {t}, d[g[i]].pointers[e])
      BY DEF Live
    <3> QED
      BY <2>0, <3>1, <3>2, <3>3, <3>4, <3>5, <3>6 DEF On
  <2>3. CASE i # i0 /\ ~Live(A, g[i])
    BY <1>5, <2>0, <2>3 DEF Held
  <2> QED
    BY <2>1, <2>2, <2>3
<1>8. ASSUME NEW i \in Places, NEW e \in Places
      PROVE  /\ Held(h, A \cup {t}, k, i, e) <=> Held(g, A, d, i, e) \/ (i = i0 /\ e = HERE)
             /\ Held(g, A, d, i, e) => On(num, h, k, i, e) = On(num, g, d, i, e)
  <2>1. CASE i = HERE /\ e = HERE
    BY <1>1, <2>1 DEF Held, On
  <2>2. CASE i \in Entries /\ e = HERE
    BY <1>1, <1>3, <1>4, <1>6, <2>2 DEF On
  <2>3. CASE i \in SecondEntries /\ e \in Entries
    BY <1>1, <1>7, <2>3
  <2>4. CASE (i = HERE /\ e # HERE) \/ (i \in Entries /\ i \notin SecondEntries /\ e # HERE)
    BY <1>1, <2>4 DEF Held
  <2> QED
    BY <2>1, <2>2, <2>3, <2>4, PlacesAre
<1>9. On(num, h, k, i0, HERE) = t
  BY <1>0, <1>1, <1>3 DEF On
<1> QED
  BY <1>4, <1>8, <1>9 DEF OneMore

LEMMA ReadyWithIndex ==
    ASSUME FilesFit, Inv, NEW f \in Files, f \notin cut, cut = {}, AtBoundary(slot[f]), At(f, "writes"),
           slot[f].IILevLeft > 0, NEW t \in Free, NEW u, u = WithII(slot[f], t), NEW d,
           d = Flushed(Flushed(disk, slot[f]), u)
    PROVE  CutReady(f, {t}, allocated \cup {t}, u.index, u.num, d)
<1> DEFINE s == slot[f]
           B == Blocks(f)
           n == IIs(f)
           i0 == I_LEV_DATA_POINTERS + n
           g == s.index
           h == u.index
           num == s.num
           A == allocated \cup {t}
           d0 == Store(f)
<1>1. /\ s \in SlotType /\ disk \in DiskType /\ g \in [Entries -> Clusters] /\ allocated \subseteq Data
      /\ IsOpen(f) /\ IsFile(f) /\ IndexOf(f) = g /\ NumOf(f) = num /\ SizeOf(f) = s.size
      /\ t \in Data /\ t \notin allocated /\ t \in Clusters
  <2>1. s \in SlotType /\ disk \in DiskType /\ g \in [Entries -> Clusters] /\ allocated \subseteq Data
    BY FileTypes, DiskTypes DEF Inv, TypeOK, SlotType, SlotRecord
  <2>2. IsOpen(f) /\ IsFile(f) /\ IndexOf(f) = g /\ NumOf(f) = num /\ SizeOf(f) = s.size
    BY DEF Inv, Handle, IsOpen, IsFile, At, IndexOf, NumOf, SizeOf
  <2> QED
    BY <2>1, <2>2 DEF Free, Clusters
<1>2. u.index = [g EXCEPT ![II_LEV_POINTERS - s.IILevLeft + I_LEV_DATA_POINTERS] = t]
      /\ u.IInum = t /\ u.IILevel = "loaded" /\ u.II = NoPointers /\ u.num = num /\ u \in SlotType
  BY <1>1, WithIIIs
<1>3. B \in Nat /\ n = UpTo(Beyond(B), II_LEV_DATA_POINTERS) /\ n \in Nat /\ s.IILevLeft = II_LEV_POINTERS - n
  BY <1>1, EndOfFile
<1>4. i0 \in SecondEntries /\ i0 = II_LEV_POINTERS - s.IILevLeft + I_LEV_DATA_POINTERS
      /\ i0 \in Nat /\ i0 >= I_LEV_DATA_POINTERS /\ i0 - I_LEV_DATA_POINTERS = n
  <2>1. s.IILevLeft > 0
    OBVIOUS
  <2> DEFINE l == s.IILevLeft
  <2> HIDE DEF l, n
  <2>2. n \in Nat /\ l = II_LEV_POINTERS - n /\ l > 0
    BY <1>3, <2>1 DEF l
  <2>3. i0 \in SecondEntries /\ i0 = II_LEV_POINTERS - l + I_LEV_DATA_POINTERS
        /\ i0 \in Nat /\ i0 >= I_LEV_DATA_POINTERS /\ i0 - I_LEV_DATA_POINTERS = n
    BY <2>2, Geometry
  <2> QED
    BY <2>3 DEF l
<1>5. h = [g EXCEPT ![i0] = t]
  BY <1>2, <1>4
<1>6. \A c \in Clusters : d[c].pointers = IF c = t THEN NoPointers ELSE d0[c].pointers
  <2>1. d0 \in DiskType /\ d0 = Flushed(disk, s)
    BY <1>1, FlushedType DEF Store
  <2>2. d = Flushed(d0, u)
    BY <2>1
  <2> HIDE DEF d0
  <2> QED
    BY <1>2, <2>1, <2>2, FlushedType
<1> HIDE DEF i0
<1>7. /\ ~PlaceOf(B, i0, HERE)
      /\ \A j \in SecondEntries : j < i0 => PlaceOf(B, j, HERE)
  <2>1. i0 \notin IEntries /\ i0 # HERE /\ HERE \notin Entries
    BY <1>4, Geometry
  <2>2. \A i \in Nat : i >= I_LEV_DATA_POINTERS => (BlockAt(i, 0) < B <=> i - I_LEV_DATA_POINTERS < n)
    BY <1>3, SecondCount
  <2>3. \A j \in SecondEntries : j \in Nat /\ j >= I_LEV_DATA_POINTERS
    BY Geometry
  <2> HIDE DEF B, n
  <2>4. ~(BlockAt(i0, 0) < B)
    BY <1>3, <1>4, <2>2
  <2>5. ASSUME NEW j \in SecondEntries, j < i0 PROVE BlockAt(j, 0) < B
    <3>1. j - I_LEV_DATA_POINTERS < n
      BY <1>3, <1>4, <2>3, <2>5, Geometry
    <3> QED
      BY <2>2, <2>3, <3>1
  <2> QED
    BY <2>1, <2>4, <2>5 DEF PlaceOf
<1>8. Prefixes(g, allocated, d0) /\ Covers(g, allocated, d0, B) /\ Filled(g, allocated, d0, B)
      /\ num \in allocated
  <2>1. Prefixes(g, allocated, d0) /\ Covers(g, allocated, d0, B) /\ Ends(g, allocated, d0, B)
        /\ num \in allocated
    BY <1>1 DEF Inv, Layout
  <2> HIDE DEF g, d0, B
  <2> QED
    BY <1>3, <2>1, FilledIs
<1>9. /\ \A i, e \in Places : InUse(f, i, e) <=> Held(g, allocated, d0, i, e)
      /\ \A i, e \in Places : ClusterOn(f, i, e) = On(num, g, d0, i, e)
  BY <1>1 DEF InUse, ClusterOn
<1>10. \A c \in Clusters : d0[c].pointers = disk[c].pointers \/ c \notin allocated \/ c \in Used(f)
  BY <1>1, FlushStays DEF Store
<1> HIDE DEF s, B, n, g, h, num, A, d0
<1>11. /\ \A i, e \in Places : Held(h, A, d, i, e) <=> Held(g, allocated, d0, i, e) \/ (i = i0 /\ e = HERE)
       /\ \A i, e \in Places : Held(g, allocated, d0, i, e) => On(num, h, d, i, e) = On(num, g, d0, i, e)
       /\ On(num, h, d, i0, HERE) = t
       /\ \A e \in Places : ~Held(g, allocated, d0, i0, e)
  <2>1. EmptyIndex(num, g, allocated, d0, B, i0, t, h, d)
    <3>1. Wiped(d, d0, {t})
      BY <1>6 DEF Wiped
    <3> QED
      BY <1>1, <1>3, <1>4, <1>5, <1>7, <1>8, <3>1 DEF EmptyIndex, g
  <2>2. OneMore(num, g, allocated, d0, i0, t, h, d)
    BY <2>1, WithEmptyIndex
  <2> QED
    BY <2>2 DEF OneMore, A
<1>12. SecondEntries \subseteq Places /\ IEntries \subseteq Places /\ Entries \subseteq Places /\ HERE \in Places
       /\ HERE \notin Entries /\ i0 \in Places /\ i0 \notin IEntries
       /\ \A j \in SecondEntries : j \in Nat
  BY <1>4, PlacesAre, Geometry
<1>13. Prefixes(h, A, d)
  <2>1. \A i, j \in IEntries : j <= i /\ Held(h, A, d, i, HERE) => Held(h, A, d, j, HERE)
    BY <1>8, <1>11, <1>12 DEF Prefixes
  <2>2. ASSUME NEW i \in SecondEntries, NEW j \in SecondEntries, j <= i, Held(h, A, d, i, HERE)
        PROVE  Held(h, A, d, j, HERE)
    <3>1. CASE i = i0
      <4>1. j = i0 \/ Held(g, allocated, d0, j, HERE)
        BY <1>4, <1>7, <1>8, <1>12, <2>2, <3>1 DEF Filled
      <4> QED
        BY <1>11, <1>12, <4>1
    <3>2. CASE i # i0
      <4>1. Held(g, allocated, d0, i, HERE)
        BY <1>11, <1>12, <2>2, <3>2
      <4>2. Held(g, allocated, d0, j, HERE)
        BY <1>8, <2>2, <4>1 DEF Prefixes
      <4> QED
        BY <1>11, <1>12, <4>2
    <3> QED
      BY <3>1, <3>2
  <2>3. \A i \in SecondEntries : \A e, c \in Entries :
           c <= e /\ Held(h, A, d, i, e) => Held(h, A, d, i, c)
    BY <1>8, <1>11, <1>12 DEF Prefixes
  <2> QED
    BY <2>1, <2>2, <2>3 DEF Prefixes
<1>14. Covers(h, A, d, B)
  BY <1>8, <1>11, <1>12 DEF Covers
<1>15. ASSUME NEW i \in Places, NEW e \in Places, Held(g, allocated, d0, i, e)
       PROVE  On(num, h, d, i, e) = ClusterOn(f, i, e) /\ On(num, h, d, i, e) # t /\ InUse(f, i, e)
  <2>1. On(num, h, d, i, e) = ClusterOn(f, i, e) /\ InUse(f, i, e)
    BY <1>9, <1>11, <1>15
  <2>2. ClusterOn(f, i, e) \in allocated
    BY <2>1, UsedIsAllocatedData
  <2> QED
    BY <1>1, <2>1, <2>2
<1>16. Apart(num, h, A, d)
  <2> SUFFICES ASSUME NEW i \in Places, NEW e \in Places, NEW j \in Places, NEW c \in Places,
                      Held(h, A, d, i, e), Held(h, A, d, j, c), On(num, h, d, i, e) = On(num, h, d, j, c)
               PROVE  i = j /\ e = c
    BY DEF Apart
  <2>1. CASE Held(g, allocated, d0, i, e) /\ Held(g, allocated, d0, j, c)
    <3>1. InUse(f, i, e) /\ InUse(f, j, c) /\ ClusterOn(f, i, e) = ClusterOn(f, j, c)
      BY <1>15, <2>1
    <3> QED
      BY <3>1 DEF Inv, Distinct
  <2>2. CASE i = i0 /\ e = HERE
    <3>1. ~Held(g, allocated, d0, j, c)
      BY <1>11, <1>15, <2>2
    <3> QED
      BY <1>11, <2>2, <3>1
  <2>3. CASE j = i0 /\ c = HERE
    <3>1. ~Held(g, allocated, d0, i, e)
      BY <1>11, <1>15, <2>3
    <3> QED
      BY <1>11, <2>3, <3>1
  <2> QED
    BY <1>11, <2>1, <2>2, <2>3
<1>17. \A i, e \in Places : Held(h, A, d, i, e) =>
          \/ InUse(f, i, e) /\ On(num, h, d, i, e) = ClusterOn(f, i, e)
          \/ On(num, h, d, i, e) \in {t}
  BY <1>11, <1>15
<1>18. \A i, e \in Places : InUse(f, i, e) =>
          Held(h, A, d, i, e) /\ On(num, h, d, i, e) = ClusterOn(f, i, e)
  BY <1>9, <1>11, <1>15
<1>19. \A c \in {t} : \E i, e \in Places : Held(h, A, d, i, e) /\ On(num, h, d, i, e) = c
  BY <1>11, <1>12
<1>20. \A c \in Clusters : d[c].pointers = disk[c].pointers \/ c \notin allocated \/ c \in Used(f)
  BY <1>1, <1>6, <1>10
<1>21. A = allocated \cup {t} /\ {t} \subseteq Data /\ {t} \cap allocated = {} /\ cut = {}
  BY <1>1 DEF A
<1>22. CutReady(f, {t}, A, h, num, d)
  BY <1>13, <1>14, <1>16, <1>17, <1>18, <1>19, <1>20, <1>21 DEF CutReady, B
<1> QED
  BY <1>2, <1>22 DEF A, h, num

LEMMA GrowFailsKeeps ==
    ASSUME FilesFit, Inv, GrowsUncut, NEW f \in Files, GrowFails(f)
    PROVE  /\ Inv' /\ slot[f].cursor - slot[f].done \in Nat
           /\ \E d : /\ CutStays(f, slot[f].cursor - slot[f].done, d)
                     /\ \/ d = Flushed(disk, slot[f])
                        \/ \E t \in Free : d = Flushed(Flushed(disk, slot[f]), WithII(slot[f], t))
<1> DEFINE s == slot[f]
           start == s.cursor - s.done
<1>1. /\ s \in SlotType /\ disk \in DiskType /\ slot \in [Files -> SlotType] /\ allocated \subseteq Data
      /\ AtBoundary(s) /\ At(f, "writes") /\ s.cursor = s.size /\ s.cursor \in Nat /\ s.done \in Nat
      /\ s.cursor >= s.done /\ IsOpen(f) /\ s.mode # "r" /\ SizeOf(f) = s.size /\ s.size <= MaxSize(f)
      /\ MaxSize(f) \in Nat
  <2>1. /\ s \in SlotType /\ disk \in DiskType /\ slot \in [Files -> SlotType] /\ allocated \subseteq Data
        /\ s.cursor \in Nat /\ s.done \in Nat /\ MaxSize(f) \in Nat
    BY FileTypes, DiskTypes, LayoutAssumption DEF Inv, TypeOK, SlotType, SlotRecord
  <2>2. AtBoundary(s) /\ At(f, "writes") /\ s.cursor = s.size /\ s.cursor >= s.done
    BY DEF GrowFails, AtBoundary, At
  <2>3. IsOpen(f) /\ s.mode # "r" /\ SizeOf(f) = s.size /\ s.size <= MaxSize(f)
    BY <2>2 DEF Inv, Handle, IsOpen, IsFile, At, SizeOf
  <2> QED
    BY <2>1, <2>2, <2>3
<1>2. start \in Nat /\ start <= SizeOf(f) /\ start <= MaxSize(f)
  BY <1>1
<1>3. CASE CutAt(f, s, allocated, disk, start)
  <2>1. CutReady(f, {}, allocated, s.index, s.num, Flushed(disk, s))
    BY <1>1, ReadyNow
  <2> HIDE DEF start
  <2>2. Inv' /\ CutStays(f, start, Flushed(disk, s))
    BY <1>1, <1>2, <1>3, <2>1, CutKeeps
  <2> QED
    BY <1>2, <2>2 DEF start
<1>4. CASE /\ s.IILevLeft > 0
           /\ \E t \in Free : CutAt(f, WithII(s, t), allocated \cup {t}, Flushed(disk, s), start)
  <2>1. PICK t \in Free : CutAt(f, WithII(s, t), allocated \cup {t}, Flushed(disk, s), start)
    BY <1>4
  <2> DEFINE u == WithII(s, t)
             d == Flushed(disk, s)
             A == allocated \cup {t}
  <2>2. t \in Clusters
    BY DEF Free, Clusters
  <2>3. u \in SlotType /\ u.mode = s.mode /\ u.num = s.num
    BY <1>1, <1>4, <2>2, WithIIIs
  <2>4. d \in DiskType
    BY <1>1, FlushedType
  <2>5. CutAt(f, u, A, d, start)
    BY <2>1
  <2> HIDE DEF u, d, A, start
  <2>6. slot'[f] # s
    <3>1. PICK r \in SlotType : slot' = [slot EXCEPT ![f] = r] /\ r.at = "open"
      BY <1>1, <1>2, <2>3, <2>4, <2>5, CutSlot
    <3> QED
      BY <1>1, <3>1 DEF At
  <2>7. cut = {}
    BY <1>1, <2>6 DEF GrowsUncut
  <2>8. CutReady(f, {t}, A, u.index, u.num, Flushed(d, u))
    BY <1>1, <1>4, <2>7, ReadyWithIndex DEF u, d, A
  <2>9. Inv' /\ CutStays(f, start, Flushed(d, u))
    BY <1>1, <1>2, <2>3, <2>4, <2>5, <2>8, CutKeeps
  <2> QED
    BY <1>2, <2>9 DEF start, d, u
<1> QED
  BY <1>3, <1>4 DEF GrowFails

-----------------------------------------------------------------------------
\* The invariant holds

LEMMA NextKeepsInv ==
    ASSUME FilesFit, Inv, GrowsUncut, Next
    PROVE  Inv'
<1>1. PICK f \in Files : Step(f)
  BY DEF Next
<1>2. CASE Create(f) \/ Rewrite(f)
  BY <1>2, CreateKeeps
<1>3. CASE CreateFails(f) \/ RewriteFails(f)
  BY <1>3, FailsKeep
<1>4. CASE Reopen(f, "r") \/ Reopen(f, "a")
  BY <1>4, ReopenKeeps
<1>5. CASE Discard(f)
  BY <1>5, DiscardKeeps
<1>6. CASE \E n \in Lengths : WriteCall(f, n)
  BY <1>6, WriteCallKeeps
<1>7. CASE \E v \in Writes(f, slot[f].cursor) : Put(f, v)
  <2>1. PICK v \in Writes(f, slot[f].cursor) : Put(f, v)
    BY <1>7
  <2>2. CASE Extend(f, v)
    BY <2>2, ExtendKeeps
  <2>3. CASE Overwrite(f, v)
    BY <2>3, OverwriteKeeps
  <2>4. CASE Grow(f, v)
    BY <2>4, GrowKeeps
  <2>5. CASE GrowII(f, v)
    BY <2>5, GrowIIKeeps
  <2> QED
    BY <2>1, <2>2, <2>3, <2>4, <2>5 DEF Put
<1>8. CASE GrowFails(f)
  BY <1>8, GrowFailsKeeps
<1>9. CASE GrowLoses(f)
  BY <1>9, GrowLosesKeeps
<1>10. CASE Read(f)
  BY <1>10, ReadKeeps
<1>11. CASE Seek(f)
  BY <1>11, SeekKeeps
<1>12. CASE Truncate(f)
  BY <1>12, TruncateKeeps
<1>13. CASE Close(f)
  BY <1>13, CloseKeeps
<1>14. CASE Delete(f)
  BY <1>14, DeleteKeeps
<1> QED
  BY <1>1, <1>2, <1>3, <1>4, <1>5, <1>6, <1>7, <1>8, <1>9, <1>10, <1>11, <1>12, <1>13, <1>14 DEF Step

LEMMA StutterKeepsInv ==
    ASSUME Inv, UNCHANGED vars
    PROVE  Inv'
<1>1. UNCHANGED <<allocated, disk, dir, slot, cut, ret>>
  BY DEF vars
<1>2. TypeOK'
  BY <1>1 DEF Inv, TypeOK
<1>3. \A f \in Files : /\ IsFile(f)' = IsFile(f) /\ IndexOf(f)' = IndexOf(f) /\ NumOf(f)' = NumOf(f)
                       /\ SizeOf(f)' = SizeOf(f) /\ Store(f)' = Store(f) /\ IsOpen(f)' = IsOpen(f)
                       /\ Exists(f)' = Exists(f) /\ \A k : At(f, k)' = At(f, k)
  BY <1>1 DEF IsFile, IndexOf, NumOf, SizeOf, Store, IsOpen, Exists, At
<1>4. \A f \in Files : Blocks(f)' = Blocks(f) /\ InSecond(f)' = InSecond(f) /\ IIs(f)' = IIs(f)
  BY <1>3 DEF Blocks, InSecond, IIs
<1>5. \A f \in Files : Handle(f)' /\ Layout(f)' /\ Loaded(f)' /\ Lefts(f)'
  BY <1>1, <1>3, <1>4 DEF Inv, Handle, Layout, Loaded, Lefts
<1>6. \A f \in Files : \A i, e : InUse(f, i, e)' = InUse(f, i, e) /\ ClusterOn(f, i, e)' = ClusterOn(f, i, e)
  BY <1>1, <1>3 DEF InUse, ClusterOn
<1>7. \A f \in Files : Used(f)' = Used(f)
  BY <1>6 DEF Used
<1>8. Distinct'
  BY <1>6 DEF Inv, Distinct
<1>9. Accounted'
  <2>1. {Used(f)' : f \in Files} = {Used(f) : f \in Files}
    BY <1>7
  <2> QED
    BY <1>1, <1>3, <2>1 DEF Inv, Accounted
<1> QED
  BY <1>2, <1>5, <1>8, <1>9 DEF Inv

\* What every file is made of is held together by the invariant, step by step.
THEOREM LayoutInvariant == FilesFit => (Spec /\ [][GrowsUncut]_vars => []Inv)
<1> SUFFICES ASSUME FilesFit PROVE Spec /\ [][GrowsUncut]_vars => []Inv
  OBVIOUS
<1>1. Init => Inv
  BY InitKeeps
<1>2. Inv /\ [Next]_vars /\ [GrowsUncut]_vars => Inv'
  BY NextKeepsInv, StutterKeepsInv
<1> QED
  BY <1>1, <1>2, PTL DEF Spec

\* Slots, directory and clusters stay of their types: no operation of KernelFile or of
\* the open file table counts a level below none or points outside the partition.
THEOREM LayoutTypes == FilesFit => (Spec /\ [][GrowsUncut]_vars => []TypeOK)
<1> SUFFICES ASSUME FilesFit PROVE Spec /\ [][GrowsUncut]_vars => []TypeOK
  OBVIOUS
<1>1. Inv => TypeOK
  BY DEF Inv
<1> QED
  BY <1>1, LayoutInvariant, PTL

\* The index, the second-level indices and the blocks of a file are allocated and all
\* different, whoever writes, cuts, opens and deletes (writeNewDataByte, closeEntry,
\* deleteRestOfFile).
THEOREM FilesStayAllocated == FilesFit => (Spec /\ [][GrowsUncut]_vars => []UsedIsAllocated)
<1> SUFFICES ASSUME FilesFit PROVE Spec /\ [][GrowsUncut]_vars => []UsedIsAllocated
  OBVIOUS
<1>1. Inv => UsedIsAllocated
  BY InvImplies
<1> QED
  BY <1>1, LayoutInvariant, PTL

\* The walk of PartControlBlock::deleteFile over one file comes to no cluster of another.
THEOREM WalksStayApart == FilesFit => (Spec /\ [][GrowsUncut]_vars => []ReleasesOnlyOwn)
<1> SUFFICES ASSUME FilesFit PROVE Spec /\ [][GrowsUncut]_vars => []ReleasesOnlyOwn
  OBVIOUS
<1>1. Inv => ReleasesOnlyOwn
  BY InvImplies
<1> QED
  BY <1>1, LayoutInvariant, PTL

\* The walk comes to every cluster a file was given, also after a cut, a failed write or
\* a second-level index allocated in vain, unless a handle was lost.
THEOREM WalksReachAll == FilesFit => (Spec /\ [][GrowsUncut]_vars => []NothingLeaks)
<1> SUFFICES ASSUME FilesFit PROVE Spec /\ [][GrowsUncut]_vars => []NothingLeaks
  OBVIOUS
<1>1. Inv => NothingLeaks
  BY InvImplies
<1> QED
  BY <1>1, LayoutInvariant, PTL

\* What reopenEntry counts, and what writeNewDataByte keeps counting, is what the size of
\* the file leaves of the two levels.
THEOREM LeftIsCounted == FilesFit => (Spec /\ [][GrowsUncut]_vars => []LeftMatchesSize)
<1> SUFFICES ASSUME FilesFit PROVE Spec /\ [][GrowsUncut]_vars => []LeftMatchesSize
  OBVIOUS
<1>1. Inv => LeftMatchesSize
  BY InvImplies
<1> QED
  BY <1>1, LayoutInvariant, PTL

-----------------------------------------------------------------------------
\* What a step writes

\* A step changes only clusters that are free or that f uses.
Within(f) == \A c \in Clusters : disk'[c] # disk[c] => c \in Free \cup Used(f)

\* The cluster of the bit vector is as it was.  A cut on a boundary where a second-level
\* index would begin takes that cluster for one; it is written back as it was read.
VectorKept ==
    /\ disk[NoCluster] = AsIndex(NoPointers)
    /\ \A f \in cut : slot[f].IILevel = "loaded" /\ slot[f].IInum = NoCluster
                         => slot[f].II = NoPointers

LEMMA FreeOrUsed ==
    ASSUME NEW f \in Files
    PROVE  Free \cup Used(f) \subseteq Data /\ NoCluster \notin Free \cup Used(f) /\ NoCluster \in Clusters
BY LayoutAssumption DEF Free, Used, NoCluster, Clusters

LEMMA VectorStays ==
    ASSUME VectorKept, NEW f \in Files, Within(f), cut' \subseteq cut \cup {f},
           \A g \in Files \ {f} : slot'[g] = slot[g], cut \subseteq Files,
           f \in cut' /\ slot'[f].IILevel = "loaded" /\ slot'[f].IInum = NoCluster
              => slot'[f].II = NoPointers
    PROVE  VectorKept'
<1>1. disk'[NoCluster] = disk[NoCluster]
  BY FreeOrUsed DEF Within
<1>2. (AsIndex(NoPointers))' = AsIndex(NoPointers)
  BY DEF AsIndex, NoPointers, Blank
<1>3. ASSUME NEW g \in cut', slot'[g].IILevel = "loaded", slot'[g].IInum = NoCluster
      PROVE  slot'[g].II = NoPointers
  <2>1. CASE g = f
    BY <1>3, <2>1
  <2>2. CASE g # f
    BY <1>3, <2>2 DEF VectorKept
  <2> QED
    BY <2>1, <2>2
<1> QED
  BY <1>1, <1>2, <1>3 DEF VectorKept

\* A slot of a file that was not cut has a second-level index of the file in memory, and
\* of a cut file it has one, a released one, or the bit vector.
LEMMA LoadedIs ==
    ASSUME FilesFit, Inv, NEW f \in Files, IsOpen(f), slot[f].IILevel = "loaded"
    PROVE  /\ slot[f].IInum \in Free \cup Used(f) \/ (slot[f].IInum = NoCluster /\ f \in cut)
           /\ slot[f].IInum \in Clusters
<1> DEFINE c == slot[f].IInum
<1>1. slot[f] \in SlotType /\ Loaded(f) /\ Handle(f) /\ allocated \subseteq Data /\ c \in Clusters
  BY FileTypes DEF Inv, TypeOK, SlotType, SlotRecord
<1>2. IsFile(f) /\ IndexOf(f) = slot[f].index
  BY <1>1 DEF Handle, IsOpen, IsFile, IndexOf, At
<1>3. ASSUME c \in allocated PROVE c \in Used(f)
  <2>1. PICK i \in SecondEntries : c = IndexOf(f)[i]
    BY <1>1, <1>2 DEF Loaded
  <2>2. Live(allocated, c)
    BY <1>1, <1>3, LayoutAssumption DEF Live, NoCluster
  <2>3. InUse(f, i, HERE) /\ ClusterOn(f, i, HERE) = c /\ i \in Places
    BY <1>2, <2>1, <2>2, PlacesAre DEF InUse, Held, ClusterOn, On
  <2> QED
    BY <1>1, <1>3, <2>3, PlacesAre DEF Used
<1>4. ASSUME f \notin cut PROVE c \in Used(f)
  <2>1. IIs(f) # 0 /\ c = IndexOf(f)[I_LEV_DATA_POINTERS + IIs(f) - 1]
    BY <1>1, <1>2, <1>4 DEF Loaded
  <2>2. IIs(f) \in Nat
    BY FileTypes, FileNumbers DEF Inv
  <2> DEFINE j == IIs(f) - 1
  <2>3. j \in 0..IIs(f) - 1 /\ I_LEV_DATA_POINTERS + j = I_LEV_DATA_POINTERS + IIs(f) - 1
    BY <2>1, <2>2, Geometry
  <2>4. InUse(f, I_LEV_DATA_POINTERS + j, HERE) /\ ClusterOn(f, I_LEV_DATA_POINTERS + j, HERE) = c
        /\ I_LEV_DATA_POINTERS + j \in Places
    BY <1>2, <2>1, <2>3, PlacesOfFile, PlacesAre
  <2> QED
    BY <2>4, UsedIsAllocatedData, PlacesAre DEF Used
<1>5. c \in Free \/ c \in allocated \/ c = NoCluster
  BY <1>1 DEF Free, Clusters
<1> HIDE DEF c
<1>6. (c \in Free \cup Used(f) \/ (c = NoCluster /\ f \in cut)) /\ c \in Clusters
  BY <1>1, <1>3, <1>4, <1>5
<1> QED
  BY <1>6 DEF c

\* Where the second-level index in memory goes.
LEMMA FlushWithin ==
    ASSUME FilesFit, Inv, VectorKept, NEW f \in Files, IsOpen(f), NEW d \in DiskType,
           d[NoCluster] = disk[NoCluster], NEW c \in Clusters, Flushed(d, slot[f])[c] # d[c]
    PROVE  c \in Free \cup Used(f)
<1> DEFINE s == slot[f]
<1>1. s.IILevel = "loaded"
  BY DEF Flushed
<1>2. /\ s.IInum \in Free \cup Used(f) \/ (s.IInum = NoCluster /\ f \in cut)
      /\ s.IInum \in Clusters
  BY <1>1, LoadedIs
<1>3. Flushed(d, s) = [d EXCEPT ![s.IInum] = AsIndex(s.II)]
  BY <1>1 DEF Flushed
<1>4. c = s.IInum /\ d[c] # AsIndex(s.II)
  BY <1>2, <1>3 DEF DiskType
<1>5. CASE s.IInum = NoCluster /\ f \in cut
  <2>1. s.II = NoPointers /\ d[NoCluster] = AsIndex(NoPointers)
    BY <1>1, <1>5 DEF VectorKept
  <2> QED
    BY <1>4, <1>5, <2>1
<1> QED
  BY <1>2, <1>4, <1>5

LEMMA QuietWithin ==
    ASSUME NEW f \in Files, disk' = disk
    PROVE  Within(f)
BY DEF Within

LEMMA BytesWithin ==
    ASSUME NEW f \in Files, NEW c \in Free \cup Used(f), OnlyAt(c, disk)
    PROVE  Within(f)
BY DEF Within, OnlyAt

\* A file that is cut: what is released was the file's or new.
LEMMA RestWithin ==
    ASSUME Inv, NEW f \in Files, NEW N, NEW A, NEW g, NEW num, NEW d, CutReady(f, N, A, g, num, d),
           NEW start \in Nat
    PROVE  Rest(g, A, d, start) \subseteq Free \cup Used(f)
<1> SUFFICES ASSUME NEW c \in Rest(g, A, d, start) PROVE c \in Free \cup Used(f)
  OBVIOUS
<1>1. PICK i \in Places, e \in Places : Held(g, A, d, i, e) /\ c = On(num, g, d, i, e)
  BY RestIs DEF CutReady
<1>2. CASE InUse(f, i, e) /\ c = ClusterOn(f, i, e)
  BY <1>2, UsedIsAllocatedData DEF Used
<1>3. CASE c \in N
  BY <1>3 DEF CutReady, Free
<1> QED
  BY <1>1, <1>2, <1>3 DEF CutReady

LEMMA CutWithin ==
    ASSUME FilesFit, Inv, VectorKept, NEW f \in Files, NEW s \in SlotType, NEW N, NEW A, NEW d \in DiskType,
           NEW start \in Nat, start <= MaxSize(f), CutAt(f, s, A, d, start),
           CutReady(f, N, A, s.index, s.num, Flushed(d, s)),
           \A c \in Clusters : Flushed(d, s)[c] # disk[c] => c \in Free \cup Used(f)
    PROVE  VectorKept' /\ Within(f)
<1> DEFINE d1 == Flushed(d, s)
           R  == Rest(s.index, A, d1, start)
<1>1. disk' = Emptied(d1, R) /\ cut' = cut \cup {f}
  BY DEF CutAt
<1>2. R \subseteq Free \cup Used(f)
  BY RestWithin
<1>3. slot \in [Files -> SlotType] /\ cut \subseteq Files
  BY DiskTypes DEF Inv, TypeOK
<1>4. PICK r \in SlotType :
         /\ slot' = [slot EXCEPT ![f] = r]
         /\ \/ r.IILevel = "none"
            \/ r.IILevel = "loaded" /\ r.II = d1[r.IInum].pointers
  BY <1>3, CutSlot
<1>5. d1[NoCluster].pointers = NoPointers
  BY FreeOrUsed DEF VectorKept, AsIndex
<1> HIDE DEF R
<1>6. Within(f)
  BY <1>1, <1>2 DEF Within, Emptied
<1> HIDE DEF d1
<1>7. /\ slot'[f].IILevel = "loaded" /\ slot'[f].IInum = NoCluster => slot'[f].II = NoPointers
      /\ \A g \in Files \ {f} : slot'[g] = slot[g]
  BY <1>3, <1>4, <1>5
<1> QED
  BY <1>1, <1>3, <1>6, <1>7, VectorStays

LEMMA TruncateWithin ==
    ASSUME FilesFit, Inv, VectorKept, NEW f \in Files, Truncate(f)
    PROVE  VectorKept' /\ Within(f)
<1>1. IsOpen(f) /\ CutAt(f, slot[f], allocated, disk, slot[f].cursor)
  BY DEF Truncate, IsOpen, At
<1>2. slot[f] \in SlotType /\ disk \in DiskType /\ slot[f].cursor \in Nat
  BY FileTypes, DiskTypes DEF Inv, SlotType, SlotRecord
<1>3. slot[f].cursor <= MaxSize(f)
  <2>1. slot[f].cursor <= SizeOf(f) /\ SizeOf(f) <= MaxSize(f)
    BY <1>1 DEF Inv, Handle, SizeOf, IsOpen, IsFile, At
  <2>2. SizeOf(f) \in Nat /\ MaxSize(f) \in Nat
    BY FileTypes, LayoutAssumption DEF Inv
  <2> QED
    BY <1>2, <2>1, <2>2
<1>4. CutReady(f, {}, allocated, slot[f].index, slot[f].num, Flushed(disk, slot[f]))
  BY <1>1, ReadyNow
<1>5. \A c \in Clusters : Flushed(disk, slot[f])[c] # disk[c] => c \in Free \cup Used(f)
  BY <1>1, <1>2, FlushWithin
<1> QED
  BY <1>1, <1>2, <1>3, <1>4, <1>5, CutWithin

LEMMA GrowFailsWithin ==
    ASSUME FilesFit, Inv, VectorKept, GrowsUncut, NEW f \in Files, GrowFails(f)
    PROVE  VectorKept' /\ Within(f)
<1> DEFINE s == slot[f]
           start == s.cursor - s.done
           d == Flushed(disk, s)
<1>1. /\ s \in SlotType /\ disk \in DiskType /\ slot \in [Files -> SlotType]
      /\ s.cursor \in Nat /\ s.done \in Nat /\ MaxSize(f) \in Nat /\ s.size \in Nat
  BY FileTypes, DiskTypes, LayoutAssumption DEF Inv, TypeOK, SlotType, SlotRecord
<1>2. AtBoundary(s) /\ At(f, "writes") /\ s.cursor = s.size /\ s.cursor >= s.done /\ IsOpen(f)
  BY DEF GrowFails, AtBoundary, At, IsOpen
<1>3. s.size <= MaxSize(f)
  BY <1>2 DEF Inv, Handle, IsOpen, IsFile, At, SizeOf
<1>4. start \in Nat /\ start <= MaxSize(f)
  BY <1>1, <1>2, <1>3
<1>5. d \in DiskType /\ \A c \in Clusters : d[c] # disk[c] => c \in Free \cup Used(f)
  BY <1>1, <1>2, FlushedType, FlushWithin
<1>6. CASE CutAt(f, s, allocated, disk, start)
  <2>1. CutReady(f, {}, allocated, s.index, s.num, d)
    BY <1>2, ReadyNow
  <2> HIDE DEF start
  <2> QED
    BY <1>1, <1>4, <1>5, <1>6, <2>1, CutWithin
<1>7. CASE /\ s.IILevLeft > 0
           /\ \E t \in Free : CutAt(f, WithII(s, t), allocated \cup {t}, d, start)
  <2>1. PICK t \in Free : CutAt(f, WithII(s, t), allocated \cup {t}, d, start)
    BY <1>7
  <2> DEFINE u == WithII(s, t)
             A == allocated \cup {t}
  <2>2. t \in Clusters /\ t \notin allocated
    BY DEF Free, Clusters
  <2>3. u \in SlotType /\ u.mode = s.mode /\ u.num = s.num /\ u.IInum = t /\ u.IILevel = "loaded"
    BY <1>1, <1>7, <2>2, WithIIIs
  <2>4. slot'[f] # s
    <3> HIDE DEF u, d, A, start
    <3>1. PICK r \in SlotType : slot' = [slot EXCEPT ![f] = r] /\ r.at = "open"
      BY <1>1, <1>4, <1>5, <2>1, <2>3, CutSlot DEF u
    <3> QED
      BY <1>1, <1>2, <3>1 DEF At
  <2>5. cut = {}
    BY <1>2, <2>4 DEF GrowsUncut
  <2>6. CutReady(f, {t}, A, u.index, u.num, Flushed(d, u))
    BY <1>1, <1>2, <1>7, <2>5, ReadyWithIndex
  <2>7. ASSUME NEW c \in Clusters, Flushed(d, u)[c] # disk[c] PROVE c \in Free \cup Used(f)
    <3>1. Flushed(d, u) = [d EXCEPT ![t] = AsIndex(u.II)]
      BY <2>3 DEF Flushed
    <3> HIDE DEF d, u
    <3>2. CASE c = t
      BY <3>2
    <3>3. CASE c # t
      BY <1>5, <2>7, <3>1, <3>3 DEF DiskType
    <3> QED
      BY <3>2, <3>3
  <2>8. CutAt(f, u, A, d, start)
    BY <2>1
  <2> HIDE DEF u, A, start, d
  <2> QED
    BY <1>1, <1>4, <1>5, <2>3, <2>6, <2>7, <2>8, CutWithin
<1> QED
  BY <1>6, <1>7 DEF GrowFails

LEMMA CloseWithin ==
    ASSUME FilesFit, Inv, VectorKept, NEW f \in Files, Close(f)
    PROVE  VectorKept' /\ Within(f)
<1> DEFINE s == slot[f]
           d == [disk EXCEPT ![s.num] = AsIndex(s.index)]
<1>1. s \in SlotType /\ slot \in [Files -> SlotType] /\ disk \in DiskType /\ cut \subseteq Files
      /\ disk' = Flushed(d, s) /\ slot' = [slot EXCEPT ![f] = Closed] /\ cut' = cut
  BY FileTypes, DiskTypes DEF Inv, TypeOK, Close
<1>2. IsOpen(f) /\ IsFile(f) /\ NumOf(f) = s.num
  BY DEF Inv, Handle, Close, IsOpen, IsFile, NumOf, At
<1>3. s.num \in Used(f) /\ s.num \in Clusters /\ s.num # NoCluster
  <2>1. InUse(f, HERE, HERE) /\ ClusterOn(f, HERE, HERE) = s.num
    BY <1>2, PlacesOfFile
  <2> QED
    BY <2>1, UsedIsAllocatedData, PlacesAre, LayoutAssumption DEF Used, Clusters, NoCluster
<1>4. d \in DiskType
  <2>1. s.index \in [Entries -> Clusters]
    BY <1>1 DEF SlotType, SlotRecord
  <2>2. AsIndex(s.index) \in [bytes : [0..ClusterSize - 1 -> Bytes \cup {Nothing}],
                              pointers : [Entries -> Clusters]]
    BY <2>1 DEF AsIndex, Blank
  <2> QED
    BY <1>1, <2>2 DEF DiskType
<1>5. \A c \in Clusters : c # s.num => d[c] = disk[c]
  BY <1>1 DEF DiskType
<1> HIDE DEF d
<1>6. Within(f)
  <2> SUFFICES ASSUME NEW c \in Clusters, disk'[c] # disk[c] PROVE c \in Free \cup Used(f)
    BY DEF Within
  <2>1. CASE c = s.num
    BY <1>3, <2>1
  <2>2. CASE c # s.num
    BY <1>1, <1>2, <1>3, <1>4, <1>5, <2>2, FlushWithin, FreeOrUsed
  <2> QED
    BY <2>1, <2>2
<1>7. slot'[f].IILevel = "none" /\ \A g \in Files \ {f} : slot'[g] = slot[g]
  BY <1>1 DEF Closed
<1> QED
  BY <1>1, <1>6, <1>7, VectorStays

LEMMA GrowLosesWithin ==
    ASSUME FilesFit, Inv, VectorKept, GrowsUncut, NEW f \in Files, GrowLoses(f)
    PROVE  VectorKept' /\ Within(f)
<1>1. slot \in [Files -> SlotType] /\ disk \in DiskType /\ cut \subseteq Files
      /\ disk' = Flushed(disk, slot[f]) /\ slot' = [slot EXCEPT ![f].at = "lost"] /\ cut' = cut /\ IsOpen(f)
  BY DiskTypes DEF Inv, TypeOK, GrowLoses, AtBoundary, IsOpen
<1>2. Within(f)
  BY <1>1, FlushWithin DEF Within
<1>3. /\ \A g \in Files \ {f} : slot'[g] = slot[g]
      /\ slot'[f].IILevel = slot[f].IILevel /\ slot'[f].IInum = slot[f].IInum /\ slot'[f].II = slot[f].II
  BY <1>1 DEF SlotType, SlotRecord
<1> QED
  BY <1>1, <1>2, <1>3, VectorStays DEF VectorKept

LEMMA ReleaseWithin ==
    ASSUME FilesFit, Inv, VectorKept, NEW f \in Files, Discard(f) \/ Delete(f)
    PROVE  VectorKept' /\ Within(f) /\ IsFile(f)
<1>1. /\ At(f, "closed") /\ Exists(f) /\ disk' = Emptied(disk, Walk(f)) /\ cut' = cut \ {f}
      /\ \A g \in Files \ {f} : slot'[g] = slot[g]
  BY DiskTypes DEF Inv, Discard, Delete
<1>2. IsFile(f)
  BY <1>1 DEF IsFile, At
<1>3. Within(f)
  BY <1>1, <1>2, WalkIsUsed DEF Within, Emptied
<1>4. cut \subseteq Files
  BY DEF Inv, TypeOK
<1> QED
  BY <1>1, <1>2, <1>3, <1>4, VectorStays

LEMMA ReopenWithin ==
    ASSUME FilesFit, Inv, VectorKept, NEW f \in Files, NEW mode \in {"r", "a"}, Reopen(f, mode)
    PROVE  VectorKept' /\ Within(f)
<1> DEFINE g == disk[dir[f].num].pointers
           J == Cardinality(LiveRun(g, allocated, I_LEV_DATA_POINTERS, IEnd))
           I == Cardinality(LiveRun(g, allocated, 0, I_LEV_DATA_POINTERS))
           c == g[I_LEV_DATA_POINTERS + J - 1]
           n == Cardinality(LiveRun(disk[c].pointers, allocated, 0, II_LEV_DATA_POINTERS))
           s == [Closed EXCEPT !.at = "open", !.mode = mode, !.size = dir[f].size,
                               !.cursor = IF mode = "a" THEN dir[f].size ELSE 0,
                               !.num = dir[f].num, !.index = g,
                               !.ILevLeft = I_LEV_DATA_POINTERS - I]
           q(o) == [s EXCEPT !.IInum = o.IInum, !.IILevDataLeft = o.IILevDataLeft]
           r == [s EXCEPT !.IILevel = "loaded", !.IInum = c, !.II = disk[c].pointers,
                          !.IILevLeft = II_LEV_POINTERS - J,
                          !.IILevDataLeft = II_LEV_DATA_POINTERS - n]
<1>1. /\ \/ \E o \in Stale : slot' = [slot EXCEPT ![f] = q(o)]
         \/ slot' = [slot EXCEPT ![f] = r]
      /\ disk' = disk /\ cut' = cut
  BY DEF Reopen
<1>2. slot \in [Files -> SlotType] /\ cut \subseteq Files
  BY DiskTypes DEF Inv, TypeOK
<1>3. \A o : q(o).IILevel = "none"
  BY DEF Closed
<1>4. r.IInum = c /\ r.II = disk[c].pointers
  <2> HIDE DEF c, J, n, I, g
  <2> QED
    BY DEF Closed
<1> HIDE DEF q, s, r, J, c
<1>5. disk[NoCluster].pointers = NoPointers
  BY DEF VectorKept, AsIndex
<1>6. /\ slot'[f].IILevel = "loaded" /\ slot'[f].IInum = NoCluster => slot'[f].II = NoPointers
      /\ \A h \in Files \ {f} : slot'[h] = slot[h]
  BY <1>1, <1>2, <1>3, <1>4, <1>5
<1> QED
  BY SMTT(30), <1>1, <1>2, <1>6, QuietWithin, VectorStays

\* Steps that do not write, and only the place in the call is new.
LEMMA UserWithin ==
    ASSUME VectorKept, Inv, NEW f \in Files, cut' = cut, Within(f),
           NEW s, slot' = [slot EXCEPT ![f] = s], s.IILevel = slot[f].IILevel, s.II = slot[f].II,
           s.IInum = slot[f].IInum
    PROVE  VectorKept'
<1>1. slot \in [Files -> SlotType] /\ cut \subseteq Files
  BY DiskTypes DEF Inv, TypeOK
<1>2. slot'[f] = s /\ \A g \in Files \ {f} : slot'[g] = slot[g]
  BY <1>1
<1> QED
  BY <1>1, <1>2, VectorStays DEF VectorKept

LEMMA PutWithin ==
    ASSUME FilesFit, Inv, VectorKept, GrowsUncut, NEW f \in Files, NEW v \in Writes(f, slot[f].cursor),
           Put(f, v)
    PROVE  VectorKept' /\ Within(f)
<1>1. /\ slot \in [Files -> SlotType] /\ disk \in DiskType /\ cut \subseteq Files
      /\ slot[f] \in SlotType /\ At(f, "writes") /\ IsOpen(f)
  BY DiskTypes DEF Inv, TypeOK, Put, Extend, Overwrite, Grow, GrowII, AtBoundary, At, IsOpen
<1>2. CASE Extend(f, v) \/ Overwrite(f, v)
  <2>1. PICK k \in Used(f) : OnlyAt(k, disk)
    BY <1>2, ExtendKeeps, OverwriteKeeps
  <2>2. Within(f)
    BY <2>1, BytesWithin
  <2>3. slot' = [slot EXCEPT ![f] = Rounded(slot[f], 1)] /\ cut' = cut
    BY <1>2 DEF Extend, Overwrite, WriteTo
  <2>4. /\ Rounded(slot[f], 1).IILevel = slot[f].IILevel /\ Rounded(slot[f], 1).II = slot[f].II
        /\ Rounded(slot[f], 1).IInum = slot[f].IInum
    BY <1>1, Written, Rounds
  <2> QED
    BY <2>2, <2>3, <2>4, UserWithin
<1>3. CASE Grow(f, v) \/ GrowII(f, v)
  <2>1. /\ cut' = cut /\ \A g \in Files \ {f} : slot'[g] = slot[g]
        /\ \E c \in Free : c \in allocated'
    <3>1. CASE Grow(f, v)
      <4>1. \E c \in Answers(Free) : allocated' = allocated \cup {c}
        BY <3>1 DEF Grow
      <4> QED
        BY <1>1, <3>1, <4>1, AnswersFree DEF Grow, WriteTo
    <3>2. CASE GrowII(f, v)
      <4>1. \E t \in Answers(Free) : t \in allocated'
        BY <3>2 DEF GrowII
      <4> QED
        BY <1>1, <3>2, <4>1, AnswersFree DEF GrowII, WriteTo
    <3> QED
      BY <1>3, <3>1, <3>2
  <2>2. cut = {}
    BY <2>1 DEF GrowsUncut, Free
  <2>3. Within(f)
    <3>1. CASE Grow(f, v)
      BY <3>1, GrowKeeps, BytesWithin
    <3>2. CASE GrowII(f, v)
      <4>1. PICK c \in Free : OnlyAt(c, Flushed(disk, slot[f]))
        BY <3>2, GrowIIKeeps
      <4> SUFFICES ASSUME NEW k \in Clusters, disk'[k] # disk[k], k # c PROVE k \in Free \cup Used(f)
        BY DEF Within
      <4>2. Flushed(disk, slot[f])[k] # disk[k]
        BY <4>1 DEF OnlyAt
      <4> QED
        BY <1>1, <4>2, FlushWithin
    <3> QED
      BY <1>3, <3>1, <3>2
  <2> QED
    BY <1>1, <2>1, <2>2, <2>3, VectorStays
<1> QED
  BY <1>2, <1>3 DEF Put

LEMMA QuietSteps ==
    ASSUME FilesFit, Inv, VectorKept, NEW f \in Files,
           \/ Create(f) \/ CreateFails(f) \/ Rewrite(f) \/ RewriteFails(f)
           \/ Read(f) \/ Seek(f) \/ \E n \in Lengths : WriteCall(f, n)
    PROVE  VectorKept' /\ disk' = disk
<1>1. slot \in [Files -> SlotType] /\ slot[f] \in SlotType /\ cut \subseteq Files
  BY DiskTypes DEF Inv, TypeOK
<1>2. disk' = disk /\ cut' = cut
  BY DEF Create, CreateFails, Rewrite, RewriteFails, Read, Seek, WriteCall
<1>3. Within(f)
  BY <1>2, QuietWithin
<1>4. CASE Create(f) \/ Rewrite(f)
  <2>1. \E c : slot' = [slot EXCEPT ![f] = Created("w", c)]
    BY <1>4 DEF Create, Rewrite
  <2>2. \A c : Created("w", c).IILevel = "none"
    BY DEF Created, Closed
  <2> QED
    BY <1>1, <1>2, <1>3, <2>1, <2>2, VectorStays
<1>5. CASE ~(Create(f) \/ Rewrite(f))
  <2>1. \E s : /\ slot' = [slot EXCEPT ![f] = s] /\ s.IILevel = slot[f].IILevel /\ s.II = slot[f].II
               /\ s.IInum = slot[f].IInum
    <3>1. CASE CreateFails(f) \/ RewriteFails(f)
      <4> DEFINE s == [slot[f] EXCEPT !.at = "lost"]
      <4>1. slot' = [slot EXCEPT ![f] = s]
        BY <3>1 DEF CreateFails, RewriteFails
      <4>2. s.IILevel = slot[f].IILevel /\ s.II = slot[f].II /\ s.IInum = slot[f].IInum
        BY <1>1 DEF SlotType, SlotRecord
      <4> HIDE DEF s
      <4> QED
        BY <4>1, <4>2
    <3>2. CASE Read(f) \/ Seek(f)
      <4>1. \E p : slot' = [slot EXCEPT ![f].cursor = p]
        BY <1>1, <3>2 DEF Read, Seek
      <4>2. PICK p : slot' = [slot EXCEPT ![f].cursor = p]
        BY <4>1
      <4> DEFINE s == [slot[f] EXCEPT !.cursor = p]
      <4>3. slot' = [slot EXCEPT ![f] = s]
        BY <4>2
      <4>4. s.IILevel = slot[f].IILevel /\ s.II = slot[f].II /\ s.IInum = slot[f].IInum
        BY <1>1 DEF SlotType, SlotRecord
      <4> HIDE DEF s
      <4> QED
        BY <4>3, <4>4
    <3>3. CASE \E n \in Lengths : WriteCall(f, n)
      <4>1. PICK n \in Lengths : slot' = [slot EXCEPT ![f].at = "writes", ![f].left = n, ![f].done = 0]
        BY <3>3 DEF WriteCall
      <4> DEFINE s == [slot[f] EXCEPT !.at = "writes", !.left = n, !.done = 0]
      <4>2. slot' = [slot EXCEPT ![f] = s]
        BY <1>1, <4>1
      <4>3. s.IILevel = slot[f].IILevel /\ s.II = slot[f].II /\ s.IInum = slot[f].IInum
        BY <1>1 DEF SlotType, SlotRecord
      <4> HIDE DEF s
      <4> QED
        BY <4>2, <4>3
    <3> QED
      BY <1>5, <3>1, <3>2, <3>3
  <2> QED
    BY <1>2, <1>3, <2>1, UserWithin
<1> QED
  BY <1>2, <1>4, <1>5

LEMMA StepChanges ==
    ASSUME FilesFit, Inv, VectorKept, GrowsUncut, NEW f \in Files, Step(f)
    PROVE  VectorKept' /\ (disk' = disk \/ (Within(f) /\ IsFile(f)))
<1>1. IsOpen(f) => IsFile(f)
  BY DEF Inv, Handle, IsOpen, IsFile
<1>2. CASE \/ Create(f) \/ CreateFails(f) \/ Rewrite(f) \/ RewriteFails(f)
           \/ Read(f) \/ Seek(f) \/ \E n \in Lengths : WriteCall(f, n)
  BY SMTT(30), <1>2, QuietSteps
<1>3. CASE Reopen(f, "r") \/ Reopen(f, "a")
  BY <1>3, ReopenWithin DEF Reopen
<1>4. CASE Discard(f) \/ Delete(f)
  BY <1>4, ReleaseWithin
<1>5. CASE \E v \in Writes(f, slot[f].cursor) : Put(f, v)
  <2>1. At(f, "writes")
    BY <1>5 DEF Put, Extend, Overwrite, Grow, GrowII, AtBoundary, At
  <2> QED
    BY <1>1, <1>5, <2>1, PutWithin DEF IsOpen, At
<1>6. CASE GrowFails(f) \/ GrowLoses(f)
  BY <1>1, <1>6, GrowFailsWithin, GrowLosesWithin DEF GrowFails, GrowLoses, AtBoundary, IsOpen
<1>7. CASE Truncate(f) \/ Close(f)
  BY <1>1, <1>7, TruncateWithin, CloseWithin DEF Truncate, Close, IsOpen, At
<1> QED
  BY <1>2, <1>3, <1>4, <1>5, <1>6, <1>7 DEF Step

LEMMA StepWithin ==
    ASSUME FilesFit, Inv, VectorKept, GrowsUncut, NEW f \in Files, Step(f)
    PROVE  /\ VectorKept'
           /\ \A c \in Clusters : disk'[c] # disk[c] => c # NoCluster /\ c \in Free \cup Walk(f)
<1>1. VectorKept' /\ (disk' = disk \/ (Within(f) /\ IsFile(f)))
  BY StepChanges
<1> QED
  BY <1>1, WalkIsUsed, FreeOrUsed DEF Within

\* Whatever the user of a file does (writeNewDataByte, closeEntry, deleteRestOfFile,
\* deleteFile), only clusters of that file and free ones change, and never the cluster of
\* the bit vector.
THEOREM WritesStay == FilesFit => (Spec /\ [][GrowsUncut]_vars => WritesStayInFile)
<1> SUFFICES ASSUME FilesFit PROVE Spec /\ [][GrowsUncut]_vars => WritesStayInFile
  OBVIOUS
<1> DEFINE Stays == \A c \in Clusters : disk'[c] # disk[c] =>
                       /\ c # NoCluster
                       /\ \A f \in Files : Step(f) => c \in Free \cup Walk(f)
<1>1. Init => VectorKept
  BY DEF Init, VectorKept, Clusters
<1>2. Inv /\ VectorKept /\ [Next]_vars /\ [GrowsUncut]_vars => VectorKept'
  <2> SUFFICES ASSUME Inv, VectorKept, [Next]_vars, [GrowsUncut]_vars PROVE VectorKept'
    OBVIOUS
  <2>1. CASE UNCHANGED vars
    <3>1. disk' = disk /\ slot' = slot /\ cut' = cut
      BY <2>1 DEF vars
    <3> QED
      BY <3>1 DEF VectorKept, AsIndex, NoPointers, Blank
  <2>2. CASE Next /\ GrowsUncut
    BY <2>2, StepWithin DEF Next
  <2>3. CASE Next /\ UNCHANGED vars
    BY <2>1, <2>3
  <2> QED
    BY <2>1, <2>2, <2>3
<1>3. Inv /\ VectorKept /\ [Next]_vars /\ [GrowsUncut]_vars => [Stays]_vars
  <2> SUFFICES ASSUME Inv, VectorKept, Next, GrowsUncut PROVE Stays
    OBVIOUS
  <2>1. PICK g \in Files : Step(g)
    BY DEF Next
  <2>2. \A f \in Files : Step(f) =>
           \A c \in Clusters : disk'[c] # disk[c] => c # NoCluster /\ c \in Free \cup Walk(f)
    BY StepWithin
  <2> QED
    BY <2>1, <2>2
<1> QED
  BY <1>1, <1>2, <1>3, LayoutInvariant, PTL DEF Spec, WritesStayInFile

=============================================================================

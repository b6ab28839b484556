------------------------- MODULE KernelFileBytesProofs -------------------------
(***************************************************************************)
(* Proof that the files of KernelFile are the sequences of bytes of        *)
(* ByteFiles, for any number of files, any geometry of clusters and        *)
(* indices and any partition.                                              *)
(***************************************************************************)
EXTENDS KernelFileProofs, SequenceTheorems

\* The condition on programs: a byte that is reached through the second-level index
\* in memory is read only in a file opened for reading.  (While a file is written the
\* index on the partition, which is the one read, is older.)
ReadsBack ==
    \A f \in Files : Read(f) /\ slot[f].cursor < slot[f].size =>
        \/ slot[f].mode = "r"
        \/ Block(slot[f].cursor) < I_LEV_DATA_POINTERS
        \/ slot[f].index[IIEntry(Block(slot[f].cursor))] # slot[f].IInum

\* A file that does not exist is not one that is empty, or has any bytes.
Octets == Bytes \cup {Nothing}
AbsentIsNoFile == Absent \notin Seq(Octets)

-----------------------------------------------------------------------------
\* Sequences written as functions

LEMMA FunctionIsSeq ==
    ASSUME NEW S, NEW n \in Nat, NEW F \in [1..n -> S]
    PROVE  F \in Seq(S) /\ Len(F) = n
OBVIOUS

LEMMA EmptyFunction ==
    ASSUME NEW F, F = [k \in 1..0 |-> F[k]]
    PROVE  F = <<>>
<1>1. F \in [1..0 -> {}]
  OBVIOUS
<1>2. F \in Seq({}) /\ Len(F) = 0
  BY <1>1, FunctionIsSeq
<1> QED
  BY <1>2, EmptySeq

\* G is the function F over the first n positions, and v behind them.
Longer(S, n, F, v, G) ==
    /\ F \in [1..n -> S] /\ v \in S /\ G = [k \in 1..n + 1 |-> G[k]]
    /\ \A k \in 1..n : G[k] = F[k]
    /\ G[n + 1] = v

LEMMA LongerFunction ==
    ASSUME NEW S, NEW n \in Nat, NEW F, NEW v, NEW G, Longer(S, n, F, v, G)
    PROVE  G = Append(F, v)
<1>0. /\ F \in [1..n -> S] /\ v \in S /\ G = [k \in 1..n + 1 |-> G[k]]
      /\ \A k \in 1..n : G[k] = F[k]
      /\ G[n + 1] = v
  BY DEF Longer
<1>1. F \in Seq(S) /\ Len(F) = n
  BY <1>0, FunctionIsSeq
<1>2. G \in [1..n + 1 -> S]
  <2>1. \A k \in 1..n + 1 : k \in 1..n \/ k = n + 1
    OBVIOUS
  <2>2. \A k \in 1..n + 1 : G[k] \in S
    BY <1>0, <2>1
  <2> QED
    BY <1>0, <2>2
<1>3. G \in Seq(S) /\ Len(G) = n + 1
  BY <1>2, FunctionIsSeq
<1>4. /\ Append(F, v) \in Seq(S) /\ Len(Append(F, v)) = n + 1
      /\ \A k \in 1..n + 1 : Append(F, v)[k] = IF k = n + 1 THEN v ELSE F[k]
  BY <1>0, <1>1
<1>5. \A k \in 1..Len(G) : G[k] = Append(F, v)[k]
  <2>1. \A k \in 1..n + 1 : k \in 1..n \/ k = n + 1
    OBVIOUS
  <2>2. \A k \in 1..n : k # n + 1 /\ k \in 1..n + 1
    OBVIOUS
  <2>3. Append(F, v)[n + 1] = v /\ \A k \in 1..n : Append(F, v)[k] = F[k]
    BY <1>4, <2>2
  <2> QED
    BY <1>0, <1>3, <2>1, <2>3
<1> QED
  BY <1>3, <1>4, <1>5, SeqEqual

LEMMA ShorterFunction ==
    ASSUME NEW S, NEW n \in Nat, NEW F \in [1..n -> S], NEW m \in 0..n, NEW G,
           G = [k \in 1..m |-> G[k]], \A k \in 1..m : G[k] = F[k]
    PROVE  G = SubSeq(F, 1, m)
<1>1. G \in [1..m -> S] /\ m \in Nat
  <2>1. \A k \in 1..m : G[k] \in S
    OBVIOUS
  <2> QED
    BY <2>1
<1>2. G \in Seq(S) /\ Len(G) = m
  BY <1>1, FunctionIsSeq
<1>3. /\ SubSeq(F, 1, m) \in Seq(S) /\ Len(SubSeq(F, 1, m)) = m
      /\ \A k \in 1..m : SubSeq(F, 1, m)[k] = F[k]
  <2>1. \A k \in 1..m : F[k] \in S
    OBVIOUS
  <2>2. /\ SubSeq(F, 1, m) \in Seq(S)
        /\ Len(SubSeq(F, 1, m)) = IF 1 <= m THEN m - 1 + 1 ELSE 0
        /\ \A k \in 1..m - 1 + 1 : SubSeq(F, 1, m)[k] = F[1 + k - 1]
    BY <2>1, SubSeqProperties
  <2> QED
    BY <2>2
<1> QED
  BY <1>2, <1>3, SeqEqual

LEMMA ChangedFunction ==
    ASSUME NEW S, NEW n \in Nat, NEW F \in [1..n -> S], NEW v, NEW j \in 1..n, NEW G,
           G = [k \in 1..n |-> G[k]], \A k \in 1..n : k # j => G[k] = F[k], G[j] = v
    PROVE  G = [F EXCEPT ![j] = v]
OBVIOUS

-----------------------------------------------------------------------------
\* The clusters that hold the bytes of a file

\* The cluster of block b stays what it is: the entries that lead to it do.
KeepsBlock(f, b) ==
    IF b < I_LEV_DATA_POINTERS THEN IndexOf(f)'[b] = IndexOf(f)[b]
    ELSE /\ IndexOf(f)'[IIEntry(b)] = IndexOf(f)[IIEntry(b)]
         /\ Store(f)'[IndexOf(f)[IIEntry(b)]].pointers[InII(b)]
               = Store(f)[IndexOf(f)[IIEntry(b)]].pointers[InII(b)]

LEMMA BlocksOfFile ==
    ASSUME FilesFit, Inv, NEW f \in Files, IsFile(f), NEW b \in 0..Blocks(f) - 1
    PROVE  /\ b \in Nat /\ Blocks(f) \in Nat
           /\ ClusterOf(f, b) \in Used(f) /\ ClusterOf(f, b) \in allocated
           /\ ClusterOf(f, b) \in Data /\ ClusterOf(f, b) \in Clusters
           /\ ClusterOf(f, b) # NumOf(f)
           /\ \A i \in SecondEntries : ClusterOf(f, b) # IndexOf(f)[i] /\ NumOf(f) # IndexOf(f)[i]
           /\ \A a \in 0..Blocks(f) - 1 : ClusterOf(f, a) = ClusterOf(f, b) => a = b
           /\ b >= I_LEV_DATA_POINTERS =>
                 /\ IIEntry(b) \in SecondEntries /\ InII(b) \in Entries
                 /\ InUse(f, IIEntry(b), HERE) /\ IndexOf(f)[IIEntry(b)] \in Used(f)
                 /\ IndexOf(f)[IIEntry(b)] \in Clusters
                 /\ ClusterOf(f, b) = Store(f)[IndexOf(f)[IIEntry(b)]].pointers[InII(b)]
           /\ b < I_LEV_DATA_POINTERS => b \in Entries /\ ClusterOf(f, b) = IndexOf(f)[b]
<1>1. TypeOK /\ SizeOf(f) \in Nat /\ Blocks(f) \in Nat /\ b \in Nat /\ b \in Int
  BY FileTypes, FileNumbers DEF Inv
<1>2. ASSUME NEW a \in 0..Blocks(f) - 1
      PROVE  \E i, e \in Places :
                /\ InUse(f, i, e) /\ ClusterOn(f, i, e) = ClusterOf(f, a)
                /\ i # HERE /\ (e = HERE => i \notin SecondEntries)
                /\ a < I_LEV_DATA_POINTERS => i = a /\ e = HERE
                /\ a >= I_LEV_DATA_POINTERS => /\ i = IIEntry(a) /\ e = InII(a) /\ e # HERE
                                               /\ a = BlockAt(i, e)
  <2>1. a \in Int
    BY <1>1
  <2>2. CASE a < I_LEV_DATA_POINTERS
    <3>1. a \in IEntries /\ InUse(f, a, HERE) /\ ClusterOn(f, a, HERE) = ClusterOf(f, a)
      BY <2>2, PlacesOfFile
    <3>2. a \in Places /\ HERE \in Places /\ a # HERE /\ a \notin SecondEntries
      BY <3>1, PlacesAre, Geometry
    <3> QED
      BY <2>1, <2>2, <3>1, <3>2, Geometry
  <2>3. CASE a >= I_LEV_DATA_POINTERS
    <3>1. /\ IIEntry(a) \in SecondEntries /\ InII(a) \in Entries /\ a = BlockAt(IIEntry(a), InII(a))
          /\ InUse(f, IIEntry(a), InII(a)) /\ ClusterOn(f, IIEntry(a), InII(a)) = ClusterOf(f, a)
      BY <2>3, PlacesOfFile
    <3>2. IIEntry(a) \in Places /\ InII(a) \in Places /\ IIEntry(a) # HERE /\ InII(a) # HERE
      BY <3>1, PlacesAre
    <3> QED
      BY <2>1, <2>3, <3>1, <3>2, Geometry
  <2> QED
    BY <2>1, <2>2, <2>3, Geometry
<1>3. PICK i \in Places, e \in Places :
         /\ InUse(f, i, e) /\ ClusterOn(f, i, e) = ClusterOf(f, b)
         /\ i # HERE /\ (e = HERE => i \notin SecondEntries)
         /\ b < I_LEV_DATA_POINTERS => i = b /\ e = HERE
         /\ b >= I_LEV_DATA_POINTERS => i = IIEntry(b) /\ e = InII(b) /\ e # HERE
  BY <1>2
<1>4. \A i1, e1, j1, c1 \in Places :
         InUse(f, i1, e1) /\ InUse(f, j1, c1) /\ ClusterOn(f, i1, e1) = ClusterOn(f, j1, c1)
            => i1 = j1 /\ e1 = c1
  BY DEF Inv, Distinct
<1>5. ClusterOf(f, b) \in allocated /\ ClusterOf(f, b) \in Data /\ ClusterOf(f, b) \in Used(f)
  BY <1>3, UsedIsAllocatedData DEF Used
<1>6. ClusterOf(f, b) # NumOf(f) /\ NumOf(f) \in allocated /\ NumOf(f) # NoCluster
  <2>1. InUse(f, HERE, HERE) /\ ClusterOn(f, HERE, HERE) = NumOf(f)
    BY PlacesOfFile
  <2>2. ClusterOf(f, b) # NumOf(f)
    BY <1>3, <1>4, <2>1, PlacesAre
  <2>3. NumOf(f) \in allocated /\ NumOf(f) \in Data
    BY <2>1, UsedIsAllocatedData, PlacesAre
  <2> QED
    BY <2>2, <2>3, LayoutAssumption DEF NoCluster
<1>7. ASSUME NEW j \in SecondEntries
      PROVE  /\ ClusterOf(f, b) # IndexOf(f)[j] /\ NumOf(f) # IndexOf(f)[j]
  <2>1. CASE InUse(f, j, HERE)
    <3>1. ClusterOn(f, j, HERE) = IndexOf(f)[j] /\ j \in Places /\ j # HERE /\ HERE \in Places
      BY PlacesAre DEF ClusterOn, On
    <3>2. InUse(f, HERE, HERE) /\ ClusterOn(f, HERE, HERE) = NumOf(f)
      BY PlacesOfFile
    <3>3. ClusterOf(f, b) # IndexOf(f)[j]
      BY <1>3, <1>4, <2>1, <3>1
    <3>4. NumOf(f) # IndexOf(f)[j]
      BY <1>4, <2>1, <3>1, <3>2
    <3> QED
      BY <3>3, <3>4
  <2>2. CASE ~InUse(f, j, HERE)
    <3>1. ~Live(allocated, IndexOf(f)[j])
      BY <2>2, PlacesAre DEF InUse, Held
    <3>2. ClusterOf(f, b) # NoCluster
      BY <1>5, LayoutAssumption DEF NoCluster
    <3> QED
      BY <1>5, <1>6, <3>1, <3>2 DEF Live
  <2> QED
    BY <2>1, <2>2
<1>8. ASSUME NEW a \in 0..Blocks(f) - 1, ClusterOf(f, a) = ClusterOf(f, b)
      PROVE  a = b
  <2>1. PICK j \in Places, k \in Places :
           /\ InUse(f, j, k) /\ ClusterOn(f, j, k) = ClusterOf(f, a)
           /\ a < I_LEV_DATA_POINTERS => j = a /\ k = HERE
           /\ a >= I_LEV_DATA_POINTERS => k # HERE /\ a = BlockAt(j, k)
    BY <1>2
  <2>2. PICK j2 \in Places, k2 \in Places :
           /\ InUse(f, j2, k2) /\ ClusterOn(f, j2, k2) = ClusterOf(f, b)
           /\ b < I_LEV_DATA_POINTERS => j2 = b /\ k2 = HERE
           /\ b >= I_LEV_DATA_POINTERS => k2 # HERE /\ b = BlockAt(j2, k2)
    BY <1>2
  <2>3. j = j2 /\ k = k2
    BY <1>4, <1>8, <2>1, <2>2
  <2>4. a \in Int /\ b \in Int
    BY <1>1
  <2> QED
    BY <2>1, <2>2, <2>3, <2>4, Geometry
<1>9. b >= I_LEV_DATA_POINTERS =>
         /\ IIEntry(b) \in SecondEntries /\ InII(b) \in Entries
         /\ InUse(f, IIEntry(b), HERE) /\ IndexOf(f)[IIEntry(b)] \in Used(f)
         /\ IndexOf(f)[IIEntry(b)] \in Clusters
         /\ ClusterOf(f, b) = Store(f)[IndexOf(f)[IIEntry(b)]].pointers[InII(b)]
  <2> SUFFICES ASSUME b >= I_LEV_DATA_POINTERS
               PROVE  /\ IIEntry(b) \in SecondEntries /\ InII(b) \in Entries
                      /\ InUse(f, IIEntry(b), HERE) /\ IndexOf(f)[IIEntry(b)] \in Used(f)
                      /\ IndexOf(f)[IIEntry(b)] \in Clusters
                      /\ ClusterOf(f, b) = Store(f)[IndexOf(f)[IIEntry(b)]].pointers[InII(b)]
    OBVIOUS
  <2> DEFINE x == IIEntry(b)
  <2>1. /\ x \in SecondEntries /\ InII(b) \in Entries /\ InUse(f, x, InII(b))
        /\ ClusterOn(f, x, InII(b)) = ClusterOf(f, b)
    BY PlacesOfFile
  <2> HIDE DEF x
  <2>2. InUse(f, x, HERE) /\ x # HERE /\ InII(b) # HERE
    BY <2>1, PlacesAre DEF InUse, Held
  <2>3. ClusterOn(f, x, HERE) = IndexOf(f)[x] /\ ClusterOn(f, x, InII(b)) = Store(f)[IndexOf(f)[x]].pointers[InII(b)]
    BY <2>2 DEF ClusterOn, On
  <2>4. IndexOf(f)[x] \in Used(f) /\ IndexOf(f)[x] \in Data
    BY <2>1, <2>2, <2>3, UsedIsAllocatedData, PlacesAre DEF Used
  <2> QED
    BY <2>1, <2>2, <2>3, <2>4 DEF x, Clusters
<1>10. b < I_LEV_DATA_POINTERS => b \in Entries /\ ClusterOf(f, b) = IndexOf(f)[b]
  BY <1>1, Geometry DEF ClusterOf, Entries
<1> QED
  BY <1>1, <1>5, <1>6, <1>7, <1>8, <1>9, <1>10 DEF Clusters

\* The byte at position p is in one of these blocks.
LEMMA BytesOfFile ==
    ASSUME FilesFit, Inv, NEW f \in Files, IsFile(f), NEW p \in 0..SizeOf(f) - 1
    PROVE  /\ Block(p) \in 0..Blocks(f) - 1 /\ p % ClusterSize \in 0..ClusterSize - 1 /\ p \in Nat
           /\ p = (ClusterSize * Block(p)) + (p % ClusterSize)
           /\ ByteAt(f, p) \in Octets
<1>1. SizeOf(f) \in Nat /\ Blocks(f) \in Nat /\ Blocks(f) = UpTo(SizeOf(f), ClusterSize) /\ p \in Nat
  BY FileTypes, FileNumbers DEF Inv
<1>2. /\ Block(p) \in Nat /\ p % ClusterSize \in 0..ClusterSize - 1
      /\ p = (ClusterSize * Block(p)) + (p % ClusterSize)
  BY <1>1, BlockOfByte
<1>3. Block(p) < Blocks(f)
  <2>1. \A q \in 0..SizeOf(f) - 1 : q \div ClusterSize < UpTo(SizeOf(f), ClusterSize)
    BY <1>1, RoundsUp, Geometry
  <2> QED
    BY <1>1, <2>1 DEF Block
<1>4. Block(p) \in 0..Blocks(f) - 1
  BY <1>1, <1>2, <1>3
<1>5. ClusterOf(f, Block(p)) \in Clusters /\ disk \in DiskType
  BY <1>4, BlocksOfFile, DiskTypes DEF Inv
<1>6. ByteAt(f, p) \in Octets
  BY <1>2, <1>5 DEF ByteAt, DiskType, Octets
<1> QED
  BY <1>1, <1>2, <1>4, <1>6

LEMMA ContentIs ==
    ASSUME FilesFit, Inv, NEW f \in Files, IsFile(f)
    PROVE  /\ SizeOf(f) \in Nat /\ Content(f) \in [1..SizeOf(f) -> Octets]
           /\ Content(f) \in Seq(Octets) /\ Len(Content(f)) = SizeOf(f)
           /\ \A k \in 1..SizeOf(f) : Content(f)[k] = ByteAt(f, k - 1)
<1>1. SizeOf(f) \in Nat
  BY FileTypes DEF Inv
<1>2. \A k \in 1..SizeOf(f) : k - 1 \in 0..SizeOf(f) - 1
  BY <1>1
<1>3. \A k \in 1..SizeOf(f) : ByteAt(f, k - 1) \in Octets
  BY <1>2, BytesOfFile
<1>4. Content(f) \in [1..SizeOf(f) -> Octets] /\ \A k \in 1..SizeOf(f) : Content(f)[k] = ByteAt(f, k - 1)
  BY <1>3 DEF Content
<1> QED
  BY <1>1, <1>4, FunctionIsSeq

\* The cluster of a block stays when what leads to it does, ...
LEMMA ClusterStays ==
    ASSUME FilesFit, Inv, TypeOK', NEW f \in Files, IsFile(f), NEW b \in 0..Blocks(f) - 1, KeepsBlock(f, b)
    PROVE  ClusterOf(f, b)' = ClusterOf(f, b)
<1>1. b \in Nat
  BY BlocksOfFile
<1>2. CASE b < I_LEV_DATA_POINTERS
  BY <1>2 DEF KeepsBlock, ClusterOf
<1>3. CASE ~(b < I_LEV_DATA_POINTERS)
  <2>1. /\ IndexOf(f)[IIEntry(b)] \in Clusters
        /\ ClusterOf(f, b) = Store(f)[IndexOf(f)[IIEntry(b)]].pointers[InII(b)]
    <3>1. b >= I_LEV_DATA_POINTERS
      BY <1>1, <1>3, Geometry
    <3> QED
      BY <3>1, BlocksOfFile
  <2>2. disk' \in DiskType /\ slot'[f] \in SlotType
    BY DEF TypeOK, DiskType, SlotType, SlotRecord
  <2>3. \A c \in Clusters : Store(f)'[c].pointers = IF slot'[f].IILevel = "loaded" /\ slot'[f].IInum = c
                                                   THEN slot'[f].II ELSE disk'[c].pointers
    BY <2>2, FlushedType DEF Store
  <2>4. \A c \in Clusters : IIOf(f, c)' = Store(f)'[c].pointers
    BY <2>3 DEF IIOf
  <2>5. ClusterOf(f, b)' = (IIOf(f, IndexOf(f)[IIEntry(b)])[InII(b)])'
    BY <1>3 DEF ClusterOf
  <2> QED
    BY <1>3, <2>1, <2>3, <2>5 DEF KeepsBlock, IIOf
<1> QED
  BY <1>2, <1>3

\* ... and a byte when its cluster holds the same there.
LEMMA ByteStays ==
    ASSUME FilesFit, Inv, TypeOK', NEW f \in Files, IsFile(f), NEW p \in 0..SizeOf(f) - 1,
           KeepsBlock(f, Block(p)),
           disk'[ClusterOf(f, Block(p))].bytes[p % ClusterSize]
              = disk[ClusterOf(f, Block(p))].bytes[p % ClusterSize]
    PROVE  ByteAt(f, p)' = ByteAt(f, p)
<1>1. Block(p) \in 0..Blocks(f) - 1
  BY BytesOfFile
<1>2. ClusterOf(f, Block(p))' = ClusterOf(f, Block(p))
  BY <1>1, ClusterStays
<1> QED
  BY <1>2 DEF ByteAt

-----------------------------------------------------------------------------
\* What the user of one file does is nothing to the others.

LEMMA StepFrame ==
    ASSUME TypeOK, NEW f \in Files, Step(f), NEW g \in Files, g # f
    PROVE  slot'[g] = slot[g] /\ dir'[g] = dir[g] /\ (g \in cut' <=> g \in cut)
<1>0. slot \in [Files -> SlotType] /\ dir \in [Files -> [num : Clusters, size : Nat]]
  BY DiskTypes DEF TypeOK
<1>1. CASE Create(f) \/ CreateFails(f) \/ Rewrite(f) \/ RewriteFails(f)
  BY <1>0, <1>1 DEF Create, CreateFails, Rewrite, RewriteFails
<1>2. CASE Reopen(f, "r") \/ Reopen(f, "a")
  BY <1>0, <1>2 DEF Reopen
<1>3. CASE Discard(f) \/ Delete(f)
  BY <1>0, <1>3 DEF Discard, Delete
<1>4. CASE \E n \in Lengths : WriteCall(f, n)
  BY <1>0, <1>4 DEF WriteCall
<1>5. CASE \E v \in Writes(f, slot[f].cursor) : Put(f, v)
  <2>1. PICK s, c, v, d : WriteTo(f, s, c, v, d, 1)
    BY <1>5 DEF Put, Extend, Overwrite, Grow, GrowII
  <2> QED
    BY <1>0, <2>1 DEF WriteTo
<1>6. CASE GrowFails(f) \/ Truncate(f)
  <2>1. PICK s, A, d, start : CutAt(f, s, A, d, start)
    BY <1>6 DEF GrowFails, Truncate
  <2>2. dir' = dir /\ (g \in cut' <=> g \in cut) /\ \E r : slot' = [slot EXCEPT ![f] = r]
    BY <2>1 DEF CutAt
  <2> QED
    BY <1>0, <2>2
<1>7. CASE GrowLoses(f) \/ Read(f) \/ Seek(f)
  BY <1>0, <1>7 DEF GrowLoses, Read, Seek
<1>8. CASE Close(f)
  BY <1>0, <1>8 DEF Close
<1> QED
  BY <1>1, <1>2, <1>3, <1>4, <1>5, <1>6, <1>7, <1>8 DEF Step

LEMMA OthersKeepContent ==
    ASSUME FilesFit, Inv, TypeOK', NEW f \in Files, disk' = disk \/ Within(f), NEW g \in Files, g # f,
           IsFile(g), slot'[g] = slot[g], dir'[g] = dir[g]
    PROVE  Content(g)' = Content(g)
<1>1. \A c \in Used(g) : c \in Clusters /\ disk'[c] = disk[c]
  <2> TAKE c \in Used(g)
  <2>1. c \in Data /\ \E i, e \in Places : InUse(g, i, e) /\ c = ClusterOn(g, i, e)
    BY DEF Used
  <2>2. c \in allocated
    BY <2>1, UsedIsAllocatedData
  <2>3. c \notin Used(f)
    BY <2>1 DEF Used, Inv, Distinct
  <2> QED
    BY <2>1, <2>2, <2>3 DEF Within, Free, Clusters
<1>2. NumOf(g) \in Used(g) /\ NumOf(g) \in Clusters
  <2>1. InUse(g, HERE, HERE) /\ ClusterOn(g, HERE, HERE) = NumOf(g)
    BY PlacesOfFile
  <2> QED
    BY <2>1, UsedIsAllocatedData, PlacesAre DEF Used, Clusters
<1>3. SizeOf(g)' = SizeOf(g) /\ IndexOf(g)' = IndexOf(g)
  BY <1>1, <1>2 DEF SizeOf, IndexOf, NumOf, At
<1>4. /\ disk \in DiskType /\ disk' \in DiskType /\ slot[g] \in SlotType
  BY DiskTypes DEF Inv, TypeOK, DiskType
<1>5. \A c \in Used(g) : Store(g)'[c].pointers = Store(g)[c].pointers
  BY <1>1, <1>4, FlushedType DEF Store
<1>6. ASSUME NEW p \in 0..SizeOf(g) - 1
      PROVE  ByteAt(g, p)' = ByteAt(g, p)
  <2>1. Block(p) \in 0..Blocks(g) - 1
    BY BytesOfFile
  <2>2. ClusterOf(g, Block(p)) \in Used(g) /\ Block(p) \in Nat
    BY <2>1, BlocksOfFile
  <2>3. Block(p) >= I_LEV_DATA_POINTERS => IndexOf(g)[IIEntry(Block(p))] \in Used(g)
    BY <2>1, BlocksOfFile
  <2>4. KeepsBlock(g, Block(p))
    BY <1>3, <1>5, <2>2, <2>3, Geometry DEF KeepsBlock
  <2> QED
    BY <1>1, <2>2, <2>4, ByteStays
<1>7. \A k \in 1..SizeOf(g) : k - 1 \in 0..SizeOf(g) - 1
  BY FileTypes DEF Inv
<1>8. \A k \in 1..SizeOf(g) : ByteAt(g, k - 1)' = ByteAt(g, k - 1)
  BY <1>6, <1>7
<1> QED
  BY <1>3, <1>8 DEF Content

\* To a program the other files are what they were.
Frame(f) == \A g \in Files \ {f} : Kept(g)' = Kept(g) /\ User(g)' = User(g)

LEMMA OthersFramed ==
    ASSUME FilesFit, Inv, Inv', VectorKept, GrowsUncut, NEW f \in Files, Step(f)
    PROVE  Frame(f)
<1> SUFFICES ASSUME NEW g \in Files, g # f
             PROVE  Kept(g)' = Kept(g) /\ User(g)' = User(g)
  BY DEF Frame
<1>1. slot'[g] = slot[g] /\ dir'[g] = dir[g]
  BY StepFrame DEF Inv
<1>2. disk' = disk \/ Within(f)
  BY StepChanges
<1>3. User(g)' = User(g)
  BY <1>1 DEF User, At
<1>4. (Exists(g)' <=> Exists(g)) /\ \A k : At(g, k)' <=> At(g, k)
  BY <1>1 DEF Exists, At
<1>5. IsFile(g) => Content(g)' = Content(g)
  BY <1>1, <1>2, OthersKeepContent DEF Inv
<1>6. Exists(g) /\ ~At(g, "lost") /\ ~At(g, "rewrites") => IsFile(g)
  BY DEF IsFile, At
<1> QED
  BY <1>3, <1>4, <1>5, <1>6 DEF Kept

-----------------------------------------------------------------------------
\* How a step of the user of f looks to the program

LEMMA FileChanged ==
    ASSUME NEW f \in Files, Frame(f)
    PROVE  /\ [g \in Files |-> Kept(g)]' = [[g \in Files |-> Kept(g)] EXCEPT ![f] = Kept(f)']
           /\ [g \in Files |-> User(g)]' = [[g \in Files |-> User(g)] EXCEPT ![f] = User(f)']
BY DEF Frame

\* The handle of f goes to the place l and the cursor c.
Going(H, f, l, c) ==
    [H EXCEPT ![f].at = l, ![f].cursor = c, ![f].begin = IF l = "writes" THEN @ ELSE 0]
Gone(r, l, c) == [at |-> l, mode |-> r.mode, cursor |-> c, begin |-> IF l = "writes" THEN r.begin ELSE 0]
IsHandle(r) == r = [at |-> r.at, mode |-> r.mode, cursor |-> r.cursor, begin |-> r.begin]

LEMMA RecordMoved ==
    ASSUME NEW H, H = [g \in Files |-> H[g]], NEW f \in Files, NEW l, NEW c, NEW b
    PROVE  [H EXCEPT ![f].at = l, ![f].cursor = c, ![f].begin = b]
              = [H EXCEPT ![f] = [H[f] EXCEPT !.at = l, !.cursor = c, !.begin = b]]
OBVIOUS

LEMMA RecordChanged ==
    ASSUME NEW r, IsHandle(r), NEW l, NEW c, NEW b
    PROVE  [r EXCEPT !.at = l, !.cursor = c, !.begin = b]
              = [at |-> l, mode |-> r.mode, cursor |-> c, begin |-> b]
<1> DEFINE r1 == [r EXCEPT !.at = l]
           r2 == [r1 EXCEPT !.cursor = c]
<1>1. r1 = [at |-> l, mode |-> r.mode, cursor |-> r.cursor, begin |-> r.begin]
  BY DEF IsHandle
<1>2. r2 = [at |-> l, mode |-> r.mode, cursor |-> c, begin |-> r.begin]
  <2> HIDE DEF r1
  <2> QED
    BY <1>1
<1>3. [r2 EXCEPT !.begin = b] = [at |-> l, mode |-> r.mode, cursor |-> c, begin |-> b]
  <2> HIDE DEF r2
  <2> QED
    BY <1>2
<1> QED
  BY <1>3

LEMMA HandleMoved ==
    ASSUME NEW H, H = [g \in Files |-> H[g]], NEW f \in Files, IsHandle(H[f]), NEW l, NEW c
    PROVE  Going(H, f, l, c) = [H EXCEPT ![f] = Gone(H[f], l, c)]
<1> DEFINE b == IF l = "writes" THEN H[f].begin ELSE 0
<1>1. Going(H, f, l, c) = [H EXCEPT ![f].at = l, ![f].cursor = c, ![f].begin = b]
  BY DEF Going
<1>2. [H EXCEPT ![f].at = l, ![f].cursor = c, ![f].begin = b]
         = [H EXCEPT ![f] = [H[f] EXCEPT !.at = l, !.cursor = c, !.begin = b]]
  BY RecordMoved
<1>3. [H[f] EXCEPT !.at = l, !.cursor = c, !.begin = b]
         = [at |-> l, mode |-> H[f].mode, cursor |-> c, begin |-> b]
  BY RecordChanged
<1> QED
  BY <1>1, <1>2, <1>3 DEF Gone

LEMMA UserIs ==
    ASSUME NEW f, ~At(f, "lost")
    PROVE  User(f) = [at |-> slot[f].at, mode |-> slot[f].mode, cursor |-> slot[f].cursor,
                      begin |-> IF At(f, "writes") THEN slot[f].cursor - slot[f].done ELSE 0]
BY DEF User

\* A move of the abstract file.
LEMMA Moved ==
    ASSUME NEW f \in Files, Frame(f), NEW k, NEW l, slot[f].at = k, slot'[f].at = l,
           k # "lost", l # "lost", slot'[f].mode = slot[f].mode,
           l = "writes" => k = "writes" /\ slot'[f].cursor - slot'[f].done = slot[f].cursor - slot[f].done,
           NEW c, slot'[f].cursor = c, NEW s, Kept(f)' = s
    PROVE  Promise!Move(f, k, l, c, s)
<1> DEFINE H == [g \in Files |-> User(g)]
           C == [g \in Files |-> Kept(g)]
<1>1. H[f] = [at |-> k, mode |-> slot[f].mode, cursor |-> slot[f].cursor,
              begin |-> IF k = "writes" THEN slot[f].cursor - slot[f].done ELSE 0]
  BY UserIs DEF At
<1>2. User(f)' = Gone(H[f], l, c)
  <2>1. User(f)' = [at |-> l, mode |-> slot[f].mode, cursor |-> c,
                    begin |-> IF l = "writes" THEN slot'[f].cursor - slot'[f].done ELSE 0]
    BY DEF User, At
  <2>2. l = "writes" => H[f].begin = slot'[f].cursor - slot'[f].done
    BY <1>1
  <2>3. H[f].mode = slot[f].mode
    BY <1>1
  <2> HIDE DEF H
  <2> QED
    BY <2>1, <2>2, <2>3 DEF Gone
<1>3. H' = [H EXCEPT ![f] = User(f)'] /\ C' = [C EXCEPT ![f] = Kept(f)']
  BY FileChanged
<1>4. H = [g \in Files |-> H[g]]
  OBVIOUS
<1>5. IsHandle(H[f]) /\ H[f].at = k
  <2> HIDE DEF H
  <2> QED
    BY <1>1 DEF IsHandle
<1>6. H' = Going(H, f, l, c)
  <2> HIDE DEF H
  <2>1. Going(H, f, l, c) = [H EXCEPT ![f] = Gone(H[f], l, c)]
    BY <1>4, <1>5, HandleMoved
  <2>2. H' = [H EXCEPT ![f] = Gone(H[f], l, c)]
    BY <1>2, <1>3
  <2> QED
    BY <2>1, <2>2
<1> QED
  BY <1>3, <1>5, <1>6 DEF Going, Promise!Move, Promise!At

\* The file may be opened, closed or lost.
LEMMA HandleIs ==
    ASSUME NEW f \in Files
    PROVE  /\ [g \in Files |-> User(g)][f] = User(f) /\ [g \in Files |-> Kept(g)][f] = Kept(f)
           /\ User(f).at = slot[f].at
           /\ ~At(f, "lost") => User(f).mode = slot[f].mode /\ User(f).cursor = slot[f].cursor
BY DEF User, At

LEMMA LostMaps ==
    ASSUME NEW f \in Files, Frame(f), slot[f].at \in {"closed", "writes", "rewrites"},
           slot'[f].at = "lost", ret' = Nothing
    PROVE  Promise!Lose(f)
<1>1. User(f)' = [Promise!Closed EXCEPT !.at = "lost"]
  BY DEF User, At, Promise!Closed
<1>2. Kept(f)' = Absent
  BY DEF Kept, At
<1> QED
  BY <1>1, <1>2, FileChanged, HandleIs DEF Promise!Lose

LEMMA OpenedMaps ==
    ASSUME NEW f \in Files, Frame(f), NEW l, l \notin {"lost", "writes"}, slot'[f].at = l, ret' = Nothing,
           NEW m, slot'[f].mode = m, NEW c, slot'[f].cursor = c, NEW s, Kept(f)' = s
    PROVE  Promise!Opened(f, l, m, c, s)
<1>1. User(f)' = [at |-> l, mode |-> m, cursor |-> c, begin |-> 0]
  BY DEF User, At
<1> QED
  BY <1>1, FileChanged DEF Promise!Opened

\* An empty file.
LEMMA EmptyContent ==
    ASSUME NEW f, SizeOf(f)' = 0
    PROVE  Content(f)' = <<>>
<1>1. Content(f)' = [k \in 1..0 |-> Content(f)'[k]]
  BY DEF Content
<1> QED
  BY <1>1, EmptyFunction

\* A file that exists is not absent.
LEMMA KeptIs ==
    ASSUME FilesFit, AbsentIsNoFile, Inv, NEW f \in Files, Exists(f), ~At(f, "lost")
    PROVE  /\ Kept(f) # Absent
           /\ ~At(f, "rewrites") => IsFile(f) /\ Kept(f) = Content(f)
<1>1. CASE At(f, "rewrites")
  BY <1>1, EmptySeq DEF Kept, AbsentIsNoFile
<1>2. CASE ~At(f, "rewrites")
  <2>1. IsFile(f) /\ Kept(f) = Content(f)
    BY <1>2 DEF IsFile, Kept, At
  <2>2. Content(f) \in Seq(Octets)
    BY <2>1, ContentIs
  <2> QED
    BY <2>1, <2>2 DEF AbsentIsNoFile
<1> QED
  BY <1>1, <1>2

LEMMA CreateMaps ==
    ASSUME Inv, Inv', NEW f \in Files, Frame(f), Create(f)
    PROVE  Promise!Create(f)
<1>0. slot \in [Files -> SlotType] /\ dir \in [Files -> [num : Clusters, size : Nat]]
  BY DiskTypes DEF Inv, TypeOK
<1>1. PICK c \in Free : /\ dir' = [dir EXCEPT ![f] = [num |-> c, size |-> 0]]
                        /\ slot' = [slot EXCEPT ![f] = Created("w", c)]
  BY AnswersFree DEF Create
<1>2. c # NoCluster /\ c \in Clusters
  BY LayoutAssumption DEF Free, NoCluster, Clusters
<1>3. /\ slot'[f].at = "open" /\ slot'[f].mode = "w" /\ slot'[f].cursor = 0 /\ slot'[f].size = 0
  BY <1>0, <1>1 DEF Created, Closed
<1>4. Exists(f)' /\ SizeOf(f)' = 0
  BY <1>0, <1>1, <1>2, <1>3 DEF Exists, SizeOf, At
<1>5. Kept(f)' = <<>>
  BY <1>3, <1>4, EmptyContent DEF Kept, At
<1>6. Promise!Opened(f, "open", "w", 0, <<>>)
  BY <1>3, <1>5, OpenedMaps DEF Create
<1>7. Kept(f) = Absent /\ slot[f].at = "closed"
  BY DEF Create, Kept, At
<1> QED
  BY <1>6, <1>7, HandleIs DEF Promise!Create, Promise!At, Promise!Exists

LEMMA RewriteMaps ==
    ASSUME Inv, Inv', NEW f \in Files, Frame(f), slot[f].mode = "w", Rewrite(f)
    PROVE  Promise!Ready(f)
<1>0. slot \in [Files -> SlotType] /\ dir \in [Files -> [num : Clusters, size : Nat]]
  BY DiskTypes DEF Inv, TypeOK
<1>1. PICK c \in Free : /\ dir' = [dir EXCEPT ![f] = [num |-> c, size |-> 0]]
                        /\ slot' = [slot EXCEPT ![f] = Created("w", c)]
  BY AnswersFree DEF Rewrite
<1>2. c # NoCluster /\ c \in Clusters
  BY LayoutAssumption DEF Free, NoCluster, Clusters
<1>3. /\ slot'[f].at = "open" /\ slot'[f].mode = "w" /\ slot'[f].cursor = 0 /\ slot'[f].size = 0
  BY <1>0, <1>1 DEF Created, Closed
<1>4. Exists(f)' /\ SizeOf(f)' = 0
  BY <1>0, <1>1, <1>2, <1>3 DEF Exists, SizeOf, At
<1>5. Kept(f)' = <<>>
  BY <1>3, <1>4, EmptyContent DEF Kept, At
<1>6. slot[f].at = "rewrites" /\ ret' = Nothing
  BY DEF Rewrite, At
<1>7. Promise!Move(f, "rewrites", "open", 0, <<>>)
  BY <1>3, <1>5, <1>6, Moved
<1> QED
  BY <1>6, <1>7 DEF Promise!Ready

LEMMA DiscardMaps ==
    ASSUME FilesFit, AbsentIsNoFile, Inv, NEW f \in Files, Frame(f), Discard(f)
    PROVE  Promise!Empty(f)
<1>0. slot \in [Files -> SlotType]
  BY DiskTypes DEF Inv
<1>1. /\ slot' = [slot EXCEPT ![f] = [Created("w", NoCluster) EXCEPT !.at = "rewrites"]]
      /\ slot[f].at = "closed" /\ Exists(f) /\ dir' = dir /\ ret' = Nothing
  BY DEF Discard, At
<1>2. slot'[f].at = "rewrites" /\ slot'[f].mode = "w" /\ slot'[f].cursor = 0
  BY <1>0, <1>1 DEF Created, Closed
<1>3. Kept(f)' = <<>> /\ Kept(f) # Absent
  BY <1>1, <1>2, KeptIs DEF Kept, Exists, At
<1>4. Promise!Opened(f, "rewrites", "w", 0, <<>>)
  BY <1>1, <1>2, <1>3, OpenedMaps
<1> QED
  BY <1>1, <1>3, <1>4, HandleIs DEF Promise!Empty, Promise!At, Promise!Exists

LEMMA DeleteMaps ==
    ASSUME FilesFit, AbsentIsNoFile, Inv, NEW f \in Files, Frame(f), Delete(f)
    PROVE  Promise!Delete(f)
<1>0. dir \in [Files -> [num : Clusters, size : Nat]]
  BY DEF Inv, TypeOK
<1>1. slot' = slot /\ slot[f].at = "closed" /\ Exists(f) /\ dir' = [dir EXCEPT ![f] = NoEntry] /\ ret' = Nothing
  BY DEF Delete, At
<1>2. ~Exists(f)' /\ Kept(f)' = Absent /\ Kept(f) # Absent
  BY <1>0, <1>1, KeptIs DEF Exists, NoEntry, Kept, At
<1>3. User(f)' = User(f)
  BY <1>1 DEF User, At
<1>4. [g \in Files |-> User(g)]' = [g \in Files |-> User(g)]
  BY <1>3 DEF Frame
<1> QED
  BY <1>1, <1>2, <1>4, FileChanged, HandleIs DEF Promise!Delete, Promise!At, Promise!Exists

LEMMA LosesMaps ==
    ASSUME Inv, NEW f \in Files, Frame(f), CreateFails(f) \/ RewriteFails(f) \/ GrowLoses(f)
    PROVE  Promise!Lose(f)
<1>0. slot \in [Files -> SlotType]
  BY DiskTypes DEF Inv
<1>1. /\ slot' = [slot EXCEPT ![f].at = "lost"] /\ ret' = Nothing
      /\ slot[f].at \in {"closed", "writes", "rewrites"}
  BY DEF CreateFails, RewriteFails, GrowLoses, AtBoundary, At
<1>2. slot'[f].at = "lost"
  BY SMTT(30), <1>0, <1>1 DEF SlotType, SlotRecord
<1> QED
  BY <1>1, <1>2, LostMaps

\* The bytes are those that were there when neither they nor what leads to them changed.
LEMMA QuietContent ==
    ASSUME NEW f, disk' = disk, dir' = dir, SizeOf(f)' = SizeOf(f), IndexOf(f)' = IndexOf(f),
           \A c : IIOf(f, c)' = IIOf(f, c)
    PROVE  Content(f)' = Content(f)
BY SMTT(30) DEF Content, ByteAt, ClusterOf, IIOf

\* What opening again makes of the slot, with or without a second-level index.
LEMMA ReopenSlot ==
    ASSUME NEW f \in Files, NEW mode, slot \in [Files -> SlotType], Reopen(f, mode)
    PROVE  /\ slot'[f].at = "open" /\ slot'[f].mode = mode /\ slot'[f].size = dir[f].size
           /\ slot'[f].cursor = (IF mode = "a" THEN dir[f].size ELSE 0)
           /\ slot'[f].index = disk[dir[f].num].pointers
           /\ slot'[f].IILevel = "loaded" => slot'[f].II = disk[slot'[f].IInum].pointers
<1> DEFINE g == disk[dir[f].num].pointers
           J == Cardinality(LiveRun(g, allocated, I_LEV_DATA_POINTERS, IEnd))
           I == Cardinality(LiveRun(g, allocated, 0, I_LEV_DATA_POINTERS))
           c == g[I_LEV_DATA_POINTERS + J - 1]
           n == Cardinality(LiveRun(disk[c].pointers, allocated, 0, II_LEV_DATA_POINTERS))
           s == [Closed EXCEPT !.at = "open", !.mode = mode, !.size = dir[f].size,
                               !.cursor = IF mode = "a" THEN dir[f].size ELSE 0,
                               !.num = dir[f].num, !.index = g,
                               !.ILevLeft = I_LEV_DATA_POINTERS - I]
           q(o) == [s EXCEPT !.IInum = o.IInum, !.IILevDataLeft = o.IILevDataLeft]
           r == [s EXCEPT !.IILevel = "loaded", !.IInum = c, !.II = disk[c].pointers,
                          !.IILevLeft = II_LEV_POINTERS - J,
                          !.IILevDataLeft = II_LEV_DATA_POINTERS - n]
           Opens(x) == /\ x.at = "open" /\ x.mode = mode /\ x.size = dir[f].size
                       /\ x.cursor = (IF mode = "a" THEN dir[f].size ELSE 0) /\ x.index = g
                       /\ x.IILevel = "loaded" => x.II = disk[x.IInum].pointers
<1>1. \/ \E o \in Stale : slot' = [slot EXCEPT ![f] = q(o)]
      \/ slot' = [slot EXCEPT ![f] = r]
  BY DEF Reopen
<1>2. \A o : Opens(q(o))
  <2> HIDE DEF c, J, n, I, g
  <2> QED
    BY DEF Closed
<1>3. Opens(r)
  <2> HIDE DEF c, J, n, I, g
  <2> QED
    BY DEF Closed
<1> HIDE DEF q, s, r, J, c, I, n, Opens
<1>4. \E x : slot' = [slot EXCEPT ![f] = x] /\ Opens(x)
  BY <1>1, <1>2, <1>3
<1>5. Opens(slot'[f])
  BY <1>4
<1> QED
  BY <1>5 DEF Opens

LEMMA ReopenMaps ==
    ASSUME FilesFit, AbsentIsNoFile, Inv, NEW f \in Files, Frame(f), NEW mode \in {"r", "a"}, Reopen(f, mode)
    PROVE  Promise!Reopen(f, mode)
<1>0. slot \in [Files -> SlotType]
  BY SMTT(30), DiskTypes DEF Inv
<1>1. slot[f].at = "closed" /\ Exists(f) /\ UNCHANGED <<disk, dir>> /\ ret' = Nothing /\ slot[f].IILevel = "none"
  BY DEF Reopen, At, Inv, Handle
<1>2. /\ slot'[f].at = "open" /\ slot'[f].mode = mode /\ slot'[f].size = dir[f].size
      /\ slot'[f].cursor = (IF mode = "a" THEN dir[f].size ELSE 0)
      /\ slot'[f].index = disk[dir[f].num].pointers
      /\ slot'[f].IILevel = "loaded" => slot'[f].II = disk[slot'[f].IInum].pointers
  BY <1>0, ReopenSlot
<1>3. Content(f)' = Content(f)
  <2>1. SizeOf(f)' = SizeOf(f) /\ IndexOf(f)' = IndexOf(f)
    BY <1>1, <1>2 DEF SizeOf, IndexOf, At
  <2>2. \A c : IIOf(f, c)' = IIOf(f, c)
    BY <1>1, <1>2 DEF IIOf
  <2> QED
    BY <1>1, <2>1, <2>2, QuietContent
<1>4. Kept(f) = Content(f) /\ Kept(f) # Absent /\ IsFile(f)
  BY <1>1, KeptIs DEF At
<1>5. Kept(f)' = Kept(f)
  BY <1>1, <1>2, <1>3, <1>4 DEF Kept, At, Exists
<1>6. Len(Kept(f)) = dir[f].size
  BY <1>1, <1>4, ContentIs DEF SizeOf, At
<1>7. Promise!Opened(f, "open", mode, IF mode = "a" THEN Len(Kept(f)) ELSE 0, Kept(f))
  BY <1>1, <1>2, <1>5, <1>6, OpenedMaps
<1> QED
  BY <1>1, <1>4, <1>7, HandleIs DEF Promise!Reopen, Promise!At, Promise!Exists

-----------------------------------------------------------------------------
\* The calls on an open file

LEMMA OpenFile ==
    ASSUME FilesFit, AbsentIsNoFile, Inv, NEW f \in Files, IsOpen(f)
    PROVE  /\ IsFile(f) /\ Exists(f) /\ ~At(f, "lost") /\ ~At(f, "rewrites") /\ ~At(f, "closed")
           /\ Kept(f) = Content(f) /\ IndexOf(f) = slot[f].index /\ SizeOf(f) = slot[f].size
           /\ NumOf(f) = slot[f].num /\ slot[f].num = dir[f].num
           /\ slot[f] \in SlotType /\ slot \in [Files -> SlotType] /\ disk \in DiskType
           /\ slot[f].cursor <= slot[f].size /\ slot[f].cursor \in Nat /\ slot[f].size \in Nat
           /\ slot[f].done \in Nat
<1>1. ~At(f, "lost") /\ ~At(f, "rewrites") /\ ~At(f, "closed") /\ Exists(f) /\ slot[f].num = dir[f].num
      /\ slot[f].cursor <= slot[f].size
  BY DEF Inv, Handle, IsOpen, At
<1>2. slot[f] \in SlotType /\ slot \in [Files -> SlotType] /\ disk \in DiskType
  BY DiskTypes DEF Inv
<1> QED
  BY <1>1, <1>2, KeptIs DEF IndexOf, SizeOf, NumOf, SlotType, SlotRecord

\* The file is open after the step, too.
LEMMA OpenAfter ==
    ASSUME NEW f, Exists(f)', slot'[f].at \in {"open", "writes"}
    PROVE  Kept(f)' = Content(f)'
BY DEF Kept, At

LEMMA UserContent ==
    ASSUME FilesFit, AbsentIsNoFile, Inv, NEW f \in Files, IsOpen(f), disk' = disk, dir' = dir,
           slot'[f].at \in {"open", "writes"}, slot'[f].index = slot[f].index,
           slot'[f].size = slot[f].size, slot'[f].IILevel = slot[f].IILevel,
           slot'[f].II = slot[f].II, slot'[f].IInum = slot[f].IInum
    PROVE  Kept(f)' = Content(f) /\ Kept(f) = Content(f)
<1>1. ~At(f, "closed") /\ ~At(f, "closed")'
  BY OpenFile DEF At
<1>2. SizeOf(f)' = SizeOf(f) /\ IndexOf(f)' = IndexOf(f)
  BY <1>1 DEF SizeOf, IndexOf
<1>3. \A c : IIOf(f, c)' = IIOf(f, c)
  BY DEF IIOf
<1>4. Content(f)' = Content(f)
  BY <1>2, <1>3, QuietContent
<1>5. Exists(f)'
  BY OpenFile DEF Exists
<1> QED
  BY <1>4, <1>5, OpenFile, OpenAfter

\* A call of write begins.
LEMMA RecordBegun ==
    ASSUME NEW H, H = [g \in Files |-> H[g]], NEW f \in Files, NEW l, NEW b
    PROVE  [H EXCEPT ![f].at = l, ![f].begin = b]
              = [H EXCEPT ![f] = [H[f] EXCEPT !.at = l, !.begin = b]]
OBVIOUS

LEMMA HandleBegun ==
    ASSUME NEW r, IsHandle(r), NEW l, NEW b
    PROVE  [r EXCEPT !.at = l, !.begin = b]
              = [at |-> l, mode |-> r.mode, cursor |-> r.cursor, begin |-> b]
<1> DEFINE r1 == [r EXCEPT !.at = l]
<1>1. r1 = [at |-> l, mode |-> r.mode, cursor |-> r.cursor, begin |-> r.begin]
  BY DEF IsHandle
<1>2. [r1 EXCEPT !.begin = b] = [at |-> l, mode |-> r.mode, cursor |-> r.cursor, begin |-> b]
  <2> HIDE DEF r1
  <2> QED
    BY <1>1
<1> QED
  BY <1>2

LEMMA WriteCallMaps ==
    ASSUME FilesFit, AbsentIsNoFile, Inv, NEW f \in Files, Frame(f), NEW n, WriteCall(f, n)
    PROVE  Promise!Begin(f)
<1>1. IsOpen(f) /\ slot[f].at = "open" /\ slot[f].mode # "r" /\ ret' = Nothing /\ UNCHANGED <<disk, dir>>
      /\ slot' = [slot EXCEPT ![f].at = "writes", ![f].left = n, ![f].done = 0]
  BY DEF WriteCall, IsOpen, At
<1>2. /\ slot'[f].at = "writes" /\ slot'[f].mode = slot[f].mode /\ slot'[f].cursor = slot[f].cursor
      /\ slot'[f].done = 0 /\ slot'[f].index = slot[f].index /\ slot'[f].size = slot[f].size
      /\ slot'[f].IILevel = slot[f].IILevel /\ slot'[f].II = slot[f].II /\ slot'[f].IInum = slot[f].IInum
  BY <1>1, OpenFile DEF SlotType, SlotRecord
<1>3. Kept(f)' = Kept(f)
  BY <1>1, <1>2, UserContent
<1> DEFINE H == [g \in Files |-> User(g)]
<1>4. /\ H = [g \in Files |-> H[g]] /\ H[f].at = "open" /\ H[f].mode = slot[f].mode
      /\ H[f].cursor = slot[f].cursor
  BY <1>1, HandleIs DEF At
<1>5. IsHandle(H[f])
  <2>1. IsHandle(User(f))
    BY <1>1, UserIs DEF IsHandle, At
  <2> QED
    BY <2>1
<1>6. User(f)' = [at |-> "writes", mode |-> slot[f].mode, cursor |-> slot[f].cursor,
                  begin |-> slot[f].cursor]
  <2>1. slot[f].cursor - 0 = slot[f].cursor
    BY <1>1, OpenFile
  <2> QED
    BY <1>2, <2>1 DEF User, At
<1>7. H' = [H EXCEPT ![f].at = "writes", ![f].begin = H[f].cursor]
  <2>1. H' = [H EXCEPT ![f] = User(f)']
    BY FileChanged
  <2> HIDE DEF H
  <2>2. [H[f] EXCEPT !.at = "writes", !.begin = H[f].cursor]
           = [at |-> "writes", mode |-> slot[f].mode, cursor |-> slot[f].cursor, begin |-> slot[f].cursor]
    <3>1. [H[f] EXCEPT !.at = "writes", !.begin = H[f].cursor]
             = [at |-> "writes", mode |-> H[f].mode, cursor |-> H[f].cursor, begin |-> H[f].cursor]
      BY <1>5, HandleBegun
    <3> QED
      BY <1>4, <3>1
  <2>3. [H EXCEPT ![f].at = "writes", ![f].begin = H[f].cursor]
           = [H EXCEPT ![f] = [H[f] EXCEPT !.at = "writes", !.begin = H[f].cursor]]
    BY <1>4, RecordBegun
  <2> QED
    BY <1>6, <2>1, <2>2, <2>3
<1>8. [g \in Files |-> Kept(g)]' = [g \in Files |-> Kept(g)]
  BY <1>3 DEF Frame
<1> QED
  BY <1>1, <1>4, <1>7, <1>8 DEF Promise!Begin, Promise!At

LEMMA SeekMaps ==
    ASSUME FilesFit, AbsentIsNoFile, Inv, NEW f \in Files, Frame(f), Seek(f)
    PROVE  Promise!Seek(f)
<1>1. IsOpen(f) /\ slot[f].at = "open" /\ ret' = Nothing /\ UNCHANGED <<disk, dir>>
  BY DEF Seek, IsOpen, At
<1>2. PICK p \in 0..slot[f].size : slot' = [slot EXCEPT ![f].cursor = p]
  BY DEF Seek
<1>3. /\ slot'[f].at = "open" /\ slot'[f].mode = slot[f].mode /\ slot'[f].cursor = p
      /\ slot'[f].index = slot[f].index /\ slot'[f].size = slot[f].size
      /\ slot'[f].IILevel = slot[f].IILevel /\ slot'[f].II = slot[f].II /\ slot'[f].IInum = slot[f].IInum
  BY <1>1, <1>2, OpenFile DEF SlotType, SlotRecord
<1>4. Kept(f)' = Kept(f) /\ Kept(f) = Content(f)
  BY <1>1, <1>3, UserContent
<1>5. Len(Kept(f)) = slot[f].size
  BY <1>1, <1>4, OpenFile, ContentIs
<1>6. Promise!Move(f, "open", "open", p, Kept(f))
  BY <1>1, <1>3, <1>4, Moved
<1> QED
  BY <1>1, <1>5, <1>6, HandleIs DEF Promise!Seek, Promise!At

-----------------------------------------------------------------------------
\* A read answers the byte at the cursor.

\* Two things the layout does not need: a file that is being rewritten is so from its
\* beginning, and of a file that is open for reading the second-level index in memory
\* is the one on the partition.
Steady(f) ==
    /\ At(f, "rewrites") => slot[f].mode = "w"
    /\ IsOpen(f) /\ slot[f].mode = "r" /\ slot[f].IILevel = "loaded" =>
          \A i \in SecondEntries :
             InUse(f, i, HERE) /\ IndexOf(f)[i] = slot[f].IInum
                => slot[f].II = disk[slot[f].IInum].pointers

LEMMA ReadFromIs ==
    ASSUME FilesFit, AbsentIsNoFile, Inv, ReadsBack, NEW f \in Files, Steady(f), Read(f),
           slot[f].cursor < slot[f].size
    PROVE  ReadFrom(slot[f], Block(slot[f].cursor)) = ClusterOf(f, Block(slot[f].cursor))
<1> DEFINE b == Block(slot[f].cursor)
           i == IIEntry(b)
<1>1. IsOpen(f)
  BY DEF Read, IsOpen, At
<1>2. IsFile(f) /\ IndexOf(f) = slot[f].index /\ slot[f].cursor \in 0..SizeOf(f) - 1
  BY <1>1, OpenFile
<1>3. b \in 0..Blocks(f) - 1 /\ b \in Nat
  BY <1>2, BytesOfFile, BlocksOfFile
<1>4. CASE b < I_LEV_DATA_POINTERS
  BY <1>2, <1>4 DEF ReadFrom, ClusterOf
<1>5. CASE ~(b < I_LEV_DATA_POINTERS)
  <2>1. i \in SecondEntries /\ InUse(f, i, HERE)
    <3>1. b >= I_LEV_DATA_POINTERS
      BY <1>3, <1>5, Geometry
    <3> QED
      BY <1>2, <1>3, <3>1, BlocksOfFile
  <2>2. IIOf(f, slot[f].index[i]) = disk[slot[f].index[i]].pointers
    <3>1. CASE slot[f].IILevel = "loaded" /\ slot[f].IInum = slot[f].index[i]
      <4>1. slot[f].mode = "r"
        BY <1>5, <3>1 DEF ReadsBack
      <4> QED
        BY <1>1, <1>2, <2>1, <3>1, <4>1 DEF Steady, IIOf
    <3>2. CASE ~(slot[f].IILevel = "loaded" /\ slot[f].IInum = slot[f].index[i])
      BY <3>2 DEF IIOf
    <3> QED
      BY <3>1, <3>2
  <2> QED
    BY <1>2, <1>5, <2>2 DEF ReadFrom, ClusterOf
<1> QED
  BY <1>4, <1>5

LEMMA ReadMaps ==
    ASSUME FilesFit, AbsentIsNoFile, Inv, NEW f \in Files, Frame(f), Steady(f), ReadsBack, Read(f)
    PROVE  Promise!Read(f)
<1>1. IsOpen(f) /\ slot[f].at = "open" /\ UNCHANGED <<disk, dir>>
  BY DEF Read, IsOpen, At
<1> DEFINE c == slot[f].cursor
           z == slot[f].size
<1>2. /\ c \in Nat /\ z \in Nat /\ c <= z /\ slot \in [Files -> SlotType] /\ slot[f] \in SlotType
      /\ IsFile(f) /\ SizeOf(f) = z
  BY <1>1, OpenFile
<1>3. PICK p : slot' = [slot EXCEPT ![f].cursor = p] /\ p = IF c < z THEN c + 1 ELSE c
  <2>1. CASE c < z
    BY <1>2, <2>1 DEF Read
  <2>2. CASE ~(c < z)
    BY <1>2, <2>2 DEF Read
  <2> QED
    BY <2>1, <2>2
<1>4. /\ slot'[f].at = "open" /\ slot'[f].mode = slot[f].mode /\ slot'[f].cursor = p
      /\ slot'[f].index = slot[f].index /\ slot'[f].size = slot[f].size
      /\ slot'[f].IILevel = slot[f].IILevel /\ slot'[f].II = slot[f].II /\ slot'[f].IInum = slot[f].IInum
  BY <1>1, <1>2, <1>3 DEF SlotType, SlotRecord
<1>5. Kept(f)' = Kept(f) /\ Kept(f) = Content(f)
  BY <1>1, <1>4, UserContent
<1>6. Len(Kept(f)) = z /\ \A k \in 1..z : Kept(f)[k] = ByteAt(f, k - 1)
  BY <1>2, <1>5, ContentIs
<1>7. Promise!Move(f, "open", "open", p, Kept(f))
  BY <1>1, <1>4, <1>5, Moved
<1>8. IF c < z THEN ret' = Kept(f)[c + 1] ELSE ret' = Nothing
  <2>1. CASE c < z
    <3>1. ret' = disk[ReadFrom(slot[f], Block(c))].bytes[c % ClusterSize]
      BY <1>2, <2>1 DEF Read
    <3>2. ret' = ByteAt(f, c)
      BY <2>1, <3>1, ReadFromIs DEF ByteAt
    <3>3. c + 1 \in 1..z /\ (c + 1) - 1 = c
      BY <1>2, <2>1
    <3> QED
      BY <1>6, <2>1, <3>2, <3>3
  <2>2. CASE ~(c < z)
    BY <1>2, <2>2 DEF Read
  <2> QED
    BY <2>1, <2>2
<1>9. /\ [g \in Files |-> User(g)][f].at = "open" /\ [g \in Files |-> User(g)][f].cursor = c
      /\ [g \in Files |-> Kept(g)][f] = Kept(f)
  BY <1>1, HandleIs DEF At
<1> QED
  BY <1>3, <1>6, <1>7, <1>8, <1>9 DEF Promise!Read, Promise!At

-----------------------------------------------------------------------------
\* A byte is written.

LEMMA ContentPut ==
    ASSUME FilesFit, Inv, NEW f \in Files, IsFile(f), NEW c \in 0..SizeOf(f), NEW v \in Octets,
           SizeOf(f)' = (IF c = SizeOf(f) THEN SizeOf(f) + 1 ELSE SizeOf(f)),
           \A p \in 0..SizeOf(f) - 1 : p # c => ByteAt(f, p)' = ByteAt(f, p),
           ByteAt(f, c)' = v
    PROVE  Content(f)' = IF c = Len(Content(f)) THEN Append(Content(f), v)
                         ELSE [Content(f) EXCEPT ![c + 1] = v]
<1>0. PICK n, F, m, G : n = SizeOf(f) /\ F = Content(f) /\ m = SizeOf(f)' /\ G = Content(f)'
  OBVIOUS
<1>1. /\ n \in Nat /\ F \in [1..n -> Octets] /\ Len(F) = n /\ c \in Nat
      /\ \A k \in 1..n : F[k] = ByteAt(f, k - 1)
  BY <1>0, ContentIs
<1>2. G = [k \in 1..m |-> ByteAt(f, k - 1)']
  BY <1>0 DEF Content
<1>3. (c = n => m = n + 1) /\ (c # n => m = n)
  BY <1>0
<1>4. \A k \in 1..n : k # c + 1 => G[k] = F[k]
  <2> TAKE k \in 1..n
  <2> HAVE k # c + 1
  <2>1. k - 1 \in 0..n - 1 /\ k - 1 # c
    BY <1>1
  <2>2. ByteAt(f, k - 1)' = F[k]
    BY <1>0, <1>1, <2>1
  <2>3. k \in 1..m
    BY <1>1, <1>3
  <2> QED
    BY <1>2, <2>2, <2>3
<1>5. G[c + 1] = v
  <2>1. c + 1 \in 1..m /\ (c + 1) - 1 = c
    BY <1>0, <1>1, <1>3
  <2> QED
    BY <1>2, <2>1
<1>6. G = [k \in 1..m |-> G[k]]
  BY <1>2
<1>7. v \in Octets /\ c \in 0..n
  BY <1>0
<1>8. CASE c = n
  <2>1. Longer(Octets, n, F, v, G)
    <3>1. G = [k \in 1..n + 1 |-> G[k]]
      BY <1>3, <1>6, <1>8
    <3>2. \A k \in 1..n : G[k] = F[k]
      BY <1>1, <1>4, <1>8
    <3>3. G[n + 1] = v
      BY <1>5, <1>8
    <3> QED
      BY <1>1, <1>7, <3>1, <3>2, <3>3 DEF Longer
  <2>2. G = Append(F, v)
    BY <1>1, <2>1, LongerFunction
  <2> QED
    BY <1>0, <1>1, <1>8, <2>2
<1>9. CASE c # n
  <2>1. c + 1 \in 1..n /\ G = [k \in 1..n |-> G[k]]
    BY <1>1, <1>3, <1>6, <1>7, <1>9
  <2>2. G = [F EXCEPT ![c + 1] = v]
    BY <1>1, <1>4, <1>5, <2>1, ChangedFunction
  <2> QED
    BY <1>0, <1>1, <1>9, <2>2
<1> QED
  BY <1>8, <1>9

LEMMA PutMaps ==
    ASSUME FilesFit, AbsentIsNoFile, Inv, NEW f \in Files, Frame(f), At(f, "writes"), ByteDone(f), dir' = dir,
           ret' = Nothing, NEW v \in Bytes, NEW c, c = slot[f].cursor,
           SizeOf(f)' = (IF c = SizeOf(f) THEN SizeOf(f) + 1 ELSE SizeOf(f)),
           \A p \in 0..SizeOf(f) - 1 : p # c => ByteAt(f, p)' = ByteAt(f, p),
           ByteAt(f, c)' = v
    PROVE  Promise!Put(f, v)
<1>1. IsOpen(f) /\ slot[f].at = "writes"
  BY DEF IsOpen, At
<1>2. /\ IsFile(f) /\ Kept(f) = Content(f) /\ c \in 0..SizeOf(f) /\ c \in Nat /\ slot[f].done \in Nat
      /\ Exists(f)
  BY <1>1, OpenFile
<1> DEFINE s == IF c = Len(Kept(f)) THEN Append(Kept(f), v) ELSE [Kept(f) EXCEPT ![c + 1] = v]
<1>3. Content(f)' = s
  <2>1. v \in Octets
    BY DEF Octets
  <2> QED
    BY <1>2, <2>1, ContentPut
<1>4. Kept(f)' = s
  <2>1. Exists(f)' /\ slot'[f].at \in {"open", "writes"}
    BY <1>2 DEF Exists, ByteDone
  <2> QED
    BY <1>3, <2>1, OpenAfter
<1>5. PICK l \in {"open", "writes"} : slot'[f].at = l
  BY DEF ByteDone
<1>6. slot'[f].cursor - slot'[f].done = slot[f].cursor - slot[f].done /\ slot'[f].cursor = c + 1
      /\ slot'[f].mode = slot[f].mode
  BY <1>2 DEF ByteDone
<1> HIDE DEF s
<1>7. Promise!Move(f, "writes", l, c + 1, s)
  BY <1>1, <1>4, <1>5, <1>6, Moved
<1>8. [g \in Files |-> User(g)][f].cursor = c /\ [g \in Files |-> Kept(g)][f] = Kept(f)
  BY <1>1, HandleIs DEF At
<1> QED
  BY <1>7, <1>8 DEF s, Promise!Put

LEMMA PutInPlaceMaps ==
    ASSUME FilesFit, AbsentIsNoFile, Inv, TypeOK', NEW f \in Files, Frame(f),
           NEW v \in Writes(f, slot[f].cursor), InPlace(f, v)
    PROVE  Promise!Put(f, v)
<1>0. PICK c : c = slot[f].cursor
  OBVIOUS
<1> DEFINE s == slot[f]
           b == Block(c)
           o == c % ClusterSize
<1>1. /\ At(f, "writes") /\ b \in 0..Blocks(f) - 1 /\ ret' = Nothing /\ dir' = dir
      /\ slot' = [slot EXCEPT ![f] = Rounded(s, 1)]
      /\ disk' = [disk EXCEPT ![ClusterOf(f, b)] = WithByte(@, o, v)]
  BY <1>0 DEF InPlace, WriteTo
<1> PICK k : k = ClusterOf(f, b)
  OBVIOUS
<1>2. /\ v \in Bytes /\ s.left > 0 /\ c \in Nat /\ s.size \in Nat /\ c <= s.size /\ s \in SlotType
      /\ IsOpen(f) /\ IsFile(f) /\ SizeOf(f) = s.size /\ IndexOf(f) = s.index
  BY <1>0, <1>1, Written
<1>3. slot \in [Files -> SlotType] /\ disk \in DiskType /\ disk' \in DiskType /\ slot'[f] \in SlotType
  BY DiskTypes DEF Inv, TypeOK, DiskType, SlotType, SlotRecord
<1>4. /\ slot'[f].cursor = c + 1 /\ slot'[f].done = s.done + 1 /\ slot'[f].mode = s.mode
      /\ slot'[f].at \in {"open", "writes"} /\ slot'[f].index = s.index
      /\ slot'[f].size = (IF c = s.size THEN s.size + 1 ELSE s.size)
      /\ slot'[f].IILevel = s.IILevel /\ slot'[f].II = s.II /\ slot'[f].IInum = s.IInum
  BY <1>0, <1>1, <1>2, <1>3, Rounds
<1>5. ByteDone(f) /\ SizeOf(f)' = slot'[f].size /\ IndexOf(f)' = IndexOf(f)
  BY <1>0, <1>2, <1>4 DEF ByteDone, SizeOf, IndexOf, At
<1>6. /\ k \in Clusters /\ \A i \in SecondEntries : k # IndexOf(f)[i]
      /\ \A a \in 0..Blocks(f) - 1 : ClusterOf(f, a) = k => a = b
  BY <1>1, <1>2, BlocksOfFile
<1>7. o \in 0..ClusterSize - 1 /\ c = (ClusterSize * b) + o
  BY <1>2, BlockOfByte
<1>8. /\ \A x \in Clusters : x # k => disk'[x] = disk[x]
      /\ disk'[k].bytes[o] = v
      /\ \A n \in 0..ClusterSize - 1 : n # o => disk'[k].bytes[n] = disk[k].bytes[n]
  <2> HIDE DEF b, o
  <2> QED
    BY <1>1, <1>3, <1>6, <1>7 DEF WithByte, DiskType
<1> HIDE DEF s, b, o
<1>9. ASSUME NEW a \in 0..Blocks(f) - 1
      PROVE  KeepsBlock(f, a) /\ ClusterOf(f, a)' = ClusterOf(f, a)
  <2>1. ASSUME a >= I_LEV_DATA_POINTERS
        PROVE  Store(f)'[IndexOf(f)[IIEntry(a)]].pointers = Store(f)[IndexOf(f)[IIEntry(a)]].pointers
    <3>1. IIEntry(a) \in SecondEntries /\ IndexOf(f)[IIEntry(a)] \in Clusters
      BY <1>2, <2>1, BlocksOfFile
    <3>2. disk'[IndexOf(f)[IIEntry(a)]] = disk[IndexOf(f)[IIEntry(a)]]
      BY <1>6, <1>8, <3>1
    <3>3. \A x \in Clusters : Store(f)[x].pointers
             = IF slot[f].IILevel = "loaded" /\ slot[f].IInum = x THEN slot[f].II ELSE disk[x].pointers
      BY <1>2, <1>3, FlushedType DEF Store, s
    <3>4. \A x \in Clusters : Store(f)'[x].pointers
             = IF slot'[f].IILevel = "loaded" /\ slot'[f].IInum = x THEN slot'[f].II ELSE disk'[x].pointers
      BY <1>3, FlushedType DEF Store
    <3> QED
      BY <1>4, <3>1, <3>2, <3>3, <3>4 DEF s
  <2>2. a \in Nat
    BY <1>2, BlocksOfFile
  <2>3. KeepsBlock(f, a)
    BY <1>5, <2>1, <2>2, Geometry DEF KeepsBlock
  <2> QED
    BY <1>2, <2>3, ClusterStays
<1>10. ASSUME NEW p \in 0..SizeOf(f) - 1, p # c
       PROVE  ByteAt(f, p)' = ByteAt(f, p)
  <2> DEFINE n == p % ClusterSize
             x == ClusterOf(f, Block(p))
  <2>1. Block(p) \in 0..Blocks(f) - 1 /\ n \in 0..ClusterSize - 1 /\ p = (ClusterSize * Block(p)) + n
    BY <1>2, BytesOfFile
  <2>2. x \in Clusters /\ KeepsBlock(f, Block(p))
    BY <1>2, <1>9, <2>1, BlocksOfFile
  <2>3. disk'[x].bytes[n] = disk[x].bytes[n]
    <3>1. CASE Block(p) = b
      <4>1. n # o
        BY <1>7, <1>10, <2>1, <3>1
      <4>2. x = k
        BY <3>1
      <4> QED
        BY <1>8, <2>1, <4>1, <4>2
    <3>2. CASE Block(p) # b
      <4>1. x # k
        BY <1>6, <2>1, <3>2
      <4> QED
        BY <1>8, <2>2, <4>1
    <3> QED
      BY <3>1, <3>2
  <2> QED
    BY <1>2, <2>2, <2>3, ByteStays
<1>11. ByteAt(f, c)' = v
  <2>1. ClusterOf(f, b)' = k
    BY <1>1, <1>9
  <2>2. ByteAt(f, c)' = disk'[ClusterOf(f, b)'].bytes[o]
    BY DEF ByteAt, b, o
  <2> QED
    BY <1>8, <2>1, <2>2
<1>12. SizeOf(f)' = (IF c = SizeOf(f) THEN SizeOf(f) + 1 ELSE SizeOf(f))
  BY <1>2, <1>4, <1>5 DEF s
<1> QED
  BY <1>1, <1>2, <1>5, <1>10, <1>11, <1>12, <1>0, PutMaps

\* The second-level index in memory as IIOf and Store have it.
LEMMA StoreIs ==
    ASSUME TypeOK, NEW f \in Files
    PROVE  \A x \in Clusters :
              /\ Store(f)[x].pointers = IF slot[f].IILevel = "loaded" /\ slot[f].IInum = x
                                        THEN slot[f].II ELSE disk[x].pointers
              /\ Store(f)[x].pointers = IIOf(f, x)
<1>1. slot[f] \in SlotType /\ disk \in DiskType
  BY FileTypes, DiskTypes
<1> QED
  BY <1>1, FlushedType DEF Store, IIOf

\* The blocks of a file that grows stay where they are, and the new one is in c.
LEMMA GrownBlocks ==
    ASSUME FilesFit, Inv, TypeOK', NEW f \in Files, NEW i0, NEW e0, NEW t, NEW c, GrownAt(f, i0, e0, t, c)
    PROVE  /\ \A b \in 0..Blocks(f) - 1 : KeepsBlock(f, b) /\ ClusterOf(f, b)' = ClusterOf(f, b)
           /\ \A b : b = Blocks(f) => ClusterOf(f, b)' = c
<1>0. PICK B, g, h : B = Blocks(f) /\ g = IndexOf(f) /\ h = IndexOf(f)'
  OBVIOUS
<1>1. /\ IsFile(f) /\ B \in Nat /\ g \in [Entries -> Clusters] /\ h \in [Entries -> Clusters]
      /\ Store(f) \in DiskType
  <2>1. h \in [Entries -> Clusters]
    BY <1>0 DEF IndexOf, TypeOK
  <2> QED
    BY <1>0, <2>1, FileTypes, FileNumbers DEF Inv, GrownAt
<1>2. /\ IF B < I_LEV_DATA_POINTERS THEN i0 = B /\ e0 = HERE
         ELSE i0 = IIEntry(B) /\ i0 \in SecondEntries /\ e0 = InII(B)
      /\ h = IF e0 = HERE THEN [g EXCEPT ![i0] = c] ELSE IF e0 = 0 THEN [g EXCEPT ![i0] = t] ELSE g
      /\ \A i \in SecondEntries \ {i0} : InUse(f, i, HERE) =>
            Store(f)'[g[i]].pointers = Store(f)[g[i]].pointers
      /\ e0 # HERE => Store(f)'[h[i0]].pointers =
            IF e0 = 0 THEN [NoPointers EXCEPT ![e0] = c]
            ELSE [Store(f)[g[i0]].pointers EXCEPT ![e0] = c]
  BY <1>0 DEF GrownAt
<1>3. B >= I_LEV_DATA_POINTERS => /\ i0 = IIEntry(B) /\ i0 \in SecondEntries /\ e0 = InII(B) /\ e0 \in Entries
                                  /\ e0 # HERE /\ B = BlockAt(i0, e0)
  <2> HAVE B >= I_LEV_DATA_POINTERS
  <2>1. InII(B) \in Entries /\ B = BlockAt(IIEntry(B), InII(B))
    BY <1>1, EntryOfBlock
  <2>2. ~(B < I_LEV_DATA_POINTERS)
    BY <1>1, Geometry
  <2> QED
    BY <1>2, <2>1, <2>2, Geometry
<1>4. B < I_LEV_DATA_POINTERS => i0 = B /\ e0 = HERE /\ i0 \in IEntries
  BY <1>1, <1>2, Geometry
<1>5. ASSUME NEW b \in 0..B - 1
      PROVE  KeepsBlock(f, b) /\ ClusterOf(f, b)' = ClusterOf(f, b)
  <2>0. b \in Nat /\ b < B
    BY <1>1
  <2>1. KeepsBlock(f, b)
    <3>1. CASE b < I_LEV_DATA_POINTERS
      <4>1. i0 # b /\ b \in Entries
        BY <1>1, <1>3, <1>4, <2>0, <3>1, Geometry
      <4>2. h[b] = g[b]
        BY <1>1, <1>2, <4>1
      <4> QED
        BY <1>0, <3>1, <4>2 DEF KeepsBlock
    <3>2. CASE b >= I_LEV_DATA_POINTERS
      <4> DEFINE j == IIEntry(b)
                 l == InII(b)
      <4>1. j \in SecondEntries /\ l \in Entries /\ InUse(f, j, HERE) /\ g[j] \in Clusters
        BY <1>0, <1>1, <3>2, BlocksOfFile
      <4>2. b = BlockAt(j, l)
        BY <2>0, <3>2, EntryOfBlock
      <4>3. B >= I_LEV_DATA_POINTERS
        BY <1>1, <2>0, <3>2, Geometry
      <4>4. j \in Entries
        BY <4>1, PlacesAre
      <4>5. h[j] = g[j] /\ Store(f)'[g[j]].pointers[l] = Store(f)[g[j]].pointers[l]
        <5> HIDE DEF j, l
        <5>1. CASE j # i0
          BY <1>1, <1>2, <4>1, <4>4, <5>1
        <5>2. CASE j = i0
          <6>1. e0 # 0
            <7>1. BlockAt(j, 0) <= b
              BY <4>1, <4>2, SecondBlocks
            <7>2. BlockAt(j, 0) \in Nat
              BY <4>1, SecondBlocks
            <7> QED
              BY <1>1, <1>3, <2>0, <4>3, <5>2, <7>1, <7>2
          <6>2. e0 # l /\ e0 # HERE
            BY <1>1, <1>3, <2>0, <4>2, <4>3, <5>2
          <6>3. h = g /\ Store(f)'[h[i0]].pointers = [Store(f)[g[i0]].pointers EXCEPT ![e0] = c]
            BY <1>2, <6>1, <6>2
          <6>4. Store(f)[g[i0]].pointers \in [Entries -> Clusters]
            BY <1>1, <4>1, <5>2, DiskPointers
          <6> QED
            BY <4>1, <5>2, <6>2, <6>3, <6>4
        <5> QED
          BY <5>1, <5>2
      <4>6. ~(b < I_LEV_DATA_POINTERS)
        BY <2>0, <3>2, Geometry
      <4> QED
        BY <1>0, <4>5, <4>6 DEF KeepsBlock
    <3> QED
      BY <2>0, <3>1, <3>2, Geometry
  <2> QED
    BY <1>0, <1>1, <2>1, ClusterStays
<1>6. ClusterOf(f, B)' = c
  <2>1. CASE B < I_LEV_DATA_POINTERS
    <3>1. i0 = B /\ e0 = HERE /\ i0 \in Entries
      BY <1>4, <2>1, PlacesAre
    <3>2. h[B] = c
      BY <1>1, <1>2, <3>1
    <3> QED
      BY <1>0, <2>1, <3>2 DEF ClusterOf
  <2>2. CASE B >= I_LEV_DATA_POINTERS
    <3>1. i0 \in Entries /\ h[i0] \in Clusters
      BY <1>1, <1>3, <2>2, PlacesAre
    <3>2. Store(f)'[h[i0]].pointers[e0] = c
      <4>1. CASE e0 = 0
        <5>1. NoPointers \in [Entries -> Clusters]
          BY DEF NoPointers, Clusters
        <5>2. e0 \in Entries /\ e0 # HERE
          BY <1>3, <2>2
        <5>3. Store(f)'[h[i0]].pointers = [NoPointers EXCEPT ![e0] = c]
          BY <1>2, <4>1, <5>2
        <5>4. [NoPointers EXCEPT ![e0] = c][e0] = c
          BY <5>1, <5>2
        <5> QED
          BY <5>3, <5>4
      <4>2. CASE e0 # 0
        <5>1. h = g
          BY <1>2, <1>3, <2>2, <4>2
        <5>2. Store(f)[g[i0]].pointers \in [Entries -> Clusters]
          BY <1>1, <3>1, <5>1, DiskPointers
        <5> QED
          BY <1>2, <1>3, <2>2, <4>2, <5>2
      <4> QED
        BY <4>1, <4>2
    <3>3. Store(f)'[h[i0]].pointers = IIOf(f, h[i0])'
      <4>1. TypeOK' => \A x \in Clusters : Store(f)'[x].pointers = IIOf(f, x)'
        <5>1. slot'[f] \in SlotType /\ disk' \in DiskType
          BY DEF TypeOK, SlotType, SlotRecord, DiskType
        <5> QED
          BY <5>1, FlushedType DEF Store, IIOf
      <4> QED
        BY <3>1, <4>1
    <3>4. ClusterOf(f, B)' = IIOf(f, h[i0])'[e0]
      <4>1. ~(B < I_LEV_DATA_POINTERS)
        BY <1>1, <2>2, Geometry
      <4> QED
        BY <1>0, <1>3, <2>2, <4>1 DEF ClusterOf
    <3> QED
      BY <3>2, <3>3, <3>4
  <2> QED
    BY <1>1, <2>1, <2>2, Geometry
<1> QED
  BY <1>0, <1>5, <1>6

LEMMA PutAtEndMaps ==
    ASSUME FilesFit, AbsentIsNoFile, Inv, TypeOK', NEW f \in Files, Frame(f),
           NEW v \in Writes(f, slot[f].cursor), NEW d, d = disk \/ d = Flushed(disk, slot[f]),
           AtNewEnd(f, v, d), At(f, "writes"), slot[f].cursor = slot[f].size, dir' = dir, ret' = Nothing
    PROVE  Promise!Put(f, v)
<1>0. PICK n : n = slot[f].cursor
  OBVIOUS
<1>1. /\ v \in Bytes /\ n \in Nat /\ slot[f] \in SlotType /\ disk \in DiskType
      /\ IsOpen(f) /\ IsFile(f) /\ SizeOf(f) = n /\ IndexOf(f) = slot[f].index
  BY <1>0, Written, DiskTypes DEF Inv
<1>2. PICK i0, e0, t, c :
        /\ GrownAt(f, i0, e0, t, c) /\ OnlyAt(c, d) /\ Block(n) = Blocks(f)
        /\ disk'[c].bytes[n % ClusterSize] = v /\ SizeOf(f)' = n + 1 /\ ByteDone(f)
  BY <1>0, <1>1 DEF AtNewEnd
<1>3. /\ \A b \in 0..Blocks(f) - 1 : KeepsBlock(f, b) /\ ClusterOf(f, b)' = ClusterOf(f, b)
      /\ \A b : b = Blocks(f) => ClusterOf(f, b)' = c
  BY <1>2, GrownBlocks
<1>4. c \notin allocated
  BY <1>2 DEF GrownAt, Free
<1>5. ASSUME NEW p \in 0..SizeOf(f) - 1
      PROVE  ByteAt(f, p)' = ByteAt(f, p)
  <2> DEFINE x == ClusterOf(f, Block(p))
  <2>1. Block(p) \in 0..Blocks(f) - 1
    BY <1>1, BytesOfFile
  <2>2. x \in Clusters /\ x \in allocated /\ \A i \in SecondEntries : x # IndexOf(f)[i]
    BY <1>1, <2>1, BlocksOfFile
  <2> HIDE DEF x
  <2>3. d[x] = disk[x]
    <3>1. CASE d = disk
      BY <3>1
    <3>2. CASE d = Flushed(disk, slot[f])
      <4>1. slot[f].IILevel = "loaded" => \E i \in SecondEntries : slot[f].IInum = slot[f].index[i]
        BY <1>1 DEF Inv, Loaded
      <4>2. slot[f].IILevel = "loaded" => slot[f].IInum # x
        BY <1>1, <2>2, <4>1
      <4> QED
        BY <1>1, <2>2, <3>2, <4>2 DEF Flushed, DiskType
    <3> QED
      BY <3>1, <3>2
  <2>4. disk'[x] = disk[x]
    BY <1>2, <1>4, <2>2, <2>3 DEF OnlyAt
  <2>5. KeepsBlock(f, Block(p))
    BY <1>3, <2>1
  <2> QED
    BY <1>1, <2>4, <2>5, ByteStays DEF x
<1>6. ByteAt(f, n)' = v
  <2>1. ClusterOf(f, Block(n))' = c
    BY <1>2, <1>3
  <2> QED
    BY <1>2, <2>1 DEF ByteAt
<1>7. SizeOf(f)' = (IF n = SizeOf(f) THEN SizeOf(f) + 1 ELSE SizeOf(f))
  BY <1>1, <1>2
<1> QED
  BY <1>0, <1>1, <1>2, <1>5, <1>6, <1>7, PutMaps

-----------------------------------------------------------------------------
\* A file is cut.

LEMMA CutBlocks ==
    ASSUME FilesFit, Inv, TypeOK', NEW f \in Files, IsFile(f), NEW start \in Nat, NEW d, CutStays(f, start, d),
           NEW b \in 0..Blocks(f) - 1, b < FirstFreed(start)
    PROVE  ClusterOf(f, b)' = ClusterOf(f, b) /\ disk'[ClusterOf(f, b)] = d[ClusterOf(f, b)]
<1>1. b \in Nat
  BY BlocksOfFile
<1>2. \A i, e \in Places : InUse(f, i, e) /\ ~GoneAt(start, i, e) =>
          /\ ClusterOn(f, i, e)' = ClusterOn(f, i, e)
          /\ disk'[ClusterOn(f, i, e)] = d[ClusterOn(f, i, e)]
  BY DEF CutStays
<1>3. CASE b < I_LEV_DATA_POINTERS
  <2>1. b \in IEntries /\ InUse(f, b, HERE) /\ ClusterOn(f, b, HERE) = ClusterOf(f, b)
    BY <1>3, PlacesOfFile
  <2>2. b \in Places /\ HERE \in Places /\ b # HERE
    BY <2>1, PlacesAre
  <2>3. ~GoneAt(start, b, HERE)
    BY <2>1, StaysBefore
  <2>4. ClusterOn(f, b, HERE)' = ClusterOf(f, b)'
    BY <1>3, <2>2 DEF ClusterOn, On, ClusterOf
  <2> QED
    BY <1>2, <2>1, <2>2, <2>3, <2>4
<1>4. CASE b >= I_LEV_DATA_POINTERS
  <2>0. PICK i, e : i = IIEntry(b) /\ e = InII(b)
    OBVIOUS
  <2>1. /\ i \in SecondEntries /\ e \in Entries /\ b = BlockAt(i, e)
        /\ InUse(f, i, e) /\ ClusterOn(f, i, e) = ClusterOf(f, b)
    BY <1>4, <2>0, PlacesOfFile
  <2>2. i \in Places /\ i \in Entries /\ e \in Places /\ i # HERE /\ e # HERE
    BY <2>1, PlacesAre
  <2>3. ~GoneAt(start, i, e)
    BY <2>1, StaysBefore
  <2>4. ClusterOn(f, i, e)' = ClusterOf(f, b)'
    <3>1. slot'[f] \in SlotType /\ disk' \in DiskType
      BY DEF TypeOK, SlotType, SlotRecord, DiskType
    <3>2. \A x \in Clusters : Store(f)'[x].pointers = IIOf(f, x)'
      BY <3>1, FlushedType DEF Store, IIOf
    <3>3. IndexOf(f)' \in [Entries -> Clusters]
      BY DEF TypeOK, IndexOf
    <3>4. ClusterOf(f, b)' = IIOf(f, IndexOf(f)[i])'[e]
      <4>1. ~(b < I_LEV_DATA_POINTERS)
        BY <1>1, <1>4, Geometry
      <4> QED
        BY <2>0, <4>1 DEF ClusterOf
    <3>5. ClusterOn(f, i, e)' = Store(f)'[IndexOf(f)'[i]].pointers[e]
      BY <2>2 DEF ClusterOn, On
    <3>6. IndexOf(f)'[i] \in Clusters
      BY <2>2, <3>3
    <3> QED
      BY <3>2, <3>4, <3>5, <3>6
  <2> QED
    BY <1>2, <2>1, <2>2, <2>3, <2>4
<1> QED
  BY <1>1, <1>3, <1>4, Geometry

LEMMA CutContent ==
    ASSUME FilesFit, Inv, TypeOK', NEW f \in Files, IsFile(f), NEW start \in Nat, start <= SizeOf(f),
           NEW d, CutStays(f, start, d),
           \A c \in Clusters : c \in allocated /\ (\A i \in SecondEntries : c # IndexOf(f)[i]) => d[c] = disk[c]
    PROVE  Content(f)' = SubSeq(Content(f), 1, start)
<1>0. PICK n, F, G : n = SizeOf(f) /\ F = Content(f) /\ G = Content(f)'
  OBVIOUS
<1>1. n \in Nat /\ F \in [1..n -> Octets] /\ \A k \in 1..n : F[k] = ByteAt(f, k - 1)
  BY <1>0, ContentIs
<1>2. SizeOf(f)' = start
  BY DEF CutStays
<1>3. G = [k \in 1..start |-> ByteAt(f, k - 1)']
  BY <1>0, <1>2 DEF Content
<1>4. ASSUME NEW p \in 0..start - 1
      PROVE  ByteAt(f, p)' = ByteAt(f, p)
  <2>1. p \in 0..SizeOf(f) - 1
    BY <1>0, <1>1
  <2>2. Block(p) \in 0..Blocks(f) - 1
    BY <2>1, BytesOfFile
  <2>3. Block(p) < FirstFreed(start)
    <3>1. \A q \in 0..start - 1 : q \div ClusterSize < UpTo(start, ClusterSize)
      BY RoundsUp, Geometry
    <3> QED
      BY <3>1, FirstFreedRoundsUp DEF Block
  <2>4. PICK x : x = ClusterOf(f, Block(p))
    OBVIOUS
  <2>5. ClusterOf(f, Block(p))' = x /\ disk'[x] = d[x]
    BY <2>2, <2>3, <2>4, CutBlocks
  <2>6. d[x] = disk[x]
    BY <2>2, <2>4, BlocksOfFile
  <2> QED
    BY <2>4, <2>5, <2>6 DEF ByteAt
<1>5. \A k \in 1..start : G[k] = F[k]
  <2> TAKE k \in 1..start
  <2>1. k - 1 \in 0..start - 1 /\ k \in 1..n
    BY <1>0, <1>1
  <2>2. ByteAt(f, k - 1)' = ByteAt(f, k - 1)
    BY <1>4, <2>1
  <2> QED
    BY <1>1, <1>3, <2>1, <2>2
<1>6. G = [k \in 1..start |-> G[k]]
  BY <1>3
<1>7. start \in 0..n
  BY <1>0, <1>1
<1>8. G = SubSeq(F, 1, start)
  BY <1>1, <1>5, <1>6, <1>7, ShorterFunction
<1> QED
  BY <1>0, <1>8

LEMMA CutMaps ==
    ASSUME FilesFit, AbsentIsNoFile, Inv, TypeOK', NEW f \in Files, Frame(f), IsOpen(f),
           NEW start \in Nat, start <= slot[f].size, NEW d, CutStays(f, start, d),
           \/ d = Flushed(disk, slot[f])
           \/ \E t \in Free : d = Flushed(Flushed(disk, slot[f]), WithII(slot[f], t))
    PROVE  /\ Promise!Move(f, slot[f].at, "open", start, SubSeq(Kept(f), 1, start))
           /\ ret' = Nothing
<1>1. /\ IsFile(f) /\ Kept(f) = Content(f) /\ SizeOf(f) = slot[f].size /\ IndexOf(f) = slot[f].index
      /\ slot[f] \in SlotType /\ disk \in DiskType /\ slot[f].at # "lost" /\ Exists(f)
  BY OpenFile DEF At
<1>2. ASSUME NEW c \in Clusters, c \in allocated, \A i \in SecondEntries : c # IndexOf(f)[i]
      PROVE  d[c] = disk[c]
  <2>1. slot[f].IILevel = "loaded" => slot[f].IInum # c
    BY <1>1, <1>2 DEF Inv, Loaded
  <2>2. Flushed(disk, slot[f])[c] = disk[c] /\ Flushed(disk, slot[f]) \in DiskType
    BY <1>1, <2>1, FlushedType DEF Flushed, DiskType
  <2>3. ASSUME NEW t \in Free, d = Flushed(Flushed(disk, slot[f]), WithII(slot[f], t))
        PROVE  d[c] = disk[c]
    <3>1. WithII(slot[f], t).IInum = t
      BY <1>1 DEF WithII, SlotType, SlotRecord
    <3>2. c # t
      BY <1>2 DEF Free
    <3> QED
      BY <2>2, <2>3, <3>1, <3>2 DEF Flushed, DiskType
  <2> QED
    BY <2>2, <2>3
<1>3. Content(f)' = SubSeq(Kept(f), 1, start)
  BY <1>1, <1>2, CutContent
<1>4. /\ slot'[f].at = "open" /\ slot'[f].cursor = start /\ slot'[f].mode = slot[f].mode
      /\ IsFile(f)' /\ ret' = Nothing
  BY DEF CutStays
<1>5. Kept(f)' = SubSeq(Kept(f), 1, start)
  BY <1>3, <1>4, OpenAfter DEF IsFile
<1>6. PICK s : s = SubSeq(Kept(f), 1, start)
  OBVIOUS
<1>7. PICK k : k = slot[f].at
  OBVIOUS
<1>8. Promise!Move(f, k, "open", start, s)
  BY <1>1, <1>4, <1>5, <1>6, <1>7, Moved
<1> QED
  BY <1>4, <1>6, <1>7, <1>8

LEMMA TruncateMaps ==
    ASSUME FilesFit, AbsentIsNoFile, Inv, TypeOK', NEW f \in Files, Frame(f), Truncate(f)
    PROVE  Promise!Truncate(f)
<1>1. IsOpen(f) /\ slot[f].at = "open" /\ slot[f].mode # "r"
  BY DEF Truncate, IsOpen, At
<1>2. CutStays(f, slot[f].cursor, Flushed(disk, slot[f]))
  BY TruncateKeeps
<1>3. PICK c : c = slot[f].cursor /\ c \in Nat /\ c <= slot[f].size
  BY <1>1, OpenFile
<1>4. Promise!Move(f, "open", "open", c, SubSeq(Kept(f), 1, c)) /\ ret' = Nothing
  BY <1>1, <1>2, <1>3, CutMaps
<1> QED
  BY <1>1, <1>3, <1>4, HandleIs DEF Promise!Truncate, Promise!Upto, At

LEMMA GrowFailsMaps ==
    ASSUME FilesFit, AbsentIsNoFile, Inv, TypeOK', GrowsUncut, NEW f \in Files, Frame(f), GrowFails(f)
    PROVE  Promise!Fail(f)
<1>1. IsOpen(f) /\ slot[f].at = "writes" /\ slot[f].cursor = slot[f].size
  BY DEF GrowFails, AtBoundary, IsOpen, At
<1>2. PICK c : c = slot[f].cursor - slot[f].done
  OBVIOUS
<1>3. /\ c \in Nat
      /\ \E d : /\ CutStays(f, c, d)
                /\ \/ d = Flushed(disk, slot[f])
                   \/ \E t \in Free : d = Flushed(Flushed(disk, slot[f]), WithII(slot[f], t))
  BY <1>2, GrowFailsKeeps
<1>4. c <= slot[f].size
  BY <1>1, <1>2, OpenFile
<1>5. Promise!Move(f, "writes", "open", c, SubSeq(Kept(f), 1, c)) /\ ret' = Nothing
  BY <1>1, <1>3, <1>4, CutMaps
<1>6. User(f).begin = c
  BY <1>1, <1>2 DEF User, At
<1> QED
  BY <1>5, <1>6, HandleIs DEF Promise!Fail, Promise!Upto

-----------------------------------------------------------------------------
\* A file is closed: what was in memory is on the partition.

LEMMA ClosedContent ==
    ASSUME FilesFit, AbsentIsNoFile, Inv, TypeOK', NEW f \in Files, Close(f)
    PROVE  Content(f)' = Content(f) /\ Exists(f)'
<1> DEFINE s == slot[f]
<1>1. /\ IsFile(f) /\ IndexOf(f) = s.index /\ SizeOf(f) = s.size /\ NumOf(f) = s.num /\ IsOpen(f)
      /\ s \in SlotType /\ slot \in [Files -> SlotType] /\ disk \in DiskType /\ s.num = dir[f].num /\ Exists(f)
  BY OpenFile DEF Close, IsOpen, At
<1>2. /\ disk' = Flushed([disk EXCEPT ![s.num] = AsIndex(s.index)], s)
      /\ dir' = IF s.mode = "r" THEN dir ELSE [dir EXCEPT ![f].size = s.size]
      /\ slot'[f] = Closed
  BY <1>1 DEF Close
<1>3. dir'[f].num = s.num /\ dir'[f].size = s.size /\ Exists(f)'
  <2>1. dir \in [Files -> [num : Clusters, size : Nat]] /\ (s.mode = "r" => s.size = dir[f].size)
    BY <1>1 DEF Inv, TypeOK, Handle
  <2> QED
    BY <1>1, <1>2, <2>1 DEF Exists
<1>4. SizeOf(f)' = SizeOf(f) /\ IndexOf(f)' = disk'[s.num].pointers
  BY <1>1, <1>2, <1>3 DEF SizeOf, IndexOf, At, Closed
<1>5. PICK e : e = [disk EXCEPT ![s.num] = AsIndex(s.index)]
  OBVIOUS
<1>6. /\ e \in DiskType /\ e[s.num].pointers = s.index
      /\ \A c \in Clusters : c # s.num => e[c] = disk[c]
  BY <1>1, <1>5 DEF DiskType, SlotType, SlotRecord, AsIndex, Blank
<1>7. disk' = Flushed(e, s) /\ disk' \in DiskType
      /\ \A c \in Clusters : disk'[c].pointers = IF s.IILevel = "loaded" /\ s.IInum = c THEN s.II ELSE e[c].pointers
  BY <1>1, <1>2, <1>5, <1>6, FlushedType
<1>8. \A c \in Clusters : Store(f)[c].pointers
         = IF s.IILevel = "loaded" /\ s.IInum = c THEN s.II ELSE disk[c].pointers
  BY StoreIs DEF Inv
<1>9. Store(f)' = disk'
  BY <1>2 DEF Store, Flushed, Closed
<1>10. s.IILevel = "loaded" => \E i \in SecondEntries : s.IInum = s.index[i]
  BY <1>1 DEF Inv, Loaded
<1>11. s.num \in Clusters
  BY <1>1 DEF SlotType, SlotRecord
<1> HIDE DEF s
<1>12. ASSUME NEW p \in 0..SizeOf(f) - 1
       PROVE  ByteAt(f, p)' = ByteAt(f, p)
  <2>1. Block(p) \in 0..Blocks(f) - 1
    BY <1>1, BytesOfFile
  <2>2. PICK b, x : b = Block(p) /\ x = ClusterOf(f, b)
    OBVIOUS
  <2>3. /\ b \in Nat /\ x \in Clusters /\ x # s.num
        /\ \A i \in SecondEntries : x # s.index[i] /\ s.num # s.index[i]
        /\ b >= I_LEV_DATA_POINTERS => IIEntry(b) \in SecondEntries /\ s.index[IIEntry(b)] \in Clusters
    BY <1>1, <2>1, <2>2, BlocksOfFile
  <2>4. s.IILevel = "loaded" => s.IInum # x /\ s.IInum # s.num
    BY <1>10, <2>3
  <2>5. IndexOf(f)' = IndexOf(f)
    BY <1>1, <1>4, <1>6, <1>7, <1>11, <2>4
  <2>6. disk'[x] = disk[x]
    BY <1>6, <1>7, <2>3, <2>4 DEF Flushed, DiskType
  <2>7. b >= I_LEV_DATA_POINTERS =>
           Store(f)'[s.index[IIEntry(b)]].pointers = Store(f)[s.index[IIEntry(b)]].pointers
    BY <1>6, <1>7, <1>8, <1>9, <2>3
  <2>8. KeepsBlock(f, b)
    BY <1>1, <2>3, <2>5, <2>7, Geometry DEF KeepsBlock
  <2> QED
    BY <1>1, <2>2, <2>6, <2>8, ByteStays
<1>13. \A k \in 1..SizeOf(f) : k - 1 \in 0..SizeOf(f) - 1
  BY FileTypes DEF Inv
<1>14. \A k \in 1..SizeOf(f) : ByteAt(f, k - 1)' = ByteAt(f, k - 1)
  BY <1>12, <1>13
<1> QED
  BY <1>3, <1>4, <1>14 DEF Content

LEMMA CloseMaps ==
    ASSUME FilesFit, AbsentIsNoFile, Inv, TypeOK', NEW f \in Files, Frame(f), Close(f)
    PROVE  Promise!Close(f)
<1>1. IsOpen(f) /\ slot[f].at = "open" /\ ret' = Nothing
  BY DEF Close, IsOpen, At
<1>2. slot'[f] = Closed
  BY <1>1, OpenFile DEF Close
<1>3. User(f)' = Promise!Closed
  BY <1>2 DEF User, At, Closed, Promise!Closed
<1>4. Kept(f)' = Kept(f)
  <2>1. Content(f)' = Content(f) /\ Exists(f)'
    BY ClosedContent
  <2> QED
    BY <1>1, <1>2, <2>1, OpenFile DEF Kept, At, Closed
<1>5. [g \in Files |-> Kept(g)]' = [g \in Files |-> Kept(g)]
  BY <1>4 DEF Frame
<1> QED
  BY <1>1, <1>3, <1>5, FileChanged, HandleIs DEF Promise!Close, Promise!At

-----------------------------------------------------------------------------
\* The files stay steady.

LEMMA InitIsSteady == Init => \A f \in Files : Steady(f)
BY DEF Init, Steady, At, IsOpen, Closed

LEMMA OthersStaySteady ==
    ASSUME FilesFit, Inv, TypeOK', GrowsUncut, NEW f \in Files, Step(f), disk' = disk \/ Within(f),
           NEW g \in Files, g # f, Steady(g)
    PROVE  Steady(g)'
<1>1. slot'[g] = slot[g] /\ dir'[g] = dir[g]
  BY StepFrame DEF Inv
<1>2. At(g, "rewrites")' => slot'[g].mode = "w"
  BY <1>1 DEF Steady, At
<1> SUFFICES ASSUME IsOpen(g), slot[g].mode = "r", slot[g].IILevel = "loaded", NEW i \in SecondEntries,
                    InUse(g, i, HERE)', slot[g].index[i] = slot[g].IInum
             PROVE  slot[g].II = disk'[slot[g].IInum].pointers
  <2>1. IsOpen(g)' => IsOpen(g) /\ IndexOf(g)' = slot[g].index
    BY <1>1 DEF IsOpen, IndexOf, At
  <2> QED
    BY <1>1, <1>2, <2>1 DEF Steady
<1>3. PICK c : c = slot[g].IInum
  OBVIOUS
<1>4. ~At(g, "closed") /\ IndexOf(g) = slot[g].index /\ IsFile(g) /\ i \in Entries /\ i # HERE
  BY PlacesAre DEF IsOpen, At, IndexOf, IsFile, Inv, Handle
<1>5. Live(allocated', c) /\ c = IndexOf(g)[i]
  BY <1>1, <1>3, <1>4, PlacesAre DEF InUse, Held, IndexOf, At
<1>6. InUse(g, i, HERE)
  <2>1. CASE cut # {}
    BY <1>4, <1>5, <2>1, PlacesAre DEF GrowsUncut, InUse, Held, Live
  <2>2. CASE cut = {}
    <3>1. /\ Ends(IndexOf(g), allocated, Store(g), Blocks(g))
          /\ Covers(IndexOf(g), allocated, Store(g), Blocks(g))
      BY <1>4, <2>2 DEF Inv, Layout
    <3>2. Blocks(g) \in Nat /\ BlockAt(i, 0) \in Nat
      BY FileTypes, FileNumbers, SecondBlocks, Geometry DEF Inv
    <3>3. ~(BlockAt(i, 0) >= Blocks(g))
      BY <1>5, <3>1 DEF Ends, Live
    <3> QED
      BY <1>4, <3>1, <3>2, <3>3 DEF Covers, InUse
  <2> QED
    BY <2>1, <2>2
<1>7. slot[g].II = disk[c].pointers
  BY <1>3, <1>4, <1>5, <1>6 DEF Steady
<1>8. disk'[c] = disk[c]
  <2>1. ClusterOn(g, i, HERE) = c
    BY <1>4, <1>5 DEF ClusterOn, On
  <2>2. c \in allocated /\ c \in Data
    BY <1>6, <2>1, UsedIsAllocatedData, PlacesAre
  <2>3. c \notin Used(f)
    BY <1>6, <2>1, PlacesAre DEF Used, Inv, Distinct
  <2> QED
    BY <2>2, <2>3 DEF Within, Free, Clusters
<1> QED
  BY <1>3, <1>7, <1>8

LEMMA OwnStaysSteady ==
    ASSUME FilesFit, AbsentIsNoFile, Inv, GrowsUncut, NEW f \in Files, Step(f), Steady(f)
    PROVE  Steady(f)'
<1>0. /\ slot \in [Files -> SlotType] /\ slot[f] \in SlotType
      /\ dir \in [Files -> [num : Clusters, size : Nat]]
  BY DiskTypes, FileTypes DEF Inv, TypeOK
<1>1. ASSUME slot'[f].at \in {"open", "writes"}, slot'[f].mode # "r" PROVE Steady(f)'
  BY <1>1 DEF Steady, At
<1>2. ASSUME slot'[f].at \in {"closed", "lost"} PROVE Steady(f)'
  BY <1>2 DEF Steady, At, IsOpen
<1>3. CASE Create(f) \/ Rewrite(f)
  <2>1. PICK c \in Free : slot' = [slot EXCEPT ![f] = Created("w", c)]
    BY <1>3, AnswersFree DEF Create, Rewrite
  <2> QED
    BY <1>0, <1>1, <2>1 DEF Created, Closed
<1>4. CASE CreateFails(f) \/ RewriteFails(f) \/ GrowLoses(f)
  <2>1. slot'[f].at = "lost"
    BY <1>0, <1>4 DEF CreateFails, RewriteFails, GrowLoses, SlotType, SlotRecord
  <2> QED
    BY <1>2, <2>1
<1>5. CASE Reopen(f, "r") \/ Reopen(f, "a")
  <2>1. /\ slot'[f].at = "open" /\ disk' = disk
        /\ slot'[f].IILevel = "loaded" => slot'[f].II = disk[slot'[f].IInum].pointers
    <3>1. PICK mode : Reopen(f, mode)
      BY <1>5
    <3> QED
      BY <1>0, <3>1, ReopenSlot DEF Reopen
  <2> QED
    BY SMTT(30), <2>1 DEF Steady, At
<1>6. CASE Discard(f)
  <2>1. slot'[f].at = "rewrites" /\ slot'[f].mode = "w"
    BY <1>0, <1>6 DEF Discard, Created, Closed
  <2> QED
    BY <2>1 DEF Steady, IsOpen
<1>7. CASE \E n \in Lengths : WriteCall(f, n)
  <2>1. slot'[f].at = "writes" /\ slot'[f].mode # "r"
    BY <1>0, <1>7 DEF WriteCall, SlotType, SlotRecord
  <2> QED
    BY <1>1, <2>1
<1>8. CASE \E v \in Writes(f, slot[f].cursor) : Put(f, v)
  <2>1. PICK v \in Writes(f, slot[f].cursor) : Put(f, v)
    BY <1>8
  <2>2. At(f, "writes") /\ slot[f].mode # "r"
    BY <2>1, Written DEF Put, Extend, Overwrite, Grow, GrowII, AtBoundary, At
  <2>3. slot'[f].at \in {"open", "writes"} /\ slot'[f].mode = slot[f].mode
    <3>1. CASE Extend(f, v) \/ Overwrite(f, v)
      <4>1. InPlace(f, v)
        BY <2>1, <3>1, ExtendKeeps, OverwriteKeeps
      <4>2. slot'[f] = Rounded(slot[f], 1) /\ slot[f].left > 0
        BY <1>0, <2>1, <2>2, <4>1, Written DEF InPlace, WriteTo
      <4> QED
        BY <1>0, <4>2, Rounds
    <3>2. CASE Grow(f, v) \/ GrowII(f, v)
      <4>1. AtNewEnd(f, v, disk) \/ AtNewEnd(f, v, Flushed(disk, slot[f]))
        BY <2>1, <3>2, GrowKeeps, GrowIIKeeps
      <4> QED
        BY <4>1 DEF AtNewEnd, ByteDone
    <3> QED
      BY <2>1, <3>1, <3>2 DEF Put
  <2> QED
    BY <1>1, <2>2, <2>3
<1>9. CASE GrowFails(f) \/ Truncate(f)
  <2>1. slot'[f].at = "open" /\ slot'[f].mode # "r"
    <3>1. slot[f].mode # "r"
      BY <1>9 DEF GrowFails, Truncate, AtBoundary, Inv, Handle, At
    <3>2. \E start, d : CutStays(f, start, d)
      BY <1>9, TruncateKeeps, GrowFailsKeeps
    <3> QED
      BY <3>1, <3>2 DEF CutStays
  <2> QED
    BY <1>1, <2>1
<1>10. CASE Read(f) \/ Seek(f)
  <2>1. /\ slot[f].at = "open" /\ disk' = disk /\ dir' = dir /\ allocated' = allocated
        /\ \E c : slot' = [slot EXCEPT ![f].cursor = c]
    BY <1>10 DEF Read, Seek, At
  <2>2. /\ slot'[f].at = "open" /\ slot'[f].mode = slot[f].mode /\ slot'[f].index = slot[f].index
        /\ slot'[f].IILevel = slot[f].IILevel /\ slot'[f].II = slot[f].II /\ slot'[f].IInum = slot[f].IInum
    BY <1>0, <2>1 DEF SlotType, SlotRecord
  <2>3. IndexOf(f)' = IndexOf(f) /\ (IsFile(f)' <=> IsFile(f))
    BY <2>1, <2>2 DEF IndexOf, IsFile, Exists, At
  <2>4. \A i \in SecondEntries : InUse(f, i, HERE)' => InUse(f, i, HERE)
    BY <2>1, <2>3, PlacesAre DEF InUse, Held
  <2> QED
    BY <2>1, <2>2, <2>3, <2>4 DEF Steady, IsOpen, At
<1>11. CASE Close(f) \/ Delete(f)
  <2>1. slot'[f].at = "closed"
    BY <1>0, <1>11 DEF Close, Delete, At, Closed
  <2> QED
    BY <1>2, <2>1
<1> QED
  BY <1>3, <1>4, <1>5, <1>6, <1>7, <1>8, <1>9, <1>10, <1>11 DEF Step

-----------------------------------------------------------------------------
\* The refinement

LEMMA PutBytesMaps ==
    ASSUME FilesFit, AbsentIsNoFile, Inv, TypeOK', GrowsUncut, NEW f \in Files, Frame(f),
           NEW v \in Writes(f, slot[f].cursor), Put(f, v)
    PROVE  v \in Bytes /\ Promise!Put(f, v)
<1>1. At(f, "writes") /\ v \in Bytes
  BY Written DEF Put, Extend, Overwrite, Grow, GrowII, AtBoundary, At
<1>2. CASE Extend(f, v) \/ Overwrite(f, v)
  <2>1. InPlace(f, v)
    BY <1>2, ExtendKeeps, OverwriteKeeps
  <2> QED
    BY <1>1, <2>1, PutInPlaceMaps
<1>3. CASE Grow(f, v) \/ GrowII(f, v)
  <2>1. AtNewEnd(f, v, disk) \/ AtNewEnd(f, v, Flushed(disk, slot[f]))
    BY <1>3, GrowKeeps, GrowIIKeeps
  <2>2. slot[f].cursor = slot[f].size /\ dir' = dir /\ ret' = Nothing
    BY <1>3 DEF Grow, GrowII, AtBoundary, WriteTo
  <2> QED
    BY <1>1, <2>1, <2>2, PutAtEndMaps
<1> QED
  BY <1>1, <1>2, <1>3 DEF Put

LEMMA StepMaps ==
    ASSUME FilesFit, AbsentIsNoFile, Inv, Inv', VectorKept, GrowsUncut, ReadsBack, NEW f \in Files,
           Steady(f), Step(f)
    PROVE  Promise!Next
<1>1. Frame(f) /\ TypeOK'
  BY OthersFramed DEF Inv
<1>2. CASE Create(f)
  BY <1>1, <1>2, CreateMaps DEF Promise!Next
<1>3. CASE CreateFails(f) \/ RewriteFails(f) \/ GrowLoses(f)
  BY <1>1, <1>3, LosesMaps DEF Promise!Next
<1>4. CASE Reopen(f, "r") \/ Reopen(f, "a")
  BY <1>1, <1>4, ReopenMaps DEF Promise!Next
<1>5. CASE Discard(f)
  BY <1>1, <1>5, DiscardMaps DEF Promise!Next
<1>6. CASE Rewrite(f)
  <2>1. slot[f].mode = "w"
    BY <1>6 DEF Rewrite, Steady
  <2> QED
    BY <1>1, <1>6, <2>1, RewriteMaps DEF Promise!Next
<1>7. CASE \E n \in Lengths : WriteCall(f, n)
  BY <1>1, <1>7, WriteCallMaps DEF Promise!Next
<1>8. CASE \E v \in Writes(f, slot[f].cursor) : Put(f, v)
  BY <1>1, <1>8, PutBytesMaps DEF Promise!Next
<1>9. CASE GrowFails(f)
  BY <1>1, <1>9, GrowFailsMaps DEF Promise!Next
<1>10. CASE Read(f)
  BY <1>1, <1>10, ReadMaps DEF Promise!Next
<1>11. CASE Seek(f)
  BY <1>1, <1>11, SeekMaps DEF Promise!Next
<1>12. CASE Truncate(f)
  BY <1>1, <1>12, TruncateMaps DEF Promise!Next
<1>13. CASE Close(f)
  BY <1>1, <1>13, CloseMaps DEF Promise!Next
<1>14. CASE Delete(f)
  BY <1>1, <1>14, DeleteMaps DEF Promise!Next
<1> QED
  BY <1>2, <1>3, <1>4, <1>5, <1>6, <1>7, <1>8, <1>9, <1>10, <1>11, <1>12, <1>13, <1>14 DEF Step

LEMMA StepStaysSteady ==
    ASSUME FilesFit, AbsentIsNoFile, Inv, Inv', VectorKept, GrowsUncut, \A f \in Files : Steady(f), Next
    PROVE  \A f \in Files : Steady(f)'
<1>1. PICK f \in Files : Step(f)
  BY DEF Next
<1>2. disk' = disk \/ Within(f)
  BY <1>1, StepChanges
<1>3. TypeOK'
  BY DEF Inv
<1> QED
  BY <1>1, <1>2, <1>3, OthersStaySteady, OwnStaysSteady

LEMMA InitMaps == Init => Promise!Init
<1> SUFFICES ASSUME Init PROVE Promise!Init
  OBVIOUS
<1>1. \A f \in Files : Kept(f) = Absent /\ User(f) = Promise!Closed
  BY DEF Init, Kept, User, Exists, At, NoEntry, Closed, Promise!Closed
<1> QED
  BY <1>1 DEF Promise!Init, Init

LEMMA StutterMaps ==
    ASSUME UNCHANGED vars
    PROVE  /\ (\A f \in Files : Steady(f)) => (\A f \in Files : Steady(f)')
           /\ UNCHANGED Promise!vars
<1>1. \A f \in Files : Kept(f)' = Kept(f) /\ User(f)' = User(f) /\ (Steady(f)' <=> Steady(f))
  BY DEF vars, Kept, User, Exists, At, Content, ByteAt, ClusterOf, IndexOf, IIOf, SizeOf, NumOf, Steady,
         IsOpen, InUse, Held, IsFile, Store
<1> QED
  BY <1>1 DEF Promise!vars, vars

\* KernelFile implements ByteFiles: a program sees each file as a sequence of bytes,
\* and every operation of kernel_file.cpp and kernel_fs.cpp on a file, whatever the
\* interleaving with operations on other files and whichever of them find no cluster,
\* is one step of such a file or none.  The hypotheses are that the index of a file of
\* the largest size has room, that a missing file is told from one that exists, and
\* that programs grow no file that was cut and read the second level back as ReadsBack
\* says; Spec already has them overwrite the second level only through the index in
\* memory.
THEOREM FilesAreBytes ==
    FilesFit /\ AbsentIsNoFile =>
        (Spec /\ [][GrowsUncut]_vars /\ [][ReadsBack]_vars => ImplementsByteFiles)
<1> SUFFICES ASSUME FilesFit, AbsentIsNoFile
             PROVE  Spec /\ [][GrowsUncut]_vars /\ [][ReadsBack]_vars => ImplementsByteFiles
  OBVIOUS
<1> DEFINE Keeps == VectorKept /\ \A f \in Files : Steady(f)
           Maps  == [Promise!Next]_(Promise!vars)
<1>1. Init => Keeps
  BY InitIsSteady DEF Init, VectorKept, Clusters
<1>2. Inv /\ Inv' /\ Keeps /\ [Next]_vars /\ [GrowsUncut]_vars => Keeps'
  <2> SUFFICES ASSUME Inv, Inv', VectorKept, \A f \in Files : Steady(f),
                      [Next]_vars, [GrowsUncut]_vars
               PROVE  VectorKept' /\ \A f \in Files : Steady(f)'
    OBVIOUS
  <2>1. CASE UNCHANGED vars
    <3>1. disk' = disk /\ slot' = slot /\ cut' = cut
      BY <2>1 DEF vars
    <3>2. VectorKept'
      BY <3>1 DEF VectorKept, AsIndex, NoPointers, Blank
    <3> QED
      BY <2>1, <3>2, StutterMaps
  <2>2. CASE Next /\ GrowsUncut
    <3>1. VectorKept'
      BY <2>2, StepWithin DEF Next
    <3> QED
      BY <2>2, <3>1, StepStaysSteady
  <2>3. CASE Next /\ UNCHANGED vars
    BY <2>1, <2>3
  <2> QED
    BY <2>1, <2>2, <2>3
<1>3. Inv /\ Inv' /\ Keeps /\ [Next]_vars /\ [GrowsUncut]_vars /\ [ReadsBack]_vars => Maps
  <2> SUFFICES ASSUME Inv, Inv', VectorKept, \A f \in Files : Steady(f),
                      [Next]_vars, [GrowsUncut]_vars, [ReadsBack]_vars
               PROVE  Promise!Next \/ UNCHANGED Promise!vars
    OBVIOUS
  <2>1. CASE UNCHANGED vars
    BY <2>1, StutterMaps
  <2>2. CASE Next /\ GrowsUncut /\ ReadsBack
    <3>1. PICK f \in Files : Step(f)
      BY <2>2 DEF Next
    <3> QED
      BY <2>2, <3>1, StepMaps
  <2> QED
    BY <2>1, <2>2
<1>4. Init => Promise!Init
  BY InitMaps
<1> QED
  BY <1>1, <1>2, <1>3, <1>4, LayoutInvariant, PTL DEF Spec, ImplementsByteFiles, Promise!Spec

=============================================================================

------------------------------ MODULE KernelFile ------------------------------
(***************************************************************************)
(* The layout of files (src/kernel_file.cpp) and the operations that build *)
(* it, follow it and take it apart: opening and closing                    *)
(* (src/glob_opn_file_table.cpp), truncation (KernelFS::deleteRestOfFile)  *)
(* and the walks that release clusters (deleteFile, deleteRestOfFile of    *)
(* src/part_cnt_blck.cpp).                                                 *)
(*                                                                         *)
(* An index cluster holds I_LEV_DATA_POINTERS pointers to data clusters    *)
(* and II_LEV_POINTERS to second-level indices, each with                  *)
(* II_LEV_DATA_POINTERS pointers to data clusters; it and one second-level *)
(* index are in memory while the file is open.  A write is a loop over     *)
(* bytes that takes a cluster when the cursor comes to a boundary.         *)
(*                                                                         *)
(* A file has one user at a time, the threads of different files           *)
(* interleave between bytes.  Allocation is what BitVectCtrl promises when *)
(* calls do not overlap: a free cluster, or none when there is none.       *)
(***************************************************************************)
EXTENDS Integers, FiniteSets

CONSTANTS
    Files,
    Deletable,             \* the file in entry 0 of the directory (see GlobOpenFileTable)
    Data,                  \* the data clusters of the partition
    Taken,                 \* sets of clusters that other files may have
    ClusterSize,           \* bytes of a cluster
    I_LEV_DATA_POINTERS, II_LEV_POINTERS, II_LEV_DATA_POINTERS,
    Bytes,
    Nothing, Absent,       \* no byte; the content of a file that does not exist
    Stale,                 \* what a slot may hold of a second level before one is set:
                           \* what its last file, of whatever partition, or nobody left
    MaxSize(_),            \* bound: the size of a file
    Lengths,               \* bound: how many bytes a call of write may have
    Writes(_, _),          \* the bytes that may be written to a file at a position
    Answers(_),            \* the free clusters allocateCluster may answer
    MayOpen(_, _, _, _, _), \* what the user does: see MCKernelFile
    MayWrite(_, _, _, _, _), MayRead(_, _), MaySeek(_, _, _), MayCut(_, _)

ASSUME LayoutAssumption ==
    /\ Deletable \subseteq Files
    /\ Data \subseteq Nat \ {0, 1} /\ IsFiniteSet(Data) /\ Taken \subseteq SUBSET Data
    /\ ClusterSize \in Nat \ {0}
    /\ I_LEV_DATA_POINTERS \in Nat \ {0} /\ II_LEV_POINTERS \in Nat \ {0}
    /\ II_LEV_DATA_POINTERS = I_LEV_DATA_POINTERS + II_LEV_POINTERS  \* both fill a cluster
    /\ Lengths \subseteq Nat \ {0} /\ \A f \in Files : MaxSize(f) \in Nat
    /\ \A f \in Files : \A p \in 0..MaxSize(f) : Writes(f, p) \subseteq Bytes
    /\ Stale \subseteq [IInum : Nat, IILevDataLeft : Int] /\ Stale # {}
    /\ \A S \in SUBSET Data : Answers(S) \subseteq S /\ (S # {} => Answers(S) # {})

NoCluster == 0                  \* the bit vector's: what a pointer never written leads to
Clusters  == Data \cup {NoCluster}
Entries   == 0..II_LEV_DATA_POINTERS - 1
IEntries  == 0..I_LEV_DATA_POINTERS - 1
IEnd      == I_LEV_DATA_POINTERS + II_LEV_POINTERS

VARIABLES
    allocated,  \* the clusters whose bit is set
    disk,       \* what a cluster holds, as bytes and as pointers
    dir,        \* the directory: index cluster (NoCluster: no file) and size
    slot,       \* the file's slot in the open file table and its user's KernelFile
    cut,        \* the files that have been truncated since they were created
    ret         \* the byte the latest call read

vars == <<allocated, disk, dir, slot, cut, ret>>

NoPointers == [e \in Entries |-> NoCluster]
Blank      == [i \in 0..ClusterSize - 1 |-> Nothing]
Free       == Data \ allocated

\* A whole cluster written as an index; one byte of a cluster.  (The bytes of a
\* file say nothing as pointers.)
AsIndex(g)        == [bytes |-> Blank, pointers |-> g]
WithByte(k, i, v) == [bytes |-> [k.bytes EXCEPT ![i] = v], pointers |-> NoPointers]

\* What a released cluster holds is not kept: nothing reads it before it is written.
Emptied(d, R) == [c \in Clusters |-> IF c \in R THEN AsIndex(NoPointers) ELSE d[c]]

NoEntry == [num |-> NoCluster, size |-> 0]

\* left, done: bytes of the write call still to come, and written.  A closed file has
\* no slot: what the slot it gets held before is said where it is opened.
Closed ==
    [at |-> "closed", mode |-> "r", cursor |-> 0, left |-> 0, done |-> 0, size |-> 0,
     num |-> NoCluster, index |-> NoPointers,
     IILevel |-> "none", II |-> NoPointers, IInum |-> NoCluster,
     ILevLeft |-> I_LEV_DATA_POINTERS, IILevDataLeft |-> 0, IILevLeft |-> II_LEV_POINTERS]

Exists(f) == dir[f].num # NoCluster
At(f, k)  == slot[f].at = k
Block(p)  == p \div ClusterSize
\* For a block of the second level: its index, the entry of that in the first level,
\* and the block's entry in it.
IIEntry(b)  == (b - I_LEV_DATA_POINTERS) \div II_LEV_DATA_POINTERS + I_LEV_DATA_POINTERS
InII(b)     == (b - I_LEV_DATA_POINTERS) % II_LEV_DATA_POINTERS

\* The loops over pointers all stop at the first that is 0 or whose cluster is not
\* allocated: the entries of g from i on, up to there.
Live(A, c) == c # NoCluster /\ c \in A
LiveRun(g, A, i, end) == {k \in i..end - 1 : \A l \in i..k : Live(A, g[l])}

-----------------------------------------------------------------------------
\* The first-level index of a file, and a second-level index of it, in memory or not.
IndexOf(f) == IF At(f, "closed") THEN disk[dir[f].num].pointers ELSE slot[f].index
NumOf(f)   == IF At(f, "closed") THEN dir[f].num ELSE slot[f].num
SizeOf(f)  == IF At(f, "closed") THEN dir[f].size ELSE slot[f].size
IIOf(f, c) ==
    IF slot[f].IILevel = "loaded" /\ slot[f].IInum = c THEN slot[f].II ELSE disk[c].pointers

\* Variant: the second-level indices themselves are not released.
WalkDataOnly(f) ==
    LET g == IndexOf(f)
        J == {j \in I_LEV_DATA_POINTERS..IEnd - 1 : Live(allocated, g[j])}
    IN  {NumOf(f)} \cup {g[i] : i \in LiveRun(g, allocated, 0, I_LEV_DATA_POINTERS)}
          \cup UNION {{IIOf(f, g[j])[k] :
                        k \in LiveRun(IIOf(f, g[j]), allocated, 0, II_LEV_DATA_POINTERS)} : j \in J}

\* PartControlBlock::deleteFile: the clusters it releases.
Walk(f) ==
    LET g == IndexOf(f)
        J == {j \in I_LEV_DATA_POINTERS..IEnd - 1 : Live(allocated, g[j])}
    IN  {NumOf(f)} \cup {g[i] : i \in LiveRun(g, allocated, 0, I_LEV_DATA_POINTERS)}
          \cup {g[j] : j \in J}
          \cup UNION {{IIOf(f, g[j])[k] :
                        k \in LiveRun(IIOf(f, g[j]), allocated, 0, II_LEV_DATA_POINTERS)} : j \in J}

\* Variant: the block of the cut goes too.
FirstFreedDown(start) == Block(start)

\* The first block that lies behind a cut.
FirstFreed(start) == IF start % ClusterSize = 0 THEN Block(start) ELSE Block(start) + 1

\* PartControlBlock::deleteRestOfFile: the clusters it releases of an index g, with
\* allocated clusters A and the second-level indices in d.  It counts their entries
\* by II_LEV_POINTERS; the second level begins where the subtraction of unsigned
\* numbers says, which is past the end when the cut is in the last block of the first.
Rest(g, A, d, start) ==
    LET q      == Block(start)
        inI    == q < I_LEV_DATA_POINTERS
        up     == FirstFreed(start)
        first  == IF inI THEN IF up < I_LEV_DATA_POINTERS THEN I_LEV_DATA_POINTERS ELSE IEnd
                  ELSE (q - I_LEV_DATA_POINTERS) \div II_LEV_POINTERS + I_LEV_DATA_POINTERS
        upII   == ((q - I_LEV_DATA_POINTERS) % II_LEV_POINTERS) + up - q
        J      == LiveRun(g, A, first, IEnd)
        From(j) == IF ~inI /\ j = first THEN upII ELSE 0
    IN  {g[i] : i \in LiveRun(g, A, up, I_LEV_DATA_POINTERS)}
          \cup {g[j] : j \in IF inI THEN J ELSE J \ {first}}
          \cup UNION {{d[g[j]].pointers[k] :
                        k \in LiveRun(d[g[j]].pointers, A, From(j), II_LEV_DATA_POINTERS)} : j \in J}

\* Variant: it is dropped.
NotFlushed(d, s) == d

\* The second-level index in memory goes to its cluster of d.
Flushed(d, s) == IF s.IILevel = "loaded" THEN [d EXCEPT ![s.IInum] = AsIndex(s.II)] ELSE d

\* KernelFS::deleteRestOfFile on the slot s: the file ends at start.  ILevLeft and
\* IILevDataLeft count the block of the cursor, also when nothing of it is left.
CutAt(f, s, A, d, start) ==
    LET q  == Block(start)
        d1 == Flushed(d, s)
        s1 == [s EXCEPT !.at = "open", !.left = 0, !.done = 0, !.cursor = start, !.size = start,
                        !.ILevLeft = I_LEV_DATA_POINTERS - q - 1]
        R  == Rest(s.index, A, d1, start)
    IN
    /\ disk' = Emptied(d1, R)
    /\ allocated' = A \ R
    /\ slot' = [slot EXCEPT ![f] =
         IF q < I_LEV_DATA_POINTERS
         THEN [s1 EXCEPT !.IILevel = "none", !.II = NoPointers, !.IInum = NoCluster,
                         !.IILevLeft = II_LEV_POINTERS, !.IILevDataLeft = 0]
         ELSE [s1 EXCEPT !.IILevel = "loaded", !.IInum = s.index[IIEntry(q)],
                         !.II = d1[s.index[IIEntry(q)]].pointers,
                         !.IILevLeft = II_LEV_POINTERS - (IIEntry(q) - I_LEV_DATA_POINTERS + 1),
                         !.IILevDataLeft = II_LEV_DATA_POINTERS - (InII(q) + 1)]]
    /\ cut' = cut \cup {f}
    /\ ret' = Nothing
    /\ UNCHANGED dir

-----------------------------------------------------------------------------
Init ==
    /\ allocated \in Taken
    /\ disk = [c \in Clusters |-> AsIndex(NoPointers)]
    /\ dir = [f \in Files |-> NoEntry]
    /\ slot = [f \in Files |-> Closed]
    /\ cut = {}
    /\ ret = Nothing

\* createEntry: a blank index, in memory.  The cluster keeps what it held.
Created(mode, c) == [Closed EXCEPT !.at = "open", !.mode = mode, !.num = c]

Create(f) ==
    /\ At(f, "closed") /\ ~Exists(f) /\ MayOpen(f, "w", slot, cut, allocated)
    /\ \E c \in Answers(Free) :
          /\ allocated' = allocated \cup {c}
          /\ dir' = [dir EXCEPT ![f] = [num |-> c, size |-> 0]]
          /\ slot' = [slot EXCEPT ![f] = Created("w", c)]
    /\ ret' = Nothing
    /\ UNCHANGED <<disk, cut>>

\* No cluster for the index: openFile makes a file of ~0, one with no slot.
CreateFails(f) ==
    /\ At(f, "closed") /\ ~Exists(f) /\ MayOpen(f, "w", slot, cut, allocated) /\ Free = {}
    /\ slot' = [slot EXCEPT ![f].at = "lost"]
    /\ ret' = Nothing
    /\ UNCHANGED <<allocated, disk, dir, cut>>

\* reopenEntry: the index is read and what is left of it counted again.  Where it
\* leads to no second-level index, IInum and IILevDataLeft stay as they were.
Reopen(f, mode) ==
    LET g == disk[dir[f].num].pointers
        I == Cardinality(LiveRun(g, allocated, 0, I_LEV_DATA_POINTERS))
        J == Cardinality(LiveRun(g, allocated, I_LEV_DATA_POINTERS, IEnd))
        c == g[I_LEV_DATA_POINTERS + J - 1]
        n == Cardinality(LiveRun(disk[c].pointers, allocated, 0, II_LEV_DATA_POINTERS))
        s == [Closed EXCEPT !.at = "open", !.mode = mode, !.size = dir[f].size,
                            !.cursor = IF mode = "a" THEN dir[f].size ELSE 0,
                            !.num = dir[f].num, !.index = g,
                            !.ILevLeft = I_LEV_DATA_POINTERS - I]
    IN
    /\ At(f, "closed") /\ Exists(f) /\ mode # "w" /\ MayOpen(f, mode, slot, cut, allocated)
    /\ \/ /\ J = 0
          /\ \E o \in Stale :
                slot' = [slot EXCEPT ![f] = [s EXCEPT !.IInum = o.IInum,
                                                      !.IILevDataLeft = o.IILevDataLeft]]
       \/ /\ J > 0
          /\ slot' = [slot EXCEPT ![f] =
                [s EXCEPT !.IILevel = "loaded", !.IInum = c, !.II = disk[c].pointers,
                          !.IILevLeft = II_LEV_POINTERS - J,
                          !.IILevDataLeft = II_LEV_DATA_POINTERS - n]]
    /\ ret' = Nothing
    /\ UNCHANGED <<allocated, disk, dir, cut>>

\* reopenGOFEntryWithDelete: the old clusters are released, ...
Discard(f) ==
    /\ At(f, "closed") /\ Exists(f) /\ MayOpen(f, "w", slot, cut, allocated)
    /\ allocated' = allocated \ Walk(f)
    /\ disk' = Emptied(disk, Walk(f))
    /\ slot' = [slot EXCEPT ![f] = [Created("w", NoCluster) EXCEPT !.at = "rewrites"]]
    /\ cut' = cut \ {f}
    /\ ret' = Nothing
    /\ UNCHANGED dir

\* Variant: the old index cluster serves again.
RewriteInPlace(f) ==
    /\ At(f, "rewrites")
    /\ dir' = [dir EXCEPT ![f].size = 0]
    /\ slot' = [slot EXCEPT ![f] = Created("w", dir[f].num)]
    /\ ret' = Nothing
    /\ UNCHANGED <<allocated, disk, cut>>

\* ... then a new index is allocated.
Rewrite(f) ==
    /\ At(f, "rewrites")
    /\ \E c \in Answers(Free) :
          /\ allocated' = allocated \cup {c}
          /\ dir' = [dir EXCEPT ![f] = [num |-> c, size |-> 0]]
          /\ slot' = [slot EXCEPT ![f] = Created("w", c)]
    /\ ret' = Nothing
    /\ UNCHANGED <<disk, cut>>

RewriteFails(f) ==
    /\ At(f, "rewrites") /\ Free = {}
    /\ slot' = [slot EXCEPT ![f].at = "lost"]
    /\ ret' = Nothing
    /\ UNCHANGED <<allocated, disk, dir, cut>>

-----------------------------------------------------------------------------
\* File::write with n bytes.
WriteCall(f, n) ==
    /\ At(f, "open") /\ slot[f].mode # "r" /\ slot[f].cursor + n <= MaxSize(f)
    /\ MayWrite(f, n, slot, cut, allocated)
    /\ slot' = [slot EXCEPT ![f].at = "writes", ![f].left = n, ![f].done = 0]
    /\ ret' = Nothing
    /\ UNCHANGED <<allocated, disk, dir, cut>>

\* Variant: the loop has a round too many.
RoundedAgain(s, far) ==
    [s EXCEPT !.cursor = @ + far, !.left = @ - 1, !.done = @ + 1,
              !.at = IF s.left = 0 THEN "open" ELSE "writes",
              !.size = IF far = 1 /\ s.cursor = @ THEN @ + 1 ELSE @]

\* One round of writeData's loop is over; the cursor is by far bytes further.
Rounded(s, far) ==
    [s EXCEPT !.cursor = @ + far, !.left = @ - 1, !.done = @ + 1,
              !.at = IF s.left = 1 THEN "open" ELSE "writes",
              !.size = IF far = 1 /\ s.cursor = @ THEN @ + 1 ELSE @]

\* The byte v goes to the cluster c of d; s is the slot.
WriteTo(f, s, c, v, d, far) ==
    /\ disk' = [d EXCEPT ![c] = WithByte(@, s.cursor % ClusterSize, v)]
    /\ slot' = [slot EXCEPT ![f] = Rounded(s, far)]
    /\ ret' = Nothing
    /\ UNCHANGED <<dir, cut>>

\* Variant: the first pointer that is free.
LastFree(s) ==
    IF Block(s.cursor) < I_LEV_DATA_POINTERS
    THEN s.index[I_LEV_DATA_POINTERS - s.ILevLeft]
    ELSE s.II[II_LEV_DATA_POINTERS - s.IILevDataLeft]

\* Where the byte that extends the file goes: by what is left, not by the cursor.
Last(s) ==
    IF Block(s.cursor) < I_LEV_DATA_POINTERS
    THEN s.index[I_LEV_DATA_POINTERS - s.ILevLeft - 1]
    ELSE s.II[II_LEV_DATA_POINTERS - s.IILevDataLeft - 1]

\* writeNewDataByte inside the last cluster.
Extend(f, v) ==
    LET s == slot[f] IN
    /\ At(f, "writes") /\ s.cursor = s.size /\ s.cursor % ClusterSize # 0
    /\ Block(s.cursor) >= I_LEV_DATA_POINTERS => s.IILevel = "loaded"
    /\ WriteTo(f, s, Last(s), v, disk, 1)
    /\ UNCHANGED allocated

\* ... before the end of the file,
Overwrite(f, v) ==
    LET s == slot[f]
        b == Block(s.cursor)
        c == IF b < I_LEV_DATA_POINTERS THEN s.index[b] ELSE s.II[InII(b)]
    IN
    /\ At(f, "writes") /\ s.cursor # s.size
    /\ b >= I_LEV_DATA_POINTERS => s.index[IIEntry(b)] = s.IInum
    /\ WriteTo(f, s, c, v, disk, 1)
    /\ UNCHANGED allocated

\* ... through a second-level index that is not the one in memory: the function
\* returns before it moves the cursor.
OverwriteFar(f, v) ==
    LET s == slot[f]
        b == Block(s.cursor)
    IN
    /\ At(f, "writes") /\ s.cursor # s.size /\ b >= I_LEV_DATA_POINTERS
    /\ s.index[IIEntry(b)] # s.IInum
    /\ WriteTo(f, s, disk[s.index[IIEntry(b)]].pointers[InII(b)], v, disk, 0)
    /\ UNCHANGED allocated

AtBoundary(s) == s.at = "writes" /\ s.cursor = s.size /\ s.cursor % ClusterSize = 0

\* At a boundary a cluster is allocated, before it, when the one in memory is full
\* or there is none, a second-level index.
NeedsII(s) ==
    /\ Block(s.cursor) >= I_LEV_DATA_POINTERS
    /\ s.IILevDataLeft = 0 \/ s.IILevel = "none"

\* Variant: it is not counted.
WithIIUncounted(s, t) ==
    [s EXCEPT !.index[II_LEV_POINTERS - s.IILevLeft + I_LEV_DATA_POINTERS] = t,
              !.IInum = t, !.IILevel = "loaded", !.II = NoPointers,
              !.IILevDataLeft = II_LEV_DATA_POINTERS]

WithII(s, t) ==
    [s EXCEPT !.index[II_LEV_POINTERS - s.IILevLeft + I_LEV_DATA_POINTERS] = t,
              !.IInum = t, !.IILevel = "loaded", !.II = NoPointers,
              !.IILevLeft = @ - 1, !.IILevDataLeft = II_LEV_DATA_POINTERS]
WithCluster(s, c) ==
    LET b == Block(s.cursor) IN
    IF b < I_LEV_DATA_POINTERS
    THEN [s EXCEPT !.index[b] = c, !.ILevLeft = @ - 1]
    ELSE [s EXCEPT !.II[InII(b)] = c, !.IILevDataLeft = @ - 1]

Grow(f, v) ==
    LET s == slot[f] IN
    /\ AtBoundary(s) /\ ~NeedsII(s)
    /\ \E c \in Answers(Free) :
          /\ allocated' = allocated \cup {c}
          /\ WriteTo(f, WithCluster(s, c), Last(WithCluster(s, c)), v, disk, 1)

GrowII(f, v) ==
    LET s == slot[f] IN
    /\ AtBoundary(s) /\ NeedsII(s) /\ s.IILevLeft > 0
    /\ \E t \in Answers(Free) : \E c \in Answers(Free \ {t}) :
          LET s1 == WithCluster(WithII(s, t), c) IN
          /\ allocated' = allocated \cup {t, c}
          /\ WriteTo(f, s1, Last(s1), v, Flushed(disk, s), 1)

\* No cluster is left for the data: the file is cut where the call began.  The
\* index allocated for it just before is in place.
GrowFails(f) ==
    LET s == slot[f] IN
    /\ AtBoundary(s) /\ s.cursor >= s.done
    /\ \/ /\ ~NeedsII(s) \/ s.IILevel = "none"
          /\ Free = {}
          /\ CutAt(f, s, allocated, disk, s.cursor - s.done)
       \/ /\ NeedsII(s) /\ s.IILevLeft > 0
          /\ \E t \in Free : Free = {t}
                /\ CutAt(f, WithII(s, t), allocated \cup {t}, Flushed(disk, s), s.cursor - s.done)

\* No second-level index can be had after the old one has been deleted: its memory
\* is used and freed again.  (Nothing is said of the file from there on.)
GrowLoses(f) ==
    LET s == slot[f] IN
    /\ AtBoundary(s) /\ NeedsII(s) /\ s.IILevel = "loaded"
    /\ s.IILevLeft = 0 \/ Free = {}
    /\ disk' = Flushed(disk, s)
    /\ slot' = [slot EXCEPT ![f].at = "lost"]
    /\ ret' = Nothing
    /\ UNCHANGED <<allocated, dir, cut>>

-----------------------------------------------------------------------------
\* Where readDataByte looks for a byte: the second-level index it takes is the
\* partition's, the one in memory may be newer.
ReadFrom(s, b) ==
    IF b < I_LEV_DATA_POINTERS THEN s.index[b] ELSE disk[s.index[IIEntry(b)]].pointers[InII(b)]

\* One round of readData's loop.
Read(f) ==
    LET s == slot[f] IN
    /\ At(f, "open") /\ MayRead(s, allocated)
    /\ IF s.cursor >= s.size
       THEN slot' = [slot EXCEPT ![f].cursor = s.size] /\ ret' = Nothing
       ELSE /\ slot' = [slot EXCEPT ![f].cursor = @ + 1]
            /\ ret' = disk[ReadFrom(s, Block(s.cursor))].bytes[s.cursor % ClusterSize]
    /\ UNCHANGED <<allocated, disk, dir, cut>>

Seek(f) ==
    /\ At(f, "open")
    /\ \E p \in 0..slot[f].size :
          MaySeek(f, p, allocated) /\ slot' = [slot EXCEPT ![f].cursor = p]
    /\ ret' = Nothing
    /\ UNCHANGED <<allocated, disk, dir, cut>>

Truncate(f) ==
    /\ At(f, "open") /\ slot[f].mode # "r" /\ MayCut(f, slot)
    /\ CutAt(f, slot[f], allocated, disk, slot[f].cursor)

\* closeEntry: the indices are written back, the directory gets the size.
Close(f) ==
    LET s == slot[f] IN
    /\ At(f, "open")
    /\ disk' = Flushed([disk EXCEPT ![s.num] = AsIndex(s.index)], s)
    /\ dir' = IF s.mode = "r" THEN dir ELSE [dir EXCEPT ![f].size = s.size]
    /\ slot' = [slot EXCEPT ![f] = Closed]
    /\ ret' = Nothing
    /\ UNCHANGED <<allocated, cut>>

\* GlobOpenFileTable::deleteFile, of the one file whose entry it clears.
Delete(f) ==
    /\ At(f, "closed") /\ Exists(f) /\ f \in Deletable
    /\ allocated' = allocated \ Walk(f)
    /\ disk' = Emptied(disk, Walk(f))
    /\ dir' = [dir EXCEPT ![f] = NoEntry]
    /\ cut' = cut \ {f}
    /\ ret' = Nothing
    /\ UNCHANGED slot

Put(f, v) == Extend(f, v) \/ Overwrite(f, v) \/ Grow(f, v) \/ GrowII(f, v)

\* What the user of f does.
Step(f) ==
    \/ Create(f) \/ CreateFails(f) \/ Reopen(f, "r") \/ Reopen(f, "a")
    \/ Discard(f) \/ Rewrite(f) \/ RewriteFails(f)
    \/ \E n \in Lengths : WriteCall(f, n)
    \/ \E v \in Writes(f, slot[f].cursor) : Put(f, v)
    \/ GrowFails(f) \/ GrowLoses(f)
    \/ Read(f) \/ Seek(f) \/ Truncate(f) \/ Close(f) \/ Delete(f)

Next == \E f \in Files : Step(f)

\* Programs that overwrite the second level only where its index is in memory, ...
Spec == Init /\ [][Next]_vars

\* ... and programs that write anywhere.
AnyNext == Next \/ \E f \in Files : \E v \in Writes(f, slot[f].cursor) : OverwriteFar(f, v)
AnySpec == Init /\ [][AnyNext]_vars

-----------------------------------------------------------------------------
TypeOK ==
    /\ allocated \subseteq Data
    /\ disk \in [Clusters -> [bytes : [0..ClusterSize - 1 -> Bytes \cup {Nothing}],
                              pointers : [Entries -> Clusters]]]
    /\ dir \in [Files -> [num : Clusters, size : Nat]]
    /\ slot \in [Files ->
          [at : {"closed", "open", "writes", "rewrites", "lost"}, mode : {"r", "w", "a"},
           cursor : Nat, left : Nat, done : Nat, size : Nat, num : Clusters,
           index : [Entries -> Clusters], IILevel : {"none", "loaded"},
           II : [Entries -> Clusters], IInum : Nat, ILevLeft : Int,
           IILevDataLeft : Int, IILevLeft : 0..II_LEV_POINTERS]]
    /\ \A f \in Files : slot[f].IILevel = "loaded" =>
          slot[f].IInum \in Clusters /\ slot[f].IILevDataLeft \in 0..II_LEV_DATA_POINTERS
    /\ cut \subseteq Files
    /\ ret \in Bytes \cup {Nothing}

\* How many blocks, second-level blocks and second-level indices a file has.
UpTo(n, k) == (n + k - 1) \div k
Blocks(f)  == UpTo(SizeOf(f), ClusterSize)
InSecond(f) == IF Blocks(f) > I_LEV_DATA_POINTERS THEN Blocks(f) - I_LEV_DATA_POINTERS ELSE 0
IIs(f)     == UpTo(InSecond(f), II_LEV_DATA_POINTERS)

ClusterOf(f, b) ==
    IF b < I_LEV_DATA_POINTERS THEN IndexOf(f)[b] ELSE IIOf(f, IndexOf(f)[IIEntry(b)])[InII(b)]

\* The clusters that hold a file: its index, second-level indices and blocks.
IsFile(f) == Exists(f) /\ slot[f].at \notin {"rewrites", "lost"}
Owned(f) ==
    {NumOf(f)} \cup {IndexOf(f)[I_LEV_DATA_POINTERS + j] : j \in 0..IIs(f) - 1}
       \cup {ClusterOf(f, b) : b \in 0..Blocks(f) - 1}

ByteAt(f, p) == disk[ClusterOf(f, Block(p))].bytes[p % ClusterSize]
Content(f)   == [p \in 1..SizeOf(f) |-> ByteAt(f, p - 1)]

\* Everything a file is made of is allocated, each part a cluster of its own.
UsedIsAllocated ==
    \A f \in Files : IsFile(f) =>
        Owned(f) \subseteq allocated /\ Cardinality(Owned(f)) = 1 + IIs(f) + Blocks(f)

\* Releasing a file never releases what another file is made of.
ReleasesOnlyOwn ==
    \A f, g \in Files : f # g /\ IsFile(f) /\ IsFile(g) => Walk(f) \cap Owned(g) = {}

\* As long as no handle is lost, releasing the files releases every cluster that
\* was ever allocated for them.
NothingLeaks ==
    (\A f \in Files : ~At(f, "lost"))
        => allocated \ UNION {Walk(f) : f \in {g \in Files : IsFile(g)}} \in Taken

\* What a slot says is left of the indices is what the size of the file leaves,
\* counted again on opening or kept while it was written; until it is truncated.  A
\* second-level index is in memory just when the file has one: else what the slot
\* says is left of it is what its last file left there.
LeftMatchesSize ==
    \A f \in Files \ cut : slot[f].at \in {"open", "writes"} =>
        /\ slot[f].ILevLeft = I_LEV_DATA_POINTERS - (Blocks(f) - InSecond(f))
        /\ slot[f].IILevLeft = II_LEV_POINTERS - IIs(f)
        /\ slot[f].IILevel = "loaded" <=> IIs(f) > 0
        /\ IIs(f) > 0 =>
              slot[f].IILevDataLeft = IIs(f) * II_LEV_DATA_POINTERS - InSecond(f)

\* The user of a file changes clusters of that file, or free ones: not those of
\* another file, nor the bit vector, to which a missing pointer would lead.
WritesStayInFile ==
    [][\A c \in Clusters : disk'[c] # disk[c] =>
          /\ c # NoCluster
          /\ \A f \in Files : Step(f) => c \in Free \cup Walk(f)]_vars

\* What a program knows of a file: its bytes, and where it is in it.
Kept(f) ==
    IF ~Exists(f) \/ At(f, "lost") THEN Absent ELSE IF At(f, "rewrites") THEN <<>> ELSE Content(f)
User(f) ==
    IF At(f, "lost") THEN [at |-> "lost", mode |-> "r", cursor |-> 0, begin |-> 0]
    ELSE [at |-> slot[f].at, mode |-> slot[f].mode, cursor |-> slot[f].cursor,
          begin |-> IF At(f, "writes") THEN slot[f].cursor - slot[f].done ELSE 0]

\* The files are sequences of bytes, with a cursor.
Promise == INSTANCE ByteFiles WITH
    content <- [f \in Files |-> Kept(f)], handle <- [f \in Files |-> User(f)]

ImplementsByteFiles == Promise!Spec

\* nit1.cpp writes a file, goes back to its beginning and reads it: a read answers
\* the byte that is in the file at the cursor.  Not so in the second level, as long
\* as the file has not been closed.
ReadsContent ==
    [][\A f \in Files : Read(f) /\ slot[f].cursor < slot[f].size
            => ret' = ByteAt(f, slot[f].cursor)]_vars
=============================================================================

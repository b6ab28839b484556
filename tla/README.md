# A verification development for the OS file system

TLA+ modules, TLC configurations and TLAPS proofs for the file system in `src/`:
a library that keeps files on a simulated partition, with a write-back cache, a
cluster allocator, a root directory, a table of open files and a table of mounted
partitions, and that promises that "All operations are thread safe"
(`src/test/README.txt:13`). Paths below are relative to the repository; the source
files are in `src/src`, the headers in `src/h`.

- [The system](#the-system)
- [The modules and the code](#the-modules-and-the-code)
- [The runs](#the-runs)
- [Fairness](#fairness)
- [The proofs](#the-proofs)
- [Where the code and its promises differ](#where-the-code-and-its-promises-differ)
- [What is not modelled, and the plan](#what-is-not-modelled-and-the-plan)

## The system

A program calls the static methods of `FS`, which forward to one `KernelFS`.
`KernelFS` owns a `MountedPartitionTable` (26 letters) and a `GlobOpenFileTable`.
Mounting a `Partition` makes a `PartitionCache` over it and a `PartControlBlock`;
the control block makes a `BitVectCtrl` (which clusters are free) and a
`RootVectCtrl` (the directory), both of which hold a cluster of the partition in
memory and read and write through the cache. Opening a file answers a `KernelFile`
(behind a `File`) that points at a slot of the open file table, allocates and
releases clusters through the control block, and reads and writes data through the
cache.

    FS, File ─▶ KernelFS ─▶ MountedPartitionTable ─▶ PartControlBlock ─▶ BitVectCtrl ─┐
                   │                                      ▲       └────▶ RootVectCtrl ├▶ PartitionCache ─▶ Partition
                   └─▶ GlobOpenFileTable ─────────────────┘                           │
                              ▲                                                       │
                        KernelFile ───────────────────────────────────────────────────┘

| component (source) | state | operations | what makes it correct |
|---|---|---|---|
| Partition (`part.h`, the implementation is not in the repository) | the clusters | read, write, number of clusters | external; a transfer may be refused |
| PartitionCache (`partition_cache.cpp`) | seven entries: LRU field, block, dirty, cluster number; a mutex | readCluster, writeCluster, destructor | reads answer the last write; nothing dirty is dropped; least recently used goes first; failures change nothing |
| BitVectCtrl (`bit_vec_ctrl_blck.cpp`) | the bit vector in memory, a stack of 10 free clusters, a flag | constructor, formatBV, allocateCluster, allocateCluster(no), releseCluster, destructor | a cluster has one owner; a released cluster is found again; an allocation fails only when there is nothing |
| BinarySemaphore (`binary_semaphore.cpp`) | a counter of waiters and a Windows semaphore | waitB, signalB | a signal wakes those that wait, and only those |
| PartControlBlock (`part_cnt_blck.cpp`) | filesOpen, wantToFormat, wantToUnmount, two binary semaphores, a mutex | checkPremision, incOpenFiles, decOpenFiles, format, prepareUnmount, deleteFile, deleteRestOfFile | no format and no unmount while a file is open; whoever waits gets a turn |
| MountedPartitionTable (`mount_part_table.cpp`) | a pointer per letter, a stack of free letters, a mutex | mountPCBpointer, unmountPCBPointer, getPCBPointer | a letter is free or mounted, once; a block is deleted once |
| RootVectCtrl (`root_vec_ctrl.cpp`) | 64 entries of 20 bytes: name, extension, index cluster, size | doesExist, getFreeEntry, write, clear and update of an entry, readRootDir, formatRI | a name is in the directory once; a deleted file is not there |
| GlobOpenFileTable (`glob_opn_file_table.cpp`) | an array of slots that grows by five; a reader/writer lock per slot; a mutex | createEntry, reopenEntry, reopenGOFEntryWithDelete, deleteFile, closeEntry | one writer or many readers of a file; a slot is the file its holders opened; the gate counts the open files |
| KernelFS (`kernel_fs.cpp`) | the two tables | mount, unmount, format, open, doesExist, deleteFile, readRootDir | the steps of a call fit together although no lock spans them |
| KernelFile, File (`kernel_file.cpp`, `file.cpp`) | cursor, first- and second-level index, slot | read, write, seek, eof, truncate, close | the bytes of the file are those written last at each place; its clusters are its own and released once |
| PathTokenizer (`path_tokenizer.cpp`) | none | letter, name and extension of a path | a path names one file; a malformed one names none |
| Mutex, data structures (`mutex.h`, `data_structs.h`) | — | wait, signal | — |
| Example program (`src/test`) | three threads | copies files | — |

**What is hard here.** Mutexes are held for short sections, and calls are made of
several: the gate is asked long before the file is counted; the directory is searched
before the table's mutex is taken; the mutex is given up in the middle of a section
to wait for a slot's lock or for the gate; the allocator has no lock at all. The
binary semaphores are built from a counter and a counting semaphore. The cache and
the bit vector reach the partition late. Transfers may be refused and the disk may
be full in the middle of a call. There is no code for crashes: nothing is logged or
recovered, so a restart is modelled only as an unmount and a mount.
`PROJECT.json` lists each of these places with its line.

## The modules and the code

A name of the code keeps its name in the modules where TLA+ allows. `map` in
`PROJECT.json` gives, for each definition, the lines it stands for. A definition
whose comment begins with "Variant" is not part of a specification: it is the
definition below it with a plausible mistake in it (a dropped guard, a swapped
comparison, a forgotten reset), and shows which property would notice the mistake.

**PartitionCache** — `ReadCluster` and `WriteCluster` hold the cache's mutex from
the first line to the last, so each is one action, with the three ends it can have:
a hit, a miss, a refused transfer (`ImportFails`: the victim cannot be written, or it
has been written and the new block cannot be read). `UpdateLRU` halves the fields
ahead of the one that was used, as the code does, in the range of an unsigned char.
`Create` and `Destroy` are the constructor and the destructor; the destructor ignores
refused writes. A block is one value, a byte of it is not visible: every caller
transfers whole clusters.
It has two abstractions. **ClusterStore** is what the layers above rely on: an array
of clusters, a request answers the last value written or fails and changes
nothing, and `stable`, what is on the partition, only ever catches up with it.
**LruQueue** is the replacement policy: a queue from whose end clusters leave.
The refinement mappings are `Store` and `Queue` of `PartitionCache`.

**BitVectCtrl** — the bit vector as a function on clusters, the stack with its
pointer growing downwards as in the code, the bit vector that is on the partition
(`stored`), and one variable the code has not: `owned`, the clusters that the files
of the partition use. `Mount`, `Unmount`, `FormatBV`, `AllocateCluster`,
`ReleseCluster` are whole operations; the scan that refills the stack is
`UpdateFCPool`, stated by what it leaves on the stack. `Seen` keeps the scan's early
end. `AllocateGiven` has no caller in the program and is only in `PublicSpec`.
Callers release a cluster they own or one that has been released before (closing and
truncating do that). **AllocatorThreads** takes `allocateCluster` apart into its
accesses to the stack and to the byte of the bit vector, for several threads.

**PartControlBlock** — the gate, with `BinarySemaphore` as operators on a record
`[counter, sem]`. Each section under the mutex is an action. `format` is
`FormatCall`, `FormatEnqueue` (the first line of `waitB`, outside the mutex),
`FormatWake`, `FormatFinish`; `prepareUnmount` is cut the same way and is followed by
`Delete`. `SignalB` keeps the loop `while (counter--)`, which leaves the counter at
-1 and, started at a negative counter, runs through the range of an int and fills
the semaphore to its maximum. Releasing past the maximum is refused by the system;
the model releases up to it.

**MountedPartitionTable** — the stack of letters, the pointer of each letter, the
blocks that exist (`live`). An unmount is `UnmountCall`, `Prepared` (the gate's work,
without the mutex), `UnmountFinish`. Users look a pointer up and work with it later.

**GlobOpenFileTable** — threads that open, write, close and delete files of one
partition. It contains the part of the directory (`RootVectCtrl`) the table uses, and
the callers in `KernelFS`. A call goes through these places:

    idle ─Call─▶ looked ─Create/Find─▶ slot ─Ask─▶ waits ─Acquire─▶ locked
         ─Fill/Join─▶ open (or discards ─Discard─▶ rewrites ─Rewrite─▶ open) ─Close─▶ idle
         ─DeleteFile─▶ idle

`Call` is the search of the directory before the table's mutex is taken; `Create` and
`Find` are the sections up to the lock of the slot; `Ask` reads which lock it is and
`Acquire` gets it, both without the mutex; `Fill`, `Join` and `DeleteFile` are the
rest of the section; `Discard` and `Rewrite` are the rewriting of a file opened with
`w`, without the mutex. `broken` and `stranded` are the places of a thread whose call
got `~0` back. `GetFreeSlot` includes the growth of the table, in which every slot
gets a new lock. (The copy also leaves out `num`, the cluster of the file's index, which this
module has not: a close then writes the index to an uninitialized cluster number,
`glob_opn_file_table.cpp:677`.) `Resize` stands for writing and truncating, of which the table sees
the size. `CNT` keeps the width of an unsigned int (`UINT_MAX`).

**KernelFile** — how files are laid out on clusters, with everything that builds,
follows or takes apart an index: `writeNewDataByte` and `readDataByte`, the loops of
`write` and `read`, `seek`, `truncate`, the loading and storing of an index by
`reopenEntry` and `closeEntry`, and the walks of `PartControlBlock` over an index that
is deleted or cut. The state is that of the code: the bit of each cluster
(`allocated`), what a cluster holds as bytes or pointers (`disk`), the directory's index
and size, and per file the slot with the `KernelFile` of its user: cursor, first-level
index, the second-level index in memory (`IILevel`, `II`, `IInum`), and the three
counters `ILevLeft`, `IILevDataLeft`, `IILevLeft`. One round of the loop of `write` is
one action, because the threads of other files allocate between the bytes: `Extend` in
the last cluster, `Overwrite` and `OverwriteFar` before the end, `Grow`, `GrowII`,
`GrowFails`, `GrowLoses` at a boundary. `Close`, `Discard`, `Rewrite`, `Truncate` and
`Delete` are whole calls as far as the file is concerned. `Stale` are the values that a slot
may keep in `IInum` and `IILevDataLeft` from the file it served before: `reopenEntry` sets
them only for a file that has a second-level index (`glob_opn_file_table.cpp:380`). `cut` has no counterpart in
the code: it remembers which files were truncated, because the code does not count
right after that. Allocation is taken from what `BitVectCtrl` is shown to do: a free
cluster, and none only when there is none.
**ByteFiles** is what a program may expect: each file a sequence of bytes, a cursor, and
a failed write that leaves the file as long as it was where the write began. The
refinement mapping reads the sequence out of the clusters (`Content`).

**RootVectCtrl** — the directory as the bytes of its cluster: the offsets of an
entry's fields, numbers byte by byte, the loops that clear, the search by name, the
search for a free entry and the listing, and the parsing of paths (`GetFileName`,
`GetFileExt`, `DoesExist`), which decides what is compared with what. Its actions are
the changes its callers make: `CreateEntry`, `RewriteEntry`, `RewriteFails`,
`CloseEntry`, `DeleteFile`, `FormatRI`, mounting and unmounting. **Directory** is the
abstraction: a numbered list of files, where the file a path names is defined from the
path and not from the code (`NameOf`), spaces at the end of a name do not count, and a
malformed path names no file, so that looking it up answers -1, as `root_vec_ctrl.h:41` says.
The code answers 0 for it, which `openFile` takes for entry 0: `Asked` are the paths that
are looked up, in the run the well-formed ones. `Abstract` reads an entry's bytes as a file.
`ListFrom` is `readRootDir` when the gate lets it in; while a format or an unmount waits,
`KernelFS::readRootDir` answers 0 (`kernel_fs.cpp:70`) and changes nothing.

**KernelFS** — the composition: the table of open files (`GlobOpenFileTable`, extended)
and the gate (`PartControlBlock`, as the instance `Gate` without openers of its own)
share the counter `filesOpen`; to them it adds the life of the block, `Mount`, what a
format does to the directory (`FormatRI`), and what unmounting writes (`Delete`: the
destructors write the directory through the cache; `disk`). `openFile` is
`CheckPremision`, `Enter` (the search of the directory), and `GoOn` (the steps of the
table, with `incOpenFiles`); `CloseFile` is `closeEntry` with `decOpenFiles` and its
signals in one action, because the table's mutex is held throughout. `CallDelete` does not
ask the gate, as `deleteFile` does not. A call that is under way when the block
is deleted goes on with a dangling pointer in the code, which is undefined: here its thread is
`broken` (`UnderWay`). A format that waits in that block is `lost`. **FileSystem** is what callers are promised: files with sizes, handles,
one writer or many readers, no format and no unmount while a handle is out, and every
file the same after the next mount. The refinement mapping reads the files out of the
directory in memory, or on the partition while nothing is mounted; the handles out of the
places of the threads; and the abstract state knows nothing of slots, locks,
counters or semaphores.

## The runs

`tlc -config X.cfg M` for the module and the configuration in the table.

| run | module, configuration | checks | shows |
|---|---|---|---|
| `cache` | MCPartitionCache, MCPartitionCache.cfg | TypeOK, NoDoubleEntry, CleanIsOnDisk, LruChain, NoBlockLost, ImplementsStore, ImplementsLru | the cache is a store of clusters and replaces the least recently used one, with transfers refused anywhere |
| `allocator` | MCBitVectCtrl, MCBitVectCtrl.cfg | TypeOK, PoolIsFree, BitsMatchOwners, FailsOnlyWhenFull, AllocatesFree | calls that follow each other get free data clusters, and released ones are found again |
| `gate` | MCPartControlBlock, MCPartControlBlock.cfg | TypeOK, CountIsOpenFiles, GateShut, QueuedCallersReturn | the gate counts the open files, stays shut while somebody waits, and wakes those that are in `waitB` |
| `table` | MCGlobOpenFileTable, MCGlobOpenFileTable.cfg | TypeOK, OneWriter, HandleIsItsFile, EntryIsItsFile, LocksMatchHolders, FilesOpenCounts, ReaderSeesStoredSize, NamesUnique, CallsReturn | threads with a file each do not disturb one another, on a disk that may fill; readers share a slot and a writer waits for them; a file is handed over in every pair of modes; every call returns |
| `mount` | MCMountedPartitionTable, MCMountedPartitionTable.cfg | TypeOK, LetterOnce, MountedIsLive, DeletesOnce, MountReplacesNothing | no letter is lost or given twice, no block is deleted twice |
| `file` | MCKernelFile, MCKernelFile.cfg | TypeOK, UsedIsAllocated, ReleasesOnlyOwn, NothingLeaks, LeftMatchesSize, WritesStayInFile, ImplementsByteFiles | files over both levels of the index are sequences of bytes; their clusters are their own and are released once, on a partition with any room left |
| `directory` | MCRootVectCtrl, MCRootVectCtrl.cfg | ImplementsDirectory | the bytes of the directory are a numbered list of files, through several mounts, and well-formed paths are looked up right |
| `kernel_fs` | MCKernelFS, MCKernelFS.cfg | ImplementsFileSystem, WaitersReturn | the table and the gate together keep the promises of `FileSystem` through a format, an unmount and the next mount; a format or an unmount that waits for readers that share a slot, or for a writer, returns |
| `allocator_remount` | MCBitVectCtrl, MCBitVectCtrlRemount.cfg | NeverTakesOwned | *violated*: clusters of files are allocated again after a mount |
| `threads_twice` | MCAllocatorThreads, MCAllocatorThreadsTwice.cfg | NoSharedCluster | *violated*: two threads get the same cluster |
| `gate_lost_wakeup` | MCPartControlBlock, MCPartControlBlockLostWakeup.cfg | FormatReturns | *violated*: a format waits for ever |
| `file_read_back` | MCKernelFile, MCKernelFileReadBack.cfg | ReadsContent | *violated*: a file that reaches the second level is read before it is closed, and the bytes come from elsewhere |

### Bounds

- `cache`: three entries over four clusters, so that there is always a cluster
  outside, and an LRU field that starts at 4 and reaches 1, the last value before it
  would be lost, as 64 does in seven entries. Two contents tell a lost write from a
  kept one. Clusters and contents are symmetric: they are only compared and copied.
- `allocator`: eight clusters of which six hold data; bytes of four bits and a vector
  of three bytes, so the last byte is past the end of the partition, as in every real
  partition that does not fill its vector; a stack of three, so that it is filled,
  emptied, refilled with less than it holds, and full on a release. Two mounts.
  `allocator_remount` is a smaller partition.
- `gate`: three openers, so that the last close is told from one before it, one
  formatter that calls once, and one unmounter. The semaphore's maximum is above the
  number of waiters, as 32 is in the code for a few threads. More than one of either,
  and a second format, are where the gate does not keep its properties (below).
- `table`: eight threads in three groups; a behaviour is of one group. In `Private`, two
  threads have a file each, open it twice in any of the modes, and the disk may be full
  whenever one of them needs a cluster. In `Sharing`, `k` holds the file in entry 0 while
  two readers come and go twice each and a writer waits for all of them, or writes another
  file. In `Handing`, `t2` calls while `t1` has a file open, in every pair of `r`, `w`, `a`,
  and deletion, and `t1` closes when `t2` waits. A file's size is 0 or 1. The constants
  `GroupCalls` and `GroupCloses` say in which order the threads call and close; they leave
  out the orders in which the code does not keep the properties, which the section on
  differences lists. Three directory entries, of which entry 0 belongs to a file that
  only `Sharing` opens; four slots, so that the table does not grow: its growth loses
  locks. Three waiting readers are not among the cases.
- `file`: a cluster holds two bytes; an index has one first-level entry and two
  second-level ones with three each (the code's 256, 256 and 512, with the same relation
  between them), so a file of nine bytes is in both levels and in two second-level
  indices. Writes of three bytes cross one boundary and end at or beside another.
  Ten data clusters. Either the partition is empty and two files grow together, up to
  three bytes each, or other files have all but 0 to 8 of the clusters (six choices), so
  that the disk is full at each kind of step, and one file has the run of the place while
  the other is rewritten around it. `Supported...` in MCKernelFile say what is left out:
  growth after a cut, overwriting and reading through a second-level index that is not the
  one in memory, and a second writer where the disk may be full. The first two go wrong
  (below); the third keeps the state space small. The cluster that is answered
  is the lowest free one; which one it is plays no part in the properties, except that
  clusters are used again soon, which is the bad case.
- `directory`: two entries, names of two characters and extensions of one, numbers of
  two bytes of four values, so that a number needs both bytes and a wrong offset is
  seen. Three files, one under two names, and malformed paths of every kind: no
  dot, a long name, a long extension, no letter. The malformed ones are not looked
  up: the code answers them wrongly (see the differences). Only entry 0 is deleted: deleting another
  does nothing (see the differences).
- `mount`: three letters and four mounts, so that the letters run out and are reused;
  two unmounters with their own letters, one other thread.

- `kernel_fs`: `k` and `r1` read the file in entry 0, so that a slot is shared when
  somebody waits for the last close; `d` deletes that file, so that its entry is used
  again; `p1` writes a file of its own, twice; one format and one unmount, before and
  after a second mount. `MCOpens` and `MCShuts` leave out the one window that is
  known to be open: between the moment the gate lets an open in, or lets an unmount
  through, and the moment the file is counted, or the block is gone. `MCCalls` leaves
  out a deletion beside an open. Without any of the three `ImplementsFileSystem` is
  violated (below). Two calls of format in one mount are left out for the same reason.

Numbers the code could exceed are bounded in guards: `MAX_MOUNTS`, `MAX_CALLS`,
`MAX_OPENS`, `MAX_SIZE`, `MAX_TABLE`, `MaxSize`, and the set `Blocks`. At these bounds, and where
every thread has done its calls or waits for what never comes, behaviours end; the
configurations of these modules say `CHECK_DEADLOCK FALSE`. `cache` and `directory`
have no bound and check for deadlock.

## Fairness

Liveness is checked in the gate, in the table of open files and in their composition,
which has the fairness of both.

- A thread that is inside a call goes on with it: `WF` on its internal steps.
- Wake-ups from a semaphore are `SF`: Windows wakes the waiters of a semaphore in turn,
  so a thread that waits is not passed over for ever by others.
- A thread that has a file open closes it in the end: `WF` on `Close`, `DecOpenFiles`.
  Without it nobody could promise a format anything.
- Nobody has to open, format, unmount or mount: `Call`, `CheckPremision`, `FormatCall`,
  `UnmountCall` have no fairness.
- The reader/writer locks of the slots get `WF` only, as a part of `Internal`. SRW
  locks promise no order; with the finite number of calls in the runs this is enough.

In `table` the condition `ClosesWhen` is a part of `Close`: a thread that holds a
file until another waits for it is not asked to close it before.

`QueuedCallersReturn` and `WaitersReturn` are about callers that are in `waitB`
while a file is still open. `FormatReturns` drops that condition and is violated.

## The proofs

`tlapm M.tla` checks each of these modules. The theorems hold for every value of the
constants that the assumptions of the module allow.

**PartitionCacheProofs** (assumptions `CacheAssumption`, `UnsetAssumption`). The
assumption on the LRU chain says that `LRU_START_VAL` can be halved `CACHE_SIZE - 1`
times and fits an unsigned char, as 64 and 7 do. The inductive invariant is
`IInv == TypeOK /\ NoDoubleEntry /\ CleanIsOnDisk /\ LruChain`. `LruChain` carries the
argument: the fields in use are the first members of `LRU_START_VAL`,
`LRU_START_VAL/2`, …, each once. So the entries ahead of one that is used move one
member down, into the place it leaves (`HitKeepsChain`); a new entry needs one
place more, and there is one because the entry it replaces had no field or the least
one (`EvictKeepsChain`, `MissKeepsChain`, with `RoomBelow`, a count of entries). No
field in use becomes 0, hence no block is dropped by aging, which is what
`CacheNoBlockLost` needs beside `CleanIsOnDisk`. Theorems: `CacheTypeCorrect`,
`CacheNoDoubleEntry`, `CacheCleanIsOnDisk`, `CacheLruChain`, `CacheNoBlockLost`, and
`CacheImplementsStore`, the refinement of `ClusterStore` action by action: a hit, a
miss and a failed import are `Read` or `Write` with the disk catching up, the
destructor is `Close`.

**BitVectCtrlProofs** (`AllocatorAssumption`). `DInv == TypeOK /\ PoolIsData` is
inductive for all public operations, `allocateCluster(no)` included:
`AllocatorStackIsData`, `AllocatorTypeCorrect`. From it follow two action properties,
`AllocatorAllocatesFree` and `AllocatorFailsOnlyWhenFull`: whatever is on the stack,
the look at the bit before a cluster is taken and the scan after the last one make
them hold. For the calls the program makes, `FInv` adds `PoolIsFree`:
`AllocatorStackIsFree`. `allocateCluster(no)` would break it, since it leaves the
cluster it takes on the stack. `OwnersInv` adds to `DInv` that nothing is stored and
nothing owned before the first mount (`FirstMount`); with it the bits say exactly
what the files own until the partition is unmounted (`AllocatorBitsMatchOwners`).

**PartControlBlockProofs** (`GateAssumption`). `GateCountsOpenFiles`: for any threads
`filesOpen` is the number of open files; the proof is a count of `Holders` under each
opener's step, and gives `GateTypeCorrect` with it. `GateIsShut`: when there is at most one formatter and one unmounter
(`OneOfEach`) the gate stays shut while they wait. `GInv` says what the counters are in
each place of the two: `wantToFormat` is 1 exactly while the formatter waits, and
`wantToUnmount` is 1 while the unmounter waits and may be -1 after. The hypothesis is
needed; see below.

**MountedPartitionTableProofs** (`TableAssumption`). When no letter is unmounted by
two threads (`OneEach`), every letter is free or mounted once (`LettersAreKept`), the
table holds only blocks that exist, each under one letter (`MountedBlocksLive`), a
block is deleted once (`BlocksAreDeletedOnce`), and a mount takes a free letter
(`MountTakesAFreeLetter`); `TableTypeCorrect` is the types. `MInv` adds `UnmountsMounted`: what a thread unmounts is
mounted until it is done, under the letter and with the pointer it remembers. The
hypothesis is needed: with `MayUnmount <- AnyLetter` in MCMountedPartitionTable.cfg TLC
finds two unmounts of one letter that return it twice.

**GlobOpenFileTableProofs** (`TableAssumption`). Threads that keep to files of their own
do not disturb one another, for any number of threads, files, slots and entries and
under every interleaving. `EachItsOwn` is the condition, and each part of it is
needed, as the table below shows: a path is used by one thread (two that open one file
get a slot each, or join a freed one); nobody deletes (a deleted file stays in the
directory, its slot keeps its name); entry 0 holds a file nobody uses (rewriting it
empties it); the names in the directory differ at first; and the table need not grow
(growing replaces the locks). The inductive invariant is `PInv`. `KnowsItsFile` says
that what a thread found in the directory before it took the mutex is still so when it
uses it: its name is in its entry, or in none. `UsedSlots`, `OwnSlots` and
`TakenSlots` say that a slot that is not free belongs to one thread, which got it by
taking it and not by finding it, and that before the thread has filled it nobody can
find it by the old name, since its `pcb` is null (`FreeSlots`). `HeldLocks` and
`IdleLocks` say that a lock is as its one holder left it. There is one lemma per
action; the steps of a thread that has its slot share `StepOnFileKeepsPInv`, and
`FilesOpenCounts` is carried by a count of the slots in use (`InUse`). Theorems:
`PrivateTypes`, `PrivateHandles`, `PrivateEntries`, `PrivateLocks`, `PrivateCounts`,
`PrivateSizes`, `PrivateNames`. `OneWriter` says nothing under this condition; the next
module proves it.

**SharedFilesProofs** (`TableAssumption`). Threads that open the same files, in any mode
but deletion, any number of them at once. `Shareable` is the condition on the constants:
nobody deletes, the file in entry 0 is not rewritten, names differ at first, the table
need not grow, and the threads are no more than the count in a slot holds. `Undisturbed`
is the condition on the behaviour. It leaves out three interleavings, each a row of the
table below, and nothing else: two threads that missed a file both create it
(`CreatedOnce`), one takes a slot for a file while another waits for a slot of that file
(`TakenOnce`, `glob_opn_file_table.cpp:242`), and a slot that a thread found, and that was
freed while it waits for the lock, is taken by another (`WaitedSlotsKept`,
`glob_opn_file_table.cpp:288`). Readers that come and go while others read, writers that
queue behind readers and readers that queue behind a writer are all included, and so is
every state of the run `table`. Threads with files of their own never meet in these
interleavings: `PrivateUndisturbed`.

The inductive invariant is `SInv`. `SlotCounts` says that `CNT` is the number of threads
that have the slot, so that the close which frees it is the last one's; `OneSlot` that a
file has one slot. `TakesOwn` and `FindsOwn` are about the wait between the two halves of
`reopenEntry`: the slot a thread took is nobody else's and serves nothing; the slot it
found still has the file's name, and either serves the file or was given up by its last
holder, and then no other slot serves the file. `Together`: those that wait for one file
found one slot. With `LockCounts` and `Sharers`, that a lock is held by one writer or by
the readers it counts, it follows that who fills a slot finds no holder there
(`FillsIdleSlot`) and who is only counted finds readers (`JoinsReaders`). The counts of
holders and of lock readers are cardinalities, changed by one in every such step. The
steps of a thread without a slot share `ThreadSteps`; those that leave a slot serving its
file, `ServingKeepsSInv` and `WriterKeepsSInv`. Theorems: `SharedInvariant`,
`SharedOneWriter`, `SharedHandles`, `SharedLocks`, `SharedEntries`, `SharedCounts`,
`SharedSizes`, `SharedNames`, `SharedTypes`.

**KernelFileProofs** (`LayoutAssumption`). What a file is made of, for any number of
files, any geometry of clusters and indices and any partition, while users open, write,
seek, read, cut, close, rewrite and delete beside one another. There are two conditions.
`FilesFit`: no file outgrows the two levels of an index, which on a partition of one bit
vector (16384 clusters) no file can. `GrowsUncut`: from the time a file is cut, by a
truncation or a write that failed, until it is deleted or rewritten, no cluster is asked
for and the file itself does not grow. The code needs it: after a cut the counters are
one too small and the index keeps pointers to clusters that were released (both in the
table below), so a file that grows writes elsewhere, and a cluster given to another file
is released twice. `MCKernelFile` keeps both, so the run `file` is an instance.

The inductive invariant is `Inv`. It speaks of places: `<<HERE, HERE>>` is the index of a
file, `<<i, HERE>>` what entry `i` of it leads to, `<<i, e>>` what entry `e` of the
second-level index there leads to, read through the index in memory where there is one
(`Store`). A place is held when every pointer on the way to it leads to an allocated
cluster, which is when the walks of `PartControlBlock` come to it.
- `Layout`: what a file holds is, level by level, without holes (`Prefixes`: the walks
  stop at the first pointer that leads nowhere), reaches as far as its size (`Covers`)
  and, unless the file was cut, no further (`Ends`).
- `Distinct`: a cluster is at one place of one file. It makes the other parts
  inductive: what one file writes or releases is at no place of another.
- `Loaded` and `Lefts`: a second-level index is in memory just when the open file has one,
  and is then the file's last; the counters are what the size leaves, `IILevDataLeft` only
  then. They decide where `writeNewDataByte` puts a cluster. Of what a slot keeps from the
  file it served before (`Stale`) they say nothing, and the proof uses nothing.
- `Accounted`: what is allocated and at no place was there at first. A step that gives a
  file a cluster adds a place, one that releases clusters removes their places.
- `Handle`: what a slot says agrees with the directory.

Of the steps, those that grow a file (`GrowKeeps`, `GrowIIKeeps`) show that the place of
the next block is the one after the last, by division with remainder (`EntryOfBlock`,
`BlockOfEntry`, `LastBlock`); those that cut it (`CutKeeps`) that the loops of
`deleteRestOfFile` release just the places behind the cut and keep all before it, although
they take a second-level index to lead to `II_LEV_POINTERS` blocks; deletion
(`DeleteKeeps`) that the walk releases every place. `InvImplies` counts the places of an
uncut file: one index, `IIs` second-level ones and `Blocks` blocks.

`WritesStay` proves the action property `WritesStayInFile` from `Inv` and `VectorKept`.
What a step writes is a byte in a block the file has or gets, its index, the second-level
index in memory, or what a walk releases, and each of these is free or at a place of the
file (`StepWithin`). One case is not: a cut on the boundary where a second-level index
would begin takes the pointer 0 for that index, reads the cluster of the bit vector into
memory and writes it back later (`kernel_fs.cpp:177`). `VectorKept` says that it is written
back as it was read; between formats, and no file is open during one, nobody writes that
cluster before the unmount.

Theorems: `LayoutInvariant`, `LayoutTypes`, `FilesStayAllocated`, `WalksStayApart`,
`WalksReachAll`, `LeftIsCounted`, `WritesStay`.

**KernelFileBytesProofs** (`LayoutAssumption`). `FilesAreBytes`: `KernelFile` implements
`ByteFiles`, so the one property that says what all the arithmetic on levels, entries and
counters is for holds for any number of files, any geometry and any partition. Beside
`FilesFit` and `GrowsUncut` it needs `AbsentIsNoFile` (the value that stands for a missing
file is no sequence of bytes) and `ReadsBack`: a byte is read through the second-level index
in memory only in a file opened for reading. That one is what difference 4 below is about,
the run `file_read_back` is its counterexample. Programs under `Spec` also never overwrite
through a second-level index that is not in memory (`OverwriteFar`, in the table below). On the instance of the run `file` both
conditions on behaviours hold, and bytes of the second level are read in files being
written too, through an index that has been written back.

The invariant is that of the layout with `VectorKept` and `Steady`: a file being rewritten
is open with `w`, and in a file opened for reading the second-level index in memory is the
one on the partition. The mapping is a function over the positions of the file (`Content`),
not a recursion, so its steps are facts about sequences (`LongerFunction`,
`ShorterFunction`, `ChangedFunction`), proved by their lengths and elements. `KeepsBlock`
and `ClusterStays` carry the rest: a step that keeps the pointers to a block and the bytes
in it keeps that part of the content. `OthersFramed` says with them that a step of one user
leaves the content and the handle of every other file as they are, from `Distinct` and
`StepChanges`. For the file itself there is one lemma per operation (`CreateMaps`,
`WriteCallMaps`, `PutInPlaceMaps`, `PutAtEndMaps`, `CutMaps`, `CloseMaps`, ...), each
naming the action of `ByteFiles` it maps to; those of the growing and of the cutting take
what `GrowKeeps`, `GrowIIKeeps` and `CutKeeps` show of the places.

Only model-checked:
- liveness (`QueuedCallersReturn`, `CallsReturn`, `WaitersReturn`), outside the prover's
  reach;
- `ImplementsLru` and `ImplementsDirectory`, whose mappings count, choose or build
  sequences, which would be inductions over data;
- the table when files are deleted (`DeletedIsGone` is not kept, see below; the run `table`
  hands a file over to and from a deletion), and the composition `KernelFS`.

## Where the code and its promises differ

Four are runs of their own, named above, with what the code says beside them in
`findings`:

1. `update`, called when a partition is unmounted, replaces the bit vector by new, blank
   clusters before writing it (`bit_vec_ctrl_blck.cpp:8`): every cluster is free after the
   next mount.
2. `getEmptyCluster` reads the top of the stack and clears it with no lock
   (`bit_vec_ctrl_blck.cpp:133`): two threads get one cluster.
3. `format` leaves the mutex before it enters `waitB` (`part_cnt_blck.cpp:15`): the signal
   of the last close may come in between and is lost.
4. `readDataByte` takes a second-level index from the partition while the newer one is in
   memory (`kernel_file.cpp:203`): a file that reaches the second level, 512 KB, cannot be
   read back before it is closed, which is what `src/test/nit1.cpp:16` does.

The models contain these too. Each can be seen by checking the property named on the
module, with the change of the configuration given; where only threads and uses are
given, it is a change of MCGlobOpenFileTable.cfg:

| what happens | property | seen with |
|---|---|---|
| clusters of the last byte of the bit vector are never allocated (`bit_vec_ctrl_blck.cpp:112`) | ZeroOnlyWhenFull | MCBitVectCtrl.cfg with 12 clusters |
| the bit of another thread's allocation is overwritten (`bit_vec_ctrl_blck.cpp:199`) | MineIsAllocated | MCAllocatorThreadsTwice.cfg |
| the partition is formatted with a file open: an open that was let in is counted later (`part_cnt_blck.cpp:32`, `kernel_fs.cpp:90`) | FormatsOnlyWhenClosed | MCPartControlBlock.cfg |
| the block is deleted under a thread that was let in | DeletedWhenUnused | MCPartControlBlock.cfg |
| `signalB` leaves the counter at -1, so the next waiter brings it to 0 and is not signalled (`binary_semaphore.cpp:22`) | QueuedCallersReturn | MCPartControlBlock.cfg, `MAX_CALLS = 2` |
| after the first format that waited the counter is -1, so the next last close fills the semaphore; the second format does not wait then, and formats while a file is open (`binary_semaphore.cpp:22`) | ImplementsFileSystem | MCKernelFS.cfg, `MAX_CALLS = 2` |
| a file is open on a partition that is formatted or deleted, and its directory entry is gone: both happen between the gate's answer and the count of the file (`kernel_fs.cpp:90`) | ImplementsFileSystem | MCKernelFS.cfg, `ShutsWhen` or `OpensWhen` always true |
| an open that fails in the middle of a rewriting stays counted (`glob_opn_file_table.cpp:418`): a format or an unmount waits for ever | WaitersReturn | MCKernelFS.cfg, `Starved = {"p1"}`, `ShutsWhen` always true |
| an unmount that waited is counted off twice (`part_cnt_blck.cpp:66`, although the comment at line 74 says why it should be once) | GateShut | MCPartControlBlock.cfg with two unmounters |
| a thread works with a block that has been deleted (`mount_part_table.cpp:82`) | UsesLiveBlock | MCMountedPartitionTable.cfg |
| `unmountPCBPointer` does not look again after `prepareUnmount` (`mount_part_table.cpp:81`): two unmounts of a letter delete its block twice and return the letter twice | DeletesOnce, MountReplacesNothing | MCMountedPartitionTable.cfg, `MayUnmount <- AnyLetter` |
| a slot is found by its name, which is written after the wait for its lock (`glob_opn_file_table.cpp:242`): two threads that open a file at once for appending get a slot each | OneWriter | threads `t1`, `t2`, `Uses <- AppendUses`, no order (`AnyTime`) |
| the loops that clear a directory entry begin at the entry and end where entry 0 ends (`root_vec_ctrl.cpp:83`): only entry 0 can be deleted, although `glob_opn_file_table.cpp:454` says the name is erased so that nobody can open the file any more | DeletedIsGone | thread `t1`, `Uses <- DeleteUses`, no order |
| `deleteFile` frees the name of the entry, waits, and then reads and clears the entry (`glob_opn_file_table.cpp:455`): a file created in between takes the entry, and loses it and its clusters | EntryIsItsFile | threads `t1`, `t2`, `Uses <- ClearingUses`, no order |
| two threads that create a file at once both do | NamesUnique | two threads, one new file, mode `w` |
| a reader that waited joins a slot that has been freed and given to another file (`glob_opn_file_table.cpp:288`) | HandleIsItsFile | three readers of one file, one of which also appends to another |
| the slot of a deleted file keeps its name and control block (`glob_opn_file_table.cpp:561`) | HandleIsItsFile | a deletion and two opens of one file |
| rewriting a file that is in entry 0 empties the entry before it is written again, and another file may take it (`glob_opn_file_table.cpp:403`) | EntryIsItsFile | a rewrite of the file in entry 0, a creation beside it |
| when the table grows every slot gets a new lock (`glob_opn_file_table.cpp:76`) | LocksMatchHolders | MCGlobOpenFileTable.cfg, `START_SIZE = 1`, `MAX_TABLE = 3` |
| after a cut at a cluster boundary `ILevLeft` and `IILevDataLeft` are one too small (`kernel_fs.cpp:166`, `:182`); the next byte that needs a cluster is written where the pointer after the new one leads: in a file cut at 0, to cluster 0, the bit vector | ImplementsByteFiles, WritesStayInFile | MCKernelFile.cfg, `MayWrite <- AnyWrite` |
| pointers to the clusters that a cut released stay in the index (`part_cnt_blck.cpp:228`); once another file has the clusters, deleting the first releases them | ReleasesOnlyOwn | the same |
| overwriting through a second-level index that is not in memory does not move the cursor (`kernel_file.cpp:156`): the bytes that follow go to the same place | ImplementsByteFiles | MCKernelFileReadBack.cfg, `MayRead <- SupportedRead`, `MayCut <- SupportedCut` |
| `FS::doesExist` answers 0 for the file in entry 0 and for malformed paths and 1 for everything else, also for what is not there (`kernel_fs.cpp:82`) | ExistsTells | MCRootVectCtrl.cfg, `PublicSpec` |
| `RootVectCtrl::doesExist` answers 0 for a malformed path (`root_vec_ctrl.cpp:160`), where `root_vec_ctrl.h:41` says -1 for what does not exist: `openFile` and `deleteFile` go on with entry 0 and read a name that is a null pointer | ImplementsDirectory | MCRootVectCtrl.cfg, `Asked <- MCPaths` |
| `readRootDir` begins at an entry, free or not; `fs.h:26` says the number is that of a valid entry | ListsFromValid | MCRootVectCtrl.cfg |

The comment of a property that the code does not keep says "Not so" and why.

Read in the code while modelling, and in the models where they say so: when no
second-level index can be had, the old one has been deleted already and is deleted again
at closing (`kernel_file.cpp:85`, the action `GrowLoses`); a failed write leaves the file
cut where it began, also when it had only overwritten, although the comment at
`kernel_file.cpp:21` says it is undone (`ByteFiles.Fail` states what is kept); a second-level
index is cut by 256 entries where it has 512 (`part_cnt_blck.cpp:235`, `Rest`); `format` and
`unmount` always answer 1 (`kernel_fs.cpp:58`, `:63`) where `fs.h:21` says 0 for a failure.

## What is not modelled, and the plan

Not modelled, by choice: the forwarding in `FS` and `File`; writes through pointers to
freed memory (undefined; the models stop describing the thread's data there);
`redoEntry`, `createReworkEntry`, `setIndex`, `getNameAndExt` and `getPartNameExtNoDot`, which
nothing calls; the first three bytes of a path beyond whether they are as they should be;
partitions of more than one bit vector (16384 clusters), where the scan of the allocator
reduces its index modulo the cluster size and does not end; and, in `copyEnry`, an
evaluation of the right side after the increment on the left: before C++17 it is
undefined, and the model takes the order that C++17 gives.

What would come next, in this order:

1. **A wider composition**: several partitions, with the letters of
   `MountedPartitionTable` and a block that is deleted between the look-up and its use;
   `owned` of `BitVectCtrl` computed from the indices of `KernelFile`.
2. **The allocator at scale**: several bit vectors, and releases that overlap with
   allocations.
3. **More proofs**: the steps of `KernelFS` against `FileSystem`.

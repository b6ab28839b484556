------------------------------- MODULE KernelFS -------------------------------
(***************************************************************************)
(* KernelFS (src/kernel_fs.cpp) over one partition: the table of open      *)
(* files (GlobOpenFileTable) and the gate of the partition's control block *)
(* (PartControlBlock) together, joined by the counter filesOpen; and the   *)
(* life of the block, from mount to unmount and to the next mount.         *)
(*                                                                         *)
(* The table's steps and the gate's steps are those of their modules; a    *)
(* step that is both, such as closing the last file, is one action here.   *)
(* That a block may be deleted between getPCBPointer and checkPremision is *)
(* left to MountedPartitionTable.                                          *)
(***************************************************************************)
EXTENDS GlobOpenFileTable

CONSTANTS
    Formatters, Unmounters, SEM_MAX, MAX_CALLS,   \* see PartControlBlock
    OpensWhen(_),      \* when files are opened and deleted: a condition on pc
    ShutsWhen(_, _),   \* when format and unmount are called: on th and admitted
    MAX_MOUNTS         \* bound: how often the partition is mounted again

VARIABLES
    wantToFormat, wantToUnmount, formatBinSem, unmountBinSem, alive, pc, calls,
    admitted,   \* the threads that checkPremision let in and that go on in openFile
    disk,       \* the directory on the partition
    mounts      \* how often it was mounted again

Gate == INSTANCE PartControlBlock WITH Openers <- {}

gate  == <<wantToFormat, wantToUnmount, formatBinSem, unmountBinSem, alive, pc, calls>>
block == <<gate, disk, mounts>>
all   == <<vars, block, admitted>>

KernelInit ==
    /\ Init /\ Gate!Init
    /\ admitted = {} /\ disk = dir /\ mounts = 0

-----------------------------------------------------------------------------
\* openFile and closing, by the threads

\* Who opens files, and when.
Opens(t) ==
    /\ \E p \in Paths, m \in Modes : <<t, p, m>> \in Uses
    /\ CallsWhen(t, th) /\ OpensWhen(pc)
    /\ th[t].at = "idle" /\ th[t].opens < MAX_OPENS

\* Variant: a format that waits does not keep opens out.
LetIn(t) ==
    /\ alive /\ Opens(t) /\ wantToUnmount = 0
    /\ admitted' = admitted \cup {t}
    /\ UNCHANGED <<vars, block>>

\* getPCBPointer and checkPremision; who is turned away may try again.
CheckPremision(t) ==
    /\ alive /\ Opens(t) /\ wantToUnmount = 0 /\ wantToFormat = 0
    /\ admitted' = admitted \cup {t}
    /\ UNCHANGED <<vars, block>>

\* openFile goes on to the table.
Enter(t) ==
    /\ alive /\ t \in admitted
    /\ \E p \in Paths, m \in Modes : Call(t, p, m)
    /\ admitted' = admitted \ {t}
    /\ UNCHANGED block

\* deleteFile does not ask for permission.
CallDelete(t) ==
    /\ alive /\ t \notin admitted /\ OpensWhen(pc)
    /\ \E p \in Paths : Call(t, p, "delete")
    /\ UNCHANGED <<block, admitted>>

\* createEntry, reopenEntry and what openFile does after them, with incOpenFiles.
GoOn(t) == alive /\ Internal(t) /\ UNCHANGED <<block, admitted>>

Write(t) == alive /\ Resize(t) /\ UNCHANGED <<block, admitted>>

\* closeEntry with decOpenFiles: the last close wakes who waits.
CloseFile(t) ==
    /\ alive /\ Close(t)
    /\ IF filesOpen = 1 /\ filesOpen' = 0
       THEN /\ formatBinSem' = Gate!SignalB(formatBinSem)
            /\ unmountBinSem' = Gate!SignalB(unmountBinSem)
       ELSE UNCHANGED <<formatBinSem, unmountBinSem>>
    /\ UNCHANGED <<wantToFormat, wantToUnmount, alive, pc, calls, disk, mounts, admitted>>

-----------------------------------------------------------------------------
\* format, unmount and mount

NoFiles == [e \in EntryNums |-> Entry(NoFile, 0)]

\* What a step of format does besides: formatRI empties the directory, in memory
\* and on the partition.
FormatRI(f) ==
    /\ dir'  = IF Gate!Formats(f) THEN NoFiles ELSE dir
    /\ disk' = IF Gate!Formats(f) THEN NoFiles ELSE disk
    /\ UNCHANGED <<table, locks, th, admitted, mounts>>

FormatCall(f) == ShutsWhen(th, admitted) /\ Gate!FormatCall(f) /\ FormatRI(f)
FormatWake(f) == Gate!FormatWake(f) /\ FormatRI(f)
FormatGoesOn(f) == (Gate!FormatEnqueue(f) \/ Gate!FormatFinish(f)) /\ FormatRI(f)

Kept == UNCHANGED <<dir, table, locks, th, admitted, mounts>>

UnmountCall(u) == ShutsWhen(th, admitted) /\ Gate!UnmountCall(u) /\ Kept /\ UNCHANGED disk
UnmountWake(u) == Gate!UnmountWake(u) /\ Kept /\ UNCHANGED disk
UnmountGoesOn(u) ==
    (Gate!UnmountEnqueue(u) \/ Gate!UnmountFinish(u)) /\ Kept /\ UNCHANGED disk

\* The destructors write the directory to the partition, through the cache.  A call
\* that is under way goes on with a pointer to the block that is gone: nothing is
\* said of its thread from there on.
UnderWay(t) == t \in admitted \/ th[t].at \notin {"idle", "stranded"}

Delete(u) ==
    /\ Gate!Delete(u)
    /\ disk' = dir
    /\ th' = [t \in Threads |-> IF UnderWay(t) THEN [th[t] EXCEPT !.at = "broken"] ELSE th[t]]
    /\ admitted' = {}
    /\ UNCHANGED <<dir, table, locks, mounts>>

\* A new block reads the directory.  A format that waited in the old one is lost.
Mount ==
    /\ ~alive /\ mounts < MAX_MOUNTS
    /\ mounts' = mounts + 1
    /\ dir' = disk
    /\ filesOpen' = 0 /\ wantToFormat' = 0 /\ wantToUnmount' = 0
    /\ formatBinSem' = Gate!NewBinarySemaphore /\ unmountBinSem' = Gate!NewBinarySemaphore
    /\ alive' = TRUE
    /\ pc' = [x \in DOMAIN pc |-> IF pc[x] \in {"idle", "unmounted"} THEN "idle" ELSE "lost"]
    /\ calls' = [f \in Formatters |-> 0]
    /\ UNCHANGED <<table, locks, th, admitted, disk>>

KernelNext ==
    \/ \E t \in Threads : \/ CheckPremision(t) \/ Enter(t) \/ CallDelete(t)
                         \/ GoOn(t) \/ Write(t) \/ CloseFile(t)
    \/ \E f \in Formatters : FormatCall(f) \/ FormatWake(f) \/ FormatGoesOn(f)
    \/ \E u \in Unmounters : UnmountCall(u) \/ UnmountWake(u) \/ UnmountGoesOn(u) \/ Delete(u)
    \/ Mount

\* As in the two modules: calls go on, files are closed, semaphores are fair.
KernelFairness ==
    /\ \A t \in Threads : WF_all(Enter(t)) /\ WF_all(GoOn(t)) /\ WF_all(CloseFile(t))
    /\ \A f \in Formatters : SF_all(FormatWake(f)) /\ WF_all(FormatGoesOn(f))
    /\ \A u \in Unmounters : SF_all(UnmountWake(u)) /\ WF_all(UnmountGoesOn(u)) /\ WF_all(Delete(u))

KernelSpec == KernelInit /\ [][KernelNext]_all /\ KernelFairness

-----------------------------------------------------------------------------
\* The directory as files with sizes.  A file that is being rewritten is empty from
\* the moment its old contents go, even while its entry is cleared.
Rewritten(p) == \E t \in Threads : th[t].at = "rewrites" /\ th[t].path = p

FilesIn(d) ==
    [p \in Paths |->
        IF Rewritten(p) THEN 0
        ELSE LET E == {e \in EntryNums : d[e].name = p} IN
             IF E = {} THEN NONE ELSE d[Min(E)].size]

\* What the callers see: files, handles, and whether the partition is mounted.
Promised == INSTANCE FileSystem WITH
    Sizes   <- 0..MAX_SIZE,
    Absent  <- NONE,
    files   <- FilesIn(IF alive THEN dir ELSE disk),
    handles <- {[thread |-> t, path |-> th[t].path, mode |-> th[t].op] :
                   t \in {u \in Threads : IsOpen(u)}},
    mounted <- alive

\* The table, the gate and the directory keep the promises of FileSystem together,
\* although each counts something else: handles, slots, threads that wait.
ImplementsFileSystem == Promised!Spec

\* A format or an unmount that is in waitB while a file is open returns, however many
\* readers share a slot; a format may find the block gone.
WaitersReturn ==
    /\ \A f \in Formatters :
          (pc[f] = "first waits" /\ filesOpen > 0) ~> (pc[f] = "idle" \/ ~alive)
    /\ \A u \in Unmounters : (pc[u] = "waits" /\ filesOpen > 0) ~> ~alive
=============================================================================

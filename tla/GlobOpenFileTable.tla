--------------------------- MODULE GlobOpenFileTable ---------------------------
(***************************************************************************)
(* GlobOpenFileTable (src/glob_opn_file_table.cpp) with the directory it   *)
(* works on (src/root_vec_ctrl.cpp) and its callers in KernelFS            *)
(* (src/kernel_fs.cpp): threads open, write, close and delete the files of *)
(* one mounted partition.                                                  *)
(*                                                                         *)
(* Every section under the table's mutex is one action.  The look-up in    *)
(* the directory that comes before it, the wait for the reader/writer lock *)
(* of the slot in the middle of it and the rewriting of a file opened with *)
(* 'w' run outside the mutex and are actions of their own.                 *)
(*                                                                         *)
(* Left to other modules: the gate (PartControlBlock), the clusters of a   *)
(* file (BitVectCtrl).                                                     *)
(***************************************************************************)
EXTENDS Integers, FiniteSets, FiniteSetsExt

CONSTANTS
    Threads, Paths,
    Uses,        \* who does what: a set of <<thread, path, operation>>
    CallsWhen(_, _), ClosesWhen(_, _),   \* and in what order: conditions on a thread and th
    InitDir,     \* the paths in the directory at first, a function on its first entries
    NoFile,      \* the name of an entry that is all zeroes
    ENTRYCNT,    \* entries of the directory (64 in the code)
    START_SIZE, INCREMENT,   \* of the table (5 and 5 in the code)
    Starved,     \* the threads for which allocateCluster may find no cluster
    UINT_MAX,    \* the greatest unsigned int
    MAX_SIZE, MAX_OPENS, MAX_TABLE   \* bounds: file size, calls of a thread, slots

Modes == {"r", "w", "a"}
Operations == Modes \cup {"delete"}
EntryNums == 0..ENTRYCNT - 1
NONE == -1

ASSUME TableAssumption ==
    /\ Uses \subseteq Threads \X Paths \X Operations /\ NoFile \notin Paths
    /\ ENTRYCNT \in Nat \ {0} /\ START_SIZE \in Nat \ {0} /\ INCREMENT \in Nat \ {0}
    /\ DOMAIN InitDir \subseteq EntryNums /\ \A e \in DOMAIN InitDir : InitDir[e] \in Paths
    /\ Starved \subseteq Threads
    /\ UINT_MAX \in Nat \ {0} /\ MAX_SIZE \in Nat /\ MAX_OPENS \in Nat /\ MAX_TABLE \in Nat

VARIABLES
    dir,        \* the root directory: entry -> [name, size]
    table,      \* the slots, GOFTEntry: 0..size-1 -> record
    locks,      \* the reader/writer locks that were ever created
    filesOpen,  \* the counter of the partition's control block
    th          \* the threads: where each is and its local variables

vars == <<dir, table, locks, filesOpen, th>>

-----------------------------------------------------------------------------
\* The directory

Entry(p, s) == [name |-> p, size |-> s]

First(S) == IF S = {} THEN NONE ELSE Min(S)

CheckForName(p) == First({e \in EntryNums : dir[e].name = p})

GetFreeEntry == First({e \in EntryNums : dir[e].name = NoFile})

\* The loops of the clear operations start at the entry and stop at the end of
\* entry 0: every other entry stays as it is.
ClearDirEntryName(e) == IF e = 0 THEN [dir EXCEPT ![0].name = NoFile] ELSE dir
ClearDirEntry(e)     == IF e = 0 THEN [dir EXCEPT ![0] = Entry(NoFile, 0)] ELSE dir

-----------------------------------------------------------------------------
\* The table

Slots == DOMAIN table
size  == Cardinality(Slots)

NewLock == [excl |-> FALSE, shared |-> 0]

\* A slot as its constructor leaves it.  (The fields the constructor leaves
\* uninitialized are never read before they are written; pcb is no partition's.)
NewSlot(l) == [free |-> TRUE, name |-> NoFile, pcb |-> FALSE, CNT |-> 0,
               entryNum |-> 0, size |-> 0, mode |-> "r", sync |-> l]

\* checkForFilePrivate
CheckForFile(p) == First({i \in Slots : ~table[i].free /\ table[i].pcb /\ table[i].name = p})

\* update: the slots are copied with operator=, which leaves each new slot the
\* lock of its own constructor.  (It leaves num as it is too, the cluster to which
\* closing writes the index: slots have no num here.)
Grown ==
    LET n == Cardinality(DOMAIN locks) IN
    [i \in 0..size + INCREMENT - 1 |->
        IF i \in Slots THEN [table[i] EXCEPT !.sync = n + i] ELSE NewSlot(n + i)]
LocksGrown == [l \in 0..Cardinality(DOMAIN locks) + size + INCREMENT - 1 |->
                  IF l \in DOMAIN locks THEN locks[l] ELSE NewLock]

\* Variant: the slot is not marked.
GetUnmarkedSlot(i) ==
    /\ \E j \in Slots : table[j].free
    /\ i = Min({j \in Slots : table[j].free})
    /\ UNCHANGED <<table, locks>>

\* getFreeEntry: the first free slot; of a table that had to grow, the last one.
GetFreeSlot(i) ==
    LET Free == {j \in Slots : table[j].free} IN
    /\ Free # {} \/ size + INCREMENT <= MAX_TABLE
    /\ IF Free # {}
       THEN /\ i = Min(Free)
            /\ table' = [table EXCEPT ![i].free = FALSE]
            /\ UNCHANGED locks
       ELSE /\ i = size + INCREMENT - 1
            /\ table' = [Grown EXCEPT ![i].free = FALSE]
            /\ locks' = LocksGrown

\* Variants: the entry, or the size, is left as the last file had it.
FilledOldEntry(i, p, e, s, m) ==
    [table[i] EXCEPT !.name = p, !.CNT = 1, !.pcb = TRUE, !.size = s, !.mode = m]
FilledOldSize(i, p, e, s, m) ==
    [table[i] EXCEPT !.name = p, !.CNT = 1, !.pcb = TRUE, !.entryNum = e, !.mode = m]

Filled(i, p, e, s, m) ==
    [table[i] EXCEPT !.name = p, !.CNT = 1, !.pcb = TRUE, !.entryNum = e, !.size = s, !.mode = m]

\* A slot that was found may have been freed during the wait.
\* Variant: that is not looked at.
NotReclaimed(slot, how) == slot

Reclaimed(slot, how) == [slot EXCEPT !.free = IF how = "found" THEN FALSE ELSE @]

\* Variant: every lock is taken as a reader's.
AcquiredShared(k, op) == [k EXCEPT !.shared = @ + 1]

Acquired(k, op) == IF op = "r" THEN [k EXCEPT !.shared = @ + 1] ELSE [k EXCEPT !.excl = TRUE]

\* Variants: the lock is released in the other mode; it is not released.
ReleasedShared(k, op) == [k EXCEPT !.shared = @ - 1]
NotReleased(k, op) == k

\* Releasing a lock that is not held is refused by the system.
Released(k, op) ==
    IF op = "r" THEN [k EXCEPT !.shared = IF @ = 0 THEN 0 ELSE @ - 1] ELSE [k EXCEPT !.excl = FALSE]

-----------------------------------------------------------------------------
Init ==
    /\ dir = [e \in EntryNums |-> Entry(IF e \in DOMAIN InitDir THEN InitDir[e] ELSE NoFile, 0)]
    /\ table = [i \in 0..START_SIZE - 1 |-> NewSlot(i)]
    /\ locks = [l \in 0..START_SIZE - 1 |-> NewLock]
    /\ filesOpen = 0
    /\ th = [t \in Threads |-> [at |-> "idle", path |-> NoFile, op |-> "r", ent |-> NONE,
                                how |-> "new", en |-> 0, lk |-> 0, opens |-> 0]]

Step(t, from, to) == th[t].at = from /\ th' = [th EXCEPT ![t].at = to]

\* openFile and KernelFS::deleteFile up to the table: the path is looked up.  A
\* file that is not there is created when it is opened with 'w'; otherwise the
\* call ends here.
Call(t, p, op) ==
    /\ <<t, p, op>> \in Uses /\ CallsWhen(t, th)
    /\ th[t].at = "idle" /\ th[t].opens < MAX_OPENS
    /\ LET e == CheckForName(p) IN
       th' = [th EXCEPT ![t].at = IF e = NONE /\ op # "w" THEN "idle" ELSE "looked",
                        ![t].path = p, ![t].op = op, ![t].ent = e, ![t].opens = @ + 1]
    /\ UNCHANGED <<dir, table, locks, filesOpen>>

\* createEntry up to the lock.  When the directory or the disk is full it returns
\* ~0, and openFile makes a file of that, one with no slot.
Create(t) ==
    /\ th[t].at = "looked" /\ th[t].ent = NONE
    /\ \/ /\ GetFreeEntry = NONE \/ t \in Starved
          /\ Step(t, "looked", "broken")
          /\ UNCHANGED <<dir, table, locks>>
       \/ /\ GetFreeEntry # NONE
          /\ dir' = [dir EXCEPT ![GetFreeEntry] = Entry(th[t].path, 0)]
          /\ \E i \in 0..MAX_TABLE - 1 :
                /\ GetFreeSlot(i)
                /\ th' = [th EXCEPT ![t].at = "slot", ![t].ent = GetFreeEntry,
                                    ![t].how = "new", ![t].en = i]
    /\ UNCHANGED filesOpen

\* reopenEntry and deleteFile up to the lock: the slot of the file, or a free one.
Find(t) ==
    /\ th[t].at = "looked" /\ th[t].ent # NONE
    /\ dir' = IF th[t].op = "delete" THEN ClearDirEntryName(th[t].ent) ELSE dir
    /\ IF CheckForFile(th[t].path) # NONE
       THEN /\ th' = [th EXCEPT ![t].at = "slot", ![t].how = "found",
                                ![t].en = CheckForFile(th[t].path)]
            /\ UNCHANGED <<table, locks>>
       ELSE \E i \in 0..MAX_TABLE - 1 :
                /\ GetFreeSlot(i)
                /\ th' = [th EXCEPT ![t].at = "slot", ![t].how = "taken", ![t].en = i]
    /\ UNCHANGED filesOpen

\* AcquireSRWLock...(table[en].sync), without the mutex: which lock, and the wait.
Ask(t) ==
    /\ th[t].at = "slot"
    /\ th' = [th EXCEPT ![t].at = "waits", ![t].lk = table[th[t].en].sync]
    /\ UNCHANGED <<dir, table, locks, filesOpen>>

\* Variant: a writer does not wait for the readers.
AcquireEarly(t) ==
    /\ ~locks[th[t].lk].excl
    /\ Step(t, "waits", "locked")
    /\ locks' = [locks EXCEPT ![th[t].lk] = Acquired(@, th[t].op)]
    /\ UNCHANGED <<dir, table, filesOpen>>

Acquire(t) ==
    LET k == locks[th[t].lk] IN
    /\ ~k.excl /\ (th[t].op # "r" => k.shared = 0)
    /\ Step(t, "waits", "locked")
    /\ locks' = [locks EXCEPT ![th[t].lk] = Acquired(k, th[t].op)]
    /\ UNCHANGED <<dir, table, filesOpen>>

\* The rest of createEntry and of reopenEntry, with the mutex again.
Joins(t) == th[t].how = "found" /\ th[t].op = "r" /\ table[th[t].en].CNT > 0

Fill(t) ==
    LET i == th[t].en
        s == IF th[t].how = "new" THEN 0 ELSE dir[th[t].ent].size
    IN
    /\ th[t].op # "delete" /\ ~Joins(t)
    /\ Step(t, "locked", IF th[t].op = "w" /\ th[t].how # "new" THEN "discards" ELSE "open")
    /\ table' = [table EXCEPT ![i] =
                    Reclaimed(Filled(i, th[t].path, th[t].ent, s, th[t].op), th[t].how)]
    /\ filesOpen' = filesOpen + 1
    /\ UNCHANGED <<dir, locks>>

\* Variant: a reader that joins others is counted at the gate too.
JoinCounted(t) ==
    /\ Joins(t)
    /\ Step(t, "locked", "open")
    /\ table' = [table EXCEPT ![th[t].en].CNT = @ + 1]
    /\ filesOpen' = filesOpen + 1
    /\ UNCHANGED <<dir, locks>>

\* A reader that finds other readers at the slot is only counted.
Join(t) ==
    /\ Joins(t)
    /\ Step(t, "locked", "open")
    /\ table' = [table EXCEPT ![th[t].en].CNT = @ + 1]
    /\ UNCHANGED <<dir, locks, filesOpen>>

\* reopenGOFEntryWithDelete after reopenEntry, without the mutex: the old file is
\* deleted, then an empty one is written in its entry.
Discard(t) ==
    /\ Step(t, "discards", "rewrites")
    /\ dir' = ClearDirEntry(table[th[t].en].entryNum)
    /\ UNCHANGED <<table, locks, filesOpen>>

\* Variant: the new file is written to a free entry.
RewriteElsewhere(t) ==
    LET x == GetFreeEntry IN
    /\ x # NONE
    /\ Step(t, "rewrites", "open")
    /\ dir' = [dir EXCEPT ![x] = Entry(th[t].path, 0)]
    /\ table' = [table EXCEPT ![th[t].en] = Filled(th[t].en, th[t].path, x, 0, th[t].op)]
    /\ UNCHANGED <<locks, filesOpen>>

Rewrite(t) ==
    LET i == th[t].en
        x == table[i].entryNum
    IN
    /\ Step(t, "rewrites", "open")
    /\ dir' = [dir EXCEPT ![x] = Entry(th[t].path, 0)]
    /\ table' = [table EXCEPT ![i] = [@ EXCEPT !.name = th[t].path, !.CNT = 1,
                                               !.size = 0, !.mode = th[t].op]]
    /\ UNCHANGED <<locks, filesOpen>>

\* allocateCluster fails: ~0 goes back to openFile, slot and lock stay taken.
RewriteFails(t) ==
    /\ t \in Starved
    /\ Step(t, "rewrites", "stranded")
    /\ UNCHANGED <<dir, table, locks, filesOpen>>

\* The rest of deleteFile, with the mutex again.
DeleteFile(t) ==
    LET i == th[t].en IN
    /\ th[t].op = "delete"
    /\ Step(t, "locked", "idle")
    /\ table' = [table EXCEPT ![i] =
                    [Filled(i, th[t].path, th[t].ent, dir[th[t].ent].size, "w") EXCEPT !.free = TRUE]]
    /\ dir' = ClearDirEntry(th[t].ent)
    /\ locks' = [locks EXCEPT ![table[i].sync] = Released(@, "delete")]
    /\ UNCHANGED filesOpen

\* Writing and truncating, as far as the table sees it.  A thread whose table has
\* been replaced writes to memory that was freed.
Resize(t) ==
    /\ th[t].at = "open" /\ th[t].op # "r"
    /\ table[th[t].en].sync = th[t].lk
    /\ \E s \in 0..MAX_SIZE : table' = [table EXCEPT ![th[t].en].size = s]
    /\ UNCHANGED <<dir, locks, filesOpen, th>>

\* closeEntry; with a slot that is free nothing happens, the lock stays taken.
Close(t) ==
    LET i == th[t].en
        slot == table[i]
        cnt == IF slot.CNT = 0 THEN UINT_MAX ELSE slot.CNT - 1
        last == ~(cnt > 0 /\ slot.mode = "r")
    IN
    /\ ClosesWhen(t, th)
    /\ slot.free \/ slot.pcb \/ ~last    \* otherwise a null pointer is followed
    /\ Step(t, "open", "idle")
    /\ IF slot.free
       THEN UNCHANGED <<dir, table, locks, filesOpen>>
       ELSE /\ locks' = [locks EXCEPT ![slot.sync] = Released(@, slot.mode)]
            /\ table' = [table EXCEPT ![i].CNT = cnt, ![i].free = last, ![i].pcb = @ /\ ~last]
            /\ dir' = IF last /\ slot.mode # "r"
                      THEN [dir EXCEPT ![slot.entryNum].size = slot.size] ELSE dir
            /\ filesOpen' = IF last /\ filesOpen > 0 THEN filesOpen - 1 ELSE filesOpen

Internal(t) ==
    \/ Create(t) \/ Find(t) \/ Ask(t) \/ Acquire(t) \/ Fill(t) \/ Join(t)
    \/ Discard(t) \/ Rewrite(t) \/ RewriteFails(t) \/ DeleteFile(t)

Next ==
    \E t \in Threads :
        \/ \E p \in Paths, op \in Operations : Call(t, p, op)
        \/ Internal(t) \/ Resize(t) \/ Close(t)

Spec == Init /\ [][Next]_vars

\* A call that has begun goes on; a file that is open is closed in the end.
Fairness == \A t \in Threads : WF_vars(Internal(t)) /\ WF_vars(Close(t))

FairSpec == Spec /\ Fairness

-----------------------------------------------------------------------------
Places == {"idle", "looked", "slot", "waits", "locked", "discards", "rewrites",
           "open", "broken", "stranded"}

SlotsOK ==
    \A i \in Slots : table[i] \in
        [free : BOOLEAN, name : Paths \cup {NoFile}, pcb : BOOLEAN, CNT : 0..UINT_MAX,
         entryNum : EntryNums, size : 0..MAX_SIZE, mode : Modes, sync : DOMAIN locks]

TypeOK ==
    /\ dir \in [EntryNums -> [name : Paths \cup {NoFile}, size : 0..MAX_SIZE]]
    /\ Slots = 0..size - 1 /\ SlotsOK
    /\ \A l \in DOMAIN locks : locks[l] \in [excl : BOOLEAN, shared : Nat]
    /\ filesOpen \in Nat
    /\ th \in [Threads -> [at : Places, path : Paths \cup {NoFile}, op : Operations,
                           ent : EntryNums \cup {NONE}, how : {"new", "taken", "found"},
                           en : Slots, lk : DOMAIN locks, opens : 0..MAX_OPENS]]

IsOpen(t)    == th[t].at = "open"
HasSlot(t)   == th[t].at \in {"discards", "rewrites", "open", "stranded"}
HoldsLock(t) == HasSlot(t) \/ th[t].at = "locked"

\* A file that is open for writing or appending is open once.
OneWriter ==
    \A t, u \in Threads :
        t # u /\ IsOpen(t) /\ IsOpen(u) /\ th[t].path = th[u].path
            => th[t].op = "r" /\ th[u].op = "r"

\* The slot of an open file is that file's, in the mode it was opened in, and is
\* not up for use by another.
HandleIsItsFile ==
    \A t \in Threads : IsOpen(t) =>
        /\ ~table[th[t].en].free
        /\ table[th[t].en].name = th[t].path /\ table[th[t].en].mode = th[t].op

\* The directory entry of an open file is that file's.
EntryIsItsFile ==
    \A t \in Threads : IsOpen(t) => dir[table[th[t].en].entryNum].name = th[t].path

\* A lock is held by the threads that took it and have not given the file back:
\* none is released early, in the wrong mode, or never.
LocksMatchHolders ==
    \A l \in DOMAIN locks :
        LET H == {t \in Threads : HoldsLock(t) /\ th[t].lk = l} IN
        /\ locks[l].excl <=> \E t \in H : th[t].op # "r"
        /\ locks[l].shared = Cardinality({t \in H : th[t].op = "r"})

\* The gate counts every slot in use once, however many readers share it, so that
\* it is 0 just when a format or an unmount may go ahead.
FilesOpenCounts ==
    filesOpen = Cardinality({th[t].en : t \in {u \in Threads : HasSlot(u)}})

\* A reader sees the file at the size the directory has for it.
ReaderSeesStoredSize ==
    \A t \in Threads : IsOpen(t) /\ th[t].op = "r" =>
        table[th[t].en].size = dir[table[th[t].en].entryNum].size

\* No two entries of the directory have the same name.
NamesUnique ==
    \A e, f \in EntryNums : e # f /\ dir[e].name = dir[f].name => dir[e].name = NoFile

\* A file that has been deleted is no longer in the directory.
DeletedIsGone ==
    [][\A t \in Threads :
            th[t].at = "locked" /\ th[t].op = "delete" /\ th'[t].at = "idle"
                => \A e \in EntryNums : dir'[e].name # th[t].path]_vars

\* Every call returns: no thread waits for ever for a lock.
CallsReturn ==
    \A t \in Threads : th[t].at \in {"looked", "slot", "waits", "locked", "discards", "rewrites"}
                          ~> th[t].at \in {"idle", "open", "broken", "stranded"}
=============================================================================

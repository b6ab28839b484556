--------------------------- MODULE SharedFilesProofs ---------------------------
(***************************************************************************)
(* Proofs about GlobOpenFileTable when threads share files: one writer or  *)
(* many readers, a slot that is its file's, locks that match their         *)
(* holders.  They hold for any number of threads and files, however the    *)
(* steps interleave, but for three interleavings the code lets happen: two *)
(* calls that create one file, two that take a slot for one file, and a    *)
(* slot that is taken while a call waits for the file it last had.         *)
(***************************************************************************)
EXTENDS GlobOpenFileTableProofs

\* The conditions on who uses what: nobody deletes, the file in entry 0 is not
\* rewritten (either would clear an entry others know), the table does not grow, and
\* the number of threads can be counted in a slot.
Shareable ==
    /\ IsFiniteSet(Threads) /\ Cardinality(Threads) <= UINT_MAX
    /\ \A t \in Threads, p \in Paths : <<t, p, "delete">> \notin Uses
    /\ 0 \in DOMAIN InitDir
    /\ \A t \in Threads : <<t, InitDir[0], "w">> \notin Uses
    /\ \A e, f \in DOMAIN InitDir : InitDir[e] = InitDir[f] => e = f
    /\ MAX_TABLE < START_SIZE + INCREMENT

\* Threads on their way to a slot: to make a file, to a slot they found, or one they took.
Creates(t) == th[t].at = "looked" /\ th[t].ent = NONE
Finds(t)   == Waits(t) /\ th[t].how = "found"
Takes(t)   == Waits(t) /\ th[t].how # "found"

\* The interleavings left out: two threads that missed a file create it both; one takes
\* a slot for a file while another waits for a slot of it; and a slot that a thread found
\* and waits for, since freed, is taken by another.
CreatedOnce ==
    \A t, u \in Threads : t # u /\ Creates(t) /\ Creates(u) => th[t].path # th[u].path
TakenOnce ==
    \A t, u \in Threads : t # u /\ Takes(t) /\ Waits(u) => th[t].path # th[u].path
WaitedSlotsKept ==
    \A t, u \in Threads : Finds(t) /\ Takes(u) => th[t].en # th[u].en
Undisturbed == CreatedOnce /\ TakenOnce /\ WaitedSlotsKept

\* A slot that is filled and in use; a file that has none.
Serves(i)    == ~table[i].free /\ table[i].pcb
Unserved(p)  == \A i \in TableSlots : Serves(i) => table[i].name # p
HoldersOf(i) == {t \in Threads : HasSlot(t) /\ th[t].en = i}
ReadersOf(l) == {t \in Threads : HoldsLock(t) /\ th[t].lk = l /\ th[t].op = "r"}

\* What a thread inside a call knows of its file is so.
KnowsFile(t) ==
    InCall(t) =>
        /\ th[t].path \in Paths /\ th[t].op \in Modes
        /\ <<t, th[t].path, th[t].op>> \in Uses
        /\ IF th[t].at = "looked" /\ th[t].ent = NONE
           THEN th[t].op = "w" /\ \A e \in EntryNums : dir[e].name # th[t].path
           ELSE th[t].ent \in EntryNums /\ dir[th[t].ent].name = th[t].path

\* A slot counts its holders.  One that serves a file has some, and its entry is the
\* file's; no other slot serves that file.
SlotCounts(i) ==
    /\ table[i].CNT = Cardinality(HoldersOf(i))
    /\ table[i].free => ~table[i].pcb
    /\ Serves(i) => /\ HoldersOf(i) # {}
                    /\ table[i].name \in Paths /\ dir[table[i].entryNum].name = table[i].name
OneSlot ==
    \A i, j \in TableSlots : Serves(i) /\ Serves(j) /\ table[i].name = table[j].name => i = j

\* A holder's slot serves its file, in its mode; only a writer is ever between
\* reopenEntry and the end of its call.
Holds(t) ==
    HasSlot(t) =>
        /\ Serves(th[t].en) /\ th[t].lk = th[t].en
        /\ table[th[t].en].name = th[t].path /\ table[th[t].en].mode = th[t].op
        /\ table[th[t].en].entryNum = th[t].ent
        /\ th[t].at # "open" => th[t].op = "w"

\* A slot that was taken is its taker's, and nobody finds it; one that was found still
\* has the name, and serves the file or has been given up by its last holder.
TakesOwn(t) ==
    Takes(t) =>
        /\ ~table[th[t].en].free /\ ~table[th[t].en].pcb /\ Unserved(th[t].path)
        /\ th[t].how = "new" => th[t].op = "w"
        /\ \A u \in Threads \ {t} : Takes(u) => th[u].en # th[t].en
FindsOwn(t) ==
    Finds(t) =>
        /\ table[th[t].en].name = th[t].path
        /\ IF table[th[t].en].free THEN Unserved(th[t].path) ELSE Serves(th[t].en)

\* Threads that wait for one file found one slot.
Together ==
    \A t, u \in Threads : Finds(t) /\ Finds(u) /\ th[t].path = th[u].path => th[t].en = th[u].en

\* Locks: asked for is the slot's own; held by one writer, or by readers it counts.
Asked(t) == th[t].at \in {"waits", "locked"} => th[t].lk = th[t].en
LockCounts(l) ==
    /\ locks[l].excl <=> \E t \in Threads : HoldsLock(t) /\ th[t].lk = l /\ th[t].op # "r"
    /\ locks[l].shared = Cardinality(ReadersOf(l))
Sharers ==
    \A t, u \in Threads :
        HoldsLock(t) /\ HoldsLock(u) /\ th[t].lk = th[u].lk /\ t # u => th[t].op = "r"

SEntries == (\A t \in Threads : KnowsFile(t)) /\ NamesUnique /\ FirstEntryStays
SSlots   == (\A i \in TableSlots : SlotCounts(i)) /\ OneSlot
SThreads == \A t \in Threads : Holds(t) /\ TakesOwn(t) /\ FindsOwn(t)
SLocks   == /\ \A t \in Threads : Asked(t)
            /\ \A l \in TableSlots : LockCounts(l)
            /\ Sharers

SInv ==
    /\ Types /\ SEntries /\ SSlots /\ SThreads /\ Together /\ SLocks
    /\ FilesOpenCounts /\ ReaderSeesStoredSize

-----------------------------------------------------------------------------
LEMMA SharedInit ==
    ASSUME Shareable, Init
    PROVE  SInv
<1>1. 0 \in EntryNums /\ NoFile \notin Paths
  BY TableAssumption, InitTypes
<1> DEFINE first == [e \in EntryNums |-> IF e \in DOMAIN InitDir THEN InitDir[e] ELSE NoFile]
<1>3. \A e \in EntryNums : dir[e].name = first[e]
  BY InitTypes
<1>4. Types
  BY InitTypes
<1>5. \A t \in Threads : th[t].at = "idle"
  BY DEF Init
<1>6. \A t \in Threads : /\ ~InCall(t) /\ ~HasSlot(t) /\ ~HoldsLock(t) /\ ~IsOpen(t)
                         /\ ~Takes(t) /\ ~Finds(t) /\ th[t].at \notin {"waits", "locked"}
  BY <1>5 DEF InCall, HasSlot, HoldsLock, IsOpen, Takes, Finds, Waits
<1>7. SEntries
  <2>1. \A e, f \in EntryNums : e # f /\ first[e] = first[f] => first[e] = NoFile
    BY <1>1, TableAssumption DEF Shareable
  <2>2. NamesUnique
    BY <1>3, <2>1 DEF NamesUnique
  <2>3. FirstEntryStays
    BY <1>1, <1>3 DEF FirstEntryStays, Shareable
  <2> QED
    BY <1>6, <2>2, <2>3 DEF SEntries, KnowsFile
<1>8. SSlots
  <2>1. \A i \in TableSlots : /\ table[i].free /\ ~table[i].pcb /\ table[i].CNT = 0
                              /\ HoldersOf(i) = {} /\ ~Serves(i)
    BY <1>6 DEF Init, NewSlot, TableSlots, HoldersOf, Serves
  <2> QED
    BY <2>1, FS_EmptySet DEF SSlots, SlotCounts, OneSlot
<1>9. SThreads
  BY <1>6 DEF SThreads, Holds, TakesOwn, FindsOwn
<1>10. SLocks
  <2>1. \A l \in TableSlots : ~locks[l].excl /\ locks[l].shared = 0 /\ ReadersOf(l) = {}
    BY <1>6 DEF Init, NewLock, TableSlots, ReadersOf
  <2> QED
    BY <1>6, <2>1, FS_EmptySet DEF SLocks, Asked, LockCounts, Sharers
<1>11. FilesOpenCounts
  <2>1. {th[t].en : t \in {u \in Threads : HasSlot(u)}} = {}
    BY <1>6
  <2> QED
    BY <2>1, FS_EmptySet DEF FilesOpenCounts, Init
<1>12. ReaderSeesStoredSize
  BY <1>6 DEF ReaderSeesStoredSize
<1>13. Together
  BY <1>6 DEF Together
<1> QED
  BY <1>4, <1>7, <1>8, <1>9, <1>10, <1>11, <1>12, <1>13 DEF SInv

-----------------------------------------------------------------------------
\* What the invariant says of threads that share

LEMMA PlacesOf ==
    ASSUME NEW t \in Threads
    PROVE  /\ HasSlot(t) => InCall(t) /\ HoldsLock(t) /\ ~Waits(t)
                            /\ th[t].at \notin {"looked", "slot", "waits", "locked"}
           /\ IsOpen(t) => HasSlot(t)
           /\ Waits(t) => InCall(t) /\ ~HasSlot(t) /\ (Takes(t) \/ Finds(t))
           /\ Takes(t) \/ Finds(t) => Waits(t)
           /\ HoldsLock(t) <=> HasSlot(t) \/ th[t].at = "locked"
           /\ th[t].at \in {"slot", "waits", "locked"} => Waits(t)
BY DEF HasSlot, InCall, HoldsLock, Waits, IsOpen, Takes, Finds

LEMMA TypesOf ==
    ASSUME Types, NEW t \in Threads
    PROVE  th[t] \in ThRec /\ th[t].en \in TableSlots /\ table[th[t].en] \in SlotRec
           /\ table[th[t].en].sync = th[t].en /\ th[t].lk \in TableSlots
BY DEF Types, ThRec

LEMMA FileOf ==
    ASSUME SInv, NEW t \in Threads, InCall(t), ~(th[t].at = "looked" /\ th[t].ent = NONE)
    PROVE  /\ th[t].path \in Paths /\ th[t].op \in Modes /\ th[t].ent \in EntryNums
           /\ dir[th[t].ent].name = th[t].path
BY DEF SInv, SEntries, KnowsFile

\* The slot of a thread that has one.
LEMMA SlotOf ==
    ASSUME SInv, NEW t \in Threads, HasSlot(t)
    PROVE  /\ th[t].en \in TableSlots /\ table[th[t].en] \in SlotRec /\ Serves(th[t].en)
           /\ table[th[t].en].name = th[t].path /\ table[th[t].en].mode = th[t].op
           /\ table[th[t].en].entryNum = th[t].ent /\ table[th[t].en].sync = th[t].en
           /\ th[t].lk = th[t].en /\ ~Unserved(th[t].path)
           /\ th[t].path \in Paths /\ th[t].op \in Modes
           /\ th[t].ent \in EntryNums /\ dir[th[t].ent].name = th[t].path
           /\ th[t].at # "open" => th[t].op = "w"
<1>1. InCall(t) /\ th[t].at # "looked"
  BY PlacesOf
<1>2. Holds(t)
  BY DEF SInv, SThreads
<1>3. th[t].en \in TableSlots /\ table[th[t].en] \in SlotRec /\ table[th[t].en].sync = th[t].en
  BY TypesOf DEF SInv
<1> QED
  BY <1>1, <1>2, <1>3, FileOf DEF Holds, Unserved

\* Who rewrites has not the file in entry 0.
LEMMA RewritesElsewhere ==
    ASSUME Shareable, SInv, NEW t \in Threads, InCall(t), th[t].op = "w",
           ~(th[t].at = "looked" /\ th[t].ent = NONE)
    PROVE  th[t].ent # 0
<1>1. <<t, th[t].path, "w">> \in Uses /\ dir[th[t].ent].name = th[t].path
  BY DEF SInv, SEntries, KnowsFile
<1> QED
  BY <1>1 DEF Shareable, SInv, SEntries, FirstEntryStays

\* Those that share a slot, or a file, read it.
LEMMA SharingReads ==
    ASSUME SInv, NEW t \in Threads, NEW u \in Threads, t # u, HasSlot(t), HasSlot(u),
           th[t].en = th[u].en \/ th[t].path = th[u].path
    PROVE  th[t].en = th[u].en /\ th[t].op = "r" /\ th[u].op = "r"
<1>1. th[t].en = th[u].en
  BY SlotOf DEF SInv, SSlots, OneSlot
<1>2. HoldsLock(t) /\ HoldsLock(u) /\ th[t].lk = th[u].lk
  BY <1>1, SlotOf, PlacesOf
<1> QED
  BY <1>1, <1>2 DEF SInv, SLocks, Sharers

\* A writer is alone at its slot.
LEMMA WriterAlone ==
    ASSUME SInv, NEW t \in Threads, HasSlot(t), th[t].op # "r"
    PROVE  HoldersOf(th[t].en) = {t} /\ table[th[t].en].CNT = 1
<1>1. HoldersOf(th[t].en) = {t}
  BY SharingReads DEF HoldersOf
<1>2. table[th[t].en].CNT = Cardinality(HoldersOf(th[t].en))
  BY SlotOf DEF SInv, SSlots, SlotCounts
<1> QED
  BY <1>1, <1>2, FS_Singleton

\* Files in two slots are in two entries.
LEMMA EntriesApart ==
    ASSUME SInv, NEW t \in Threads, NEW u \in Threads, HasSlot(t), HasSlot(u),
           th[t].ent = th[u].ent
    PROVE  th[t].path = th[u].path
BY SlotOf

\* A file that is not in the directory has no slot.
LEMMA NotThere ==
    ASSUME SInv, NEW p, \A e \in EntryNums : dir[e].name # p
    PROVE  Unserved(p)
<1>1. \A i \in TableSlots : Serves(i) =>
          table[i].entryNum \in EntryNums /\ dir[table[i].entryNum].name = table[i].name
  BY DEF SInv, Types, SlotRec, SSlots, SlotCounts
<1> QED
  BY <1>1 DEF Unserved

LEMMA FiniteThreads ==
    ASSUME Shareable, NEW S \in SUBSET Threads
    PROVE  IsFiniteSet(S) /\ Cardinality(S) \in 0..UINT_MAX
<1>1. IsFiniteSet(S) /\ Cardinality(S) <= Cardinality(Threads)
  BY FS_Subset DEF Shareable
<1>2. Cardinality(S) \in Nat /\ Cardinality(Threads) \in Nat
  BY <1>1, FS_CardinalityType DEF Shareable
<1> QED
  BY <1>1, <1>2, TableAssumption DEF Shareable

\* The properties the runs check follow.
LEMMA SInvImplies ==
    ASSUME Shareable, SInv
    PROVE  /\ TypeOK /\ OneWriter /\ HandleIsItsFile /\ EntryIsItsFile /\ LocksMatchHolders
           /\ FilesOpenCounts /\ ReaderSeesStoredSize /\ NamesUnique
<1>1. TypeOK
  BY TypesOK DEF SInv
<1>2. OneWriter
  BY PlacesOf, SharingReads DEF OneWriter
<1>3. HandleIsItsFile /\ EntryIsItsFile
  BY PlacesOf, SlotOf DEF HandleIsItsFile, EntryIsItsFile, Serves
<1>4. LocksMatchHolders
  <2> SUFFICES ASSUME NEW l \in DOMAIN locks
               PROVE  LET H == {t \in Threads : HoldsLock(t) /\ th[t].lk = l} IN
                      /\ locks[l].excl <=> \E t \in H : th[t].op # "r"
                      /\ locks[l].shared = Cardinality({t \in H : th[t].op = "r"})
    BY DEF LocksMatchHolders
  <2> DEFINE H == {t \in Threads : HoldsLock(t) /\ th[t].lk = l}
  <2>1. LockCounts(l)
    BY DEF SInv, SLocks, Types
  <2>2. {t \in H : th[t].op = "r"} = ReadersOf(l)
    BY DEF ReadersOf
  <2> QED
    BY <2>1, <2>2 DEF LockCounts
<1> QED
  BY <1>1, <1>2, <1>3, <1>4 DEF SInv, SEntries

-----------------------------------------------------------------------------
\* What a step keeps when it leaves things as they are

\* A step of one thread, as the others see it.
LEMMA OthersStay ==
    ASSUME Types, NEW t \in Threads, NEW r \in ThRec, th' = [th EXCEPT ![t] = r]
    PROVE  /\ th' \in [Threads -> ThRec] /\ th'[t] = r
           /\ \A u \in Threads \ {t} :
                 /\ th'[u] = th[u]
                 /\ (InCall(u)' <=> InCall(u))
                 /\ (HasSlot(u)' <=> HasSlot(u)) /\ (HoldsLock(u)' <=> HoldsLock(u))
                 /\ (Waits(u)' <=> Waits(u)) /\ (IsOpen(u)' <=> IsOpen(u))
                 /\ (Takes(u)' <=> Takes(u)) /\ (Finds(u)' <=> Finds(u))
BY DEF Types, InCall, HasSlot, HoldsLock, IsOpen, Waits, Takes, Finds

\* What the step is for the thread itself.
LEMMA PlacesAfter ==
    ASSUME NEW t \in Threads
    PROVE  /\ InCall(t)' <=> th'[t].at \in {"looked", "slot", "waits", "locked", "discards",
                                            "rewrites", "open", "stranded"}
           /\ HasSlot(t)' <=> th'[t].at \in {"discards", "rewrites", "open", "stranded"}
           /\ HoldsLock(t)' <=> HasSlot(t)' \/ th'[t].at = "locked"
           /\ Waits(t)' <=> th'[t].at \in {"slot", "waits", "locked"}
           /\ IsOpen(t)' <=> th'[t].at = "open"
           /\ Takes(t)' <=> Waits(t)' /\ th'[t].how # "found"
           /\ Finds(t)' <=> Waits(t)' /\ th'[t].how = "found"
BY DEF InCall, HasSlot, HoldsLock, IsOpen, Waits, Takes, Finds

SameFile(u) ==
    /\ InCall(u)
    /\ th'[u].path = th[u].path /\ th'[u].op = th[u].op /\ th'[u].ent = th[u].ent
    /\ th'[u].at = "looked" <=> th[u].at = "looked"

LEMMA EntriesStay ==
    ASSUME SEntries, \A e \in EntryNums : dir'[e].name = dir[e].name,
           \A u \in Threads : InCall(u)' => SameFile(u)
    PROVE  SEntries'
<1>1. \A u \in Threads : KnowsFile(u)'
  BY DEF SEntries, KnowsFile, SameFile
<1>2. NamesUnique' /\ FirstEntryStays'
  BY EntrySets DEF SEntries, NamesUnique, FirstEntryStays
<1> QED
  BY <1>1, <1>2 DEF SEntries

SameSlot(u) ==
    /\ HasSlot(u)' <=> HasSlot(u)
    /\ HasSlot(u) => th'[u].en = th[u].en

LEMMA SlotsStay ==
    ASSUME Types, SSlots, \A e \in EntryNums : dir'[e].name = dir[e].name, table' = table,
           \A u \in Threads : SameSlot(u)
    PROVE  SSlots' /\ \A i \in TableSlots : Serves(i)' = Serves(i)
<1>1. \A i \in TableSlots : Serves(i)' = Serves(i) /\ table[i].entryNum \in EntryNums
  BY DEF Serves, Types, SlotRec
<1>2. \A i \in TableSlots : HoldersOf(i)' = HoldersOf(i)
  BY DEF HoldersOf, SameSlot
<1>3. \A i \in TableSlots : SlotCounts(i)'
  BY <1>1, <1>2 DEF SSlots, SlotCounts
<1>4. OneSlot'
  BY <1>1 DEF SSlots, OneSlot
<1> QED
  BY <1>1, <1>3, <1>4 DEF SSlots

\* What the others know of their slots stays when the slots they have, took or found
\* keep what they serve, and no file they wait for is served elsewhere.
LEMMA OthersKeep ==
    ASSUME SThreads, NEW u \in Threads, th'[u] = th[u],
           HasSlot(u)' <=> HasSlot(u), Takes(u)' <=> Takes(u), Finds(u)' <=> Finds(u),
           \/ table'[th[u].en] = table[th[u].en]
           \/ /\ Serves(th[u].en) /\ Serves(th[u].en)'
              /\ table'[th[u].en].name = table[th[u].en].name
              /\ table'[th[u].en].mode = table[th[u].en].mode
              /\ table'[th[u].en].entryNum = table[th[u].en].entryNum,
           Takes(u) \/ Finds(u) => (Unserved(th[u].path) => Unserved(th[u].path)'),
           \A v \in Threads : Takes(u) /\ Takes(v)' /\ v # u => th'[v].en # th[u].en
    PROVE  Holds(u)' /\ TakesOwn(u)' /\ FindsOwn(u)'
<1>1. Holds(u) /\ TakesOwn(u) /\ FindsOwn(u)
  BY DEF SThreads
<1>2. /\ HasSlot(u) => ~Takes(u) /\ ~Finds(u)
      /\ Serves(th[u].en) => Serves(th[u].en)'
      /\ Takes(u) => table'[th[u].en] = table[th[u].en]
  BY <1>1, PlacesOf DEF Serves, TakesOwn
<1>3. Holds(u)'
  BY <1>1, <1>2 DEF Holds
<1>4. TakesOwn(u)'
  BY <1>1, <1>2 DEF TakesOwn
<1>5. FindsOwn(u)'
  <2>1. CASE Finds(u) /\ table'[th[u].en] = table[th[u].en]
    BY <1>1, <2>1 DEF FindsOwn, Serves
  <2>2. CASE Finds(u) /\ Serves(th[u].en)' /\ table'[th[u].en].name = table[th[u].en].name
    BY <1>1, <2>2 DEF FindsOwn, Serves
  <2> QED
    BY <2>1, <2>2 DEF FindsOwn
<1> QED
  BY <1>3, <1>4, <1>5

LEMMA TogetherStays ==
    ASSUME Together, NEW t \in Threads,
           \A u \in Threads \ {t} : th'[u] = th[u] /\ (Finds(u)' <=> Finds(u)),
           \A u \in Threads \ {t} :
               Finds(t)' /\ Finds(u) /\ th[u].path = th'[t].path => th[u].en = th'[t].en
    PROVE  Together'
BY DEF Together

SameLock(u) ==
    /\ HoldsLock(u)' <=> HoldsLock(u)
    /\ HoldsLock(u) => th'[u].lk = th[u].lk /\ th'[u].op = th[u].op

LEMMA LocksStay ==
    ASSUME SLocks, locks' = locks, \A u \in Threads : SameLock(u), \A u \in Threads : Asked(u)'
    PROVE  SLocks'
<1>1. \A l \in TableSlots : ReadersOf(l)' = ReadersOf(l)
  BY DEF ReadersOf, SameLock
<1>2. \A l \in TableSlots : LockCounts(l)'
  BY <1>1 DEF SLocks, LockCounts, SameLock
<1>3. Sharers'
  BY DEF SLocks, Sharers, SameLock
<1> QED
  BY <1>2, <1>3 DEF SLocks

-----------------------------------------------------------------------------
\* Steps that write no slot

\* A step of a thread that changes neither slots nor directory and leaves the thread
\* without a slot, or with the one it had.
LEMMA ThreadSteps ==
    ASSUME SInv, NEW t \in Threads, NEW r \in ThRec, th' = [th EXCEPT ![t] = r],
           dir' = dir, table' = table, filesOpen' = filesOpen,
           locks' \in [TableSlots -> LockRec],
           SameSlot(t), IsOpen(t)' => IsOpen(t) /\ r.op = th[t].op,
           KnowsFile(t)', Holds(t)' /\ TakesOwn(t)' /\ FindsOwn(t)', Takes(t)' => Takes(t) /\ r.en = th[t].en,
           \A u \in Threads \ {t} :
               Finds(t)' /\ Finds(u) /\ th[u].path = r.path => th[u].en = r.en,
           SLocks'
    PROVE  SInv'
<1>1. /\ th' \in [Threads -> ThRec] /\ th'[t] = r
      /\ \A u \in Threads \ {t} :
                 /\ th'[u] = th[u]
                 /\ (InCall(u)' <=> InCall(u))
                 /\ (HasSlot(u)' <=> HasSlot(u)) /\ (HoldsLock(u)' <=> HoldsLock(u))
                 /\ (Waits(u)' <=> Waits(u)) /\ (IsOpen(u)' <=> IsOpen(u))
                 /\ (Takes(u)' <=> Takes(u)) /\ (Finds(u)' <=> Finds(u))
  BY OthersStay DEF SInv
<1>2. Types'
  BY <1>1 DEF SInv, Types
<1>3. SEntries'
  <2>1. \A u \in Threads \ {t} : KnowsFile(u)'
    BY <1>1 DEF SInv, SEntries, KnowsFile
  <2>2. NamesUnique' /\ FirstEntryStays'
    BY DEF SInv, SEntries, NamesUnique, FirstEntryStays
  <2> QED
    BY <2>1, <2>2 DEF SEntries
<1>4. \A u \in Threads : SameSlot(u)
  BY <1>1 DEF SameSlot
<1>5. SSlots' /\ \A i \in TableSlots : Serves(i)' = Serves(i)
  BY <1>4, SlotsStay DEF SInv
<1>6. \A p : Unserved(p)' <=> Unserved(p)
  BY <1>5 DEF Unserved
<1>7. SThreads'
  <2> SUFFICES ASSUME NEW u \in Threads \ {t} PROVE Holds(u)' /\ TakesOwn(u)' /\ FindsOwn(u)'
    BY DEF SThreads
  <2>1. SThreads /\ TakesOwn(u)
    BY DEF SInv, SThreads
  <2>2. \A v \in Threads : Takes(u) /\ Takes(v)' /\ v # u => th'[v].en # th[u].en
    BY <1>1, <2>1 DEF TakesOwn
  <2> QED
    BY <1>1, <1>6, <2>1, <2>2, OthersKeep
<1>8. FilesOpenCounts'
  BY <1>4, InUseSame DEF SInv, SameSlot
<1>9. ReaderSeesStoredSize'
  <2>1. \A u \in Threads : IsOpen(u)' => /\ IsOpen(u) /\ th'[u].op = th[u].op
                                         /\ th'[u].en = th[u].en
    BY <1>1, <1>4, PlacesOf DEF SameSlot
  <2> QED
    BY <2>1, SizesSame DEF SInv
<1>10. Together'
  BY <1>1, TogetherStays DEF SInv
<1> QED
  BY <1>2, <1>3, <1>5, <1>7, <1>8, <1>9, <1>10 DEF SInv

LEMMA AskKeepsSInv ==
    ASSUME SInv, NEW t \in Threads, Ask(t)
    PROVE  SInv'
<1> DEFINE r == [th[t] EXCEPT !.at = "waits", !.lk = th[t].en]
<1>1. /\ th[t].at = "slot" /\ th[t].en \in TableSlots /\ th[t] \in ThRec
      /\ th' = [th EXCEPT ![t] = r]
      /\ dir' = dir /\ table' = table /\ locks' = locks /\ filesOpen' = filesOpen
  BY TypesOf DEF Ask, SInv, Types
<1>2. /\ r \in ThRec /\ r.at = "waits" /\ r.lk = th[t].en /\ r.en = th[t].en
      /\ r.path = th[t].path /\ r.op = th[t].op /\ r.ent = th[t].ent /\ r.how = th[t].how
  BY <1>1 DEF ThRec, Places
<1> HIDE DEF r
<1>3. /\ th'[t] = r
      /\ \A u \in Threads \ {t} : /\ th'[u] = th[u]
                                  /\ (HoldsLock(u)' <=> HoldsLock(u)) /\ (Takes(u)' <=> Takes(u))
  BY <1>1, <1>2, OthersStay DEF SInv
<1>4. /\ InCall(t) /\ InCall(t)' /\ ~HasSlot(t) /\ ~HasSlot(t)' /\ ~HoldsLock(t) /\ ~HoldsLock(t)'
      /\ ~IsOpen(t)' /\ (Takes(t)' <=> Takes(t)) /\ (Finds(t)' <=> Finds(t))
  BY <1>1, <1>2, <1>3, PlacesAfter, PlacesOf DEF Takes, Finds, Waits
<1>5. KnowsFile(t)'
  BY <1>1, <1>2, <1>3, <1>4 DEF SInv, SEntries, KnowsFile
<1>6. \A i : Serves(i)' = Serves(i)
  BY <1>1 DEF Serves
<1>7. Holds(t)' /\ TakesOwn(t)' /\ FindsOwn(t)'
  BY <1>1, <1>2, <1>3, <1>4, <1>6
     DEF SInv, SThreads, Holds, TakesOwn, FindsOwn, Unserved
<1>8. SLocks'
  <2>1. \A u \in Threads : SameLock(u) /\ Asked(u)'
    BY <1>2, <1>3, <1>4 DEF SInv, SLocks, Asked, SameLock
  <2> QED
    BY <1>1, <2>1, LocksStay DEF SInv
<1>9. SameSlot(t) /\ locks' \in [TableSlots -> LockRec]
  BY <1>1, <1>4 DEF SameSlot, SInv, Types
<1>10. \A u \in Threads \ {t} :
           Finds(t)' /\ Finds(u) /\ th[u].path = r.path => th[u].en = r.en
  BY <1>2, <1>4 DEF SInv, Together
<1> QED
  BY <1>1, <1>2, <1>4, <1>5, <1>7, <1>8, <1>9, <1>10, ThreadSteps

\* A lock is taken: by a writer of nobody, by a reader of other readers at most.
LEMMA AcquireKeepsLocks ==
    ASSUME Shareable, SInv, NEW t \in Threads, th[t].at = "waits", Acquire(t), NEW r \in ThRec,
           th' = [th EXCEPT ![t] = r], r.at = "locked", r.lk = th[t].lk, r.op = th[t].op,
           r.en = th[t].en
    PROVE  SLocks' /\ locks' \in [TableSlots -> LockRec]
<1> DEFINE i == th[t].lk
           k == Acquired(locks[i], th[t].op)
<1>1. /\ ~locks[i].excl /\ (th[t].op # "r" => locks[i].shared = 0)
      /\ locks' = [locks EXCEPT ![i] = k] /\ i \in TableSlots /\ i = th[t].en
      /\ locks \in [TableSlots -> LockRec] /\ locks[i] \in LockRec
  BY TypesOf DEF Acquire, SInv, Types, SLocks, Asked
<1>2. k \in LockRec
  BY <1>1, AcquiredIsLock
<1>3. /\ th[t].op = "r" => k.shared = locks[i].shared + 1 /\ k.excl = locks[i].excl
      /\ th[t].op # "r" => k.shared = locks[i].shared /\ k.excl = TRUE
  BY <1>1 DEF Acquired, LockRec
<1> HIDE DEF k
<1>4. locks'[i] = k /\ \A l \in TableSlots \ {i} : locks'[l] = locks[l]
  BY <1>1
<1>5. /\ th'[t] = r /\ ~HoldsLock(t) /\ HoldsLock(t)'
      /\ \A u \in Threads \ {t} : th'[u] = th[u] /\ (HoldsLock(u)' <=> HoldsLock(u))
  BY OthersStay, PlacesAfter, PlacesOf DEF SInv, HoldsLock, HasSlot
<1>6. \A u \in Threads : HoldsLock(u) /\ th[u].lk = i => th[u].op = "r" /\ th[t].op = "r"
  <2> SUFFICES ASSUME NEW u \in Threads, HoldsLock(u), th[u].lk = i
               PROVE  th[u].op = "r" /\ th[t].op = "r"
    OBVIOUS
  <2>1. th[u].op = "r"
    BY <1>1 DEF SInv, SLocks, LockCounts
  <2>2. u \in ReadersOf(i) /\ locks[i].shared = Cardinality(ReadersOf(i))
    BY <1>1, <2>1 DEF SInv, SLocks, LockCounts, ReadersOf
  <2>3. ReadersOf(i) \in SUBSET Threads
    BY DEF ReadersOf
  <2>4. Cardinality(ReadersOf(i)) # 0
    BY <2>2, <2>3, FiniteThreads, FS_EmptySet
  <2> QED
    BY <1>1, <2>1, <2>2, <2>4
<1>7. \A l \in TableSlots : LockCounts(l)'
  <2> SUFFICES ASSUME NEW l \in TableSlots PROVE LockCounts(l)'
    OBVIOUS
  <2>1. LockCounts(l)
    BY DEF SInv, SLocks
  <2>2. CASE l # i
    <3>1. ReadersOf(l)' = ReadersOf(l)
      BY <1>5, <2>2 DEF ReadersOf
    <3> QED
      BY <1>4, <1>5, <2>1, <2>2, <3>1 DEF LockCounts
  <2>3. CASE l = i /\ th[t].op = "r"
    <3>1. ReadersOf(l)' = ReadersOf(l) \cup {t} /\ t \notin ReadersOf(l)
      BY <1>5, <2>3 DEF ReadersOf
    <3>2. ReadersOf(l) \in SUBSET Threads
      BY DEF ReadersOf
    <3>3. Cardinality(ReadersOf(l)') = Cardinality(ReadersOf(l)) + 1
      BY <3>1, <3>2, FiniteThreads, FS_AddElement
    <3> QED
      BY <1>3, <1>4, <1>5, <2>1, <2>3, <3>3 DEF LockCounts
  <2>4. CASE l = i /\ th[t].op # "r"
    <3>1. ReadersOf(l)' = ReadersOf(l)
      BY <1>5, <2>4 DEF ReadersOf
    <3> QED
      BY <1>3, <1>4, <1>5, <2>1, <2>4, <3>1 DEF LockCounts
  <2> QED
    BY <2>2, <2>3, <2>4
<1>8. Sharers'
  BY <1>5, <1>6 DEF SInv, SLocks, Sharers
<1>9. \A u \in Threads : Asked(u)'
  BY <1>1, <1>5 DEF SInv, SLocks, Asked
<1> QED
  BY <1>1, <1>2, <1>7, <1>8, <1>9 DEF SLocks

LEMMA AcquireKeepsSInv ==
    ASSUME Shareable, SInv, NEW t \in Threads, Acquire(t)
    PROVE  SInv'
<1> DEFINE r == [th[t] EXCEPT !.at = "locked"]
<1>1. /\ th[t].at = "waits" /\ th[t] \in ThRec /\ th' = [th EXCEPT ![t] = r]
      /\ dir' = dir /\ table' = table /\ filesOpen' = filesOpen
  BY TypesOf DEF Acquire, Step, SInv, Types
<1>2. /\ r \in ThRec /\ r.at = "locked" /\ r.lk = th[t].lk /\ r.en = th[t].en
      /\ r.path = th[t].path /\ r.op = th[t].op /\ r.ent = th[t].ent /\ r.how = th[t].how
  BY <1>1 DEF ThRec, Places
<1> HIDE DEF r
<1>3. th'[t] = r /\ \A u \in Threads \ {t} : th'[u] = th[u] /\ (Takes(u)' <=> Takes(u))
  BY <1>1, <1>2, OthersStay DEF SInv
<1>4. /\ InCall(t) /\ InCall(t)' /\ ~HasSlot(t) /\ ~HasSlot(t)'
      /\ ~IsOpen(t)' /\ (Takes(t)' <=> Takes(t)) /\ (Finds(t)' <=> Finds(t))
  BY <1>1, <1>2, <1>3, PlacesAfter, PlacesOf DEF Takes, Finds, Waits
<1>5. KnowsFile(t)'
  BY <1>1, <1>2, <1>3, <1>4 DEF SInv, SEntries, KnowsFile
<1>6. \A i : Serves(i)' = Serves(i)
  BY <1>1 DEF Serves
<1>7. Holds(t)' /\ TakesOwn(t)' /\ FindsOwn(t)'
  BY <1>1, <1>2, <1>3, <1>4, <1>6
     DEF SInv, SThreads, Holds, TakesOwn, FindsOwn, Unserved
<1>8. SLocks' /\ locks' \in [TableSlots -> LockRec]
  BY <1>1, <1>2, AcquireKeepsLocks
<1>9. SameSlot(t)
  BY <1>4 DEF SameSlot
<1>10. \A u \in Threads \ {t} :
           Finds(t)' /\ Finds(u) /\ th[u].path = r.path => th[u].en = r.en
  BY <1>2, <1>4 DEF SInv, Together
<1> QED
  BY <1>1, <1>2, <1>4, <1>5, <1>7, <1>8, <1>9, <1>10, ThreadSteps

LEMMA CallKeepsSInv ==
    ASSUME Shareable, SInv, NEW t \in Threads, NEW p \in Paths, NEW op \in Operations,
           Call(t, p, op)
    PROVE  SInv'
<1> DEFINE e == CheckForName(p)
           a == IF e = NONE /\ op # "w" THEN "idle" ELSE "looked"
           r == [th[t] EXCEPT !.at = a, !.path = p, !.op = op, !.ent = e, !.opens = @ + 1]
<1>1. /\ <<t, p, op>> \in Uses /\ th[t].at = "idle" /\ th[t] \in ThRec /\ th[t].opens < MAX_OPENS
      /\ th' = [th EXCEPT ![t] = r]
      /\ dir' = dir /\ table' = table /\ locks' = locks /\ filesOpen' = filesOpen
  BY TypesOf DEF Call, SInv, Types
<1>2. op \in Modes
  BY <1>1 DEF Shareable, Operations
<1>3. /\ e = NONE => \A f \in EntryNums : dir[f].name # p
      /\ e # NONE => e \in EntryNums /\ dir[e].name = p
  BY Looked
<1>4. (a = "idle" \/ a = "looked") /\ (a = "looked" /\ e = NONE => op = "w")
  OBVIOUS
<1> HIDE DEF e, a
<1>5. r \in ThRec
  <2>1. e \in EntryNums \cup {NONE} /\ a \in Places
    BY <1>3, <1>4 DEF Places
  <2>2. th[t].opens + 1 \in 0..MAX_OPENS
    BY <1>1, TableAssumption DEF ThRec
  <2> QED
    BY <1>1, <2>1, <2>2 DEF ThRec
<1>6. r.at = a /\ r.path = p /\ r.op = op /\ r.ent = e
  BY <1>1 DEF ThRec
<1> HIDE DEF r
<1>7. th'[t] = r /\ \A u \in Threads \ {t} : th'[u] = th[u] /\ (HoldsLock(u)' <=> HoldsLock(u))
  BY <1>1, <1>5, OthersStay DEF SInv
<1>8. /\ ~HasSlot(t) /\ ~HasSlot(t)' /\ ~HoldsLock(t) /\ ~HoldsLock(t)' /\ ~IsOpen(t)'
      /\ ~Takes(t)' /\ ~Finds(t)' /\ (InCall(t)' <=> a = "looked")
  BY <1>1, <1>4, <1>6, <1>7, PlacesAfter DEF HasSlot, HoldsLock
<1>9. KnowsFile(t)'
  BY <1>1, <1>2, <1>3, <1>4, <1>6, <1>7, <1>8 DEF KnowsFile
<1>10. Holds(t)' /\ TakesOwn(t)' /\ FindsOwn(t)'
  BY <1>8 DEF Holds, TakesOwn, FindsOwn
<1>11. SLocks'
  <2>1. \A u \in Threads : SameLock(u) /\ Asked(u)'
    BY <1>4, <1>6, <1>7, <1>8 DEF SInv, SLocks, Asked, SameLock
  <2> QED
    BY <1>1, <2>1, LocksStay DEF SInv
<1>12. SameSlot(t) /\ locks' \in [TableSlots -> LockRec]
  BY <1>1, <1>8 DEF SameSlot, SInv, Types
<1> QED
  BY <1>1, <1>5, <1>8, <1>9, <1>10, <1>11, <1>12, ThreadSteps

-----------------------------------------------------------------------------
\* Steps that take or find a slot

LEMMA TakingKeepsSInv ==
    ASSUME SInv, WaitedSlotsKept', NEW t \in Threads, th[t].at = "looked", Unserved(th[t].path),
           NEW i \in TableSlots, table[i].free, table' = [table EXCEPT ![i].free = FALSE],
           NEW r \in ThRec, th' = [th EXCEPT ![t] = r],
           r.at = "slot", r.en = i, r.how # "found", r.how = "new" => r.op = "w",
           r.path = th[t].path, locks' = locks, filesOpen' = filesOpen,
           dir' \in [EntryNums -> DirRec], SEntries',
           \A e \in EntryNums : dir[e].name # NoFile => dir'[e] = dir[e]
    PROVE  SInv'
<1>1. /\ th' \in [Threads -> ThRec] /\ th'[t] = r
      /\ \A u \in Threads \ {t} :
                 /\ th'[u] = th[u]
                 /\ (HasSlot(u)' <=> HasSlot(u)) /\ (HoldsLock(u)' <=> HoldsLock(u))
                 /\ (IsOpen(u)' <=> IsOpen(u))
                 /\ (Takes(u)' <=> Takes(u)) /\ (Finds(u)' <=> Finds(u))
  BY OthersStay DEF SInv
<1>2. /\ Takes(t)' /\ ~Takes(t) /\ ~Finds(t)' /\ ~HasSlot(t) /\ ~HasSlot(t)'
      /\ ~HoldsLock(t) /\ ~HoldsLock(t)' /\ ~IsOpen(t)'
  BY <1>1, PlacesAfter DEF HasSlot, HoldsLock, Takes, Waits
<1>3. Types'
  <2>1. table' \in [TableSlots -> SlotRec] /\ \A j \in TableSlots : table'[j].sync = j
    BY SlotKeepsTypes DEF SInv
  <2> QED
    BY <1>1, <2>1 DEF SInv, Types
<1>4. /\ \A j \in TableSlots \ {i} : table'[j] = table[j]
      /\ ~table'[i].free /\ table'[i].pcb = table[i].pcb /\ ~table[i].pcb
      /\ table'[i].CNT = table[i].CNT
  BY DEF SInv, Types, SlotRec, SSlots, SlotCounts
<1>5. \A j \in TableSlots : Serves(j)' = Serves(j) /\ (Serves(j) => j # i)
  BY <1>4 DEF Serves
<1>6. \A p : Unserved(p)' <=> Unserved(p)
  BY <1>4, <1>5 DEF Unserved
<1>7. SSlots'
  <2>1. \A j \in TableSlots : HoldersOf(j)' = HoldersOf(j)
    BY <1>1, <1>2 DEF HoldersOf
  <2>2. \A j \in TableSlots : SlotCounts(j)'
    <3> SUFFICES ASSUME NEW j \in TableSlots PROVE SlotCounts(j)'
      OBVIOUS
    <3>1. SlotCounts(j) /\ table[j] \in SlotRec
      BY DEF SInv, SSlots, Types
    <3>2. table'[j].CNT = table[j].CNT /\ (table'[j].free => ~table'[j].pcb)
      BY <1>4, <3>1 DEF SlotCounts
    <3>3. CASE ~Serves(j)
      BY <1>5, <2>1, <3>1, <3>2, <3>3 DEF SlotCounts
    <3>4. CASE Serves(j)
      <4>1. table'[j] = table[j] /\ table[j].entryNum \in EntryNums /\ table[j].name \in Paths
            /\ dir[table[j].entryNum].name = table[j].name
        BY <1>4, <1>5, <3>1, <3>4 DEF SlotCounts, SlotRec
      <4>2. dir'[table[j].entryNum].name = table[j].name
        BY <4>1, TableAssumption
      <4> QED
        BY <2>1, <3>1, <3>2, <3>4, <4>1, <4>2 DEF SlotCounts
    <3> QED
      BY <3>3, <3>4
  <2>3. OneSlot'
    BY <1>4, <1>5 DEF SInv, SSlots, OneSlot
  <2> QED
    BY <2>2, <2>3 DEF SSlots
<1>8. SThreads'
  <2> SUFFICES ASSUME NEW u \in Threads PROVE Holds(u)' /\ TakesOwn(u)' /\ FindsOwn(u)'
    BY DEF SThreads
  <2>0. \A v \in Threads : Takes(v) => th[v].en # i
    BY DEF SInv, SThreads, TakesOwn
  <2>1. CASE u = t
    BY <1>1, <1>2, <1>4, <1>6, <2>0, <2>1 DEF Holds, TakesOwn, FindsOwn
  <2>2. CASE u # t
    <3>1. th'[u] = th[u] /\ SThreads /\ th[u].en \in TableSlots
      BY <1>1, <2>2, TypesOf DEF SInv
    <3>2. HasSlot(u) \/ Takes(u) \/ Finds(u) => th[u].en # i
      <4>1. HasSlot(u) => th[u].en # i
        BY SlotOf DEF Serves
      <4>2. Finds(u) => th[u].en # i
        BY <1>1, <1>2, <2>2 DEF WaitedSlotsKept
      <4> QED
        BY <2>0, <4>1, <4>2
    <3>3. CASE HasSlot(u) \/ Takes(u) \/ Finds(u)
      <4>1. table'[th[u].en] = table[th[u].en]
        BY <1>4, <3>1, <3>2, <3>3
      <4>2. \A v \in Threads : Takes(u) /\ Takes(v)' /\ v # u => th'[v].en # th[u].en
        <5> SUFFICES ASSUME NEW v \in Threads, Takes(u), Takes(v)', v # u PROVE th'[v].en # th[u].en
          OBVIOUS
        <5>1. CASE v = t
          BY <1>1, <3>2, <5>1
        <5>2. CASE v # t
          BY <1>1, <3>1, <5>2 DEF SThreads, TakesOwn
        <5> QED
          BY <5>1, <5>2
      <4>3. Unserved(th[u].path) => Unserved(th[u].path)'
        BY <1>1, <1>6, <2>2, <3>1
      <4> QED
        BY <1>1, <2>2, <3>1, <4>1, <4>2, <4>3, OthersKeep
    <3>4. CASE ~(HasSlot(u) \/ Takes(u) \/ Finds(u))
      BY <1>1, <2>2, <3>4 DEF Holds, TakesOwn, FindsOwn
    <3> QED
      BY <3>3, <3>4
  <2> QED
    BY <2>1, <2>2
<1>9. SLocks'
  <2>1. \A u \in Threads : SameLock(u) /\ Asked(u)'
    BY <1>1, <1>2 DEF SInv, SLocks, Asked, SameLock
  <2> QED
    BY <2>1, LocksStay DEF SInv
<1>10. FilesOpenCounts'
  BY <1>1, <1>2, InUseSame DEF SInv
<1>11. ReaderSeesStoredSize'
  <2> SUFFICES ASSUME NEW u \in Threads, IsOpen(u)', th'[u].op = "r"
               PROVE  table'[th'[u].en].size = dir'[table'[th'[u].en].entryNum].size
    BY DEF ReaderSeesStoredSize
  <2>1. u # t /\ IsOpen(u) /\ th'[u] = th[u] /\ HasSlot(u)
    BY <1>1, <1>2, PlacesOf
  <2>2. th[u].en \in TableSlots /\ th[u].en # i /\ table[th[u].en].entryNum = th[u].ent
        /\ th[u].ent \in EntryNums /\ dir[th[u].ent].name # NoFile
    BY <1>5, <2>1, SlotOf, TableAssumption
  <2>3. table'[th[u].en] = table[th[u].en] /\ dir'[th[u].ent] = dir[th[u].ent]
    BY <1>4, <2>2
  <2>4. table[th[u].en].size = dir[table[th[u].en].entryNum].size
    BY <2>1 DEF SInv, ReaderSeesStoredSize
  <2> QED
    BY <2>1, <2>2, <2>3, <2>4
<1>12. Together'
  BY <1>1, <1>2, TogetherStays DEF SInv
<1> QED
  BY <1>3, <1>7, <1>8, <1>9, <1>10, <1>11, <1>12 DEF SInv

LEMMA CreateKeepsSInv ==
    ASSUME Shareable, SInv, CreatedOnce, WaitedSlotsKept', NEW t \in Threads, Create(t)
    PROVE  SInv'
<1>1. /\ th[t].at = "looked" /\ th[t].ent = NONE /\ th[t] \in ThRec /\ filesOpen' = filesOpen
      /\ InCall(t) /\ Creates(t)
      /\ th[t].op = "w" /\ th[t].path \in Paths /\ \A e \in EntryNums : dir[e].name # th[t].path
      /\ <<t, th[t].path, th[t].op>> \in Uses
  BY TypesOf DEF Create, SInv, SEntries, KnowsFile, InCall, Creates
<1>2. CASE /\ th' = [th EXCEPT ![t].at = "broken"] /\ dir' = dir /\ table' = table /\ locks' = locks
  <2> DEFINE r == [th[t] EXCEPT !.at = "broken"]
  <2>1. r \in ThRec /\ th' = [th EXCEPT ![t] = r] /\ r.at = "broken"
    BY <1>1, <1>2 DEF ThRec, Places, SInv, Types
  <2> HIDE DEF r
  <2>2. th'[t] = r /\ \A u \in Threads \ {t} : th'[u] = th[u] /\ (HoldsLock(u)' <=> HoldsLock(u))
    BY <2>1, OthersStay DEF SInv
  <2>3. /\ ~HasSlot(t) /\ ~HasSlot(t)' /\ ~HoldsLock(t) /\ ~HoldsLock(t)' /\ ~IsOpen(t)'
        /\ ~Takes(t)' /\ ~Finds(t)' /\ ~InCall(t)'
    BY <1>1, <2>1, <2>2, PlacesAfter DEF HasSlot, HoldsLock
  <2>4. KnowsFile(t)' /\ Holds(t)' /\ TakesOwn(t)' /\ FindsOwn(t)'
    BY <2>3 DEF KnowsFile, Holds, TakesOwn, FindsOwn
  <2>5. SLocks'
    <3>1. \A u \in Threads : SameLock(u) /\ Asked(u)'
      BY <2>1, <2>2, <2>3 DEF SInv, SLocks, Asked, SameLock
    <3> QED
      BY <1>2, <3>1, LocksStay DEF SInv
  <2>6. SameSlot(t) /\ locks' \in [TableSlots -> LockRec]
    BY <1>2, <2>3 DEF SameSlot, SInv, Types
  <2> QED
    BY <1>1, <1>2, <2>1, <2>3, <2>4, <2>5, <2>6, ThreadSteps
<1>3. CASE /\ GetFreeEntry # NONE /\ dir' = [dir EXCEPT ![GetFreeEntry] = Entry(th[t].path, 0)]
           /\ \E i \in 0..MAX_TABLE - 1 :
                /\ GetFreeSlot(i)
                /\ th' = [th EXCEPT ![t].at = "slot", ![t].ent = GetFreeEntry,
                                    ![t].how = "new", ![t].en = i]
  <2> DEFINE f == GetFreeEntry
             x == Entry(th[t].path, 0)
  <2>1. PICK i \in 0..MAX_TABLE - 1 :
                /\ GetFreeSlot(i)
                /\ th' = [th EXCEPT ![t].at = "slot", ![t].ent = f, ![t].how = "new", ![t].en = i]
    BY <1>3
  <2>2. i \in Nat
    BY TableAssumption
  <2>3. f \in EntryNums /\ dir[f].name = NoFile
    BY <1>3, FreeEntryIsFree
  <2>4. /\ i \in TableSlots /\ table[i].free
        /\ table' = [table EXCEPT ![i].free = FALSE] /\ locks' = locks
    BY <2>1, <2>2, SlotIsFree DEF Shareable, SInv
  <2>5. x.name = th[t].path /\ x.size = 0 /\ x \in DirRec
    BY <1>1, TableAssumption DEF Entry, DirRec
  <2>6. f # 0
    BY <2>3, TableAssumption DEF SInv, SEntries, FirstEntryStays, Shareable
  <2>7. dir' = [dir EXCEPT ![f] = x]
    BY <1>3
  <2> DEFINE r == [th[t] EXCEPT !.at = "slot", !.ent = f, !.how = "new", !.en = i]
  <2> HIDE DEF f, x
  <2>8. /\ r \in ThRec /\ th' = [th EXCEPT ![t] = r]
        /\ r.at = "slot" /\ r.ent = f /\ r.how = "new" /\ r.en = i
        /\ r.path = th[t].path /\ r.op = th[t].op
    BY <1>1, <2>1, <2>3, <2>4 DEF ThRec, Places, SInv, Types
  <2> HIDE DEF r
  <2>9. /\ dir' \in [EntryNums -> DirRec]
        /\ dir'[f] = x /\ \A e \in EntryNums \ {f} : dir'[e] = dir[e]
    BY <2>3, <2>5, <2>7 DEF SInv, Types
  <2>10. \A e \in EntryNums : dir[e].name # NoFile => dir'[e] = dir[e]
    BY <2>3, <2>9
  <2>11. SEntries'
    <3>1. th'[t] = r /\ \A u \in Threads \ {t} :
              th'[u] = th[u] /\ (InCall(u)' <=> InCall(u))
      BY <2>8, OthersStay DEF SInv
    <3>2. KnowsFile(t)'
      <4>1. th[t].op \in Modes
        BY <1>1 DEF Modes
      <4> QED
        BY <1>1, <2>3, <2>5, <2>8, <2>9, <3>1, <4>1 DEF KnowsFile
    <3>3. ASSUME NEW u \in Threads \ {t} PROVE KnowsFile(u)'
      <4>1. KnowsFile(u) /\ th'[u] = th[u] /\ (InCall(u)' <=> InCall(u))
        BY <3>1 DEF SInv, SEntries
      <4>2. CASE InCall(u) /\ th[u].at = "looked" /\ th[u].ent = NONE
        <5>1. th[u].path # th[t].path
          BY <1>1, <4>2 DEF CreatedOnce, Creates
        <5> QED
          BY <2>5, <2>9, <4>1, <4>2, <5>1 DEF KnowsFile
      <4>3. CASE InCall(u) /\ ~(th[u].at = "looked" /\ th[u].ent = NONE)
        <5>1. th[u].ent \in EntryNums /\ dir'[th[u].ent] = dir[th[u].ent]
          BY <2>10, <4>1, <4>3, TableAssumption DEF KnowsFile
        <5> QED
          BY <4>1, <4>3, <5>1 DEF KnowsFile
      <4> QED
        BY <4>1, <4>2, <4>3 DEF KnowsFile
    <3>4. NamesUnique'
      BY <1>1, <2>5, <2>9 DEF SInv, SEntries, NamesUnique
    <3>5. FirstEntryStays'
      BY <2>6, <2>9, EntrySets DEF SInv, SEntries, FirstEntryStays
    <3> QED
      BY <3>2, <3>3, <3>4, <3>5 DEF SEntries
  <2>12. Unserved(th[t].path)
    BY <1>1, NotThere
  <2> QED
    BY <1>1, <2>4, <2>8, <2>9, <2>10, <2>11, <2>12, TakingKeepsSInv
<1> QED
  BY <1>2, <1>3 DEF Create, Step

\* What checkForFilePrivate finds.
LEMMA FoundInTable ==
    ASSUME Types, NEW p
    PROVE  /\ CheckForFile(p) = NONE => Unserved(p)
           /\ CheckForFile(p) # NONE =>
                 /\ CheckForFile(p) \in TableSlots /\ Serves(CheckForFile(p))
                 /\ table[CheckForFile(p)].name = p
<1> DEFINE S == {i \in Slots : ~table[i].free /\ table[i].pcb /\ table[i].name = p}
<1>1. Slots = TableSlots /\ S \in SUBSET Nat
  BY TableAssumption DEF Slots, Types, TableSlots
<1>2. CheckForFile(p) = First(S)
  BY DEF CheckForFile
<1>3. CheckForFile(p) = NONE => S = {}
  BY <1>1, <1>2, FirstNone
<1>4. CheckForFile(p) # NONE => CheckForFile(p) \in S
  BY <1>1, <1>2, FirstNone, FirstIs
<1> QED
  BY <1>1, <1>3, <1>4 DEF Unserved, Serves

LEMMA FindKeepsSInv ==
    ASSUME Shareable, SInv, WaitedSlotsKept', NEW t \in Threads, Find(t)
    PROVE  SInv'
<1>1. /\ th[t].at = "looked" /\ th[t].ent # NONE /\ th[t] \in ThRec /\ filesOpen' = filesOpen
      /\ InCall(t) /\ KnowsFile(t) /\ th[t].op \in Modes
  BY TypesOf DEF Find, SInv, SEntries, KnowsFile, InCall
<1>2. dir' = dir
  BY <1>1 DEF Find, Modes
<1>3. CASE CheckForFile(th[t].path) # NONE
  <2> DEFINE i == CheckForFile(th[t].path)
             r == [th[t] EXCEPT !.at = "slot", !.how = "found", !.en = i]
  <2>1. i \in TableSlots /\ Serves(i) /\ table[i].name = th[t].path
    BY <1>3, FoundInTable DEF SInv
  <2>2. th' = [th EXCEPT ![t] = r] /\ table' = table /\ locks' = locks
    BY <1>1, <1>3 DEF Find, SInv, Types
  <2> HIDE DEF i
  <2>3. /\ r \in ThRec /\ r.at = "slot" /\ r.how = "found" /\ r.en = i
        /\ r.path = th[t].path /\ r.op = th[t].op /\ r.ent = th[t].ent
    BY <1>1, <2>1 DEF ThRec, Places
  <2> HIDE DEF r
  <2>4. th'[t] = r /\ \A u \in Threads \ {t} : th'[u] = th[u] /\ (HoldsLock(u)' <=> HoldsLock(u))
    BY <2>2, <2>3, OthersStay DEF SInv
  <2>5. /\ ~HasSlot(t) /\ ~HasSlot(t)' /\ ~HoldsLock(t) /\ ~HoldsLock(t)' /\ ~IsOpen(t)'
        /\ ~Takes(t)' /\ InCall(t)'
    BY <1>1, <2>3, <2>4, PlacesAfter DEF HasSlot, HoldsLock
  <2>6. KnowsFile(t)'
    BY <1>1, <1>2, <2>3, <2>4 DEF KnowsFile
  <2>7. Holds(t)' /\ TakesOwn(t)' /\ FindsOwn(t)'
    BY <2>1, <2>2, <2>3, <2>4, <2>5 DEF Holds, TakesOwn, FindsOwn, Serves
  <2>8. SLocks'
    <3>1. \A u \in Threads : SameLock(u) /\ Asked(u)'
      BY <2>3, <2>4, <2>5 DEF SInv, SLocks, Asked, SameLock
    <3> QED
      BY <2>2, <3>1, LocksStay DEF SInv
  <2>9. SameSlot(t) /\ locks' \in [TableSlots -> LockRec]
    BY <2>2, <2>5 DEF SameSlot, SInv, Types
  <2>10. ASSUME NEW u \in Threads \ {t}, Finds(u), th[u].path = r.path
         PROVE  th[u].en = r.en
    <3>1. /\ FindsOwn(u) /\ th[u].en \in TableSlots /\ ~Unserved(r.path)
      BY <2>1, <2>3, TypesOf DEF SInv, SThreads, Unserved
    <3>2. Serves(th[u].en) /\ table[th[u].en].name = table[i].name
      BY <2>1, <2>3, <2>10, <3>1 DEF FindsOwn
    <3> QED
      BY <2>1, <2>3, <3>1, <3>2 DEF SInv, SSlots, OneSlot
  <2> QED
    BY <1>1, <1>2, <2>2, <2>3, <2>5, <2>6, <2>7, <2>8, <2>9, <2>10, ThreadSteps
<1>4. CASE CheckForFile(th[t].path) = NONE
  <2>1. PICK i \in 0..MAX_TABLE - 1 :
           GetFreeSlot(i) /\ th' = [th EXCEPT ![t].at = "slot", ![t].how = "taken", ![t].en = i]
    BY <1>4 DEF Find
  <2>2. i \in Nat
    BY TableAssumption
  <2>3. /\ i \in TableSlots /\ table[i].free
        /\ table' = [table EXCEPT ![i].free = FALSE] /\ locks' = locks
    BY <2>1, <2>2, SlotIsFree DEF Shareable, SInv
  <2> DEFINE r == [th[t] EXCEPT !.at = "slot", !.how = "taken", !.en = i]
  <2>4. /\ r \in ThRec /\ th' = [th EXCEPT ![t] = r]
        /\ r.at = "slot" /\ r.how = "taken" /\ r.en = i
        /\ r.path = th[t].path /\ r.op = th[t].op /\ r.ent = th[t].ent
    BY <1>1, <2>1, <2>3 DEF ThRec, Places, SInv, Types
  <2> HIDE DEF r
  <2>5. SEntries'
    <3>1. th'[t] = r /\ \A u \in Threads \ {t} : th'[u] = th[u] /\ (InCall(u)' <=> InCall(u))
      BY <2>4, OthersStay DEF SInv
    <3>2. \A u \in Threads : KnowsFile(u)'
      BY <1>1, <1>2, <2>4, <3>1 DEF SInv, SEntries, KnowsFile
    <3> QED
      BY <1>2, <3>2 DEF SInv, SEntries, NamesUnique, FirstEntryStays
  <2>6. Unserved(th[t].path)
    BY <1>4, FoundInTable DEF SInv
  <2>7. dir' \in [EntryNums -> DirRec] /\ \A e \in EntryNums : dir[e].name # NoFile => dir'[e] = dir[e]
    BY <1>2 DEF SInv, Types
  <2> QED
    BY <1>1, <2>3, <2>4, <2>5, <2>6, <2>7, TakingKeepsSInv
<1> QED
  BY <1>3, <1>4

-----------------------------------------------------------------------------
\* Steps that write the slot a thread is at

\* The slots after such a step.
LEMMA WrittenSlots ==
    ASSUME SInv, NEW t \in Threads, NEW i \in TableSlots, th[t].en = i,
           NEW new \in SlotRec, table' = [table EXCEPT ![i] = new],
           NEW r \in ThRec, th' = [th EXCEPT ![t] = r], r.en = i,
           \A e \in EntryNums : dir'[e].name = dir[e].name,
           new.CNT = Cardinality(HoldersOf(i)'), new.free => ~new.pcb,
           ~new.free /\ new.pcb =>
               /\ HoldersOf(i)' # {}
               /\ new.name \in Paths /\ dir[new.entryNum].name = new.name
               /\ (Serves(i) /\ table[i].name = new.name) \/ Unserved(new.name)
    PROVE  SSlots'
<1>1. table'[i] = new /\ \A j \in TableSlots \ {i} : table'[j] = table[j]
  BY DEF SInv, Types
<1>2. th'[t] = r /\ \A u \in Threads \ {t} : th'[u] = th[u] /\ (HasSlot(u)' <=> HasSlot(u))
  BY OthersStay DEF SInv
<1>3. \A j \in TableSlots \ {i} : HoldersOf(j)' = HoldersOf(j) /\ Serves(j)' = Serves(j)
  BY <1>1, <1>2 DEF HoldersOf, Serves
<1>4. Serves(i)' <=> ~new.free /\ new.pcb
  BY <1>1 DEF Serves
<1>5. \A j \in TableSlots : SlotCounts(j)'
  <2> SUFFICES ASSUME NEW j \in TableSlots PROVE SlotCounts(j)'
    OBVIOUS
  <2>1. CASE j = i
    <3>1. new.entryNum \in EntryNums
      BY DEF SlotRec
    <3> QED
      BY <1>1, <1>4, <2>1, <3>1 DEF SlotCounts
  <2>2. CASE j # i
    <3>1. SlotCounts(j) /\ table[j].entryNum \in EntryNums
      BY DEF SInv, SSlots, Types, SlotRec
    <3> QED
      BY <1>1, <1>3, <2>2, <3>1 DEF SlotCounts
  <2> QED
    BY <2>1, <2>2
<1>6. OneSlot'
  <2>1. ASSUME NEW j \in TableSlots \ {i}, Serves(i)', Serves(j), table[j].name = new.name
        PROVE  FALSE
    BY <1>1, <1>4, <2>1 DEF SInv, SSlots, OneSlot, Unserved
  <2> QED
    BY <1>1, <1>3, <2>1 DEF SInv, SSlots, OneSlot
<1> QED
  BY <1>5, <1>6 DEF SSlots

\* The counter of the gate follows the slots in use.
LEMMA CountsFollow ==
    ASSUME SInv, NEW t \in Threads, NEW i \in TableSlots, th[t].en = i,
           NEW r \in ThRec, th' = [th EXCEPT ![t] = r], r.en = i,
           HoldersOf(i) = {} /\ HoldersOf(i)' # {} => filesOpen' = filesOpen + 1,
           (HoldersOf(i) = {} <=> HoldersOf(i)' = {}) => filesOpen' = filesOpen,
           HoldersOf(i) # {} /\ HoldersOf(i)' = {} =>
               filesOpen' = IF filesOpen > 0 THEN filesOpen - 1 ELSE filesOpen
    PROVE  FilesOpenCounts' /\ filesOpen' \in Nat
<1>1. th'[t] = r /\ \A u \in Threads \ {t} : th'[u] = th[u] /\ (HasSlot(u)' <=> HasSlot(u))
  BY OthersStay DEF SInv
<1>2. \A j : j \in InUse <=> HoldersOf(j) # {}
  BY DEF InUse, HoldersOf
<1>3. InUse' = {th'[u].en : u \in {v \in Threads : HasSlot(v)'}}
  BY DEF InUse
<1>4. \A j : HoldersOf(j)' = {u \in Threads : HasSlot(u)' /\ th'[u].en = j}
  BY DEF HoldersOf
<1>5. \A j : j \in InUse' <=> HoldersOf(j)' # {}
  BY <1>3, <1>4
<1>6. \A j : j # i => HoldersOf(j)' = HoldersOf(j)
  BY <1>1, <1>4 DEF HoldersOf
<1>7. filesOpen = Cardinality(InUse) /\ filesOpen \in Nat
  BY DEF SInv, FilesOpenCounts, InUse, Types
<1>8. FilesOpenCounts' <=> filesOpen' = Cardinality(InUse')
  BY <1>3 DEF FilesOpenCounts
<1>9. IsFiniteSet(InUse)
  BY InUseIsFinite DEF SInv
<1>10. CASE HoldersOf(i) = {} /\ HoldersOf(i)' # {}
  <2>1. InUse' = InUse \cup {i} /\ i \notin InUse
    BY <1>2, <1>5, <1>6, <1>10
  <2>2. Cardinality(InUse') = Cardinality(InUse) + 1
    BY <1>9, <2>1, FS_AddElement
  <2> QED
    BY <1>7, <1>8, <1>10, <2>2
<1>11. CASE HoldersOf(i) = {} <=> HoldersOf(i)' = {}
  <2>1. InUse' = InUse
    BY <1>2, <1>5, <1>6, <1>11
  <2> QED
    BY <1>7, <1>8, <1>11, <2>1
<1>12. CASE HoldersOf(i) # {} /\ HoldersOf(i)' = {}
  <2>1. InUse' = InUse \ {i} /\ i \in InUse
    BY <1>2, <1>5, <1>6, <1>12
  <2>2. Cardinality(InUse') = Cardinality(InUse) - 1 /\ Cardinality(InUse') \in Nat
    BY <1>9, <2>1, FS_RemoveElement, FS_CardinalityType
  <2> QED
    BY <1>7, <1>8, <1>12, <2>2
<1> QED
  BY <1>10, <1>11, <1>12

\* A slot that serves its file and goes on serving it.
LEMMA ServingKeepsSInv ==
    ASSUME SInv, NEW t \in Threads, NEW i \in TableSlots, th[t].en = i, th[t].lk = i,
           InCall(t), th[t].at # "looked", Serves(i),
           table[i].name = th[t].path, table[i].mode = th[t].op, table[i].entryNum = th[t].ent,
           NEW new \in SlotRec, table' = [table EXCEPT ![i] = new], new.sync = i,
           ~new.free /\ new.pcb, new.name = th[t].path, new.mode = th[t].op,
           new.entryNum = th[t].ent,
           NEW a \in {"rewrites", "open", "stranded", "idle"}, th' = [th EXCEPT ![t].at = a],
           a \in {"rewrites", "stranded"} => th[t].op = "w",
           new.CNT = Cardinality(HoldersOf(i)'), HoldersOf(i)' # {},
           dir' \in [EntryNums -> DirRec], \A e \in EntryNums : dir'[e].name = dir[e].name,
           filesOpen' = filesOpen, locks' \in [TableSlots -> LockRec],
           SLocks', ReaderSeesStoredSize'
    PROVE  SInv'
<1>1. PICK r \in ThRec :
         /\ th' = [th EXCEPT ![t] = r] /\ r.at = a /\ r.en = i /\ r.lk = i
         /\ r.path = th[t].path /\ r.op = th[t].op /\ r.ent = th[t].ent
  <2> DEFINE x == [th[t] EXCEPT !.at = a]
  <2>1. /\ x \in ThRec /\ th' = [th EXCEPT ![t] = x] /\ x.at = a /\ x.en = i /\ x.lk = i
        /\ x.path = th[t].path /\ x.op = th[t].op /\ x.ent = th[t].ent
    BY TypesOf DEF SInv, Types, ThRec, Places
  <2> QED
    BY <2>1
<1>2. /\ th' \in [Threads -> ThRec] /\ th'[t] = r
      /\ \A u \in Threads \ {t} :
                 /\ th'[u] = th[u] /\ (InCall(u)' <=> InCall(u))
                 /\ (HasSlot(u)' <=> HasSlot(u))
                 /\ (Takes(u)' <=> Takes(u)) /\ (Finds(u)' <=> Finds(u))
  BY <1>1, OthersStay DEF SInv
<1>3. ~Takes(t)' /\ ~Finds(t)' /\ (HasSlot(t)' => a # "idle")
  BY <1>1, <1>2, PlacesAfter
<1>4. /\ new.free => ~new.pcb
      /\ ~new.free /\ new.pcb =>
             /\ HoldersOf(i)' # {}
             /\ new.name \in Paths /\ dir[new.entryNum].name = new.name
             /\ (Serves(i) /\ table[i].name = new.name) \/ Unserved(new.name)
  BY FileOf
<1>5. /\ table'[i] = new
      /\ \A j \in TableSlots \ {i} : table'[j] = table[j] /\ Serves(j)' = Serves(j)
  BY DEF SInv, Types, Serves
<1>6. \A j \in TableSlots : /\ table'[j] = table[j] \/ j = i
                            /\ Serves(j)' = Serves(j) /\ table'[j].name = table[j].name
                            /\ table'[j].mode = table[j].mode
                            /\ table'[j].entryNum = table[j].entryNum
  BY <1>5 DEF Serves
<1>7. \A p : Unserved(p)' <=> Unserved(p)
  BY <1>6 DEF Unserved
<1>8. SThreads'
  <2> SUFFICES ASSUME NEW u \in Threads PROVE Holds(u)' /\ TakesOwn(u)' /\ FindsOwn(u)'
    BY DEF SThreads
  <2>1. CASE u = t
    <3>1. Serves(th[t].en)'
      BY <1>1, <1>2, <1>5 DEF Serves
    <3> QED
      BY <1>1, <1>2, <1>3, <1>5, <2>1, <3>1 DEF Holds, TakesOwn, FindsOwn
  <2>2. CASE u # t
    <3>1. SThreads /\ TakesOwn(u) /\ th'[u] = th[u]
      BY <1>2, <2>2 DEF SInv, SThreads
    <3>2. PICK j \in TableSlots : j = th[u].en
      BY TypesOf DEF SInv
    <3>3. \A v \in Threads : Takes(u) /\ Takes(v)' /\ v # u => th'[v].en # th[u].en
      BY <1>2, <1>3, <3>1 DEF TakesOwn
    <3>4. \/ table'[th[u].en] = table[th[u].en]
          \/ /\ Serves(th[u].en) /\ Serves(th[u].en)'
             /\ table'[th[u].en].name = table[th[u].en].name
             /\ table'[th[u].en].mode = table[th[u].en].mode
             /\ table'[th[u].en].entryNum = table[th[u].en].entryNum
      <4>1. CASE j = i
        <5>1. Serves(th[u].en)
          BY <3>2, <4>1
        <5>2. Serves(th[u].en)'
          <6>1. th'[u].en = i /\ ~table'[i].free /\ table'[i].pcb
            BY <1>5, <3>1, <3>2, <4>1
          <6> QED
            BY ONLY <6>1 DEF Serves
        <5> QED
          BY <1>6, <3>2, <5>1, <5>2
      <4>2. CASE j # i
        BY <1>5, <3>2, <4>2
      <4> QED
        BY <4>1, <4>2
    <3>5. Unserved(th[u].path) => Unserved(th[u].path)'
      BY <1>7, <3>1
    <3> QED
      BY <1>2, <2>2, <3>1, <3>3, <3>4, <3>5, OthersKeep
  <2> QED
    BY <2>1, <2>2
<1>9. SEntries'
  <2>1. \A u \in Threads : InCall(u)' => SameFile(u)
    BY <1>1, <1>2 DEF SameFile
  <2> QED
    BY <2>1, EntriesStay DEF SInv
<1>10. FilesOpenCounts'
  <2>1. HoldersOf(i) # {}
    BY DEF SInv, SSlots, SlotCounts
  <2> QED
    BY <1>1, <2>1, CountsFollow
<1>11. Types'
  BY <1>2, <1>5 DEF SInv, Types
<1>12. SSlots'
  BY <1>1, <1>4, WrittenSlots
<1>13. Together'
  BY <1>2, <1>3, TogetherStays DEF SInv
<1> QED
  BY <1>8, <1>9, <1>10, <1>11, <1>12, <1>13 DEF SInv

\* The slot a thread fills serves nobody, and no other thread is after its file.
LEMMA FillsIdleSlot ==
    ASSUME SInv, Shareable, NEW t \in Threads, th[t].at = "locked", ~Joins(t)
    PROVE  ~Serves(th[t].en) /\ HoldersOf(th[t].en) = {} /\ Unserved(th[t].path)
<1>1. Waits(t) /\ ~HasSlot(t) /\ HoldsLock(t) /\ th[t].lk = th[t].en /\ th[t].en \in TableSlots
      /\ table[th[t].en] \in SlotRec
  BY PlacesOf, TypesOf DEF HasSlot, SInv, SLocks, Asked
<1>2. ~Serves(th[t].en) => HoldersOf(th[t].en) = {}
  BY SlotOf DEF HoldersOf
<1>3. CASE Takes(t)
  BY <1>2, <1>3 DEF SInv, SThreads, TakesOwn, Serves
<1>4. CASE Finds(t) /\ table[th[t].en].free
  BY <1>2, <1>4 DEF SInv, SThreads, FindsOwn, Serves
<1>5. CASE Finds(t) /\ ~table[th[t].en].free
  <2>1. Serves(th[t].en)
    BY <1>5 DEF SInv, SThreads, FindsOwn
  <2>2. SlotCounts(th[t].en)
    BY <1>1 DEF SInv, SSlots
  <2>3. PICK k \in Threads : HasSlot(k) /\ th[k].en = th[t].en
    BY <2>1, <2>2 DEF SlotCounts, HoldersOf
  <2>4. CASE th[t].op = "r"
    <3>1. HoldersOf(th[t].en) \in SUBSET Threads /\ HoldersOf(th[t].en) # {}
      BY <2>3 DEF HoldersOf
    <3>2. Cardinality(HoldersOf(th[t].en)) # 0 /\ Cardinality(HoldersOf(th[t].en)) \in 0..UINT_MAX
      BY <3>1, FiniteThreads, FS_EmptySet
    <3>3. table[th[t].en].CNT > 0
      BY <2>2, <3>2, TableAssumption DEF SlotCounts
    <3> QED
      BY <1>5, <2>4, <3>3 DEF Joins, Finds
  <2>5. CASE th[t].op # "r"
    <3>1. HoldsLock(k) /\ th[k].lk = th[t].lk /\ k # t
      BY <1>1, <2>3, PlacesOf, SlotOf
    <3> QED
      BY <1>1, <2>5, <3>1 DEF SInv, SLocks, Sharers
  <2> QED
    BY <2>4, <2>5
<1> QED
  BY <1>1, <1>3, <1>4, <1>5, PlacesOf

\* What is written to it.
LEMMA FilledSlot ==
    ASSUME SInv, NEW t \in Threads, Fill(t), NEW i \in TableSlots, th[t].en = i
    PROVE  \E new \in SlotRec :
              /\ table' = [table EXCEPT ![i] = new]
              /\ new.free = FALSE /\ new.pcb = TRUE /\ new.CNT = 1 /\ new.sync = i
              /\ new.name = th[t].path /\ new.mode = th[t].op /\ new.entryNum = th[t].ent
              /\ th[t].op = "r" => new.size = dir[th[t].ent].size
<1> DEFINE s == IF th[t].how = "new" THEN 0 ELSE dir[th[t].ent].size
           old == table[i]
           f == IF th[t].how = "found" THEN FALSE ELSE old.free
           mid == [old EXCEPT !.name = th[t].path, !.CNT = 1, !.pcb = TRUE,
                              !.entryNum = th[t].ent, !.size = s, !.mode = th[t].op]
           new == [mid EXCEPT !.free = f]
<1>1. th[t].at = "locked"
  BY DEF Fill, Step
<1>2. InCall(t) /\ Waits(t) /\ th[t].at # "looked" /\ (Takes(t) \/ Finds(t))
  BY <1>1, PlacesOf
<1>3. /\ th[t].op \in Modes /\ th[t].path \in Paths /\ th[t].ent \in EntryNums
      /\ old \in SlotRec /\ old.sync = i
  BY <1>2, FileOf, TypesOf DEF SInv
<1>4. f = FALSE /\ (th[t].op = "r" => th[t].how # "new")
  BY <1>2, <1>3 DEF SInv, SThreads, TakesOwn, Takes, Finds, SlotRec
<1>5. s \in 0..MAX_SIZE /\ (th[t].op = "r" => s = dir[th[t].ent].size)
  BY <1>3, <1>4, TableAssumption DEF SInv, Types, DirRec
<1>6. table' = [table EXCEPT ![i] = new]
  BY <1>3 DEF Fill, Filled, Reclaimed, SlotRec
<1> HIDE DEF f, s, old
<1>7. mid \in SlotRec /\ mid.pcb = TRUE /\ mid.CNT = 1 /\ mid.sync = i /\ mid.size = s
      /\ mid.name = th[t].path /\ mid.mode = th[t].op /\ mid.entryNum = th[t].ent
  <2>1. 1 \in 0..UINT_MAX
    BY TableAssumption
  <2> QED
    BY <1>3, <1>5, <2>1 DEF SlotRec
<1> HIDE DEF mid
<1>8. new \in SlotRec /\ new.free = FALSE /\ new.pcb = TRUE /\ new.CNT = 1 /\ new.sync = i
      /\ new.size = s /\ new.name = th[t].path /\ new.mode = th[t].op /\ new.entryNum = th[t].ent
  BY <1>4, <1>7 DEF SlotRec
<1> HIDE DEF new
<1> QED
  BY <1>5, <1>6, <1>8

LEMMA FillKeepsSInv ==
    ASSUME Shareable, SInv, TakenOnce, WaitedSlotsKept, NEW t \in Threads, Fill(t)
    PROVE  SInv'
<1>1. /\ th[t].at = "locked" /\ ~Joins(t) /\ filesOpen' = filesOpen + 1
      /\ dir' = dir /\ locks' = locks
  BY DEF Fill, Step
<1>2. PICK i \in TableSlots : i = th[t].en /\ i = th[t].lk
  BY <1>1, TypesOf DEF SInv, SLocks, Asked
<1>3. /\ InCall(t) /\ Waits(t) /\ (Takes(t) \/ Finds(t)) /\ HoldsLock(t)
      /\ ~HasSlot(t) /\ th[t].path \in Paths /\ dir[th[t].ent].name = th[t].path
  BY <1>1, PlacesOf, FileOf
<1>4. ~Serves(i) /\ HoldersOf(i) = {} /\ Unserved(th[t].path)
  BY <1>1, <1>2, FillsIdleSlot
<1>5. PICK new \in SlotRec :
              /\ table' = [table EXCEPT ![i] = new]
              /\ new.free = FALSE /\ new.pcb = TRUE /\ new.CNT = 1 /\ new.sync = i
              /\ new.name = th[t].path /\ new.mode = th[t].op /\ new.entryNum = th[t].ent
              /\ th[t].op = "r" => new.size = dir[th[t].ent].size
  BY <1>2, FilledSlot
<1>6. PICK r \in ThRec :
         /\ th' = [th EXCEPT ![t] = r] /\ r.at \in {"discards", "open"} /\ r.en = i /\ r.lk = i
         /\ r.path = th[t].path /\ r.op = th[t].op /\ r.ent = th[t].ent
         /\ r.at # "open" => r.op = "w"
  <2> DEFINE a == IF th[t].op = "w" /\ th[t].how # "new" THEN "discards" ELSE "open"
             x == [th[t] EXCEPT !.at = a]
  <2>1. th' = [th EXCEPT ![t] = x] /\ th[t] \in ThRec
    BY TypesOf DEF Fill, Step, SInv, Types
  <2>2. a \in {"discards", "open"} /\ (a # "open" => th[t].op = "w")
    OBVIOUS
  <2> HIDE DEF a
  <2>3. /\ x \in ThRec /\ x.at = a /\ x.en = i /\ x.lk = i
        /\ x.path = th[t].path /\ x.op = th[t].op /\ x.ent = th[t].ent
    BY <1>2, <2>1, <2>2 DEF ThRec, Places
  <2> HIDE DEF x
  <2> QED
    BY <2>1, <2>2, <2>3
<1>7. /\ th' \in [Threads -> ThRec] /\ th'[t] = r
      /\ \A u \in Threads \ {t} :
                 /\ th'[u] = th[u] /\ (InCall(u)' <=> InCall(u))
                 /\ (HasSlot(u)' <=> HasSlot(u)) /\ (HoldsLock(u)' <=> HoldsLock(u))
                 /\ (Takes(u)' <=> Takes(u)) /\ (Finds(u)' <=> Finds(u))
                 /\ (IsOpen(u)' <=> IsOpen(u))
  BY <1>6, OthersStay DEF SInv
<1>8. /\ InCall(t)' /\ HasSlot(t)' /\ HoldsLock(t)' /\ ~Takes(t)' /\ ~Finds(t)'
  BY <1>6, <1>7, PlacesAfter
<1>9. /\ table'[i] = new
      /\ \A j \in TableSlots \ {i} : table'[j] = table[j] /\ Serves(j)' = Serves(j)
  BY <1>5 DEF SInv, Types, Serves
<1>10. HoldersOf(i)' = {t} /\ Cardinality(HoldersOf(i)') = 1
  <2>1. HoldersOf(i)' = {u \in Threads : HasSlot(u)' /\ th'[u].en = i}
    BY DEF HoldersOf
  <2>2. \A u \in Threads : HasSlot(u) => th[u].en # i
    BY <1>4 DEF HoldersOf
  <2>3. HoldersOf(i)' = {t}
    BY <1>6, <1>7, <1>8, <2>1, <2>2
  <2> QED
    BY <2>3, FS_Singleton
<1>11. SSlots'
  <2>1. /\ new.free => ~new.pcb
        /\ new.CNT = Cardinality(HoldersOf(i)')
        /\ ~new.free /\ new.pcb =>
               /\ HoldersOf(i)' # {}
               /\ new.name \in Paths /\ dir[new.entryNum].name = new.name
               /\ (Serves(i) /\ table[i].name = new.name) \/ Unserved(new.name)
    BY <1>3, <1>4, <1>5, <1>10
  <2> QED
    BY <1>1, <1>2, <1>5, <1>6, <2>1, WrittenSlots
<1>12. ASSUME NEW u \in Threads \ {t}
       PROVE  /\ HasSlot(u) \/ Takes(u) => th[u].en # i
              /\ Takes(u) => th[u].path # th[t].path
              /\ Finds(u) => (th[u].en = i <=> th[u].path = th[t].path)
  <2>1. HasSlot(u) => th[u].en # i
    BY <1>4 DEF HoldersOf
  <2>2. Takes(u) => th[u].en # i /\ th[u].path # th[t].path
    BY <1>2, <1>3, PlacesOf DEF SInv, SThreads, TakesOwn, TakenOnce, WaitedSlotsKept
  <2>3. Finds(u) /\ Takes(t) => th[u].en # i /\ th[u].path # th[t].path
    BY <1>2, PlacesOf DEF TakenOnce, WaitedSlotsKept
  <2>4. Finds(u) /\ Finds(t) => (th[u].en = i <=> th[u].path = th[t].path)
    BY <1>2 DEF SInv, SThreads, FindsOwn, Together
  <2> QED
    BY <1>3, <2>1, <2>2, <2>3, <2>4
<1>13. SThreads'
  <2> SUFFICES ASSUME NEW u \in Threads PROVE Holds(u)' /\ TakesOwn(u)' /\ FindsOwn(u)'
    BY DEF SThreads
  <2>1. CASE u = t
    <3>1. Serves(th[t].en)'
      <4>1. th'[t].en = i /\ ~table'[i].free /\ table'[i].pcb
        BY <1>5, <1>6, <1>7, <1>9
      <4> QED
        BY ONLY <4>1 DEF Serves
    <3> QED
      BY <1>5, <1>6, <1>7, <1>8, <1>9, <2>1, <3>1 DEF Holds, TakesOwn, FindsOwn
  <2>2. CASE u # t
    <3>1. SThreads /\ TakesOwn(u) /\ th'[u] = th[u] /\ th[u].en \in TableSlots
      BY <1>7, <2>2, TypesOf DEF SInv, SThreads
    <3>2. CASE (HasSlot(u) \/ Takes(u) \/ Finds(u)) /\ th[u].en # i
      <4>1. table'[th[u].en] = table[th[u].en]
        BY <1>9, <3>1, <3>2
      <4>2. \A v \in Threads : Takes(u) /\ Takes(v)' /\ v # u => th'[v].en # th[u].en
        BY <1>7, <1>8, <3>1 DEF TakesOwn
      <4>3. ASSUME Takes(u) \/ Finds(u), Unserved(th[u].path) PROVE Unserved(th[u].path)'
        <5>1. \A j \in TableSlots : Serves(j)' => table'[j].name # th[u].path
          BY <1>5, <1>9, <1>12, <2>2, <3>2, <4>3 DEF Unserved
        <5> QED
          BY <3>1, <5>1 DEF Unserved
      <4> QED
        BY <1>7, <2>2, <3>1, <4>1, <4>2, <4>3, OthersKeep
    <3>3. CASE Finds(u) /\ th[u].en = i
      <4>1. th'[u].en = i /\ ~table'[i].free /\ table'[i].pcb /\ table'[i].name = th'[u].path
        BY <1>5, <1>9, <1>12, <2>2, <3>1, <3>3
      <4>2. Serves(th[u].en)'
        BY ONLY <4>1 DEF Serves
      <4>3. ~HasSlot(u)' /\ ~Takes(u)'
        BY <1>7, <2>2, <3>3, PlacesOf DEF Takes, Finds
      <4> QED
        BY <4>1, <4>2, <4>3 DEF Holds, TakesOwn, FindsOwn
    <3>4. CASE ~(HasSlot(u) \/ Takes(u) \/ Finds(u))
      BY <1>7, <2>2, <3>4 DEF Holds, TakesOwn, FindsOwn
    <3> QED
      BY <1>12, <2>2, <3>2, <3>3, <3>4
  <2> QED
    BY <2>1, <2>2
<1>14. SEntries'
  <2>1. \A u \in Threads : InCall(u)' => SameFile(u)
    BY <1>1, <1>3, <1>6, <1>7 DEF SameFile
  <2> QED
    BY <1>1, <2>1, EntriesStay DEF SInv
<1>15. SLocks'
  <2>1. \A u \in Threads : SameLock(u) /\ Asked(u)'
    BY <1>2, <1>3, <1>6, <1>7, <1>8 DEF SInv, SLocks, Asked, SameLock
  <2> QED
    BY <1>1, <2>1, LocksStay DEF SInv
<1>16. FilesOpenCounts' /\ filesOpen' \in Nat
  <2>1. HoldersOf(i) = {} /\ HoldersOf(i)' # {}
    BY <1>4, <1>10
  <2> QED
    BY <1>1, <1>2, <1>6, <2>1, CountsFollow
<1>17. ReaderSeesStoredSize'
  <2> SUFFICES ASSUME NEW u \in Threads, IsOpen(u)', th'[u].op = "r"
               PROVE  table'[th'[u].en].size = dir'[table'[th'[u].en].entryNum].size
    BY DEF ReaderSeesStoredSize
  <2>1. CASE u = t
    BY <1>1, <1>5, <1>6, <1>7, <1>9, <2>1
  <2>2. CASE u # t
    <3>1. IsOpen(u) /\ HasSlot(u) /\ th'[u] = th[u] /\ th[u].en \in TableSlots \ {i}
      BY <1>7, <1>12, <2>2, PlacesOf, TypesOf DEF SInv
    <3>2. table[th[u].en].size = dir[table[th[u].en].entryNum].size
      BY <3>1 DEF SInv, ReaderSeesStoredSize
    <3> QED
      BY <1>1, <1>9, <3>1, <3>2
  <2> QED
    BY <2>1, <2>2
<1>18. Types'
  BY <1>1, <1>5, <1>7, <1>9, <1>16 DEF SInv, Types
<1>19. Together'
  BY <1>7, <1>8, TogetherStays DEF SInv
<1> QED
  BY <1>11, <1>13, <1>14, <1>15, <1>16, <1>17, <1>18, <1>19 DEF SInv

-----------------------------------------------------------------------------
\* Steps at a slot that others may share

\* A thread that joins readers finds the slot of its file, with the file's entry.
LEMMA JoinsReaders ==
    ASSUME SInv, Shareable, NEW t \in Threads, th[t].at = "locked", Joins(t)
    PROVE  /\ Serves(th[t].en) /\ table[th[t].en].name = th[t].path
           /\ table[th[t].en].mode = "r" /\ table[th[t].en].entryNum = th[t].ent
           /\ \E k \in Threads : IsOpen(k) /\ th[k].en = th[t].en /\ th[k].op = "r"
<1>1. /\ Finds(t) /\ ~HasSlot(t) /\ HoldsLock(t) /\ th[t].lk = th[t].en /\ InCall(t)
      /\ th[t].en \in TableSlots /\ table[th[t].en] \in SlotRec
  BY PlacesOf, TypesOf DEF HasSlot, SInv, SLocks, Asked, Joins, Takes
<1>2. SlotCounts(th[t].en) /\ FindsOwn(t) /\ th[t].op = "r"
  BY <1>1 DEF SInv, SSlots, SThreads, Joins
<1>3. HoldersOf(th[t].en) # {}
  <2>1. table[th[t].en].CNT # 0
    BY <1>1 DEF Joins, SlotRec
  <2> QED
    BY <1>2, <2>1, FS_EmptySet DEF SlotCounts
<1>4. PICK k \in Threads : HasSlot(k) /\ th[k].en = th[t].en
  BY <1>3 DEF HoldersOf
<1>5. Serves(th[t].en) /\ table[th[t].en].name = th[t].path
  BY <1>1, <1>2, <1>4, SlotOf DEF FindsOwn
<1>6. th[k].op = "r"
  <2>1. HoldsLock(k) /\ th[k].lk = th[t].lk /\ k # t
    BY <1>1, <1>4, PlacesOf, SlotOf
  <2> QED
    BY <1>1, <2>1 DEF SInv, SLocks, Sharers
<1>7. IsOpen(k)
  BY <1>4, <1>6, SlotOf DEF IsOpen
<1>8. table[th[t].en].entryNum = th[t].ent
  <2>1. /\ th[t].ent \in EntryNums /\ dir[th[t].ent].name = th[t].path /\ th[t].path \in Paths
    BY <1>1, FileOf
  <2>2. table[th[t].en].entryNum \in EntryNums /\ dir[table[th[t].en].entryNum].name = th[t].path
    BY <1>1, <1>2, <1>5 DEF SlotCounts, SlotRec
  <2> QED
    BY <2>1, <2>2, TableAssumption DEF SInv, SEntries, NamesUnique
<1> QED
  BY <1>4, <1>5, <1>6, <1>7, <1>8, SlotOf

LEMMA JoinKeepsSInv ==
    ASSUME Shareable, SInv, NEW t \in Threads, Join(t)
    PROVE  SInv'
<1>1. /\ th[t].at = "locked" /\ Joins(t) /\ th[t].op = "r"
      /\ table' = [table EXCEPT ![th[t].en].CNT = @ + 1] /\ th' = [th EXCEPT ![t].at = "open"]
      /\ dir' = dir /\ locks' = locks /\ filesOpen' = filesOpen
  BY DEF Join, Step, Joins
<1>2. PICK i \in TableSlots : i = th[t].en /\ i = th[t].lk
  BY <1>1, TypesOf DEF SInv, SLocks, Asked
<1>3. InCall(t) /\ ~HasSlot(t) /\ HoldsLock(t) /\ th[t] \in ThRec
  BY <1>1, PlacesOf, TypesOf DEF SInv
<1>4. /\ Serves(i) /\ table[i].name = th[t].path
      /\ table[i].mode = "r" /\ table[i].entryNum = th[t].ent
      /\ \E k \in Threads : IsOpen(k) /\ th[k].en = i /\ th[k].op = "r"
  BY <1>1, <1>2, JoinsReaders
<1>5. /\ th' \in [Threads -> ThRec] /\ th'[t] = [th[t] EXCEPT !.at = "open"]
      /\ \A u \in Threads \ {t} :
                 /\ th'[u] = th[u]
                 /\ (HasSlot(u)' <=> HasSlot(u)) /\ (HoldsLock(u)' <=> HoldsLock(u))
                 /\ (IsOpen(u)' <=> IsOpen(u))
  <2> DEFINE x == [th[t] EXCEPT !.at = "open"]
  <2>1. x \in ThRec /\ th' = [th EXCEPT ![t] = x]
    BY <1>1, <1>3 DEF ThRec, Places, SInv, Types
  <2> HIDE DEF x
  <2>2. /\ th' \in [Threads -> ThRec] /\ th'[t] = x
        /\ \A u \in Threads \ {t} :
                 /\ th'[u] = th[u]
                 /\ (HasSlot(u)' <=> HasSlot(u)) /\ (HoldsLock(u)' <=> HoldsLock(u))
                 /\ (IsOpen(u)' <=> IsOpen(u))
    BY <2>1, OthersStay DEF SInv
  <2> QED
    BY <2>2 DEF x
<1>6. th'[t].at = "open" /\ th'[t].en = i /\ th'[t].lk = i /\ th'[t].op = th[t].op
  BY <1>2, <1>3, <1>5 DEF ThRec
<1>7. HasSlot(t)' /\ HoldsLock(t)'
  BY <1>6, PlacesAfter
<1>8. /\ HoldersOf(i)' = HoldersOf(i) \cup {t} /\ HoldersOf(i)' # {}
      /\ Cardinality(HoldersOf(i)') = Cardinality(HoldersOf(i)) + 1
      /\ Cardinality(HoldersOf(i)') \in 0..UINT_MAX
  <2>1. HoldersOf(i)' = {u \in Threads : HasSlot(u)' /\ th'[u].en = i}
    BY DEF HoldersOf
  <2>2. HoldersOf(i)' = HoldersOf(i) \cup {t}
    BY <1>5, <1>6, <1>7, <2>1 DEF HoldersOf
  <2>3. t \notin HoldersOf(i) /\ HoldersOf(i) \in SUBSET Threads
    BY <1>3 DEF HoldersOf
  <2>4. HoldersOf(i) \cup {t} \in SUBSET Threads
    BY <2>3
  <2>5. IsFiniteSet(HoldersOf(i)) /\ Cardinality(HoldersOf(i) \cup {t}) \in 0..UINT_MAX
    BY <2>3, <2>4, FiniteThreads
  <2>6. Cardinality(HoldersOf(i) \cup {t}) = Cardinality(HoldersOf(i)) + 1
    BY <2>3, <2>5, FS_AddElement
  <2> QED
    BY <2>2, <2>5, <2>6
<1>9. PICK new \in SlotRec :
         /\ table' = [table EXCEPT ![i] = new] /\ new.sync = i /\ ~new.free /\ new.pcb
         /\ new.name = th[t].path /\ new.mode = th[t].op /\ new.entryNum = th[t].ent
         /\ new.CNT = Cardinality(HoldersOf(i)') /\ new.size = table[i].size
  <2> DEFINE old == table[i]
             n == Cardinality(HoldersOf(i)) + 1
             x == [old EXCEPT !.CNT = n]
  <2>1. old.CNT = Cardinality(HoldersOf(i)) /\ n \in 0..UINT_MAX
    BY <1>8 DEF SInv, SSlots, SlotCounts
  <2>2. old \in SlotRec /\ old.sync = i /\ ~old.free /\ old.pcb
    BY <1>4 DEF SInv, Types, Serves
  <2>3. table' = [table EXCEPT ![i] = x]
    BY <1>1, <1>2, <2>1 DEF SInv, Types
  <2>4. old.name = th[t].path /\ old.mode = th[t].op /\ old.entryNum = th[t].ent
    BY <1>1, <1>4
  <2> HIDE DEF old, n
  <2>5. /\ x \in SlotRec /\ x.sync = i /\ ~x.free /\ x.pcb /\ x.CNT = n /\ x.size = old.size
        /\ x.name = th[t].path /\ x.mode = th[t].op /\ x.entryNum = th[t].ent
    BY <2>1, <2>2, <2>4 DEF SlotRec
  <2> HIDE DEF x
  <2>6. Cardinality(HoldersOf(i)') = n /\ table[i].size = old.size
    BY <1>8 DEF n, old
  <2> QED
    BY <2>3, <2>5, <2>6
<1>10. SLocks'
  <2>1. \A u \in Threads : SameLock(u) /\ Asked(u)'
    BY <1>2, <1>3, <1>5, <1>6, <1>7 DEF SInv, SLocks, Asked, SameLock
  <2> QED
    BY <1>1, <2>1, LocksStay DEF SInv
<1>11. \A j \in TableSlots : /\ table'[j].size = table[j].size
                             /\ table'[j].entryNum = table[j].entryNum
  BY <1>4, <1>9 DEF SInv, Types
<1>12. ReaderSeesStoredSize'
  <2> SUFFICES ASSUME NEW u \in Threads, IsOpen(u)', th'[u].op = "r"
               PROVE  table'[th'[u].en].size = dir'[table'[th'[u].en].entryNum].size
    BY DEF ReaderSeesStoredSize
  <2>1. PICK k \in Threads : IsOpen(k) /\ th[k].op = "r" /\ th[k].en = th'[u].en
    BY <1>4, <1>5, <1>6
  <2>2. th[k].en \in TableSlots /\ table[th[k].en].size = dir[table[th[k].en].entryNum].size
    BY <2>1, TypesOf DEF SInv, ReaderSeesStoredSize
  <2> QED
    BY <1>1, <1>11, <2>1, <2>2
<1>13. /\ th[t].at # "looked" /\ "open" \in {"rewrites", "open", "stranded", "idle"}
       /\ dir' \in [EntryNums -> DirRec] /\ locks' \in [TableSlots -> LockRec]
       /\ \A e \in EntryNums : dir'[e].name = dir[e].name
       /\ table[i].mode = th[t].op
  BY <1>1, <1>4 DEF SInv, Types
<1> QED
  BY <1>1, <1>2, <1>3, <1>4, <1>8, <1>9, <1>10, <1>12, <1>13, ServingKeepsSInv

\* A step of a writer on its own file: the slot's size, and the size in the directory.
LEMMA WriterKeepsSInv ==
    ASSUME SInv, NEW t \in Threads, HasSlot(t), th[t].op # "r",
           NEW i \in TableSlots, th[t].en = i,
           NEW new \in SlotRec, table' = [table EXCEPT ![i] = new], new.sync = i,
           ~new.free /\ new.pcb, new.CNT = 1, new.name = th[t].path, new.mode = th[t].op,
           new.entryNum = th[t].ent,
           NEW a \in {"rewrites", "open", "stranded"}, th' = [th EXCEPT ![t].at = a],
           a # "open" => th[t].op = "w",
           dir' \in [EntryNums -> DirRec], \A e \in EntryNums : dir'[e].name = dir[e].name,
           \A e \in EntryNums \ {th[t].ent} : dir'[e] = dir[e],
           locks' = locks, filesOpen' = filesOpen
    PROVE  SInv'
<1>1. /\ Serves(i) /\ table[i].name = th[t].path /\ table[i].mode = th[t].op
      /\ table[i].entryNum = th[t].ent /\ th[t].lk = i
      /\ InCall(t) /\ th[t].at # "looked" /\ HoldsLock(t) /\ th[t] \in ThRec
      /\ locks' \in [TableSlots -> LockRec]
  BY SlotOf, PlacesOf, TypesOf DEF SInv, Types
<1>2. PICK r \in ThRec :
         /\ th' = [th EXCEPT ![t] = r] /\ r.at = a /\ r.en = i /\ r.lk = i /\ r.op = th[t].op
  <2> DEFINE x == [th[t] EXCEPT !.at = a]
  <2>1. x \in ThRec /\ th' = [th EXCEPT ![t] = x] /\ x.at = a /\ x.en = i /\ x.lk = i
        /\ x.op = th[t].op
    BY <1>1 DEF ThRec, Places, SInv, Types
  <2> HIDE DEF x
  <2> QED
    BY <2>1
<1>3. /\ th'[t] = r
      /\ \A u \in Threads \ {t} :
                 /\ th'[u] = th[u]
                 /\ (HasSlot(u)' <=> HasSlot(u)) /\ (HoldsLock(u)' <=> HoldsLock(u))
                 /\ (IsOpen(u)' <=> IsOpen(u))
  BY <1>2, OthersStay DEF SInv
<1>4. HasSlot(t)' /\ HoldsLock(t)'
  BY <1>2, <1>3, PlacesAfter
<1>5. HoldersOf(i) = {t}
  BY WriterAlone
<1>6. HoldersOf(i)' # {} /\ new.CNT = Cardinality(HoldersOf(i)')
  <2>1. HoldersOf(i)' = {u \in Threads : HasSlot(u)' /\ th'[u].en = i}
    BY DEF HoldersOf
  <2>2. HoldersOf(i)' = HoldersOf(i)
    BY <1>2, <1>3, <1>4, <2>1 DEF HoldersOf
  <2>3. HoldersOf(i)' = {t} /\ Cardinality({t}) = 1
    BY <1>5, <2>2, FS_Singleton
  <2>4. Cardinality(HoldersOf(i)') = 1
    BY <2>3
  <2> QED
    BY <2>3, <2>4
<1>7. SLocks'
  <2>1. \A u \in Threads : SameLock(u) /\ Asked(u)'
    BY <1>1, <1>2, <1>3, <1>4 DEF SInv, SLocks, Asked, SameLock
  <2> QED
    BY <2>1, LocksStay DEF SInv
<1>8. ReaderSeesStoredSize'
  <2> SUFFICES ASSUME NEW u \in Threads, IsOpen(u)', th'[u].op = "r"
               PROVE  table'[th'[u].en].size = dir'[table'[th'[u].en].entryNum].size
    BY DEF ReaderSeesStoredSize
  <2>1. u # t /\ IsOpen(u) /\ HasSlot(u) /\ th'[u] = th[u] /\ th[u].op = "r"
    BY <1>2, <1>3, PlacesOf
  <2>2. th[u].en # th[t].en /\ th[u].path # th[t].path
    BY <2>1, SharingReads
  <2>3. th[u].ent # th[t].ent
    BY <2>1, <2>2, EntriesApart
  <2>4. th[u].en \in TableSlots /\ table[th[u].en].entryNum = th[u].ent /\ th[u].ent \in EntryNums
    BY <2>1, SlotOf
  <2>5. table'[th[u].en] = table[th[u].en] /\ dir'[th[u].ent] = dir[th[u].ent]
    BY <2>2, <2>3, <2>4
  <2>6. table[th[u].en].size = dir[table[th[u].en].entryNum].size
    BY <2>1 DEF SInv, ReaderSeesStoredSize
  <2> QED
    BY <2>1, <2>4, <2>5, <2>6
<1>9. a \in {"rewrites", "open", "stranded", "idle"} /\ (a \in {"rewrites", "stranded"} => th[t].op = "w")
  OBVIOUS
<1> QED
  BY <1>1, <1>6, <1>7, <1>8, <1>9, ServingKeepsSInv

LEMMA DiscardKeepsSInv ==
    ASSUME Shareable, SInv, NEW t \in Threads, Discard(t)
    PROVE  SInv'
<1>1. /\ th[t].at = "discards" /\ th' = [th EXCEPT ![t].at = "rewrites"]
      /\ table' = table /\ locks' = locks /\ filesOpen' = filesOpen
  BY DEF Discard, Step
<1>2. HasSlot(t) /\ InCall(t) /\ th[t].op = "w"
  BY <1>1, PlacesOf, SlotOf DEF HasSlot
<1>3. dir' = dir
  BY <1>1, <1>2, SlotOf, RewritesElsewhere DEF Discard, ClearDirEntry
<1>4. PICK i \in TableSlots : i = th[t].en
  BY <1>2, SlotOf
<1>5. PICK new \in SlotRec :
         /\ table' = [table EXCEPT ![i] = new] /\ new.sync = i /\ ~new.free /\ new.pcb
         /\ new.CNT = 1 /\ new.name = th[t].path /\ new.mode = th[t].op
         /\ new.entryNum = th[t].ent
  <2>1. table' = [table EXCEPT ![i] = table[i]]
    BY <1>1 DEF SInv, Types
  <2>2. table[i].CNT = 1
    BY <1>2, <1>4, WriterAlone
  <2> QED
    BY <1>2, <1>4, <2>1, <2>2, SlotOf DEF Serves
<1>6. dir' \in [EntryNums -> DirRec] /\ \A e \in EntryNums : dir'[e] = dir[e]
  BY <1>3 DEF SInv, Types
<1> QED
  BY <1>1, <1>2, <1>4, <1>5, <1>6, WriterKeepsSInv

LEMMA RewriteFailsKeepsSInv ==
    ASSUME Shareable, SInv, NEW t \in Threads, RewriteFails(t)
    PROVE  SInv'
<1>1. /\ th[t].at = "rewrites" /\ th' = [th EXCEPT ![t].at = "stranded"]
      /\ dir' = dir /\ table' = table /\ locks' = locks /\ filesOpen' = filesOpen
  BY DEF RewriteFails, Step
<1>2. HasSlot(t) /\ th[t].op = "w"
  BY <1>1, SlotOf DEF HasSlot
<1>3. PICK i \in TableSlots : i = th[t].en
  BY <1>2, SlotOf
<1>4. PICK new \in SlotRec :
         /\ table' = [table EXCEPT ![i] = new] /\ new.sync = i /\ ~new.free /\ new.pcb
         /\ new.CNT = 1 /\ new.name = th[t].path /\ new.mode = th[t].op
         /\ new.entryNum = th[t].ent
  <2>1. table' = [table EXCEPT ![i] = table[i]]
    BY <1>1 DEF SInv, Types
  <2>2. table[i].CNT = 1
    BY <1>2, <1>3, WriterAlone
  <2> QED
    BY <1>2, <1>3, <2>1, <2>2, SlotOf DEF Serves
<1>5. dir' \in [EntryNums -> DirRec] /\ \A e \in EntryNums : dir'[e] = dir[e]
  BY <1>1 DEF SInv, Types
<1> QED
  BY <1>1, <1>2, <1>3, <1>4, <1>5, WriterKeepsSInv

LEMMA RewriteKeepsSInv ==
    ASSUME Shareable, SInv, NEW t \in Threads, Rewrite(t)
    PROVE  SInv'
<1>1. /\ th[t].at = "rewrites" /\ th' = [th EXCEPT ![t].at = "open"]
      /\ locks' = locks /\ filesOpen' = filesOpen
  BY DEF Rewrite, Step
<1>2. HasSlot(t) /\ th[t].op = "w"
  BY <1>1, SlotOf DEF HasSlot
<1>3. PICK i \in TableSlots : i = th[t].en
  BY <1>2, SlotOf
<1>4. /\ table[i] \in SlotRec /\ table[i].sync = i /\ Serves(i) /\ table[i].entryNum = th[t].ent
      /\ th[t].path \in Paths /\ th[t].ent \in EntryNums /\ dir[th[t].ent].name = th[t].path
  BY <1>2, <1>3, SlotOf
<1>5. PICK new \in SlotRec :
         /\ table' = [table EXCEPT ![i] = new] /\ new.sync = i /\ ~new.free /\ new.pcb
         /\ new.CNT = 1 /\ new.name = th[t].path /\ new.mode = th[t].op
         /\ new.entryNum = th[t].ent
  <2> DEFINE old == table[i]
             x == [old EXCEPT !.name = th[t].path, !.CNT = 1, !.size = 0, !.mode = th[t].op]
  <2>1. table' = [table EXCEPT ![i] = x]
    BY <1>3, <1>4 DEF Rewrite, SInv, Types
  <2>2. old \in SlotRec /\ old.sync = i /\ ~old.free /\ old.pcb /\ old.entryNum = th[t].ent
        /\ th[t].path \in Paths /\ th[t].op \in Modes /\ 1 \in 0..UINT_MAX /\ 0 \in 0..MAX_SIZE
    BY <1>2, <1>4, TableAssumption DEF Serves, Modes
  <2> HIDE DEF old
  <2>3. /\ x \in SlotRec /\ x.sync = i /\ ~x.free /\ x.pcb /\ x.CNT = 1
        /\ x.name = th[t].path /\ x.mode = th[t].op /\ x.entryNum = th[t].ent
    BY <2>2 DEF SlotRec
  <2> HIDE DEF x
  <2> QED
    BY <2>1, <2>3
<1>6. /\ dir' \in [EntryNums -> DirRec] /\ \A e \in EntryNums : dir'[e].name = dir[e].name
      /\ \A e \in EntryNums \ {th[t].ent} : dir'[e] = dir[e]
  <2> DEFINE x == Entry(th[t].path, 0)
  <2>1. dir' = [dir EXCEPT ![th[t].ent] = x]
    BY <1>3, <1>4 DEF Rewrite
  <2>2. x \in DirRec /\ x.name = th[t].path
    BY <1>4, TableAssumption DEF Entry, DirRec
  <2> HIDE DEF x
  <2> QED
    BY <1>4, <2>1, <2>2 DEF SInv, Types
<1> QED
  BY <1>1, <1>2, <1>3, <1>5, <1>6, WriterKeepsSInv

LEMMA ResizeKeepsSInv ==
    ASSUME Shareable, SInv, NEW t \in Threads, Resize(t)
    PROVE  SInv'
<1>1. /\ th[t].at = "open" /\ th[t].op # "r" /\ HasSlot(t) /\ th' = th
      /\ dir' = dir /\ locks' = locks /\ filesOpen' = filesOpen
  BY DEF Resize, HasSlot
<1>2. PICK s \in 0..MAX_SIZE : table' = [table EXCEPT ![th[t].en].size = s]
  BY DEF Resize
<1>3. PICK i \in TableSlots : i = th[t].en
  BY <1>1, SlotOf
<1>4. PICK new \in SlotRec :
         /\ table' = [table EXCEPT ![i] = new] /\ new.sync = i /\ ~new.free /\ new.pcb
         /\ new.CNT = 1 /\ new.name = th[t].path /\ new.mode = th[t].op
         /\ new.entryNum = th[t].ent
  <2> DEFINE old == table[i]
             x == [old EXCEPT !.size = s]
  <2>1. table' = [table EXCEPT ![i] = x]
    BY <1>2, <1>3 DEF SInv, Types
  <2>2. old \in SlotRec /\ old.sync = i /\ ~old.free /\ old.pcb /\ old.CNT = 1
        /\ old.name = th[t].path /\ old.mode = th[t].op /\ old.entryNum = th[t].ent
    BY <1>1, <1>3, SlotOf, WriterAlone DEF Serves
  <2> HIDE DEF old
  <2>3. /\ x \in SlotRec /\ x.sync = i /\ ~x.free /\ x.pcb /\ x.CNT = 1
        /\ x.name = th[t].path /\ x.mode = th[t].op /\ x.entryNum = th[t].ent
    BY <2>2 DEF SlotRec
  <2> HIDE DEF x
  <2> QED
    BY <2>1, <2>3
<1>5. dir' \in [EntryNums -> DirRec] /\ \A e \in EntryNums : dir'[e] = dir[e]
  BY <1>1 DEF SInv, Types
<1>6. th' = [th EXCEPT ![t].at = "open"]
  BY <1>1, TypesOf DEF SInv, Types, ThRec
<1> QED
  BY <1>1, <1>3, <1>4, <1>5, <1>6, WriterKeepsSInv

\* A lock is given back, in the mode it was taken in.
LEMMA CloseKeepsLocks ==
    ASSUME Shareable, SInv, NEW t \in Threads, HasSlot(t), NEW i \in TableSlots, th[t].en = i,
           locks' = [locks EXCEPT ![i] = Released(@, th[t].op)],
           th' = [th EXCEPT ![t].at = "idle"]
    PROVE  SLocks' /\ locks' \in [TableSlots -> LockRec]
<1>1. /\ th[t].lk = i /\ HoldsLock(t) /\ th[t] \in ThRec /\ locks[i] \in LockRec
      /\ locks \in [TableSlots -> LockRec] /\ LockCounts(i)
  BY SlotOf, PlacesOf, TypesOf DEF SInv, Types, SLocks
<1>2. /\ ~HoldsLock(t)' /\ th'[t].at = "idle"
      /\ \A u \in Threads \ {t} : th'[u] = th[u] /\ (HoldsLock(u)' <=> HoldsLock(u))
  <2> DEFINE x == [th[t] EXCEPT !.at = "idle"]
  <2>1. x \in ThRec /\ th' = [th EXCEPT ![t] = x] /\ x.at = "idle"
    BY <1>1 DEF ThRec, Places, SInv, Types
  <2> HIDE DEF x
  <2>2. th'[t] = x /\ \A u \in Threads \ {t} : th'[u] = th[u] /\ (HoldsLock(u)' <=> HoldsLock(u))
    BY <2>1, OthersStay DEF SInv
  <2> QED
    BY <2>1, <2>2, PlacesAfter
<1>3. /\ IsFiniteSet(ReadersOf(i)) /\ Cardinality(ReadersOf(i)) \in Nat
      /\ th[t].op = "r" => Cardinality(ReadersOf(i)) # 0
  <2>1. ReadersOf(i) \in SUBSET Threads /\ (th[t].op = "r" => t \in ReadersOf(i))
    BY <1>1 DEF ReadersOf
  <2> QED
    BY <2>1, FiniteThreads, FS_EmptySet
<1> DEFINE old == locks[i]
           k == Released(old, th[t].op)
<1>4. /\ k \in LockRec
      /\ th[t].op = "r" => k.shared = old.shared - 1 /\ k.excl = old.excl
      /\ th[t].op # "r" => k.shared = old.shared /\ k.excl = FALSE
  <2>1. old \in LockRec /\ (th[t].op = "r" => old.shared \in Nat /\ old.shared # 0)
    BY <1>1, <1>3 DEF LockCounts
  <2> HIDE DEF old
  <2>2. CASE th[t].op = "r"
    <3>1. old.shared - 1 \in Nat /\ k = [old EXCEPT !.shared = old.shared - 1]
      BY <2>1, <2>2 DEF Released
    <3> QED
      BY <2>1, <2>2, <3>1 DEF LockRec
  <2>3. CASE th[t].op # "r"
    BY <2>1, <2>3 DEF Released, LockRec
  <2> QED
    BY <2>2, <2>3
<1>5. locks'[i] = k /\ \A l \in TableSlots \ {i} : locks'[l] = locks[l]
  BY <1>1
<1>6. locks' \in [TableSlots -> LockRec]
  BY <1>1, <1>4
<1> HIDE DEF k
<1>7. \A l \in TableSlots : LockCounts(l)'
  <2> SUFFICES ASSUME NEW l \in TableSlots PROVE LockCounts(l)'
    OBVIOUS
  <2>1. LockCounts(l)
    BY DEF SInv, SLocks
  <2>2. CASE l # i
    <3>1. ReadersOf(l)' = ReadersOf(l)
      BY <1>1, <1>2, <2>2 DEF ReadersOf
    <3> QED
      BY <1>1, <1>2, <1>5, <2>1, <2>2, <3>1 DEF LockCounts
  <2>3. CASE l = i /\ th[t].op = "r"
    <3>1. ReadersOf(l)' = ReadersOf(l) \ {t} /\ t \in ReadersOf(l)
      BY <1>1, <1>2, <2>3 DEF ReadersOf
    <3>2. Cardinality(ReadersOf(l)') = Cardinality(ReadersOf(l)) - 1
      BY <1>3, <2>3, <3>1, FS_RemoveElement
    <3> QED
      BY <1>1, <1>2, <1>4, <1>5, <2>1, <2>3, <3>2 DEF LockCounts
  <2>4. CASE l = i /\ th[t].op # "r"
    <3>1. ReadersOf(l)' = ReadersOf(l)
      BY <1>1, <1>2, <2>4 DEF ReadersOf
    <3>2. \A u \in Threads \ {t} : ~(HoldsLock(u) /\ th[u].lk = i)
      BY <1>1, <2>4 DEF SInv, SLocks, Sharers
    <3> QED
      BY <1>1, <1>2, <1>4, <1>5, <2>1, <2>4, <3>1, <3>2 DEF LockCounts
  <2> QED
    BY <2>2, <2>3, <2>4
<1>8. Sharers'
  BY <1>2 DEF SInv, SLocks, Sharers
<1>9. \A u \in Threads : Asked(u)'
  BY <1>2 DEF SInv, SLocks, Asked
<1> QED
  BY <1>6, <1>7, <1>8, <1>9 DEF SLocks

\* closeEntry when others still read the file: the slot is only counted down.
LEMMA CloseSharedKeepsSInv ==
    ASSUME Shareable, SInv, NEW t \in Threads, HasSlot(t), NEW i \in TableSlots, th[t].en = i,
           HoldersOf(i) \ {t} # {}, th[t].op = "r",
           table' = [table EXCEPT ![i].CNT = Cardinality(HoldersOf(i)) - 1,
                                  ![i].free = FALSE, ![i].pcb = TRUE],
           locks' = [locks EXCEPT ![i] = Released(@, th[t].op)],
           th' = [th EXCEPT ![t].at = "idle"], dir' = dir, filesOpen' = filesOpen
    PROVE  SInv'
<1>1. /\ Serves(i) /\ table[i].name = th[t].path /\ table[i].mode = th[t].op
      /\ table[i].entryNum = th[t].ent /\ th[t].lk = i /\ table[i].sync = i
      /\ InCall(t) /\ th[t].at # "looked" /\ th[t] \in ThRec /\ table[i] \in SlotRec
  BY SlotOf, PlacesOf, TypesOf DEF SInv
<1>2. /\ HoldersOf(i)' = HoldersOf(i) \ {t}
      /\ \A u \in Threads : IsOpen(u)' => IsOpen(u) /\ th'[u] = th[u]
  <2> DEFINE x == [th[t] EXCEPT !.at = "idle"]
  <2>1. x \in ThRec /\ th' = [th EXCEPT ![t] = x] /\ x.at = "idle"
    BY <1>1 DEF ThRec, Places, SInv, Types
  <2> HIDE DEF x
  <2>2. th'[t] = x /\ \A u \in Threads \ {t} :
           th'[u] = th[u] /\ (HasSlot(u)' <=> HasSlot(u)) /\ (IsOpen(u)' <=> IsOpen(u))
    BY <2>1, OthersStay DEF SInv
  <2>3. ~HasSlot(t)' /\ ~IsOpen(t)'
    BY <2>1, <2>2, PlacesAfter
  <2>4. HoldersOf(i)' = {u \in Threads : HasSlot(u)' /\ th'[u].en = i}
    BY DEF HoldersOf
  <2> QED
    BY <2>2, <2>3, <2>4 DEF HoldersOf
<1>3. /\ Cardinality(HoldersOf(i)') = Cardinality(HoldersOf(i)) - 1
      /\ Cardinality(HoldersOf(i)') \in 0..UINT_MAX
  <2>1. t \in HoldersOf(i) /\ HoldersOf(i) \in SUBSET Threads
    BY DEF HoldersOf
  <2>2. HoldersOf(i) \ {t} \in SUBSET Threads
    BY <2>1
  <2>3. IsFiniteSet(HoldersOf(i)) /\ Cardinality(HoldersOf(i) \ {t}) \in 0..UINT_MAX
    BY <2>1, <2>2, FiniteThreads
  <2>4. Cardinality(HoldersOf(i) \ {t}) = Cardinality(HoldersOf(i)) - 1
    BY <2>1, <2>3, FS_RemoveElement
  <2> QED
    BY <1>2, <2>3, <2>4
<1>4. PICK new \in SlotRec :
         /\ table' = [table EXCEPT ![i] = new] /\ new.sync = i /\ ~new.free /\ new.pcb
         /\ new.name = th[t].path /\ new.mode = th[t].op /\ new.entryNum = th[t].ent
         /\ new.CNT = Cardinality(HoldersOf(i)') /\ new.size = table[i].size
  <2> DEFINE old == table[i]
             n == Cardinality(HoldersOf(i)) - 1
             x == [old EXCEPT !.CNT = n, !.free = FALSE, !.pcb = TRUE]
  <2>1. n \in 0..UINT_MAX /\ Cardinality(HoldersOf(i)') = n
    BY <1>3
  <2>2. table' = [table EXCEPT ![i] = x]
    BY DEF SInv, Types
  <2>3. old \in SlotRec /\ old.sync = i /\ old.name = th[t].path /\ old.mode = th[t].op
        /\ old.entryNum = th[t].ent
    BY <1>1
  <2> HIDE DEF old, n
  <2>4. /\ x \in SlotRec /\ x.sync = i /\ ~x.free /\ x.pcb /\ x.CNT = n /\ x.size = old.size
        /\ x.name = th[t].path /\ x.mode = th[t].op /\ x.entryNum = th[t].ent
    BY <2>1, <2>3 DEF SlotRec
  <2> HIDE DEF x
  <2>5. table[i].size = old.size
    BY DEF old
  <2> QED
    BY <2>1, <2>2, <2>4, <2>5
<1>5. SLocks' /\ locks' \in [TableSlots -> LockRec]
  BY CloseKeepsLocks
<1>6. ReaderSeesStoredSize'
  <2>1. \A j \in TableSlots : table'[j].size = table[j].size
                              /\ table'[j].entryNum = table[j].entryNum
    BY <1>1, <1>4 DEF SInv, Types
  <2>2. \A u \in Threads : th[u].en \in TableSlots
    BY TypesOf DEF SInv
  <2> SUFFICES ASSUME NEW u \in Threads, IsOpen(u)', th'[u].op = "r"
               PROVE  table'[th'[u].en].size = dir'[table'[th'[u].en].entryNum].size
    BY DEF ReaderSeesStoredSize
  <2>3. IsOpen(u) /\ th'[u] = th[u]
    BY <1>2
  <2>4. table[th[u].en].size = dir[table[th[u].en].entryNum].size
    BY <2>3 DEF SInv, ReaderSeesStoredSize
  <2>5. /\ table'[th[u].en].size = table[th[u].en].size
        /\ table'[th[u].en].entryNum = table[th[u].en].entryNum
    BY <2>1, <2>2
  <2> QED
    BY <2>3, <2>4, <2>5
<1>7. /\ HoldersOf(i)' # {} /\ "idle" \in {"rewrites", "open", "stranded", "idle"}
      /\ dir' \in [EntryNums -> DirRec] /\ \A e \in EntryNums : dir'[e].name = dir[e].name
  BY <1>2 DEF SInv, Types
<1> QED
  BY <1>1, <1>4, <1>5, <1>6, <1>7, ServingKeepsSInv

\* The last handle of the file goes: the slot is free, and its size is stored.
LEMMA CloseLastKeepsSInv ==
    ASSUME Shareable, SInv, NEW t \in Threads, HasSlot(t), NEW i \in TableSlots, th[t].en = i,
           HoldersOf(i) = {t},
           table' = [table EXCEPT ![i].CNT = 0, ![i].free = TRUE, ![i].pcb = FALSE],
           locks' = [locks EXCEPT ![i] = Released(@, th[t].op)],
           th' = [th EXCEPT ![t].at = "idle"],
           dir' = IF th[t].op # "r" THEN [dir EXCEPT ![th[t].ent].size = table[i].size] ELSE dir,
           filesOpen' = IF filesOpen > 0 THEN filesOpen - 1 ELSE filesOpen
    PROVE  SInv'
<1>1. /\ Serves(i) /\ table[i].name = th[t].path /\ table[i].sync = i
      /\ table[i].entryNum = th[t].ent /\ th[t].ent \in EntryNums
      /\ InCall(t) /\ th[t].at # "looked" /\ th[t] \in ThRec /\ table[i] \in SlotRec
  BY SlotOf, PlacesOf, TypesOf DEF SInv
<1>2. PICK r \in ThRec : th' = [th EXCEPT ![t] = r] /\ r.at = "idle" /\ r.en = i
  <2> DEFINE x == [th[t] EXCEPT !.at = "idle"]
  <2>1. x \in ThRec /\ th' = [th EXCEPT ![t] = x] /\ x.at = "idle" /\ x.en = i
    BY <1>1 DEF ThRec, Places, SInv, Types
  <2> HIDE DEF x
  <2> QED
    BY <2>1
<1>3. /\ th' \in [Threads -> ThRec] /\ th'[t] = r
      /\ \A u \in Threads \ {t} :
                 /\ th'[u] = th[u] /\ (InCall(u)' <=> InCall(u))
                 /\ (HasSlot(u)' <=> HasSlot(u)) /\ (IsOpen(u)' <=> IsOpen(u))
                 /\ (Takes(u)' <=> Takes(u)) /\ (Finds(u)' <=> Finds(u))
  BY <1>2, OthersStay DEF SInv
<1>4. ~InCall(t)' /\ ~HasSlot(t)' /\ ~IsOpen(t)' /\ ~Takes(t)' /\ ~Finds(t)'
  BY <1>2, <1>3, PlacesAfter
<1>5. HoldersOf(i)' = {}
  <2>1. HoldersOf(i)' = {u \in Threads : HasSlot(u)' /\ th'[u].en = i}
    BY DEF HoldersOf
  <2> QED
    BY <1>3, <1>4, <2>1 DEF HoldersOf
<1>6. PICK new \in SlotRec :
         /\ table' = [table EXCEPT ![i] = new] /\ new.sync = i /\ new.free = TRUE /\ new.pcb = FALSE
         /\ new.CNT = 0 /\ new.name = table[i].name
  <2> DEFINE old == table[i]
             x == [old EXCEPT !.CNT = 0, !.free = TRUE, !.pcb = FALSE]
  <2>1. table' = [table EXCEPT ![i] = x]
    BY DEF SInv, Types
  <2>2. old \in SlotRec /\ old.sync = i /\ 0 \in 0..UINT_MAX
    BY <1>1, TableAssumption
  <2> HIDE DEF old
  <2>3. /\ x \in SlotRec /\ x.sync = i /\ x.free = TRUE /\ x.pcb = FALSE /\ x.CNT = 0
        /\ x.name = old.name
    BY <2>2 DEF SlotRec
  <2> HIDE DEF x
  <2>4. old.name = table[i].name
    BY DEF old
  <2> QED
    BY <2>1, <2>3, <2>4
<1>7. /\ dir' \in [EntryNums -> DirRec] /\ \A e \in EntryNums : dir'[e].name = dir[e].name
      /\ \A e \in EntryNums \ {th[t].ent} : dir'[e] = dir[e]
  <2> DEFINE x == [dir[th[t].ent] EXCEPT !.size = table[i].size]
  <2>1. dir[th[t].ent] \in DirRec /\ table[i].size \in 0..MAX_SIZE
    BY <1>1 DEF SInv, Types, SlotRec
  <2>2. x \in DirRec /\ x.name = dir[th[t].ent].name
    BY <2>1 DEF DirRec
  <2>3. dir' = dir \/ dir' = [dir EXCEPT ![th[t].ent] = x]
    BY <1>1 DEF SInv, Types
  <2> HIDE DEF x
  <2> QED
    BY <1>1, <2>2, <2>3 DEF SInv, Types
<1>8. /\ table'[i] = new /\ \A j \in TableSlots \ {i} : table'[j] = table[j] /\ Serves(j)' = Serves(j)
      /\ ~Serves(i)'
  <2>1. table'[i] = new /\ \A j \in TableSlots \ {i} : table'[j] = table[j] /\ Serves(j)' = Serves(j)
    BY <1>6 DEF SInv, Types, Serves
  <2> QED
    BY <1>6, <2>1 DEF Serves
<1>9. SSlots'
  <2>1. Cardinality(HoldersOf(i)') = 0
    BY <1>5, FS_EmptySet
  <2>2. new.CNT = Cardinality(HoldersOf(i)')
    BY <1>6, <2>1
  <2>3. new.free => ~new.pcb
    BY <1>6
  <2>4. ~new.free /\ new.pcb =>
            /\ HoldersOf(i)' # {}
            /\ new.name \in Paths /\ dir[new.entryNum].name = new.name
            /\ (Serves(i) /\ table[i].name = new.name) \/ Unserved(new.name)
    BY <1>6
  <2>5. \A e \in EntryNums : dir'[e].name = dir[e].name
    BY <1>7
  <2>6. table' = [table EXCEPT ![i] = new] /\ th' = [th EXCEPT ![t] = r] /\ r.en = i
    BY <1>2, <1>6
  <2> QED
    BY ONLY SInv, th[t].en = i, t \in Threads, i \in TableSlots, r \in ThRec, new \in SlotRec,
            <2>2, <2>3, <2>4, <2>5, <2>6, WrittenSlots
<1>10. \A p : Unserved(p) => Unserved(p)'
  <2> SUFFICES ASSUME NEW p, Unserved(p) PROVE Unserved(p)'
    OBVIOUS
  <2>1. \A j \in TableSlots : Serves(j)' => table'[j].name # p
    BY <1>8 DEF Unserved
  <2> QED
    BY <2>1 DEF Unserved
<1>11. \A p : p = table[i].name => Unserved(p)'
  <2> SUFFICES ASSUME NEW p, p = table[i].name PROVE Unserved(p)'
    OBVIOUS
  <2>1. \A j \in TableSlots : Serves(j)' => table'[j].name # p
    BY <1>1, <1>8 DEF SInv, SSlots, OneSlot
  <2> QED
    BY <2>1 DEF Unserved
<1>12. SThreads'
  <2> SUFFICES ASSUME NEW u \in Threads PROVE Holds(u)' /\ TakesOwn(u)' /\ FindsOwn(u)'
    BY DEF SThreads
  <2>1. CASE u = t
    BY <1>4, <2>1 DEF Holds, TakesOwn, FindsOwn
  <2>2. CASE u # t
    <3>1. SThreads /\ TakesOwn(u) /\ FindsOwn(u) /\ th'[u] = th[u] /\ th[u].en \in TableSlots
      BY <1>3, <2>2, TypesOf DEF SInv, SThreads
    <3>2. HasSlot(u) \/ Takes(u) => th[u].en # i
      BY <1>1, <2>2, <3>1 DEF HoldersOf, TakesOwn, Serves
    <3>3. CASE (HasSlot(u) \/ Takes(u) \/ Finds(u)) /\ th[u].en # i
      <4>1. table'[th[u].en] = table[th[u].en]
        BY <1>8, <3>1, <3>3
      <4>2. \A v \in Threads : Takes(u) /\ Takes(v)' /\ v # u => th'[v].en # th[u].en
        BY <1>3, <1>4, <3>1 DEF TakesOwn
      <4>3. Unserved(th[u].path) => Unserved(th[u].path)'
        BY <1>10, <3>1
      <4> QED
        BY <1>3, <2>2, <3>1, <4>1, <4>2, <4>3, OthersKeep
    <3>4. CASE Finds(u) /\ th[u].en = i
      <4>1. table[i].name = th[u].path
        BY <3>1, <3>4 DEF FindsOwn
      <4>2. Unserved(th[u].path)'
        BY <1>11, <3>1, <4>1
      <4>3. table'[i].name = table[i].name /\ table'[i].free
        BY <1>6, <1>8
      <4>4. ~HasSlot(u) /\ ~Takes(u)
        BY <3>2, <3>4
      <4> QED
        BY <1>3, <2>2, <3>1, <3>4, <4>1, <4>2, <4>3, <4>4 DEF Holds, TakesOwn, FindsOwn
    <3>5. CASE ~(HasSlot(u) \/ Takes(u) \/ Finds(u))
      BY <1>3, <2>2, <3>5 DEF Holds, TakesOwn, FindsOwn
    <3> QED
      BY <3>2, <3>3, <3>4, <3>5
  <2> QED
    BY <2>1, <2>2
<1>13. SEntries'
  <2>1. \A u \in Threads : InCall(u)' => SameFile(u)
    BY <1>3, <1>4 DEF SameFile
  <2> QED
    BY <1>7, <2>1, EntriesStay DEF SInv
<1>14. SLocks' /\ locks' \in [TableSlots -> LockRec]
  BY CloseKeepsLocks
<1>15. FilesOpenCounts' /\ filesOpen' \in Nat
  <2>1. HoldersOf(i) # {} /\ HoldersOf(i)' = {}
    BY <1>5
  <2> QED
    BY <1>2, <2>1, CountsFollow
<1>16. ReaderSeesStoredSize'
  <2> SUFFICES ASSUME NEW u \in Threads, IsOpen(u)', th'[u].op = "r"
               PROVE  table'[th'[u].en].size = dir'[table'[th'[u].en].entryNum].size
    BY DEF ReaderSeesStoredSize
  <2>1. u # t /\ IsOpen(u) /\ HasSlot(u) /\ th'[u] = th[u]
    BY <1>3, <1>4, PlacesOf
  <2>2. th[u].en # i
    BY <2>1 DEF HoldersOf
  <2>3. th[u].ent # th[t].ent
    BY <2>1, <2>2, EntriesApart, SharingReads
  <2>4. th[u].en \in TableSlots /\ table[th[u].en].entryNum = th[u].ent /\ th[u].ent \in EntryNums
    BY <2>1, SlotOf
  <2>5. table'[th[u].en] = table[th[u].en] /\ dir'[th[u].ent] = dir[th[u].ent]
    BY <1>7, <1>8, <2>2, <2>3, <2>4
  <2>6. table[th[u].en].size = dir[table[th[u].en].entryNum].size
    BY <2>1 DEF SInv, ReaderSeesStoredSize
  <2> QED
    BY <2>1, <2>4, <2>5, <2>6
<1>17. Types'
  BY <1>3, <1>6, <1>7, <1>8, <1>14, <1>15 DEF SInv, Types
<1>18. Together'
  BY <1>3, <1>4, TogetherStays DEF SInv
<1> QED
  BY <1>9, <1>12, <1>13, <1>14, <1>15, <1>16, <1>17, <1>18 DEF SInv

LEMMA CloseKeepsSInv ==
    ASSUME Shareable, SInv, NEW t \in Threads, Close(t)
    PROVE  SInv'
<1>1. th[t].at = "open" /\ HasSlot(t) /\ th' = [th EXCEPT ![t].at = "idle"]
  BY DEF Close, Step, HasSlot
<1>2. PICK i \in TableSlots : i = th[t].en
  BY <1>1, SlotOf
<1>3. /\ ~table[i].free /\ table[i].pcb /\ table[i].mode = th[t].op /\ table[i].sync = i
      /\ table[i].entryNum = th[t].ent /\ SlotCounts(i)
  BY <1>1, <1>2, SlotOf DEF Serves, SInv, SSlots
<1> DEFINE n == Cardinality(HoldersOf(i))
           last == ~(n - 1 > 0 /\ th[t].op = "r")
<1>4. n \in Nat /\ n # 0 /\ (n - 1 > 0 <=> HoldersOf(i) \ {t} # {})
      /\ (HoldersOf(i) \ {t} = {} => HoldersOf(i) = {t})
  <2>1. t \in HoldersOf(i) /\ HoldersOf(i) \in SUBSET Threads
    BY <1>1, <1>2 DEF HoldersOf
  <2>2. IsFiniteSet(HoldersOf(i)) /\ n \in Nat
    BY <2>1, FiniteThreads
  <2>3. Cardinality(HoldersOf(i) \ {t}) = n - 1 /\ IsFiniteSet(HoldersOf(i) \ {t})
    BY <2>1, <2>2, FS_RemoveElement
  <2>4. n - 1 = 0 <=> HoldersOf(i) \ {t} = {}
    BY <2>3, FS_EmptySet
  <2>5. Cardinality(HoldersOf(i) \ {t}) \in Nat
    BY <2>3, FS_CardinalityType
  <2>6. n - 1 \in Nat
    BY <2>3, <2>5
  <2> HIDE DEF n
  <2> QED
    BY <2>1, <2>2, <2>4, <2>6
<1>5. /\ locks' = [locks EXCEPT ![i] = Released(@, th[t].op)]
      /\ table' = [table EXCEPT ![i].CNT = n - 1, ![i].free = last, ![i].pcb = ~last]
      /\ dir' = IF last /\ th[t].op # "r" THEN [dir EXCEPT ![th[t].ent].size = table[i].size] ELSE dir
      /\ filesOpen' = IF last /\ filesOpen > 0 THEN filesOpen - 1 ELSE filesOpen
  <2> DEFINE slot == table[i]
             cnt == IF slot.CNT = 0 THEN UINT_MAX ELSE slot.CNT - 1
             l == ~(cnt > 0 /\ slot.mode = "r")
  <2>1. slot.CNT = n /\ slot.pcb = TRUE
    BY <1>1, <1>2, <1>3, TypesOf DEF SlotCounts, SInv, SlotRec
  <2>2. cnt = n - 1 /\ l = last
    BY <1>3, <1>4, <2>1
  <2>3. /\ locks' = [locks EXCEPT ![slot.sync] = Released(@, slot.mode)]
        /\ table' = [table EXCEPT ![i].CNT = cnt, ![i].free = l, ![i].pcb = @ /\ ~l]
        /\ dir' = IF l /\ slot.mode # "r"
                  THEN [dir EXCEPT ![slot.entryNum].size = slot.size] ELSE dir
        /\ filesOpen' = IF l /\ filesOpen > 0 THEN filesOpen - 1 ELSE filesOpen
    BY <1>2, <1>3 DEF Close
  <2> HIDE DEF cnt, l, slot, n, last
  <2>4. table' = [table EXCEPT ![i].CNT = n - 1, ![i].free = last, ![i].pcb = ~last]
    BY <2>1, <2>2, <2>3 DEF slot
  <2> QED
    BY <1>3, <2>2, <2>3, <2>4 DEF slot
<1>6. CASE HoldersOf(i) \ {t} # {}
  <2>1. th[t].op = "r"
    BY <1>1, <1>2, <1>6, SharingReads DEF HoldersOf
  <2>2. last = FALSE
    BY <1>4, <1>6, <2>1
  <2>3. /\ table' = [table EXCEPT ![i].CNT = Cardinality(HoldersOf(i)) - 1,
                                  ![i].free = FALSE, ![i].pcb = TRUE]
        /\ dir' = dir /\ filesOpen' = filesOpen
    BY <1>5, <2>2
  <2> QED
    BY <1>1, <1>2, <1>5, <1>6, <2>1, <2>3, CloseSharedKeepsSInv
<1>7. CASE HoldersOf(i) \ {t} = {}
  <2>1. HoldersOf(i) = {t} /\ last = TRUE
    BY <1>4, <1>7
  <2>2. n - 1 = 0
    <3>1. n = Cardinality({t}) /\ Cardinality({t}) = 1
      BY <2>1, FS_Singleton
    <3> HIDE DEF n
    <3> QED
      BY <3>1
  <2>3. /\ table' = [table EXCEPT ![i].CNT = 0, ![i].free = TRUE, ![i].pcb = FALSE]
        /\ dir' = IF th[t].op # "r" THEN [dir EXCEPT ![th[t].ent].size = table[i].size] ELSE dir
        /\ filesOpen' = IF filesOpen > 0 THEN filesOpen - 1 ELSE filesOpen
    <3> HIDE DEF last, n
    <3> QED
      BY <1>5, <2>1, <2>2
  <2> QED
    BY <1>1, <1>2, <1>5, <2>1, <2>3, CloseLastKeepsSInv
<1> QED
  BY <1>6, <1>7


\* Nothing that the invariant speaks of changes.
LEMMA StutterKeepsSInv ==
    ASSUME SInv, UNCHANGED vars
    PROVE  SInv'
<1>1. dir' = dir /\ table' = table /\ locks' = locks /\ filesOpen' = filesOpen /\ th' = th
  BY DEF vars
<1>2. /\ \A t : /\ (InCall(t)' <=> InCall(t)) /\ (HasSlot(t)' <=> HasSlot(t))
                /\ (HoldsLock(t)' <=> HoldsLock(t)) /\ (IsOpen(t)' <=> IsOpen(t))
                /\ (Takes(t)' <=> Takes(t)) /\ (Finds(t)' <=> Finds(t))
      /\ \A i : Serves(i)' <=> Serves(i)
  BY <1>1 DEF InCall, HasSlot, HoldsLock, IsOpen, Takes, Finds, Waits, Serves
<1>3. /\ \A i : HoldersOf(i)' = HoldersOf(i) /\ ReadersOf(i)' = ReadersOf(i)
      /\ \A p : Unserved(p)' <=> Unserved(p)
  BY <1>1, <1>2 DEF HoldersOf, ReadersOf, Unserved
<1>4. Types'
  BY <1>1 DEF SInv, Types
<1>5. SEntries'
  BY <1>1, <1>2 DEF SInv, SEntries, KnowsFile, NamesUnique, FirstEntryStays
<1>6. SSlots'
  BY <1>1, <1>2, <1>3 DEF SInv, SSlots, SlotCounts, OneSlot
<1>7. SThreads'
  BY <1>1, <1>2, <1>3 DEF SInv, SThreads, Holds, TakesOwn, FindsOwn
<1>8. SLocks'
  BY <1>1, <1>2, <1>3 DEF SInv, SLocks, Asked, LockCounts, Sharers
<1>9. FilesOpenCounts'
  BY <1>1, <1>2 DEF SInv, FilesOpenCounts
<1>10. ReaderSeesStoredSize'
  BY <1>1, <1>2 DEF SInv, ReaderSeesStoredSize
<1>11. Together'
  BY <1>1, <1>2 DEF SInv, Together
<1> QED
  BY <1>4, <1>5, <1>6, <1>7, <1>8, <1>9, <1>10, <1>11 DEF SInv

LEMMA StepKeepsSInv ==
    ASSUME Shareable, SInv, Undisturbed, Undisturbed', [Next]_vars
    PROVE  SInv'
<1> USE DEF Undisturbed
<1>1. CASE UNCHANGED vars
  BY <1>1, StutterKeepsSInv
<1>2. ASSUME NEW t \in Threads, NEW p \in Paths, NEW op \in Operations, Call(t, p, op)
      PROVE  SInv'
  BY <1>2, CallKeepsSInv
<1>3. ASSUME NEW t \in Threads, Internal(t)
      PROVE  SInv'
  <2>1. CASE Create(t)
    BY <2>1, CreateKeepsSInv
  <2>2. CASE Find(t)
    BY <2>2, FindKeepsSInv
  <2>3. CASE Ask(t)
    BY <2>3, AskKeepsSInv
  <2>4. CASE Acquire(t)
    BY <2>4, AcquireKeepsSInv
  <2>5. CASE Fill(t)
    BY <2>5, FillKeepsSInv
  <2>6. CASE Join(t)
    BY <2>6, JoinKeepsSInv
  <2>7. CASE Discard(t)
    BY <2>7, DiscardKeepsSInv
  <2>8. CASE Rewrite(t)
    BY <2>8, RewriteKeepsSInv
  <2>9. CASE RewriteFails(t)
    BY <2>9, RewriteFailsKeepsSInv
  <2>10. CASE DeleteFile(t)
    <3>1. th[t].op = "delete" /\ th[t].at = "locked"
      BY <2>10 DEF DeleteFile, Step
    <3>2. th[t].op \in Modes
      BY <3>1, FileOf DEF InCall
    <3> QED
      BY <3>1, <3>2 DEF Modes
  <2> QED
    BY <1>3, <2>1, <2>2, <2>3, <2>4, <2>5, <2>6, <2>7, <2>8, <2>9, <2>10 DEF Internal
<1>4. ASSUME NEW t \in Threads, Resize(t)
      PROVE  SInv'
  BY <1>4, ResizeKeepsSInv
<1>5. ASSUME NEW t \in Threads, Close(t)
      PROVE  SInv'
  BY <1>5, CloseKeepsSInv
<1> QED
  BY <1>1, <1>2, <1>3, <1>4, <1>5 DEF Next

-----------------------------------------------------------------------------
\* Whatever the threads share and however their steps interleave, but for the three
\* interleavings left out, the table, its locks and the directory agree.
THEOREM SharedInvariant == Shareable => (Spec /\ []Undisturbed => []SInv)
<1> SUFFICES ASSUME Shareable PROVE Spec /\ []Undisturbed => []SInv
  OBVIOUS
<1>1. Init => SInv
  BY SharedInit
<1>2. SInv /\ [Next]_vars /\ Undisturbed /\ Undisturbed' => SInv'
  BY StepKeepsSInv
<1> QED
  BY <1>1, <1>2, PTL DEF Spec

\* A file is open to one writer or to any number of readers: the lock of its slot,
\* asked for after the table's mutex is let go, keeps them apart (reopenEntry).
THEOREM SharedOneWriter == Shareable => (Spec /\ []Undisturbed => []OneWriter)
<1> SUFFICES ASSUME Shareable PROVE Spec /\ []Undisturbed => []OneWriter
  OBVIOUS
<1>1. SInv => OneWriter
  BY SInvImplies
<1> QED
  BY <1>1, SharedInvariant, PTL

\* The fields of the table, the locks and the threads keep their ranges; so no number of
\* readers overflows the count of a slot (reopenEntry).
THEOREM SharedTypes == Shareable => (Spec /\ []Undisturbed => []TypeOK)
<1> SUFFICES ASSUME Shareable PROVE Spec /\ []Undisturbed => []TypeOK
  OBVIOUS
<1>1. SInv => TypeOK
  BY SInvImplies
<1> QED
  BY <1>1, SharedInvariant, PTL

\* The slot of an open file serves that file, in that mode, though a reader may come
\* to it, or be overtaken at its lock, while others open and close the same file
\* (reopenEntry, closeEntry).
THEOREM SharedHandles == Shareable => (Spec /\ []Undisturbed => []HandleIsItsFile)
<1> SUFFICES ASSUME Shareable PROVE Spec /\ []Undisturbed => []HandleIsItsFile
  OBVIOUS
<1>1. SInv => HandleIsItsFile
  BY SInvImplies
<1> QED
  BY <1>1, SharedInvariant, PTL

\* The directory entry that a slot has, filled in by the first reader and used by all,
\* stays that file's (reopenEntry, closeEntry).
THEOREM SharedEntries == Shareable => (Spec /\ []Undisturbed => []EntryIsItsFile)
<1> SUFFICES ASSUME Shareable PROVE Spec /\ []Undisturbed => []EntryIsItsFile
  OBVIOUS
<1>1. SInv => EntryIsItsFile
  BY SInvImplies
<1> QED
  BY <1>1, SharedInvariant, PTL

\* A lock counts just the readers that hold it, or is the one writer's: each close
\* gives back what its open took, whichever reader filled the slot (closeEntry).
THEOREM SharedLocks == Shareable => (Spec /\ []Undisturbed => []LocksMatchHolders)
<1> SUFFICES ASSUME Shareable PROVE Spec /\ []Undisturbed => []LocksMatchHolders
  OBVIOUS
<1>1. SInv => LocksMatchHolders
  BY SInvImplies
<1> QED
  BY <1>1, SharedInvariant, PTL

\* Readers that share a slot are counted once at the gate: the first one's open counts
\* it and the last one's close counts it off (reopenEntry, closeEntry).
THEOREM SharedCounts == Shareable => (Spec /\ []Undisturbed => []FilesOpenCounts)
<1> SUFFICES ASSUME Shareable PROVE Spec /\ []Undisturbed => []FilesOpenCounts
  OBVIOUS
<1>1. SInv => FilesOpenCounts
  BY SInvImplies
<1> QED
  BY <1>1, SharedInvariant, PTL

\* However many readers share a file, all see the size the last writer's close stored:
\* nobody resizes it under them (reopenEntry, closeEntry).
THEOREM SharedSizes == Shareable => (Spec /\ []Undisturbed => []ReaderSeesStoredSize)
<1> SUFFICES ASSUME Shareable PROVE Spec /\ []Undisturbed => []ReaderSeesStoredSize
  OBVIOUS
<1>1. SInv => ReaderSeesStoredSize
  BY SInvImplies
<1> QED
  BY <1>1, SharedInvariant, PTL

\* No name is written to a second entry of the directory, though the look-up and the
\* creation are two steps (openFile, createEntry).
THEOREM SharedNames == Shareable => (Spec /\ []Undisturbed => []NamesUnique)
<1> SUFFICES ASSUME Shareable PROVE Spec /\ []Undisturbed => []NamesUnique
  OBVIOUS
<1>1. SInv => NamesUnique
  BY SInvImplies
<1> QED
  BY <1>1, SharedInvariant, PTL


\* Threads with files of their own never meet in the three interleavings left out, so
\* what is proved of sharing holds of them too (openFile, reopenEntry).
THEOREM PrivateUndisturbed == EachItsOwn => (Spec => []Undisturbed)
<1> SUFFICES ASSUME EachItsOwn PROVE Spec => []Undisturbed
  OBVIOUS
<1>1. PInv => Undisturbed
  <2> SUFFICES ASSUME PInv PROVE Undisturbed
    OBVIOUS
  <2>1. \A t, u \in Threads : InCall(t) /\ InCall(u) /\ th[t].path = th[u].path => t = u
    BY DEF PInv, KnowsItsFile, EachItsOwn, Modes, Operations
  <2>2. \A t \in Threads : Creates(t) \/ Takes(t) \/ Finds(t) \/ Waits(t) => InCall(t)
    BY PlacesOf DEF Creates, InCall
  <2>3. \A t \in Threads : ~Finds(t)
    BY DEF PInv, TakenSlots, TookSlot, InCall, Finds, Waits
  <2> QED
    BY <2>1, <2>2, <2>3 DEF Undisturbed, CreatedOnce, TakenOnce, WaitedSlotsKept
<1> QED
  BY <1>1, PrivateInvariant, PTL

=============================================================================

------------------------ MODULE GlobOpenFileTableProofs ------------------------
(***************************************************************************)
(* Proofs about GlobOpenFileTable: threads that keep to files of their own *)
(* do not disturb one another, however many there are and however their    *)
(* steps interleave, as long as the table does not grow, no file is        *)
(* deleted, and entry 0 of the directory is nobody's.  What breaks without *)
(* one of these conditions is shown by TLC.                                *)
(***************************************************************************)
EXTENDS GlobOpenFileTable, FiniteSetTheorems, WellFoundedInduction, TLAPS

\* The conditions.
EachItsOwn ==
    /\ \A t, u \in Threads, p \in Paths, op1, op2 \in Operations :
          <<t, p, op1>> \in Uses /\ <<u, p, op2>> \in Uses => t = u
    /\ \A t \in Threads, p \in Paths : <<t, p, "delete">> \notin Uses
    /\ 0 \in DOMAIN InitDir
    /\ \A t \in Threads, op \in Operations : <<t, InitDir[0], op>> \notin Uses
    /\ \A e, f \in DOMAIN InitDir : InitDir[e] = InitDir[f] => e = f
    /\ MAX_TABLE < START_SIZE + INCREMENT

\* The types, with the table as it was made.
TableSlots == 0..START_SIZE - 1
DirRec  == [name : Paths \cup {NoFile}, size : 0..MAX_SIZE]
SlotRec == [free : BOOLEAN, name : Paths \cup {NoFile}, pcb : BOOLEAN, CNT : 0..UINT_MAX,
            entryNum : EntryNums, size : 0..MAX_SIZE, mode : Modes, sync : TableSlots]
LockRec == [excl : BOOLEAN, shared : Nat]
ThRec   == [at : Places, path : Paths \cup {NoFile}, op : Operations,
            ent : EntryNums \cup {NONE}, how : {"new", "taken", "found"},
            en : TableSlots, lk : TableSlots, opens : 0..MAX_OPENS]

Types ==
    /\ dir \in [EntryNums -> DirRec] /\ table \in [TableSlots -> SlotRec]
    /\ locks \in [TableSlots -> LockRec] /\ th \in [Threads -> ThRec]
    /\ filesOpen \in Nat
    /\ \A i \in TableSlots : table[i].sync = i

InCall(t)   == th[t].at \in {"looked", "slot", "waits", "locked", "discards", "rewrites",
                             "open", "stranded"}
TookSlot(t) == InCall(t) /\ th[t].at # "looked"
Waits(t)    == th[t].at \in {"slot", "waits", "locked"}

\* What a thread inside a call knows of its file is so: the look-up before the
\* table's mutex is taken is not overtaken.
KnowsItsFile ==
    \A t \in Threads : InCall(t) =>
        /\ th[t].path \in Paths /\ th[t].op \in Modes
        /\ <<t, th[t].path, th[t].op>> \in Uses
        /\ IF th[t].at = "looked" /\ th[t].ent = NONE
           THEN th[t].op = "w" /\ \A e \in EntryNums : dir[e].name # th[t].path
           ELSE /\ th[t].ent \in EntryNums \ {0}
                /\ dir[th[t].ent].name = th[t].path

\* A slot in use is one thread's: others do not find it before it is filled, and
\* then it is the thread's file.
FreeSlots == \A i \in TableSlots : table[i].free => ~table[i].pcb
UsedSlots == \A i \in TableSlots : ~table[i].free => \E t \in Threads : TookSlot(t) /\ th[t].en = i
OwnSlots  == \A t, u \in Threads : TookSlot(t) /\ TookSlot(u) /\ th[t].en = th[u].en => t = u
TakenSlots ==
    \A t \in Threads : TookSlot(t) =>
        /\ ~table[th[t].en].free /\ th[t].how # "found"
        /\ th[t].at # "slot" => th[t].lk = th[t].en
        /\ Waits(t) => ~table[th[t].en].pcb /\ (th[t].how = "new" => th[t].op = "w")
        /\ HasSlot(t) => /\ table[th[t].en].pcb /\ table[th[t].en].CNT = 1
                         /\ table[th[t].en].name = th[t].path
                         /\ table[th[t].en].mode = th[t].op
                         /\ table[th[t].en].entryNum = th[t].ent

\* A lock is as its one holder left it.
HeldLocks == \A t \in Threads : HoldsLock(t) => locks[th[t].lk] = Acquired(NewLock, th[t].op)
IdleLocks ==
    \A l \in TableSlots : (\A t \in Threads : HoldsLock(t) => th[t].lk # l) => locks[l] = NewLock

\* The directory keeps what it had at first.
FirstEntryStays == dir[0].name = InitDir[0]

PInv ==
    /\ Types /\ KnowsItsFile /\ NamesUnique /\ FirstEntryStays
    /\ FreeSlots /\ UsedSlots /\ OwnSlots /\ TakenSlots
    /\ HeldLocks /\ IdleLocks
    /\ FilesOpenCounts /\ ReaderSeesStoredSize

-----------------------------------------------------------------------------
\* What First finds.
LEMMA HasLeast ==
    ASSUME NEW S \in SUBSET Nat, S # {}
    PROVE  \E x \in S : \A y \in S : x <= y
<1> DEFINE R == OpToRel(<, Nat)
<1>1. IsWellFoundedOn(R, Nat)
  BY NatLessThanWellFounded
<1>2. \A x, y \in Nat : x < y => <<x, y>> \in R
  BY DEF OpToRel
<1> HIDE DEF R
<1>3. PICK x \in S : \A y \in S : ~ (<<y, x>> \in R)
  BY <1>1, WFMin
<1>4. \A y \in S : ~ (y < x)
  BY <1>2, <1>3
<1>5. \A y \in S : x <= y
  BY <1>4
<1> QED
  BY <1>5

LEMMA FirstIs ==
    ASSUME NEW S \in SUBSET Nat
    PROVE  S # {} => First(S) \in S /\ First(S) = Min(S)
<1> SUFFICES ASSUME S # {} PROVE First(S) \in S /\ First(S) = Min(S)
  OBVIOUS
<1>1. First(S) = Min(S)
  BY DEF First
<1>2. \E x \in S : \A y \in S : x <= y
  BY HasLeast
<1>3. Min(S) \in S
  BY <1>2 DEF Min
<1> QED
  BY <1>1, <1>3

LEMMA FirstNone ==
    ASSUME NEW S \in SUBSET Nat
    PROVE  First(S) = NONE <=> S = {}
BY FirstIs DEF First, NONE

LEMMA EntrySets == EntryNums \in SUBSET Nat /\ 0 \in EntryNums /\ NONE \notin EntryNums
BY TableAssumption DEF EntryNums, NONE

LEMMA Looked ==
    ASSUME NEW p
    PROVE  /\ CheckForName(p) = NONE => \A e \in EntryNums : dir[e].name # p
           /\ CheckForName(p) # NONE =>
                 CheckForName(p) \in EntryNums /\ dir[CheckForName(p)].name = p
<1> DEFINE S == {e \in EntryNums : dir[e].name = p}
<1>1. S \in SUBSET Nat
  BY EntrySets
<1>2. CheckForName(p) = First(S)
  BY DEF CheckForName
<1> QED
  BY <1>1, <1>2, FirstIs, FirstNone

LEMMA FreeEntryIsFree ==
    GetFreeEntry # NONE => GetFreeEntry \in EntryNums /\ dir[GetFreeEntry].name = NoFile
<1> DEFINE S == {e \in EntryNums : dir[e].name = NoFile}
<1>1. S \in SUBSET Nat
  BY EntrySets
<1>2. GetFreeEntry = First(S)
  BY DEF GetFreeEntry
<1> QED
  BY <1>1, <1>2, FirstIs, FirstNone

\* The table does not grow; a slot is taken of those that are free.
LEMMA SlotIsFree ==
    ASSUME MAX_TABLE < START_SIZE + INCREMENT, Types, NEW i \in Nat, GetFreeSlot(i)
    PROVE  /\ i \in TableSlots /\ table[i].free
           /\ table' = [table EXCEPT ![i].free = FALSE] /\ locks' = locks
<1> DEFINE F == {j \in Slots : table[j].free}
<1>1. Slots = TableSlots
  BY DEF Slots, Types
<1>2. size = START_SIZE
  BY <1>1, FS_Interval, TableAssumption DEF size, TableSlots
<1>3. F # {}
  BY <1>2, TableAssumption DEF GetFreeSlot
<1>4. F \in SUBSET Nat
  BY <1>1, TableAssumption DEF TableSlots
<1>5. \E x \in F : \A y \in F : x <= y
  BY <1>3, <1>4, HasLeast
<1>6. Min(F) \in F
  BY <1>5 DEF Min
<1>7. i = Min(F) /\ table' = [table EXCEPT ![i].free = FALSE] /\ locks' = locks
  BY <1>3 DEF GetFreeSlot
<1> QED
  BY <1>1, <1>6, <1>7

\* A thread that looks its file up in the table does not find it.
LEMMA NotFound ==
    ASSUME EachItsOwn, PInv, NEW t \in Threads, th[t].at = "looked"
    PROVE  CheckForFile(th[t].path) = NONE
<1> DEFINE S == {i \in Slots : ~table[i].free /\ table[i].pcb /\ table[i].name = th[t].path}
<1>1. Slots = TableSlots /\ S \in SUBSET Nat
  BY TableAssumption DEF PInv, Slots, Types, TableSlots
<1>2. S = {}
  <2> SUFFICES ASSUME NEW i \in S PROVE FALSE
    OBVIOUS
  <2>1. i \in TableSlots /\ ~table[i].free /\ table[i].pcb /\ table[i].name = th[t].path
    BY <1>1
  <2>2. PICK u \in Threads : TookSlot(u) /\ th[u].en = i
    BY <2>1 DEF PInv, UsedSlots
  <2>3. HasSlot(u) /\ table[i].name = th[u].path
    BY <2>1, <2>2 DEF PInv, TakenSlots, TookSlot, InCall, Waits, HasSlot
  <2>4. InCall(t) /\ InCall(u) /\ th[t].op \in Operations /\ th[u].op \in Operations
    BY <2>2 DEF InCall, TookSlot, PInv, Types, ThRec
  <2>5. t = u
    BY <2>1, <2>3, <2>4 DEF EachItsOwn, PInv, KnowsItsFile
  <2> QED
    BY <2>2, <2>5 DEF TookSlot
<1> QED
  BY <1>1, <1>2, FirstNone DEF CheckForFile

-----------------------------------------------------------------------------
\* What the first state is like, under whatever conditions.
LEMMA InitTypes ==
    ASSUME Init
    PROVE  /\ Types /\ 0 \in TableSlots /\ 0 \in EntryNums
           /\ \A e \in EntryNums :
                 dir[e].name = IF e \in DOMAIN InitDir THEN InitDir[e] ELSE NoFile
<1>1. 0 \in TableSlots /\ 0 \in EntryNums /\ NoFile \notin Paths /\ 0 \in 0..MAX_SIZE
      /\ 0 \in 0..UINT_MAX /\ 0 \in 0..MAX_OPENS
  BY TableAssumption DEF TableSlots, EntryNums
<1> DEFINE first == [e \in EntryNums |-> IF e \in DOMAIN InitDir THEN InitDir[e] ELSE NoFile]
<1>2. \A e \in EntryNums : dir[e] = Entry(first[e], 0)
  BY DEF Init
<1>3. \A e \in EntryNums : dir[e].name = first[e]
  <2> SUFFICES ASSUME NEW e \in EntryNums PROVE dir[e].name = first[e]
    OBVIOUS
  <2> DEFINE x == first[e]
  <2>1. dir[e] = Entry(x, 0)
    BY <1>2
  <2> HIDE DEF x
  <2>2. dir[e].name = x
    BY <2>1 DEF Entry
  <2> QED
    BY <2>2 DEF x
<1>4. Types
  <2>1. dir \in [EntryNums -> DirRec]
    BY <1>1, TableAssumption DEF Init, DirRec, Entry
  <2>2. table \in [TableSlots -> SlotRec]
    BY <1>1 DEF Init, TableSlots, NewSlot, SlotRec, Modes
  <2>3. locks \in [TableSlots -> LockRec]
    BY DEF Init, TableSlots, NewLock, LockRec
  <2>4. th \in [Threads -> ThRec]
    BY <1>1 DEF Init, ThRec, Places, Operations, Modes
  <2> QED
    BY <2>1, <2>2, <2>3, <2>4 DEF Init, Types, NewSlot, TableSlots
<1> QED
  BY <1>1, <1>3, <1>4

LEMMA InitPInv ==
    ASSUME EachItsOwn, Init
    PROVE  PInv
<1>1. 0 \in EntryNums /\ NoFile \notin Paths
  BY TableAssumption, InitTypes
<1> DEFINE first == [e \in EntryNums |-> IF e \in DOMAIN InitDir THEN InitDir[e] ELSE NoFile]
<1>3. \A e \in EntryNums : dir[e].name = first[e]
  BY InitTypes
<1>4. Types
  BY InitTypes
<1>5. \A t \in Threads : th[t].at = "idle"
  BY DEF Init
<1>6. \A t \in Threads : ~InCall(t) /\ ~HasSlot(t) /\ ~HoldsLock(t) /\ ~IsOpen(t)
  BY <1>5 DEF InCall, HasSlot, HoldsLock, IsOpen
<1>7. \A e, f \in EntryNums : e # f /\ first[e] = first[f] => first[e] = NoFile
  BY <1>1, TableAssumption DEF EachItsOwn
<1>8. NamesUnique
  BY <1>3, <1>7 DEF NamesUnique
<1>9. FirstEntryStays
  BY <1>1, <1>3 DEF FirstEntryStays, EachItsOwn
<1>10. FreeSlots /\ UsedSlots
  BY DEF Init, FreeSlots, UsedSlots, NewSlot, TableSlots
<1>11. IdleLocks
  BY DEF Init, IdleLocks, TableSlots
<1>12. FilesOpenCounts
  <2>1. {th[t].en : t \in {u \in Threads : HasSlot(u)}} = {}
    BY <1>6
  <2> QED
    BY <2>1, FS_EmptySet DEF FilesOpenCounts, Init
<1> QED
  BY <1>4, <1>6, <1>8, <1>9, <1>10, <1>11, <1>12
     DEF PInv, KnowsItsFile, OwnSlots, TakenSlots, TookSlot, HeldLocks, ReaderSeesStoredSize

\* The files of two threads are two, in two entries.
LEMMA OwnFiles ==
    ASSUME EachItsOwn, PInv, NEW t \in Threads, NEW u \in Threads, t # u, InCall(t), InCall(u)
    PROVE  /\ th[t].path # th[u].path
           /\ th[t].ent # NONE => th[t].ent # th[u].ent
<1>1. th[t].path # th[u].path
  BY DEF EachItsOwn, PInv, KnowsItsFile, Operations
<1> QED
  BY <1>1, EntrySets DEF PInv, KnowsItsFile

\* The slots in use, and how many.
InUse == {th[t].en : t \in {u \in Threads : HasSlot(u)}}

LEMMA InUseIsFinite == ASSUME Types PROVE IsFiniteSet(InUse) /\ InUse \subseteq TableSlots
<1>1. IsFiniteSet(TableSlots)
  BY FS_Interval, TableAssumption DEF TableSlots
<1>2. InUse \in SUBSET TableSlots
  BY DEF InUse, Types, ThRec
<1> QED
  BY <1>1, <1>2, FS_Subset

LEMMA TypesOK == ASSUME Types PROVE TypeOK
<1>1. Slots = TableSlots /\ DOMAIN locks = TableSlots
  BY DEF Types, Slots
<1>2. size = START_SIZE
  BY <1>1, FS_Interval, TableAssumption DEF size, TableSlots
<1>3. SlotsOK
  BY <1>1 DEF Types, SlotRec, SlotsOK
<1>4. th \in [Threads -> [at : Places, path : Paths \cup {NoFile}, op : Operations,
                          ent : EntryNums \cup {NONE}, how : {"new", "taken", "found"},
                          en : Slots, lk : DOMAIN locks, opens : 0..MAX_OPENS]]
  BY <1>1 DEF Types, ThRec
<1> QED
  BY <1>1, <1>2, <1>3, <1>4 DEF Types, TypeOK, DirRec, LockRec, TableSlots

\* What the properties say follows.
LEMMA PInvImplies ==
    ASSUME EachItsOwn, PInv
    PROVE  /\ TypeOK /\ HandleIsItsFile /\ EntryIsItsFile /\ LocksMatchHolders
           /\ FilesOpenCounts /\ ReaderSeesStoredSize /\ NamesUnique
<1>1. TypeOK
  BY TypesOK DEF PInv
<1>2. \A t \in Threads : IsOpen(t) => InCall(t) /\ HasSlot(t) /\ TookSlot(t)
  BY DEF IsOpen, InCall, HasSlot, TookSlot
<1>3. HandleIsItsFile
  BY <1>2 DEF HandleIsItsFile, PInv, TakenSlots
<1>4. EntryIsItsFile
  BY <1>2 DEF EntryIsItsFile, PInv, TakenSlots, KnowsItsFile, TookSlot
<1>5. LocksMatchHolders
  <2> SUFFICES ASSUME NEW l \in DOMAIN locks
               PROVE  LET H == {t \in Threads : HoldsLock(t) /\ th[t].lk = l} IN
                      /\ locks[l].excl <=> \E t \in H : th[t].op # "r"
                      /\ locks[l].shared = Cardinality({t \in H : th[t].op = "r"})
    BY DEF LocksMatchHolders
  <2> DEFINE H == {t \in Threads : HoldsLock(t) /\ th[t].lk = l}
             W == {t \in H : th[t].op = "r"}
  <2>1. l \in TableSlots
    BY DEF PInv, Types
  <2>2. CASE H = {}
    <3>1. locks[l] = NewLock
      BY <2>1, <2>2 DEF PInv, IdleLocks
    <3>2. W = {} /\ Cardinality({}) = 0
      BY <2>2, FS_EmptySet
    <3> QED
      BY <2>2, <3>1, <3>2 DEF NewLock
  <2>3. CASE H # {}
    <3>1. PICK t \in Threads : HoldsLock(t) /\ th[t].lk = l
      BY <2>3
    <3>2. \A u \in Threads : HoldsLock(u) => TookSlot(u) /\ th[u].at # "slot"
      BY DEF HoldsLock, HasSlot, TookSlot, InCall
    <3>3. H = {t}
      BY <3>1, <3>2 DEF PInv, OwnSlots, TakenSlots
    <3>4. locks[l] = Acquired(NewLock, th[t].op)
      BY <3>1 DEF PInv, HeldLocks
    <3>5. CASE th[t].op = "r"
      <4>0. W = {t}
        BY <3>3, <3>5
      <4>1. Cardinality(W) = 1
        BY <4>0, FS_Singleton
      <4>2. ~locks[l].excl /\ locks[l].shared = 1
        BY <3>4, <3>5 DEF Acquired, NewLock
      <4>3. \A u \in H : th[u].op = "r"
        BY <3>3, <3>5
      <4> HIDE DEF H, W
      <4>4. locks[l].shared = Cardinality(W)
        BY <4>1, <4>2
      <4> QED
        BY <4>2, <4>3, <4>4 DEF H, W
    <3>6. CASE th[t].op # "r"
      <4>1. W = {} /\ Cardinality({}) = 0
        BY <3>3, <3>6, FS_EmptySet
      <4> QED
        BY <3>3, <3>4, <3>6, <4>1 DEF Acquired, NewLock
    <3> QED
      BY <3>5, <3>6
  <2> QED
    BY <2>2, <2>3
<1> QED
  BY <1>1, <1>3, <1>4, <1>5 DEF PInv

-----------------------------------------------------------------------------
\* What a step keeps when it changes no slot, no lock or no size.
LEMMA SlotsSame ==
    ASSUME FreeSlots, UsedSlots, OwnSlots, table' = table,
           \A u \in Threads : (TookSlot(u)' <=> TookSlot(u)) /\ th'[u].en = th[u].en
    PROVE  FreeSlots' /\ UsedSlots' /\ OwnSlots'
<1>1. FreeSlots'
  BY DEF FreeSlots
<1>2. UsedSlots'
  BY DEF UsedSlots
<1>3. OwnSlots'
  BY DEF OwnSlots
<1> QED
  BY <1>1, <1>2, <1>3

LEMMA LocksSame ==
    ASSUME HeldLocks, IdleLocks, locks' = locks,
           \A u \in Threads : /\ HoldsLock(u)' <=> HoldsLock(u)
                              /\ HoldsLock(u) => th'[u].lk = th[u].lk /\ th'[u].op = th[u].op
    PROVE  HeldLocks' /\ IdleLocks'
<1>1. HeldLocks'
  BY DEF HeldLocks
<1>2. IdleLocks'
  BY DEF IdleLocks
<1> QED
  BY <1>1, <1>2

LEMMA SizesSame ==
    ASSUME ReaderSeesStoredSize, dir' = dir, table' = table,
           \A u \in Threads : IsOpen(u)' => /\ IsOpen(u)
                                            /\ th'[u].op = th[u].op /\ th'[u].en = th[u].en
    PROVE  ReaderSeesStoredSize'
BY DEF ReaderSeesStoredSize

LEMMA InUseSame ==
    ASSUME FilesOpenCounts, filesOpen' = filesOpen,
           \A u \in Threads : /\ HasSlot(u)' <=> HasSlot(u)
                              /\ HasSlot(u) => th'[u].en = th[u].en
    PROVE  FilesOpenCounts'
<1>1. InUse' = InUse
  BY DEF InUse
<1> QED
  BY <1>1 DEF FilesOpenCounts, InUse

LEMMA EntriesSame ==
    ASSUME KnowsItsFile, NamesUnique, FirstEntryStays,
           \A e \in EntryNums : dir'[e].name = dir[e].name,
           \A u \in Threads : InCall(u)' =>
               /\ InCall(u)
               /\ th'[u].path = th[u].path /\ th'[u].op = th[u].op /\ th'[u].ent = th[u].ent
               /\ th'[u].at = "looked" <=> th[u].at = "looked"
    PROVE  KnowsItsFile' /\ NamesUnique' /\ FirstEntryStays'
<1>1. KnowsItsFile'
  BY DEF KnowsItsFile
<1>2. NamesUnique' /\ FirstEntryStays'
  BY EntrySets DEF NamesUnique, FirstEntryStays
<1> QED
  BY <1>1, <1>2

\* A step of one thread, as the others see it.
LEMMA OthersSame ==
    ASSUME NEW t \in Threads, NEW r, th \in [Threads -> ThRec], th' = [th EXCEPT ![t] = r]
    PROVE  /\ th'[t] = r
           /\ \A u \in Threads \ {t} :
                 /\ th'[u] = th[u]
                 /\ (InCall(u)' <=> InCall(u)) /\ (TookSlot(u)' <=> TookSlot(u))
                 /\ (HasSlot(u)' <=> HasSlot(u)) /\ (HoldsLock(u)' <=> HoldsLock(u))
                 /\ (Waits(u)' <=> Waits(u)) /\ (IsOpen(u)' <=> IsOpen(u))
BY DEF InCall, TookSlot, HasSlot, HoldsLock, IsOpen, Waits

LEMMA AskKeepsPInv ==
    ASSUME EachItsOwn, PInv, NEW t \in Threads, Ask(t)
    PROVE  PInv'
<1> USE DEF PInv
<1>1. /\ th[t].at = "slot" /\ th[t].en \in TableSlots /\ th[t] \in ThRec
      /\ th' = [th EXCEPT ![t] = [th[t] EXCEPT !.at = "waits", !.lk = th[t].en]]
      /\ dir' = dir /\ table' = table /\ locks' = locks /\ filesOpen' = filesOpen
  BY DEF Ask, Types, ThRec
<1>2. Types'
  <2>1. [th[t] EXCEPT !.at = "waits", !.lk = th[t].en] \in ThRec
    BY <1>1 DEF ThRec, Places
  <2> QED
    BY <1>1, <2>1 DEF Types
<1>3. \A u \in Threads : /\ InCall(u)' <=> InCall(u)
                         /\ TookSlot(u)' <=> TookSlot(u)
                         /\ HasSlot(u)' <=> HasSlot(u)
                         /\ HoldsLock(u)' <=> HoldsLock(u)
                         /\ Waits(u)' <=> Waits(u)
                         /\ IsOpen(u)' <=> IsOpen(u)
                         /\ th'[u].at = "looked" <=> th[u].at = "looked"
                         /\ u # t => th'[u] = th[u]
                         /\ th'[u].en = th[u].en /\ th'[u].path = th[u].path
                         /\ th'[u].op = th[u].op /\ th'[u].ent = th[u].ent
                         /\ th'[u].how = th[u].how
  BY <1>1 DEF InCall, TookSlot, HasSlot, HoldsLock, IsOpen, Waits, Types, ThRec
<1>4. ~HoldsLock(t) /\ th'[t].lk = th'[t].en
  BY <1>1 DEF HoldsLock, HasSlot, Types, ThRec
<1>5. TakenSlots'
  BY <1>1, <1>3, <1>4 DEF TakenSlots, TookSlot, InCall
<1> QED
  BY <1>1, <1>2, <1>3, <1>4, <1>5, SlotsSame, LocksSame, SizesSame, InUseSame, EntriesSame

\* A lock that is taken of those nobody holds, and given back.
LEMMA AcquiredIsLock ==
    ASSUME NEW k \in LockRec, NEW op
    PROVE  Acquired(k, op) \in LockRec
<1>1. CASE op = "r"
  <2>1. k.shared + 1 \in Nat
    BY DEF LockRec
  <2>2. [k EXCEPT !.shared = k.shared + 1] \in LockRec
    BY <2>1 DEF LockRec
  <2> QED
    BY <1>1, <2>2 DEF Acquired
<1>2. CASE op # "r"
  BY <1>2 DEF Acquired, LockRec
<1> QED
  BY <1>1, <1>2

LEMMA AcquireKeepsPInv ==
    ASSUME EachItsOwn, PInv, NEW t \in Threads, Acquire(t)
    PROVE  PInv'
<1> USE DEF PInv
<1> DEFINE i == th[t].en
<1>1. /\ th[t].at = "waits" /\ i \in TableSlots /\ th[t].lk = i /\ th[t] \in ThRec
      /\ th' = [th EXCEPT ![t] = [th[t] EXCEPT !.at = "locked"]]
      /\ locks' = [locks EXCEPT ![i] = Acquired(locks[i], th[t].op)]
      /\ dir' = dir /\ table' = table /\ filesOpen' = filesOpen
  BY DEF Acquire, Step, Types, ThRec, TakenSlots, TookSlot, InCall
<1>2. \A u \in Threads : HoldsLock(u) => th[u].lk # i
  BY <1>1 DEF HoldsLock, HasSlot, OwnSlots, TakenSlots, TookSlot, InCall
<1> HIDE DEF i
<1>3. locks[i] = NewLock
  BY <1>1, <1>2 DEF IdleLocks
<1>4. Types'
  <2>1. [th[t] EXCEPT !.at = "locked"] \in ThRec
    BY <1>1 DEF ThRec, Places
  <2>2. Acquired(locks[i], th[t].op) \in LockRec
    BY <1>1, AcquiredIsLock DEF Types
  <2> QED
    BY <1>1, <2>1, <2>2 DEF Types
<1>5. \A u \in Threads : /\ InCall(u)' <=> InCall(u)
                         /\ TookSlot(u)' <=> TookSlot(u)
                         /\ HasSlot(u)' <=> HasSlot(u)
                         /\ HoldsLock(u)' <=> HoldsLock(u) \/ u = t
                         /\ Waits(u)' <=> Waits(u)
                         /\ IsOpen(u)' <=> IsOpen(u)
                         /\ th'[u].at = "looked" <=> th[u].at = "looked"
                         /\ th'[u].at = "slot" <=> th[u].at = "slot"
                         /\ th'[u].en = th[u].en /\ th'[u].path = th[u].path
                         /\ th'[u].op = th[u].op /\ th'[u].ent = th[u].ent
                         /\ th'[u].how = th[u].how /\ th'[u].lk = th[u].lk
  BY <1>1 DEF InCall, TookSlot, HasSlot, HoldsLock, IsOpen, Waits, Types, ThRec
<1>6. TakenSlots'
  BY <1>1, <1>5 DEF TakenSlots
<1>7. HeldLocks' /\ IdleLocks'
  <2>1. locks'[i] = Acquired(NewLock, th[t].op) /\ \A l \in TableSlots \ {i} : locks'[l] = locks[l]
    BY <1>1, <1>3 DEF Types
  <2>2. \A u \in Threads : HoldsLock(u) => th[u].lk \in TableSlots
    BY DEF Types, ThRec
  <2>3. HeldLocks'
    BY <1>1, <1>2, <1>5, <2>1, <2>2 DEF HeldLocks
  <2>4. IdleLocks'
    BY <1>1, <1>5, <2>1 DEF IdleLocks
  <2> QED
    BY <2>3, <2>4
<1> QED
  BY <1>1, <1>4, <1>5, <1>6, <1>7, SlotsSame, SizesSame, InUseSame, EntriesSame

LEMMA CallKeepsPInv ==
    ASSUME EachItsOwn, PInv, NEW t \in Threads, NEW p \in Paths, NEW op \in Operations,
           Call(t, p, op)
    PROVE  PInv'
<1> USE DEF PInv
<1> DEFINE e == CheckForName(p)
           a == IF e = NONE /\ op # "w" THEN "idle" ELSE "looked"
           r == [th[t] EXCEPT !.at = a, !.path = p, !.op = op, !.ent = e, !.opens = @ + 1]
<1>1. /\ <<t, p, op>> \in Uses /\ th[t].at = "idle" /\ th[t] \in ThRec /\ th[t].opens < MAX_OPENS
      /\ th' = [th EXCEPT ![t] = r]
      /\ dir' = dir /\ table' = table /\ locks' = locks /\ filesOpen' = filesOpen
  BY DEF Call, Types
<1>2. op \in Modes
  BY <1>1 DEF EachItsOwn, Operations
<1>3. /\ e = NONE => \A f \in EntryNums : dir[f].name # p
      /\ e # NONE => e \in EntryNums /\ dir[e].name = p
  BY Looked
<1>4. e # 0
  BY <1>1, <1>3 DEF NONE, FirstEntryStays, EachItsOwn
<1>5. a = "idle" \/ a = "looked"
  OBVIOUS
<1>6. a = "looked" /\ e = NONE => op = "w"
  OBVIOUS
<1> HIDE DEF e, a
<1>7. r \in ThRec
  <2>1. e \in EntryNums \cup {NONE} /\ a \in Places
    BY <1>3, <1>5 DEF Places
  <2>2. th[t].opens + 1 \in 0..MAX_OPENS
    BY <1>1, TableAssumption DEF ThRec
  <2> QED
    BY <1>1, <2>1, <2>2 DEF ThRec
<1>8. r.at = a /\ r.path = p /\ r.op = op /\ r.ent = e
  BY <1>1 DEF ThRec
<1> HIDE DEF r
<1>9. Types'
  BY <1>1, <1>7 DEF Types
<1>10. th'[t] = r /\ \A u \in Threads \ {t} :
                 /\ th'[u] = th[u]
                 /\ (InCall(u)' <=> InCall(u)) /\ (TookSlot(u)' <=> TookSlot(u))
                 /\ (HasSlot(u)' <=> HasSlot(u)) /\ (HoldsLock(u)' <=> HoldsLock(u))
                 /\ (Waits(u)' <=> Waits(u)) /\ (IsOpen(u)' <=> IsOpen(u))
  BY <1>1, OthersSame DEF Types
<1>11. /\ ~TookSlot(t) /\ ~TookSlot(t)' /\ ~HasSlot(t) /\ ~HasSlot(t)'
       /\ ~HoldsLock(t) /\ ~HoldsLock(t)' /\ ~IsOpen(t) /\ ~IsOpen(t)'
  BY <1>1, <1>5, <1>8, <1>10 DEF TookSlot, InCall, HasSlot, HoldsLock, IsOpen
<1>12. KnowsItsFile'
  <2> SUFFICES ASSUME NEW u \in Threads, InCall(u)'
               PROVE  /\ th'[u].path \in Paths /\ th'[u].op \in Modes
                      /\ <<u, th'[u].path, th'[u].op>> \in Uses
                      /\ IF th'[u].at = "looked" /\ th'[u].ent = NONE
                         THEN th'[u].op = "w" /\ \A f \in EntryNums : dir[f].name # th'[u].path
                         ELSE /\ th'[u].ent \in EntryNums \ {0}
                              /\ dir[th'[u].ent].name = th'[u].path
    BY <1>1 DEF KnowsItsFile
  <2>1. CASE u # t
    BY <1>10, <2>1 DEF KnowsItsFile
  <2>2. CASE u = t
    <3>1. a = "looked"
      BY <1>5, <1>8, <1>10, <2>2 DEF InCall
    <3> QED
      BY <1>1, <1>2, <1>3, <1>4, <1>6, <1>8, <1>10, <2>2, <3>1
  <2> QED
    BY <2>1, <2>2
<1>13. NamesUnique' /\ FirstEntryStays'
  BY <1>1 DEF NamesUnique, FirstEntryStays
<1>14. UsedSlots'
  BY <1>1, <1>10, <1>11 DEF UsedSlots
<1>15. OwnSlots'
  BY <1>10, <1>11 DEF OwnSlots
<1>16. FreeSlots'
  BY <1>1 DEF FreeSlots
<1>17. TakenSlots'
  BY <1>1, <1>10, <1>11 DEF TakenSlots
<1>18. \A u \in Threads : /\ HoldsLock(u)' <=> HoldsLock(u)
                          /\ HoldsLock(u) => th'[u].lk = th[u].lk /\ th'[u].op = th[u].op
                          /\ HasSlot(u)' <=> HasSlot(u)
                          /\ HasSlot(u) => th'[u].en = th[u].en
                          /\ IsOpen(u)' => /\ IsOpen(u)
                                           /\ th'[u].op = th[u].op /\ th'[u].en = th[u].en
  BY <1>10, <1>11
<1>19. HeldLocks' /\ IdleLocks'
  BY <1>1, <1>18, LocksSame
<1>20. FilesOpenCounts'
  BY <1>1, <1>18, InUseSame
<1>21. ReaderSeesStoredSize'
  BY <1>1, <1>18, SizesSame
<1> QED
  BY <1>9, <1>12, <1>13, <1>14, <1>15, <1>16, <1>17, <1>19, <1>20, <1>21

LEMMA SlotKeepsTypes ==
    ASSUME Types, NEW i \in TableSlots, table' = [table EXCEPT ![i].free = FALSE]
    PROVE  table' \in [TableSlots -> SlotRec] /\ \A j \in TableSlots : table'[j].sync = j
<1> DEFINE s == table[i]
           new == [s EXCEPT !.free = FALSE]
<1>1. s \in SlotRec /\ s.sync = i /\ table' = [table EXCEPT ![i] = new]
  BY DEF Types
<1> HIDE DEF s
<1>2. new \in SlotRec /\ new.sync = i
  BY <1>1 DEF SlotRec
<1> HIDE DEF new
<1> QED
  BY <1>1, <1>2 DEF Types

\* A free slot is taken.
LEMMA TakenKeepsSlots ==
    ASSUME EachItsOwn, PInv, NEW t \in Threads, th[t].at = "looked",
           NEW i \in TableSlots, table[i].free, table' = [table EXCEPT ![i].free = FALSE],
           NEW r \in ThRec, th' = [th EXCEPT ![t] = r],
           r.at = "slot", r.en = i, r.how # "found", r.how = "new" => r.op = "w"
    PROVE  FreeSlots' /\ UsedSlots' /\ OwnSlots' /\ TakenSlots'
<1> USE DEF PInv
<1>1. th'[t] = r /\ \A u \in Threads \ {t} :
          th'[u] = th[u] /\ (TookSlot(u)' <=> TookSlot(u)) /\ (HasSlot(u)' <=> HasSlot(u))
          /\ (Waits(u)' <=> Waits(u))
  BY OthersSame DEF Types
<1>2. TookSlot(t)' /\ ~TookSlot(t) /\ ~HasSlot(t)'
  BY <1>1 DEF TookSlot, InCall, HasSlot
<1>3. \A u \in Threads : TookSlot(u) => th[u].en # i /\ th[u].en \in TableSlots
  BY DEF TakenSlots, Types, ThRec
<1>4. \A j \in TableSlots \ {i} : table'[j] = table[j]
  BY DEF Types
<1>5. ~table'[i].free /\ table'[i].pcb = table[i].pcb
  BY DEF Types, SlotRec
<1>6. FreeSlots'
  BY <1>4, <1>5 DEF FreeSlots
<1>7. UsedSlots'
  <2> SUFFICES ASSUME NEW j \in TableSlots, ~table'[j].free
               PROVE  \E u \in Threads : TookSlot(u)' /\ th'[u].en = j
    BY DEF UsedSlots
  <2>1. CASE j = i
    BY <1>1, <1>2, <2>1
  <2>2. CASE j # i
    <3>1. PICK u \in Threads : TookSlot(u) /\ th[u].en = j
      BY <1>4, <2>2 DEF UsedSlots
    <3> QED
      BY <1>1, <1>2, <3>1
  <2> QED
    BY <2>1, <2>2
<1>8. OwnSlots'
  BY <1>1, <1>2, <1>3 DEF OwnSlots
<1>9. TakenSlots'
  <2>1. \A u \in Threads \ {t} : TookSlot(u) => table'[th[u].en] = table[th[u].en]
    BY <1>3, <1>4
  <2>2. ~table'[i].pcb
    BY <1>5 DEF FreeSlots
  <2> QED
    BY <1>1, <1>2, <1>5, <2>1, <2>2 DEF TakenSlots
<1> QED
  BY <1>6, <1>7, <1>8, <1>9

LEMMA CreateKeepsPInv ==
    ASSUME EachItsOwn, PInv, NEW t \in Threads, Create(t)
    PROVE  PInv'
<1> USE DEF PInv
<1>1. /\ th[t].at = "looked" /\ th[t].ent = NONE /\ th[t] \in ThRec /\ filesOpen' = filesOpen
      /\ th[t].op = "w" /\ th[t].path \in Paths /\ \A e \in EntryNums : dir[e].name # th[t].path
  BY DEF Create, Types, KnowsItsFile, InCall
<1>2. CASE /\ th' = [th EXCEPT ![t].at = "broken"] /\ dir' = dir /\ table' = table /\ locks' = locks
  <2> DEFINE r == [th[t] EXCEPT !.at = "broken"]
  <2>1. r \in ThRec /\ th' = [th EXCEPT ![t] = r] /\ r.at = "broken"
    BY <1>1, <1>2 DEF ThRec, Places, Types
  <2> HIDE DEF r
  <2>2. Types'
    BY <1>1, <1>2, <2>1 DEF Types
  <2>3. th'[t] = r /\ \A u \in Threads \ {t} :
                 /\ th'[u] = th[u]
                 /\ (InCall(u)' <=> InCall(u)) /\ (TookSlot(u)' <=> TookSlot(u))
                 /\ (HasSlot(u)' <=> HasSlot(u)) /\ (HoldsLock(u)' <=> HoldsLock(u))
                 /\ (Waits(u)' <=> Waits(u)) /\ (IsOpen(u)' <=> IsOpen(u))
    BY <2>1, OthersSame DEF Types
  <2>4. /\ ~InCall(t)' /\ ~TookSlot(t) /\ ~TookSlot(t)' /\ ~HasSlot(t) /\ ~HasSlot(t)'
        /\ ~HoldsLock(t) /\ ~HoldsLock(t)' /\ ~IsOpen(t) /\ ~IsOpen(t)'
    BY <1>1, <2>1, <2>3 DEF TookSlot, InCall, HasSlot, HoldsLock, IsOpen
  <2>5. KnowsItsFile' /\ NamesUnique' /\ FirstEntryStays'
    <3>1. \A u \in Threads : InCall(u)' =>
               /\ InCall(u)
               /\ th'[u].path = th[u].path /\ th'[u].op = th[u].op /\ th'[u].ent = th[u].ent
               /\ th'[u].at = "looked" <=> th[u].at = "looked"
      BY <2>3, <2>4
    <3> QED
      BY <1>2, <3>1, EntriesSame
  <2>6. FreeSlots' /\ UsedSlots' /\ OwnSlots'
    <3>1. FreeSlots'
      BY <1>2 DEF FreeSlots
    <3>2. UsedSlots'
      BY <1>2, <2>3, <2>4 DEF UsedSlots
    <3>3. OwnSlots'
      BY <2>3, <2>4 DEF OwnSlots
    <3> QED
      BY <3>1, <3>2, <3>3
  <2>7. TakenSlots'
    BY <1>2, <2>3, <2>4 DEF TakenSlots
  <2>8. \A u \in Threads : /\ HoldsLock(u)' <=> HoldsLock(u)
                           /\ HoldsLock(u) => th'[u].lk = th[u].lk /\ th'[u].op = th[u].op
                           /\ HasSlot(u)' <=> HasSlot(u)
                           /\ HasSlot(u) => th'[u].en = th[u].en
                           /\ IsOpen(u)' => /\ IsOpen(u)
                                            /\ th'[u].op = th[u].op /\ th'[u].en = th[u].en
    BY <2>3, <2>4
  <2>9. HeldLocks' /\ IdleLocks' /\ FilesOpenCounts' /\ ReaderSeesStoredSize'
    BY <1>1, <1>2, <2>8, LocksSame, InUseSame, SizesSame
  <2> QED
    BY <2>2, <2>5, <2>6, <2>7, <2>9
<1>3. CASE /\ GetFreeEntry # NONE /\ dir' = [dir EXCEPT ![GetFreeEntry] = Entry(th[t].path, 0)]
           /\ \E i \in 0..MAX_TABLE - 1 :
                /\ GetFreeSlot(i)
                /\ th' = [th EXCEPT ![t].at = "slot", ![t].ent = GetFreeEntry,
                                    ![t].how = "new", ![t].en = i]
  <2> DEFINE f == GetFreeEntry
             x == Entry(th[t].path, 0)
  <2>1. PICK i \in 0..MAX_TABLE - 1 :
                /\ GetFreeSlot(i)
                /\ th' = [th EXCEPT ![t].at = "slot", ![t].ent = f, ![t].how = "new", ![t].en = i]
    BY <1>3
  <2>2. i \in Nat
    BY TableAssumption
  <2>3. f \in EntryNums /\ dir[f].name = NoFile
    BY <1>3, FreeEntryIsFree
  <2>4. /\ i \in TableSlots /\ table[i].free
        /\ table' = [table EXCEPT ![i].free = FALSE] /\ locks' = locks
    BY <2>1, <2>2, SlotIsFree DEF EachItsOwn
  <2>5. dir' = [dir EXCEPT ![f] = x]
    BY <1>3
  <2>6. x.name = th[t].path /\ x.size = 0 /\ x \in DirRec
    BY <1>1, TableAssumption DEF Entry, DirRec
  <2>7. f # 0
    BY <2>3, TableAssumption DEF FirstEntryStays, EachItsOwn
  <2> DEFINE r == [th[t] EXCEPT !.at = "slot", !.ent = f, !.how = "new", !.en = i]
  <2> HIDE DEF f, x
  <2>8. /\ r \in ThRec /\ th' = [th EXCEPT ![t] = r]
        /\ r.at = "slot" /\ r.ent = f /\ r.how = "new" /\ r.en = i
        /\ r.path = th[t].path /\ r.op = th[t].op
    BY <1>1, <2>1, <2>3, <2>4 DEF ThRec, Places, Types
  <2> HIDE DEF r
  <2>9. Types'
    <3>1. table' \in [TableSlots -> SlotRec] /\ \A j \in TableSlots : table'[j].sync = j
      BY <2>4, SlotKeepsTypes
    <3> QED
      BY <1>1, <2>4, <2>5, <2>6, <2>8, <3>1 DEF Types
  <2>10. th'[t] = r /\ \A u \in Threads \ {t} :
                 /\ th'[u] = th[u]
                 /\ (InCall(u)' <=> InCall(u)) /\ (TookSlot(u)' <=> TookSlot(u))
                 /\ (HasSlot(u)' <=> HasSlot(u)) /\ (HoldsLock(u)' <=> HoldsLock(u))
                 /\ (Waits(u)' <=> Waits(u)) /\ (IsOpen(u)' <=> IsOpen(u))
    BY <2>8, OthersSame DEF Types
  <2>11. FreeSlots' /\ UsedSlots' /\ OwnSlots' /\ TakenSlots'
    BY <1>1, <2>4, <2>8, TakenKeepsSlots
  <2>12. /\ InCall(t) /\ ~HasSlot(t) /\ ~HasSlot(t)'
         /\ ~HoldsLock(t) /\ ~HoldsLock(t)' /\ ~IsOpen(t) /\ ~IsOpen(t)'
    BY <1>1, <2>8, <2>10 DEF InCall, HasSlot, HoldsLock, IsOpen
  <2>13. dir'[f] = x /\ \A e \in EntryNums \ {f} : dir'[e] = dir[e]
    BY <2>3, <2>5 DEF Types
  <2>14. KnowsItsFile'
    <3> SUFFICES ASSUME NEW u \in Threads, InCall(u)'
                 PROVE  /\ th'[u].path \in Paths /\ th'[u].op \in Modes
                        /\ <<u, th'[u].path, th'[u].op>> \in Uses
                        /\ IF th'[u].at = "looked" /\ th'[u].ent = NONE
                           THEN th'[u].op = "w" /\ \A e \in EntryNums : dir'[e].name # th'[u].path
                           ELSE /\ th'[u].ent \in EntryNums \ {0}
                                /\ dir'[th'[u].ent].name = th'[u].path
      BY DEF KnowsItsFile
    <3>1. CASE u # t
      <4>1. InCall(u) /\ th'[u] = th[u] /\ th[u].path # th[t].path /\ th[u].path # NoFile
        BY <2>10, <2>12, <3>1, OwnFiles, TableAssumption DEF KnowsItsFile
      <4>2. \A e \in EntryNums : dir'[e].name = th[u].path <=> dir[e].name = th[u].path
        BY <2>3, <2>6, <2>13, <4>1
      <4> QED
        BY <4>1, <4>2 DEF KnowsItsFile
    <3>2. CASE u = t
      <4>1. th[t].op \in Modes /\ <<t, th[t].path, th[t].op>> \in Uses
        BY <2>12 DEF KnowsItsFile
      <4> QED
        BY <1>1, <2>3, <2>6, <2>7, <2>8, <2>10, <2>13, <3>2, <4>1
    <3> QED
      BY <3>1, <3>2
  <2>15. NamesUnique'
    BY <1>1, <2>6, <2>13 DEF NamesUnique
  <2>16. FirstEntryStays'
    BY <2>7, <2>13, EntrySets DEF FirstEntryStays
  <2>17. \A u \in Threads : /\ HoldsLock(u)' <=> HoldsLock(u)
                            /\ HoldsLock(u) => th'[u].lk = th[u].lk /\ th'[u].op = th[u].op
                            /\ HasSlot(u)' <=> HasSlot(u)
                            /\ HasSlot(u) => th'[u].en = th[u].en
    BY <2>10, <2>12
  <2>18. HeldLocks' /\ IdleLocks' /\ FilesOpenCounts'
    BY <1>1, <2>4, <2>17, LocksSame, InUseSame
  <2>19. ReaderSeesStoredSize'
    <3> SUFFICES ASSUME NEW u \in Threads, IsOpen(u)', th'[u].op = "r"
                 PROVE  table'[th'[u].en].size = dir'[table'[th'[u].en].entryNum].size
      BY DEF ReaderSeesStoredSize
    <3>1. u # t /\ IsOpen(u) /\ th'[u] = th[u] /\ InCall(u) /\ HasSlot(u) /\ TookSlot(u)
      BY <2>10, <2>12 DEF IsOpen, InCall, HasSlot, TookSlot
    <3>2. th[u].en # i /\ th[u].en \in TableSlots
      BY <2>4, <3>1 DEF TakenSlots, Types, ThRec
    <3>3. table'[th[u].en] = table[th[u].en]
      BY <2>4, <3>2 DEF Types
    <3>4. table[th[u].en].entryNum = th[u].ent
      BY <3>1 DEF TakenSlots
    <3>5. th[u].ent \in EntryNums /\ th[u].ent # f
      BY <2>3, <3>1, TableAssumption DEF KnowsItsFile, TookSlot
    <3> QED
      BY <2>13, <3>1, <3>3, <3>4, <3>5 DEF ReaderSeesStoredSize
  <2> QED
    BY <2>9, <2>11, <2>14, <2>15, <2>16, <2>18, <2>19
<1> QED
  BY <1>2, <1>3 DEF Create, Step

LEMMA FindKeepsPInv ==
    ASSUME EachItsOwn, PInv, NEW t \in Threads, Find(t)
    PROVE  PInv'
<1> USE DEF PInv
<1>1. /\ th[t].at = "looked" /\ th[t].ent # NONE /\ th[t] \in ThRec /\ filesOpen' = filesOpen
      /\ InCall(t) /\ th[t].op \in Modes
  BY DEF Find, Types, KnowsItsFile, InCall
<1>2. dir' = dir
  BY <1>1 DEF Find, Modes
<1>3. PICK i \in 0..MAX_TABLE - 1 :
         GetFreeSlot(i) /\ th' = [th EXCEPT ![t].at = "slot", ![t].how = "taken", ![t].en = i]
  BY <1>1, NotFound DEF Find
<1>4. i \in Nat
  BY TableAssumption
<1>5. /\ i \in TableSlots /\ table[i].free
      /\ table' = [table EXCEPT ![i].free = FALSE] /\ locks' = locks
  BY <1>3, <1>4, SlotIsFree DEF EachItsOwn
<1> DEFINE r == [th[t] EXCEPT !.at = "slot", !.how = "taken", !.en = i]
<1>6. /\ r \in ThRec /\ th' = [th EXCEPT ![t] = r]
      /\ r.at = "slot" /\ r.how = "taken" /\ r.en = i
      /\ r.path = th[t].path /\ r.op = th[t].op /\ r.ent = th[t].ent
  BY <1>1, <1>3, <1>5 DEF ThRec, Places, Types
<1> HIDE DEF r
<1>7. Types'
  <2>1. table' \in [TableSlots -> SlotRec] /\ \A j \in TableSlots : table'[j].sync = j
    BY <1>5, SlotKeepsTypes
  <2> QED
    BY <1>1, <1>2, <1>5, <1>6, <2>1 DEF Types
<1>8. th'[t] = r /\ \A u \in Threads \ {t} :
                 /\ th'[u] = th[u]
                 /\ (InCall(u)' <=> InCall(u)) /\ (TookSlot(u)' <=> TookSlot(u))
                 /\ (HasSlot(u)' <=> HasSlot(u)) /\ (HoldsLock(u)' <=> HoldsLock(u))
                 /\ (Waits(u)' <=> Waits(u)) /\ (IsOpen(u)' <=> IsOpen(u))
  BY <1>6, OthersSame DEF Types
<1>9. FreeSlots' /\ UsedSlots' /\ OwnSlots' /\ TakenSlots'
  BY <1>1, <1>5, <1>6, TakenKeepsSlots
<1>10. /\ ~HasSlot(t) /\ ~HasSlot(t)' /\ ~HoldsLock(t) /\ ~HoldsLock(t)'
       /\ ~IsOpen(t) /\ ~IsOpen(t)'
  BY <1>1, <1>6, <1>8 DEF HasSlot, HoldsLock, IsOpen
<1>11. KnowsItsFile'
  <2> SUFFICES ASSUME NEW u \in Threads, InCall(u)'
               PROVE  /\ th'[u].path \in Paths /\ th'[u].op \in Modes
                      /\ <<u, th'[u].path, th'[u].op>> \in Uses
                      /\ IF th'[u].at = "looked" /\ th'[u].ent = NONE
                         THEN th'[u].op = "w" /\ \A e \in EntryNums : dir[e].name # th'[u].path
                         ELSE /\ th'[u].ent \in EntryNums \ {0}
                              /\ dir[th'[u].ent].name = th'[u].path
    BY <1>2 DEF KnowsItsFile
  <2> QED
    BY <1>1, <1>6, <1>8 DEF KnowsItsFile
<1>12. NamesUnique' /\ FirstEntryStays'
  BY <1>2 DEF NamesUnique, FirstEntryStays
<1>13. \A u \in Threads : /\ HoldsLock(u)' <=> HoldsLock(u)
                          /\ HoldsLock(u) => th'[u].lk = th[u].lk /\ th'[u].op = th[u].op
                          /\ HasSlot(u)' <=> HasSlot(u)
                          /\ HasSlot(u) => th'[u].en = th[u].en
  BY <1>8, <1>10
<1>14. HeldLocks' /\ IdleLocks' /\ FilesOpenCounts'
  BY <1>1, <1>5, <1>13, LocksSame, InUseSame
<1>15. ReaderSeesStoredSize'
  <2>1. \A u \in Threads : IsOpen(u)' => /\ u # t /\ IsOpen(u) /\ th'[u] = th[u]
                                         /\ th[u].en # i /\ th[u].en \in TableSlots
    BY <1>5, <1>8, <1>10 DEF IsOpen, TakenSlots, TookSlot, InCall, Types, ThRec
  <2>2. \A j \in TableSlots \ {i} : table'[j] = table[j]
    BY <1>5 DEF Types
  <2> QED
    BY <1>2, <2>1, <2>2 DEF ReaderSeesStoredSize
<1> QED
  BY <1>7, <1>9, <1>11, <1>12, <1>14, <1>15

\* A step that writes the slot of its own thread.
LEMMA OwnSlotWritten ==
    ASSUME EachItsOwn, PInv, NEW t \in Threads, TookSlot(t),
           NEW new, table' = [table EXCEPT ![th[t].en] = new],
           NEW r, th' = [th EXCEPT ![t] = r]
    PROVE  /\ table'[th[t].en] = new /\ \A j \in TableSlots \ {th[t].en} : table'[j] = table[j]
           /\ \A u \in Threads \ {t} : TookSlot(u) => /\ th[u].en \in TableSlots \ {th[t].en}
                                                      /\ table'[th[u].en] = table[th[u].en]
BY DEF PInv, Types, ThRec, OwnSlots

LEMMA FileKeepsSlots ==
    ASSUME EachItsOwn, PInv, NEW t \in Threads, TookSlot(t), th[t].at # "slot",
           NEW new, table' = [table EXCEPT ![th[t].en] = new],
           NEW r, th' = [th EXCEPT ![t] = r],
           r.at \in {"discards", "rewrites", "open", "stranded"},
           r.en = th[t].en, r.lk = th[t].lk, r.how = th[t].how,
           ~new.free, new.pcb, new.CNT = 1,
           new.name = r.path, new.mode = r.op, new.entryNum = r.ent
    PROVE  FreeSlots' /\ UsedSlots' /\ OwnSlots' /\ TakenSlots'
<1> USE DEF PInv
<1> DEFINE i == th[t].en
<1>1. th'[t] = r /\ \A u \in Threads \ {t} :
          th'[u] = th[u] /\ (TookSlot(u)' <=> TookSlot(u)) /\ (HasSlot(u)' <=> HasSlot(u))
          /\ (Waits(u)' <=> Waits(u))
  BY OthersSame DEF Types
<1>2. TookSlot(t)' /\ ~Waits(t)'
  BY <1>1 DEF TookSlot, InCall, Waits
<1>3. /\ table'[i] = new /\ \A j \in TableSlots \ {i} : table'[j] = table[j]
      /\ \A u \in Threads \ {t} : TookSlot(u) => /\ th[u].en \in TableSlots \ {i}
                                                 /\ table'[th[u].en] = table[th[u].en]
  BY OwnSlotWritten
<1>4. th[t].lk = i /\ th[t].how # "found"
  BY DEF TakenSlots
<1> HIDE DEF i
<1>5. r.en = i /\ r.lk = i /\ r.how # "found"
  BY <1>4 DEF i
<1>6. FreeSlots'
  BY <1>3 DEF FreeSlots
<1>7. UsedSlots'
  <2> SUFFICES ASSUME NEW j \in TableSlots, ~table'[j].free
               PROVE  \E u \in Threads : TookSlot(u)' /\ th'[u].en = j
    BY DEF UsedSlots
  <2>1. CASE j = i
    BY <1>1, <1>2, <1>5, <2>1
  <2>2. CASE j # i
    <3>1. PICK u \in Threads : TookSlot(u) /\ th[u].en = j
      BY <1>3, <2>2 DEF UsedSlots
    <3>2. u # t
      BY <2>2, <3>1 DEF i
    <3> QED
      BY <1>1, <3>1, <3>2
  <2> QED
    BY <2>1, <2>2
<1>8. OwnSlots'
  BY <1>1, <1>2, <1>3, <1>5 DEF OwnSlots
<1>9. TakenSlots'
  BY <1>1, <1>2, <1>3, <1>5 DEF TakenSlots
<1> QED
  BY <1>6, <1>7, <1>8, <1>9

LEMMA ReadersKept ==
    ASSUME EachItsOwn, PInv, NEW t \in Threads, TookSlot(t),
           NEW new, table' = [table EXCEPT ![th[t].en] = new],
           NEW r, th' = [th EXCEPT ![t] = r], r.at = "open" => r.en = th[t].en,
           \A e \in EntryNums \ {th[t].ent} : dir'[e] = dir[e],
           r.at = "open" /\ r.op = "r" => new.size = dir'[new.entryNum].size
    PROVE  ReaderSeesStoredSize'
<1> USE DEF PInv
<1>1. th'[t] = r /\ \A u \in Threads \ {t} : th'[u] = th[u] /\ (IsOpen(u)' <=> IsOpen(u))
  BY OthersSame DEF Types
<1>2. /\ table'[th[t].en] = new
      /\ \A u \in Threads \ {t} : TookSlot(u) => table'[th[u].en] = table[th[u].en]
  BY OwnSlotWritten
<1> SUFFICES ASSUME NEW u \in Threads, IsOpen(u)', th'[u].op = "r"
             PROVE  table'[th'[u].en].size = dir'[table'[th'[u].en].entryNum].size
  BY DEF ReaderSeesStoredSize
<1>3. CASE u = t
  BY <1>1, <1>2, <1>3 DEF IsOpen
<1>4. CASE u # t
  <2>1. IsOpen(u) /\ TookSlot(u) /\ HasSlot(u) /\ InCall(u) /\ InCall(t) /\ th'[u] = th[u]
    BY <1>1, <1>4 DEF IsOpen, TookSlot, InCall, HasSlot
  <2>2. table'[th[u].en] = table[th[u].en] /\ table[th[u].en].entryNum = th[u].ent
    BY <1>2, <1>4, <2>1 DEF TakenSlots
  <2>3. th[u].ent \in EntryNums /\ th[u].ent # NONE
    BY <2>1, EntrySets DEF KnowsItsFile, TookSlot
  <2>4. th[u].ent # th[t].ent
    BY <1>4, <2>1, <2>3, OwnFiles
  <2> QED
    BY <2>1, <2>2, <2>3, <2>4 DEF ReaderSeesStoredSize
<1> QED
  BY <1>3, <1>4

LEMMA FillKeepsPInv ==
    ASSUME EachItsOwn, PInv, NEW t \in Threads, Fill(t)
    PROVE  PInv'
<1> USE DEF PInv
<1> DEFINE i == th[t].en
           s == IF th[t].how = "new" THEN 0 ELSE dir[th[t].ent].size
           a == IF th[t].op = "w" /\ th[t].how # "new" THEN "discards" ELSE "open"
           r == [th[t] EXCEPT !.at = a]
           old == table[i]
           new == [old EXCEPT !.name = th[t].path, !.CNT = 1, !.pcb = TRUE,
                              !.entryNum = th[t].ent, !.size = s, !.mode = th[t].op]
<1>1. /\ th[t].at = "locked" /\ th[t] \in ThRec /\ i \in TableSlots /\ old \in SlotRec
      /\ old.sync = i
      /\ th' = [th EXCEPT ![t] = r] /\ filesOpen' = filesOpen + 1 /\ dir' = dir /\ locks' = locks
  BY DEF Fill, Step, Types, ThRec
<1>2. TookSlot(t) /\ InCall(t) /\ Waits(t) /\ ~HasSlot(t) /\ HoldsLock(t) /\ ~IsOpen(t)
  BY <1>1 DEF TookSlot, InCall, Waits, HasSlot, HoldsLock, IsOpen
<1>3. /\ ~old.free /\ th[t].how # "found" /\ th[t].lk = i
      /\ th[t].how = "new" => th[t].op = "w"
  BY <1>1, <1>2 DEF TakenSlots
<1>4. /\ th[t].op \in Modes /\ th[t].path \in Paths
      /\ th[t].ent \in EntryNums
  BY <1>1, <1>2 DEF KnowsItsFile
<1>5. table' = [table EXCEPT ![i] = new]
  <2>1. \A slot : Reclaimed(slot, th[t].how) = [slot EXCEPT !.free = slot.free]
    BY <1>3 DEF Reclaimed
  <2>2. table' = [table EXCEPT ![i] = Reclaimed(new, th[t].how)]
    BY DEF Fill, Filled
  <2>3. [new EXCEPT !.free = new.free] = new
    OBVIOUS
  <2> QED
    BY <2>1, <2>2, <2>3
<1>6. s \in 0..MAX_SIZE /\ (th[t].op = "r" => s = dir[th[t].ent].size)
  BY <1>3, <1>4, TableAssumption DEF Types, DirRec
<1>7. a \in {"discards", "open"}
  OBVIOUS
<1> HIDE DEF i, s, a, old
<1>8. new \in SlotRec /\ new.sync = i
  <2>1. 1 \in 0..UINT_MAX
    BY TableAssumption
  <2> QED
    BY <1>1, <1>4, <1>6, <2>1 DEF SlotRec
<1>9. /\ ~new.free /\ new.pcb /\ new.CNT = 1 /\ new.name = th[t].path
      /\ new.mode = th[t].op /\ new.entryNum = th[t].ent /\ new.size = s
  BY <1>1, <1>3 DEF SlotRec
<1>10. /\ r \in ThRec /\ r.at = a /\ r.en = th[t].en /\ r.lk = th[t].lk /\ r.how = th[t].how
       /\ r.path = th[t].path /\ r.op = th[t].op /\ r.ent = th[t].ent
  BY <1>1, <1>7 DEF ThRec, Places
<1> HIDE DEF new, r
<1>11. Types'
  BY <1>1, <1>5, <1>8, <1>10 DEF Types
<1>12. table' = [table EXCEPT ![th[t].en] = new]
  BY <1>5 DEF i
<1>13. FreeSlots' /\ UsedSlots' /\ OwnSlots' /\ TakenSlots'
  BY <1>1, <1>2, <1>7, <1>9, <1>10, <1>12, FileKeepsSlots
<1>14. ReaderSeesStoredSize'
  <2>1. \A e \in EntryNums \ {th[t].ent} : dir'[e] = dir[e]
    BY <1>1
  <2>2. r.at = "open" /\ r.op = "r" => new.size = dir'[new.entryNum].size
    BY <1>1, <1>6, <1>9, <1>10
  <2>3. r.at = "open" => r.en = th[t].en
    BY <1>10
  <2>4. th' = [th EXCEPT ![t] = r]
    BY <1>1
  <2> QED
    BY <1>2, <1>12, <2>1, <2>2, <2>3, <2>4, ReadersKept
<1>15. th'[t] = r /\ \A u \in Threads \ {t} :
                 /\ th'[u] = th[u]
                 /\ (InCall(u)' <=> InCall(u)) /\ (TookSlot(u)' <=> TookSlot(u))
                 /\ (HasSlot(u)' <=> HasSlot(u)) /\ (HoldsLock(u)' <=> HoldsLock(u))
                 /\ (Waits(u)' <=> Waits(u)) /\ (IsOpen(u)' <=> IsOpen(u))
  BY <1>1, OthersSame DEF Types
<1>16. HasSlot(t)' /\ HoldsLock(t)' /\ InCall(t)'
  BY <1>7, <1>10, <1>15 DEF HasSlot, HoldsLock, InCall
<1>17. KnowsItsFile' /\ NamesUnique' /\ FirstEntryStays'
  <2>1. \A u \in Threads : InCall(u)' =>
             /\ InCall(u)
             /\ th'[u].path = th[u].path /\ th'[u].op = th[u].op /\ th'[u].ent = th[u].ent
             /\ th'[u].at = "looked" <=> th[u].at = "looked"
    BY <1>1, <1>2, <1>7, <1>10, <1>15
  <2> QED
    BY <1>1, <2>1, EntriesSame
<1>18. HeldLocks' /\ IdleLocks'
  <2>1. \A u \in Threads : /\ HoldsLock(u)' <=> HoldsLock(u)
                           /\ HoldsLock(u) => th'[u].lk = th[u].lk /\ th'[u].op = th[u].op
    BY <1>2, <1>10, <1>15, <1>16
  <2> QED
    BY <1>1, <2>1, LocksSame
<1>19. FilesOpenCounts'
  <2>1. InUse' = InUse \cup {i}
    <3>1. \A u \in Threads : th'[u].en = th[u].en
      BY <1>10, <1>15
    <3>2. \A u \in Threads : HasSlot(u)' <=> HasSlot(u) \/ u = t
      BY <1>15, <1>16
    <3>3. InUse' = {th'[u].en : u \in {v \in Threads : HasSlot(v)'}}
      BY DEF InUse
    <3> QED
      BY <3>1, <3>2, <3>3 DEF InUse, i
  <2>2. i \notin InUse
    <3>1. \A u \in Threads : HasSlot(u) => TookSlot(u) /\ u # t
      BY <1>2 DEF HasSlot, TookSlot, InCall
    <3> QED
      BY <1>2, <3>1 DEF OwnSlots, InUse, i
  <2>3. Cardinality(InUse \cup {i}) = Cardinality(InUse) + 1
    BY <2>2, InUseIsFinite, FS_AddElement
  <2> QED
    BY <1>1, <2>1, <2>3 DEF FilesOpenCounts, InUse
<1> QED
  BY <1>11, <1>13, <1>14, <1>17, <1>18, <1>19

\* A step of a thread that has a slot and keeps it: only the slot, and the size of
\* the file in the directory, are written.
LEMMA StepOnFileKeepsPInv ==
    ASSUME EachItsOwn, PInv, NEW t \in Threads, HasSlot(t),
           NEW new \in SlotRec, table' = [table EXCEPT ![th[t].en] = new],
           new.free = FALSE, new.pcb, new.CNT = 1, new.sync = th[t].en,
           new.name = th[t].path, new.mode = th[t].op, new.entryNum = th[t].ent,
           NEW a \in {"rewrites", "open", "stranded"}, th' = [th EXCEPT ![t].at = a],
           dir' \in [EntryNums -> DirRec],
           \A e \in EntryNums : dir'[e].name = dir[e].name,
           \A e \in EntryNums \ {th[t].ent} : dir'[e] = dir[e],
           a = "open" /\ th[t].op = "r" => new.size = dir'[new.entryNum].size,
           locks' = locks, filesOpen' = filesOpen
    PROVE  PInv'
<1> DEFINE r == [th[t] EXCEPT !.at = a]
<1>1. /\ th[t] \in ThRec /\ th' = [th EXCEPT ![t] = r]
      /\ TookSlot(t) /\ InCall(t) /\ HoldsLock(t) /\ th[t].at # "slot" /\ th[t].at # "looked"
  BY DEF PInv, Types, HasSlot, HoldsLock, TookSlot, InCall
<1>2. /\ r \in ThRec /\ r.at = a /\ r.en = th[t].en /\ r.lk = th[t].lk /\ r.how = th[t].how
      /\ r.path = th[t].path /\ r.op = th[t].op /\ r.ent = th[t].ent
  BY <1>1 DEF ThRec, Places
<1> HIDE DEF r
<1>3. Types'
  BY <1>1, <1>2 DEF PInv, Types
<1>4. FreeSlots' /\ UsedSlots' /\ OwnSlots' /\ TakenSlots'
  <2>1. r.at \in {"discards", "rewrites", "open", "stranded"} /\ ~new.free
    BY <1>2
  <2>2. new.name = r.path /\ new.mode = r.op /\ new.entryNum = r.ent
    BY <1>2
  <2> QED
    BY <1>1, <1>2, <2>1, <2>2, FileKeepsSlots
<1>5. ReaderSeesStoredSize'
  <2>1. r.at = "open" => r.en = th[t].en
    BY <1>2
  <2>2. r.at = "open" /\ r.op = "r" => new.size = dir'[new.entryNum].size
    BY <1>2
  <2> QED
    <3>1. \A e \in EntryNums \ {th[t].ent} : dir'[e] = dir[e]
      OBVIOUS
    <3> QED
      BY ONLY EachItsOwn, PInv, t \in Threads, <1>1, <2>1, <2>2, <3>1, ReadersKept,
              table' = [table EXCEPT ![th[t].en] = new]
<1>6. th'[t] = r /\ \A u \in Threads \ {t} :
                 /\ th'[u] = th[u]
                 /\ (InCall(u)' <=> InCall(u)) /\ (TookSlot(u)' <=> TookSlot(u))
                 /\ (HasSlot(u)' <=> HasSlot(u)) /\ (HoldsLock(u)' <=> HoldsLock(u))
                 /\ (Waits(u)' <=> Waits(u)) /\ (IsOpen(u)' <=> IsOpen(u))
  BY <1>1, OthersSame DEF PInv, Types
<1>7. HasSlot(t)' /\ HoldsLock(t)' /\ InCall(t)'
  BY <1>2, <1>6 DEF HasSlot, HoldsLock, InCall
<1>8. KnowsItsFile' /\ NamesUnique' /\ FirstEntryStays'
  <2>1. \A u \in Threads : InCall(u)' =>
             /\ InCall(u)
             /\ th'[u].path = th[u].path /\ th'[u].op = th[u].op /\ th'[u].ent = th[u].ent
             /\ th'[u].at = "looked" <=> th[u].at = "looked"
    BY <1>1, <1>2, <1>6
  <2> QED
    BY <2>1, EntriesSame DEF PInv
<1>9. \A u \in Threads : /\ HoldsLock(u)' <=> HoldsLock(u)
                         /\ HoldsLock(u) => th'[u].lk = th[u].lk /\ th'[u].op = th[u].op
                         /\ HasSlot(u)' <=> HasSlot(u)
                         /\ HasSlot(u) => th'[u].en = th[u].en
  BY <1>1, <1>2, <1>6, <1>7
<1>10. HeldLocks' /\ IdleLocks' /\ FilesOpenCounts'
  BY <1>9, LocksSame, InUseSame DEF PInv
<1> QED
  BY <1>3, <1>4, <1>5, <1>8, <1>10 DEF PInv

\* What a thread with a slot has there.
LEMMA SlotOfFile ==
    ASSUME EachItsOwn, PInv, NEW t \in Threads, HasSlot(t)
    PROVE  /\ th[t] \in ThRec /\ th[t].en \in TableSlots /\ table[th[t].en] \in SlotRec
           /\ TookSlot(t) /\ InCall(t)
           /\ table[th[t].en].free = FALSE /\ table[th[t].en].pcb /\ table[th[t].en].CNT = 1
           /\ table[th[t].en].sync = th[t].en
           /\ table[th[t].en].name = th[t].path /\ table[th[t].en].mode = th[t].op
           /\ table[th[t].en].entryNum = th[t].ent
           /\ th[t].ent \in EntryNums \ {0} /\ dir[th[t].ent].name = th[t].path
           /\ th[t].path \in Paths /\ th[t].op \in Modes /\ th[t].lk = th[t].en
<1> USE DEF PInv
<1>1. th[t] \in ThRec /\ th[t].en \in TableSlots /\ table[th[t].en] \in SlotRec
  BY DEF Types, ThRec
<1>2. TookSlot(t) /\ InCall(t) /\ th[t].at # "looked" /\ th[t].at # "slot"
  BY DEF HasSlot, TookSlot, InCall
<1> QED
  BY <1>1, <1>2 DEF TakenSlots, KnowsItsFile, Types, SlotRec

LEMMA DiscardKeepsPInv ==
    ASSUME EachItsOwn, PInv, NEW t \in Threads, Discard(t)
    PROVE  PInv'
<1> DEFINE new == table[th[t].en]
<1>1. HasSlot(t) /\ th' = [th EXCEPT ![t].at = "rewrites"]
      /\ table' = table /\ locks' = locks /\ filesOpen' = filesOpen
  BY DEF Discard, Step, HasSlot
<1>2. dir' = dir
  BY <1>1, SlotOfFile DEF Discard, ClearDirEntry
<1>3. table' = [table EXCEPT ![th[t].en] = new] /\ dir' \in [EntryNums -> DirRec]
  BY <1>1, <1>2, SlotOfFile DEF PInv, Types
<1>4. /\ new \in SlotRec /\ new.free = FALSE /\ new.pcb /\ new.CNT = 1 /\ new.sync = th[t].en
      /\ new.name = th[t].path /\ new.mode = th[t].op /\ new.entryNum = th[t].ent
  BY <1>1, SlotOfFile
<1> HIDE DEF new
<1>5. \A e \in EntryNums : dir'[e] = dir[e] /\ dir'[e].name = dir[e].name
  BY <1>2
<1> QED
  BY <1>1, <1>3, <1>4, <1>5, StepOnFileKeepsPInv

LEMMA RewriteFailsKeepsPInv ==
    ASSUME EachItsOwn, PInv, NEW t \in Threads, RewriteFails(t)
    PROVE  PInv'
<1> DEFINE new == table[th[t].en]
<1>1. HasSlot(t) /\ th' = [th EXCEPT ![t].at = "stranded"]
      /\ dir' = dir /\ table' = table /\ locks' = locks /\ filesOpen' = filesOpen
  BY DEF RewriteFails, Step, HasSlot
<1>2. table' = [table EXCEPT ![th[t].en] = new] /\ dir' \in [EntryNums -> DirRec]
  BY <1>1, SlotOfFile DEF PInv, Types
<1>3. /\ new \in SlotRec /\ new.free = FALSE /\ new.pcb /\ new.CNT = 1 /\ new.sync = th[t].en
      /\ new.name = th[t].path /\ new.mode = th[t].op /\ new.entryNum = th[t].ent
  BY <1>1, SlotOfFile
<1> HIDE DEF new
<1>4. \A e \in EntryNums : dir'[e] = dir[e] /\ dir'[e].name = dir[e].name
  BY <1>1
<1> QED
  BY <1>1, <1>2, <1>3, <1>4, StepOnFileKeepsPInv

LEMMA RewriteKeepsPInv ==
    ASSUME EachItsOwn, PInv, NEW t \in Threads, Rewrite(t)
    PROVE  PInv'
<1> DEFINE i == th[t].en
           old == table[i]
           new == [old EXCEPT !.name = th[t].path, !.CNT = 1, !.size = 0, !.mode = th[t].op]
           x == Entry(th[t].path, 0)
           e == th[t].ent
<1>1. HasSlot(t) /\ th' = [th EXCEPT ![t].at = "open"] /\ locks' = locks /\ filesOpen' = filesOpen
  BY DEF Rewrite, Step, HasSlot
<1>2. e \in EntryNums /\ dir[e].name = th[t].path /\ i \in TableSlots
      /\ th[t].path \in Paths /\ th[t].op \in Modes /\ table \in [TableSlots -> SlotRec]
  BY <1>1, SlotOfFile DEF PInv, Types
<1>3. table' = [table EXCEPT ![th[t].en] = new] /\ dir' = [dir EXCEPT ![e] = x]
  BY <1>1, <1>2, SlotOfFile DEF Rewrite
<1>4. x.name = th[t].path /\ x.size = 0 /\ x \in DirRec
  BY <1>2, TableAssumption DEF Entry, DirRec
<1>5. /\ old \in SlotRec /\ old.free = FALSE /\ old.pcb /\ old.sync = th[t].en
      /\ old.entryNum = e
  BY <1>1, SlotOfFile
<1> HIDE DEF x, old, e, i
<1>6. new \in SlotRec
  <2>1. 1 \in 0..UINT_MAX /\ 0 \in 0..MAX_SIZE
    BY TableAssumption
  <2> QED
    BY <1>2, <1>5, <2>1 DEF SlotRec
<1>7. /\ new.free = FALSE /\ new.pcb /\ new.CNT = 1 /\ new.sync = th[t].en
      /\ new.name = th[t].path /\ new.mode = th[t].op /\ new.entryNum = e /\ new.size = 0
  BY <1>5 DEF SlotRec
<1> HIDE DEF new
<1>8. /\ dir' \in [EntryNums -> DirRec] /\ dir'[e] = x
      /\ \A f \in EntryNums \ {e} : dir'[f] = dir[f]
  BY <1>2, <1>3, <1>4 DEF PInv, Types
<1>9. \A f \in EntryNums : dir'[f].name = dir[f].name
  BY <1>2, <1>4, <1>8
<1>10. new.size = dir'[new.entryNum].size /\ new.entryNum = th[t].ent
  BY <1>4, <1>7, <1>8 DEF e
<1>11. \A f \in EntryNums \ {th[t].ent} : dir'[f] = dir[f]
  BY <1>8 DEF e
<1> QED
  BY <1>1, <1>3, <1>6, <1>7, <1>8, <1>9, <1>10, <1>11, StepOnFileKeepsPInv

LEMMA ResizeKeepsPInv ==
    ASSUME EachItsOwn, PInv, NEW t \in Threads, Resize(t)
    PROVE  PInv'
<1>1. /\ HasSlot(t) /\ th[t].at = "open" /\ th[t].op # "r" /\ th' = th
      /\ dir' = dir /\ locks' = locks /\ filesOpen' = filesOpen
  BY DEF Resize, HasSlot
<1>2. PICK s \in 0..MAX_SIZE : table' = [table EXCEPT ![th[t].en].size = s]
  BY DEF Resize
<1> DEFINE old == table[th[t].en]
           new == [old EXCEPT !.size = s]
<1>3. table' = [table EXCEPT ![th[t].en] = new]
  BY <1>2, SlotOfFile, <1>1 DEF PInv, Types
<1>4. /\ old \in SlotRec /\ old.free = FALSE /\ old.pcb /\ old.CNT = 1 /\ old.sync = th[t].en
      /\ old.name = th[t].path /\ old.mode = th[t].op /\ old.entryNum = th[t].ent
  BY <1>1, SlotOfFile
<1> HIDE DEF old
<1>5. /\ new \in SlotRec /\ new.free = FALSE /\ new.pcb /\ new.CNT = 1 /\ new.sync = th[t].en
      /\ new.name = th[t].path /\ new.mode = th[t].op /\ new.entryNum = th[t].ent
  BY <1>4 DEF SlotRec
<1> HIDE DEF new
<1>6. th' = [th EXCEPT ![t].at = "open"] /\ dir' \in [EntryNums -> DirRec]
  BY <1>1 DEF PInv, Types, ThRec
<1>7. \A e \in EntryNums : dir'[e] = dir[e] /\ dir'[e].name = dir[e].name
  BY <1>1
<1> QED
  BY <1>1, <1>3, <1>5, <1>6, <1>7, StepOnFileKeepsPInv

LEMMA ReleasedIsNew == ASSUME NEW op PROVE Released(Acquired(NewLock, op), op) = NewLock
<1>1. NewLock \in LockRec /\ NewLock.excl = FALSE /\ NewLock.shared = 0
  BY DEF NewLock, LockRec
<1> DEFINE k == Acquired(NewLock, op)
<1>2. k \in LockRec
  BY <1>1, AcquiredIsLock
<1>3. \A l \in LockRec : l.excl = FALSE /\ l.shared = 0 => l = NewLock
  BY DEF NewLock, LockRec
<1>4. CASE op = "r"
  <2>1. k.excl = FALSE /\ k.shared = 1
    BY <1>1, <1>4 DEF Acquired, LockRec
  <2> HIDE DEF k
  <2>2. Released(k, op) = [k EXCEPT !.shared = 0]
    BY <1>4, <2>1 DEF Released
  <2>3. [k EXCEPT !.shared = 0] \in LockRec
        /\ [k EXCEPT !.shared = 0].excl = FALSE /\ [k EXCEPT !.shared = 0].shared = 0
    BY <1>2, <2>1 DEF LockRec
  <2> QED
    BY <1>3, <2>2, <2>3 DEF k
<1>5. CASE op # "r"
  BY <1>5 DEF Released, Acquired, NewLock
<1> QED
  BY <1>4, <1>5

\* closeEntry: the last handle of the file goes.
LEMMA CloseKeepsPInv ==
    ASSUME EachItsOwn, PInv, NEW t \in Threads, Close(t)
    PROVE  PInv'
<1> DEFINE i == th[t].en
           e == th[t].ent
           old == table[i]
           new == [old EXCEPT !.CNT = 0, !.free = TRUE, !.pcb = FALSE]
           r == [th[t] EXCEPT !.at = "idle"]
<1>1. th[t].at = "open" /\ th' = [th EXCEPT ![t].at = "idle"]
  BY DEF Close, Step
<1>2. HasSlot(t) /\ HoldsLock(t) /\ th[t].at # "slot"
  BY <1>1 DEF HasSlot, HoldsLock
<1>3. /\ i \in TableSlots /\ old \in SlotRec /\ TookSlot(t) /\ InCall(t)
      /\ old.free = FALSE /\ old.pcb /\ old.CNT = 1 /\ old.sync = i
      /\ old.mode = th[t].op /\ old.entryNum = e
      /\ e \in EntryNums /\ th[t].lk = i /\ th[t] \in ThRec
  BY <1>2, SlotOfFile
<1>4. /\ locks' = [locks EXCEPT ![i] = Released(@, th[t].op)]
      /\ table' = [table EXCEPT ![i].CNT = 0, ![i].free = TRUE, ![i].pcb = FALSE]
      /\ dir' = IF th[t].op # "r" THEN [dir EXCEPT ![e].size = old.size] ELSE dir
      /\ filesOpen' = IF filesOpen > 0 THEN filesOpen - 1 ELSE filesOpen
  <2> DEFINE cnt == IF old.CNT = 0 THEN UINT_MAX ELSE old.CNT - 1
             last == ~(cnt > 0 /\ old.mode = "r")
  <2>1. cnt = 0 /\ last = TRUE
    BY <1>3
  <2>2. /\ locks' = [locks EXCEPT ![old.sync] = Released(@, old.mode)]
        /\ table' = [table EXCEPT ![i].CNT = cnt, ![i].free = last, ![i].pcb = @ /\ ~last]
        /\ dir' = IF last /\ old.mode # "r"
                  THEN [dir EXCEPT ![old.entryNum].size = old.size] ELSE dir
        /\ filesOpen' = IF last /\ filesOpen > 0 THEN filesOpen - 1 ELSE filesOpen
    BY <1>3 DEF Close
  <2> HIDE DEF cnt, last, old
  <2> QED
    BY <1>3, <2>1, <2>2
<1> USE DEF PInv
<1>5. table' = [table EXCEPT ![i] = new]
  BY <1>3, <1>4 DEF Types
<1>6. th' = [th EXCEPT ![t] = r]
  BY <1>1 DEF Types
<1>7. locks[i] = Acquired(NewLock, th[t].op) /\ locks' = [locks EXCEPT ![i] = NewLock]
  <2>1. locks[i] = Acquired(NewLock, th[t].op)
    BY <1>2, <1>3 DEF HeldLocks
  <2>2. Released(Acquired(NewLock, th[t].op), th[t].op) = NewLock
    BY ReleasedIsNew
  <2>3. locks' = [locks EXCEPT ![i] = Released(locks[i], th[t].op)]
    BY <1>4
  <2> QED
    BY <2>1, <2>2, <2>3
<1> HIDE DEF old
<1>8. new \in SlotRec /\ new.sync = i /\ new.free /\ new.pcb = FALSE
  <2>1. 0 \in 0..UINT_MAX
    BY TableAssumption
  <2> QED
    BY <1>3, <2>1 DEF SlotRec
<1>9. r \in ThRec /\ r.at = "idle"
  BY <1>3 DEF ThRec, Places
<1> HIDE DEF new, r
<1>10. /\ dir' \in [EntryNums -> DirRec] /\ \A f \in EntryNums : dir'[f].name = dir[f].name
       /\ \A f \in EntryNums \ {e} : dir'[f] = dir[f]
  <2> DEFINE x == [dir[e] EXCEPT !.size = old.size]
  <2>1. dir[e] \in DirRec /\ old.size \in 0..MAX_SIZE
    BY <1>3 DEF Types, SlotRec
  <2>2. x \in DirRec /\ x.name = dir[e].name
    BY <2>1 DEF DirRec
  <2>3. dir' = dir \/ dir' = [dir EXCEPT ![e] = x]
    BY <1>3, <1>4 DEF Types
  <2> HIDE DEF x
  <2> QED
    BY <1>3, <2>2, <2>3 DEF Types
<1>11. th'[t] = r /\ \A u \in Threads \ {t} :
                 /\ th'[u] = th[u]
                 /\ (InCall(u)' <=> InCall(u)) /\ (TookSlot(u)' <=> TookSlot(u))
                 /\ (HasSlot(u)' <=> HasSlot(u)) /\ (HoldsLock(u)' <=> HoldsLock(u))
                 /\ (Waits(u)' <=> Waits(u)) /\ (IsOpen(u)' <=> IsOpen(u))
  BY <1>6, OthersSame DEF Types
<1>12. ~InCall(t)' /\ ~TookSlot(t)' /\ ~HasSlot(t)' /\ ~HoldsLock(t)' /\ ~IsOpen(t)'
  BY <1>9, <1>11 DEF InCall, TookSlot, HasSlot, HoldsLock, IsOpen
<1>13. /\ table'[i] = new /\ \A j \in TableSlots \ {i} : table'[j] = table[j]
       /\ \A u \in Threads \ {t} : TookSlot(u) => /\ th[u].en \in TableSlots \ {i}
                                                  /\ table'[th[u].en] = table[th[u].en]
  BY <1>3, <1>5, <1>6, OwnSlotWritten
<1>14. Types'
  <2>1. filesOpen' \in Nat
    BY <1>4 DEF Types
  <2>2. locks' \in [TableSlots -> LockRec]
    BY <1>3, <1>7 DEF Types, LockRec, NewLock
  <2>3. table' \in [TableSlots -> SlotRec] /\ \A j \in TableSlots : table'[j].sync = j
    BY <1>3, <1>5, <1>8 DEF Types
  <2> QED
    BY <1>6, <1>9, <1>10, <2>1, <2>2, <2>3 DEF Types
<1>15. KnowsItsFile' /\ NamesUnique' /\ FirstEntryStays'
  <2>1. \A u \in Threads : InCall(u)' =>
             /\ InCall(u)
             /\ th'[u].path = th[u].path /\ th'[u].op = th[u].op /\ th'[u].ent = th[u].ent
             /\ th'[u].at = "looked" <=> th[u].at = "looked"
    BY <1>11, <1>12
  <2> QED
    BY <1>10, <2>1, EntriesSame
<1>16. FreeSlots'
  BY <1>8, <1>13 DEF FreeSlots
<1>17. UsedSlots'
  <2> SUFFICES ASSUME NEW j \in TableSlots, ~table'[j].free
               PROVE  \E u \in Threads : TookSlot(u)' /\ th'[u].en = j
    BY DEF UsedSlots
  <2>1. j # i
    BY <1>8, <1>13
  <2>2. PICK u \in Threads : TookSlot(u) /\ th[u].en = j
    BY <1>13, <2>1 DEF UsedSlots
  <2> QED
    BY <1>11, <2>1, <2>2
<1>18. OwnSlots' /\ TakenSlots'
  <2>1. OwnSlots'
    BY <1>11, <1>12 DEF OwnSlots
  <2>2. TakenSlots'
    BY <1>11, <1>12, <1>13 DEF TakenSlots
  <2> QED
    BY <2>1, <2>2
<1>19. HeldLocks' /\ IdleLocks'
  <2>1. locks'[i] = NewLock /\ \A l \in TableSlots \ {i} : locks'[l] = locks[l]
    BY <1>3, <1>7 DEF Types
  <2>2. \A u \in Threads \ {t} : HoldsLock(u) => th[u].lk \in TableSlots \ {i}
    <3>1. \A u \in Threads : HoldsLock(u) => TookSlot(u) /\ th[u].at # "slot"
      BY DEF HoldsLock, HasSlot, TookSlot, InCall
    <3> QED
      BY <1>13, <3>1 DEF TakenSlots
  <2>3. HeldLocks'
    BY <1>11, <1>12, <2>1, <2>2 DEF HeldLocks
  <2>4. IdleLocks'
    <3> SUFFICES ASSUME NEW l \in TableSlots, \A u \in Threads : HoldsLock(u)' => th'[u].lk # l
                 PROVE  locks'[l] = NewLock
      BY DEF IdleLocks
    <3>1. CASE l = i
      BY <2>1, <3>1
    <3>2. CASE l # i
      <4>1. \A u \in Threads : HoldsLock(u) => th[u].lk # l
        BY <1>3, <1>11, <3>2
      <4> QED
        BY <2>1, <3>2, <4>1 DEF IdleLocks
    <3> QED
      BY <3>1, <3>2
  <2> QED
    BY <2>3, <2>4
<1>20. FilesOpenCounts'
  <2>1. InUse' = InUse \ {i}
    <3>1. InUse' = {th'[u].en : u \in {v \in Threads : HasSlot(v)'}}
      BY DEF InUse
    <3>2. {v \in Threads : HasSlot(v)'} = {v \in Threads : HasSlot(v)} \ {t}
      BY <1>11, <1>12
    <3>3. \A u \in Threads \ {t} : HasSlot(u) => th'[u].en = th[u].en /\ th[u].en # i
      <4>1. \A u \in Threads : HasSlot(u) => TookSlot(u)
        BY DEF HasSlot, TookSlot, InCall
      <4> QED
        BY <1>11, <1>13, <4>1
    <3>4. \A y : y \in InUse' => y \in InUse \ {i}
      BY <3>1, <3>2, <3>3 DEF InUse
    <3>5. \A y : y \in InUse \ {i} => y \in InUse'
      BY <3>1, <3>2, <3>3 DEF InUse
    <3> QED
      BY <3>4, <3>5
  <2>2. i \in InUse
    BY <1>2 DEF InUse
  <2>3. IsFiniteSet(InUse) /\ Cardinality(InUse \ {i}) = Cardinality(InUse) - 1
    BY <2>2, InUseIsFinite, FS_RemoveElement
  <2>4. Cardinality(InUse) \in Nat /\ Cardinality(InUse \ {i}) \in Nat
    BY <2>3, FS_CardinalityType, FS_RemoveElement
  <2>5. filesOpen = Cardinality(InUse)
    BY DEF FilesOpenCounts, InUse
  <2>6. filesOpen' = Cardinality(InUse')
    BY <1>4, <2>1, <2>3, <2>4, <2>5
  <2> QED
    BY <2>6 DEF FilesOpenCounts, InUse
<1>21. ReaderSeesStoredSize'
  <2>1. r.at # "open"
    BY <1>9
  <2> QED
    BY <1>3, <1>5, <1>6, <1>10, <2>1, ReadersKept
<1> QED
  BY <1>14, <1>15, <1>16, <1>17, <1>18, <1>19, <1>20, <1>21

LEMMA StutterKeepsPInv ==
    ASSUME PInv, UNCHANGED vars
    PROVE  PInv'
BY DEF PInv, vars, Types, InCall, TookSlot, Waits, KnowsItsFile, NamesUnique, FirstEntryStays,
       FreeSlots, UsedSlots, OwnSlots, TakenSlots, HeldLocks, IdleLocks, HoldsLock, HasSlot,
       FilesOpenCounts, ReaderSeesStoredSize, IsOpen

\* Every step keeps the invariant.  Two of them are never taken: nobody deletes, and
\* nobody finds its file open already.
LEMMA StepKeepsPInv ==
    ASSUME EachItsOwn, PInv, [Next]_vars
    PROVE  PInv'
<1>1. CASE UNCHANGED vars
  BY <1>1, StutterKeepsPInv
<1>2. ASSUME NEW t \in Threads,
             \/ \E p \in Paths, op \in Operations : Call(t, p, op)
             \/ Internal(t) \/ Resize(t) \/ Close(t)
      PROVE  PInv'
  <2>1. CASE \E p \in Paths, op \in Operations : Call(t, p, op)
    BY <2>1, CallKeepsPInv
  <2>2. CASE Create(t)
    BY <2>2, CreateKeepsPInv
  <2>3. CASE Find(t)
    BY <2>3, FindKeepsPInv
  <2>4. CASE Ask(t)
    BY <2>4, AskKeepsPInv
  <2>5. CASE Acquire(t)
    BY <2>5, AcquireKeepsPInv
  <2>6. CASE Fill(t)
    BY <2>6, FillKeepsPInv
  <2>7. CASE Join(t)
    <3>1. th[t].at = "locked" /\ th[t].how = "found"
      BY <2>7 DEF Join, Joins, Step
    <3> QED
      BY <3>1 DEF PInv, TakenSlots, TookSlot, InCall
  <2>8. CASE Discard(t)
    BY <2>8, DiscardKeepsPInv
  <2>9. CASE Rewrite(t)
    BY <2>9, RewriteKeepsPInv
  <2>10. CASE RewriteFails(t)
    BY <2>10, RewriteFailsKeepsPInv
  <2>11. CASE DeleteFile(t)
    <3>1. th[t].at = "locked" /\ th[t].op = "delete"
      BY <2>11 DEF DeleteFile, Step
    <3> QED
      BY <3>1 DEF PInv, KnowsItsFile, InCall, Modes
  <2>12. CASE Resize(t)
    BY <2>12, ResizeKeepsPInv
  <2>13. CASE Close(t)
    BY <2>13, CloseKeepsPInv
  <2> QED
    BY <1>2, <2>1, <2>2, <2>3, <2>4, <2>5, <2>6, <2>7, <2>8, <2>9, <2>10, <2>11, <2>12, <2>13
       DEF Internal
<1> QED
  BY <1>1, <1>2 DEF Next

-----------------------------------------------------------------------------
LEMMA PrivateInvariant == EachItsOwn => (Spec => []PInv)
<1> SUFFICES ASSUME EachItsOwn PROVE Spec => []PInv
  OBVIOUS
<1>1. Init => PInv
  BY InitPInv
<1>2. PInv /\ [Next]_vars => PInv'
  BY StepKeepsPInv
<1> QED
  BY <1>1, <1>2, PTL DEF Spec

\* Types: every step of openFile and closeEntry keeps to the ranges of its variables.
THEOREM PrivateTypes == EachItsOwn => (Spec => []TypeOK)
<1> SUFFICES ASSUME EachItsOwn PROVE Spec => []TypeOK
  OBVIOUS
<1>1. PInv => TypeOK
  BY PInvImplies
<1> QED
  BY <1>1, PrivateInvariant, PTL

\* The slot of an open file stays that file's: no other open takes it, fills it or
\* frees it, at whatever moment it comes (createEntry, reopenEntry, closeEntry).
THEOREM PrivateHandles == EachItsOwn => (Spec => []HandleIsItsFile)
<1> SUFFICES ASSUME EachItsOwn PROVE Spec => []HandleIsItsFile
  OBVIOUS
<1>1. PInv => HandleIsItsFile
  BY PInvImplies
<1> QED
  BY <1>1, PrivateInvariant, PTL

\* The directory entry of an open file stays that file's, though it is looked up
\* before the table's mutex is taken (openFile, createEntry, closeEntry).
THEOREM PrivateEntries == EachItsOwn => (Spec => []EntryIsItsFile)
<1> SUFFICES ASSUME EachItsOwn PROVE Spec => []EntryIsItsFile
  OBVIOUS
<1>1. PInv => EntryIsItsFile
  BY PInvImplies
<1> QED
  BY <1>1, PrivateInvariant, PTL

\* Reader/writer locks are held by just the threads that took them: acquired in
\* createEntry and reopenEntry, released once and in the same mode in closeEntry.
THEOREM PrivateLocks == EachItsOwn => (Spec => []LocksMatchHolders)
<1> SUFFICES ASSUME EachItsOwn PROVE Spec => []LocksMatchHolders
  OBVIOUS
<1>1. PInv => LocksMatchHolders
  BY PInvImplies
<1> QED
  BY <1>1, PrivateInvariant, PTL

\* The gate's counter is the number of slots in use, so that a format or an unmount
\* waits for exactly the files that are open (incOpenFiles, decOpenFiles).
THEOREM PrivateCounts == EachItsOwn => (Spec => []FilesOpenCounts)
<1> SUFFICES ASSUME EachItsOwn PROVE Spec => []FilesOpenCounts
  OBVIOUS
<1>1. PInv => FilesOpenCounts
  BY PInvImplies
<1> QED
  BY <1>1, PrivateInvariant, PTL

\* A reader sees the size the last close wrote to the directory (closeEntry,
\* reopenEntry).
THEOREM PrivateSizes == EachItsOwn => (Spec => []ReaderSeesStoredSize)
<1> SUFFICES ASSUME EachItsOwn PROVE Spec => []ReaderSeesStoredSize
  OBVIOUS
<1>1. PInv => ReaderSeesStoredSize
  BY PInvImplies
<1> QED
  BY <1>1, PrivateInvariant, PTL

\* No name is written to a second entry of the directory: the look-up that missed
\* is still right when the entry is made (openFile, createEntry).
THEOREM PrivateNames == EachItsOwn => (Spec => []NamesUnique)
<1> SUFFICES ASSUME EachItsOwn PROVE Spec => []NamesUnique
  OBVIOUS
<1>1. PInv => NamesUnique
  BY PInvImplies
<1> QED
  BY <1>1, PrivateInvariant, PTL

=============================================================================

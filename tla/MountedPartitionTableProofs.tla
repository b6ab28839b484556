---------------------- MODULE MountedPartitionTableProofs ----------------------
(***************************************************************************)
(* Proofs about MountedPartitionTable: when no letter is unmounted by two  *)
(* threads, letters are neither lost nor handed out twice and a block is   *)
(* deleted once.  What breaks without that condition is shown by TLC.      *)
(***************************************************************************)
EXTENDS MountedPartitionTable, TLAPS

\* Only one thread unmounts a letter.
OneEach ==
    \A u, v \in Unmounters, c \in Letters :
        <<u, c>> \in MayUnmount /\ <<v, c>> \in MayUnmount => u = v

\* A thread inside an unmount holds what the table has for its letter: the mutex
\* is free while it waits, and still nothing else takes the letter meanwhile.
UnmountsMounted ==
    \A u \in Unmounters : at[u] # "idle" =>
        /\ <<u, letter[u]>> \in MayUnmount
        /\ pntr[u] = mounted[letter[u]] /\ pntr[u] # NoBlock

MInv == TypeOK /\ LetterOnce /\ MountedIsLive /\ UnmountsMounted

-----------------------------------------------------------------------------
\* The stack without its top.
LEMMA TopOfStack ==
    ASSUME NEW s \in Seq(Letters), s # <<>>
    PROVE  /\ Front(s) \in Seq(Letters)
           /\ Last(s) = s[Len(s)] /\ Last(s) \in Letters /\ Len(s) \in DOMAIN s
           /\ DOMAIN Front(s) = DOMAIN s \ {Len(s)}
           /\ \A i \in DOMAIN Front(s) : Front(s)[i] = s[i]
<1>1. Len(s) \in Nat \ {0} /\ DOMAIN s = 1..Len(s)
  OBVIOUS
<1>2. Last(s) = s[Len(s)] /\ s[Len(s)] \in Letters
  BY <1>1 DEF Last
<1>3. Front(s) = SubSeq(s, 1, Len(s) - 1)
  BY DEF Front
<1>4. SubSeq(s, 1, Len(s) - 1) = [i \in 1..Len(s) - 1 |-> s[i]]
  BY <1>1
<1>5. \A i \in 1..Len(s) - 1 : s[i] \in Letters
  BY <1>1
<1>6. Front(s) \in Seq(Letters) /\ DOMAIN Front(s) = 1..Len(s) - 1
  BY <1>1, <1>3, <1>4, <1>5
<1> QED
  BY <1>1, <1>2, <1>3, <1>4, <1>6

LEMMA InitMInv == Init => MInv
<1> SUFFICES ASSUME Init PROVE MInv
  OBVIOUS
<1>1. NUM_OF_PARTS \in Nat \ {0}
  BY TableAssumption
<1>2. free = [i \in 1..NUM_OF_PARTS |-> NUM_OF_PARTS + 1 - i]
  BY DEF Init, StartStack, Letters
<1>3. \A i \in 1..NUM_OF_PARTS : NUM_OF_PARTS + 1 - i \in 1..NUM_OF_PARTS
  BY <1>1
<1>4. free \in Seq(Letters) /\ DOMAIN free = 1..NUM_OF_PARTS
  BY <1>1, <1>2, <1>3 DEF Letters
<1>5. TypeOK
  BY <1>1, <1>4 DEF Init, TypeOK, Letters
<1>6. LetterOnce
  <2> SUFFICES ASSUME NEW c \in Letters
               PROVE  /\ mounted[c] # NoBlock <=> \A i \in DOMAIN free : free[i] # c
                      /\ \A i, j \in DOMAIN free : free[i] = c /\ free[j] = c => i = j
    BY DEF LetterOnce
  <2>1. mounted[c] = NoBlock
    BY DEF Init
  <2>2. NUM_OF_PARTS + 1 - c \in DOMAIN free /\ free[NUM_OF_PARTS + 1 - c] = c
    BY <1>1, <1>2 DEF Letters
  <2>3. \A i, j \in DOMAIN free : free[i] = free[j] => i = j
    BY <1>1, <1>2
  <2> QED
    BY <2>1, <2>2, <2>3
<1>7. MountedIsLive /\ UnmountsMounted
  BY DEF Init, MountedIsLive, UnmountsMounted
<1> QED
  BY <1>5, <1>6, <1>7 DEF MInv

-----------------------------------------------------------------------------
\* A mount takes a letter that is on the stack, hence one that is not mounted.
LEMMA MountKeepsMInv ==
    ASSUME MInv, NEW b \in Blocks, Mount(b)
    PROVE  MInv'
<1> USE DEF MInv
<1>1. /\ b \notin made /\ b \notin live /\ b # NoBlock
      /\ live' = live \cup {b} /\ made' = made \cup {b}
      /\ at' = at /\ letter' = letter /\ pntr' = pntr
  BY TableAssumption DEF Mount, TypeOK
<1>2. CASE free = <<>>
  <2>1. free' = free /\ mounted' = mounted
    BY <1>2 DEF Mount
  <2> QED
    BY <1>1, <2>1 DEF TypeOK, LetterOnce, MountedIsLive, UnmountsMounted
<1>3. CASE free # <<>>
  <2> DEFINE c == Last(free)
  <2>1. free' = Front(free) /\ mounted' = [mounted EXCEPT ![c] = b]
    BY <1>3 DEF Mount, GetFreeMPoint
  <2>2. /\ Front(free) \in Seq(Letters) /\ c \in Letters
        /\ Len(free) \in DOMAIN free /\ c = free[Len(free)]
        /\ DOMAIN Front(free) = DOMAIN free \ {Len(free)}
        /\ \A i \in DOMAIN Front(free) : Front(free)[i] = free[i]
    BY <1>3, TopOfStack DEF TypeOK
  <2> HIDE DEF c
  <2>3. mounted[c] = NoBlock
    BY <2>2 DEF LetterOnce
  <2>4. /\ mounted'[c] = b
        /\ \A d \in Letters : d # c => mounted'[d] = mounted[d]
    BY <2>1, <2>2 DEF TypeOK
  <2>5. TypeOK'
    BY <1>1, <2>1, <2>2 DEF TypeOK
  <2>6. LetterOnce'
    <3> SUFFICES ASSUME NEW d \in Letters
                 PROVE  /\ mounted'[d] # NoBlock <=> \A i \in DOMAIN free' : free'[i] # d
                        /\ \A i, j \in DOMAIN free' : free'[i] = d /\ free'[j] = d => i = j
      BY DEF LetterOnce
    <3>1. \A i, j \in DOMAIN free' : free'[i] = d /\ free'[j] = d => i = j
      BY <2>1, <2>2 DEF LetterOnce
    <3>2. CASE d = c
      BY <1>1, <2>1, <2>2, <2>4, <3>1, <3>2 DEF LetterOnce
    <3>3. CASE d # c
      BY <2>1, <2>2, <2>4, <3>1, <3>3 DEF LetterOnce
    <3> QED
      BY <3>2, <3>3
  <2>7. MountedIsLive'
    BY <1>1, <2>2, <2>4 DEF MountedIsLive
  <2>8. UnmountsMounted'
    BY <1>1, <2>3, <2>4 DEF UnmountsMounted, TypeOK
  <2> QED
    BY <2>5, <2>6, <2>7, <2>8
<1> QED
  BY <1>2, <1>3

\* The end of an unmount: the letter it returns is not on the stack, and no other
\* thread is inside an unmount of the same letter.
LEMMA UnmountKeepsMInv ==
    ASSUME OneEach, MInv, NEW u \in Unmounters, UnmountFinish(u)
    PROVE  MInv'
<1> USE DEF MInv
<1> DEFINE c == letter[u]
<1>1. /\ at[u] = "prepared" /\ at' = [at EXCEPT ![u] = "idle"]
      /\ mounted' = [mounted EXCEPT ![c] = NoBlock]
      /\ free' = Append(free, c)
      /\ live' = live \ {pntr[u]}
      /\ pntr' = [pntr EXCEPT ![u] = NoBlock]
      /\ made' = made /\ letter' = letter
  BY DEF UnmountFinish, NoLongerMounted, ReturnMountPoint
<1>2. /\ c \in Letters /\ <<u, c>> \in MayUnmount
      /\ pntr[u] = mounted[c] /\ mounted[c] # NoBlock
  BY <1>1 DEF UnmountsMounted, TypeOK
<1> HIDE DEF c
<1>3. \A i \in DOMAIN free : free[i] # c
  BY <1>2 DEF LetterOnce
<1>4. /\ mounted'[c] = NoBlock
      /\ \A d \in Letters : d # c => mounted'[d] = mounted[d]
  BY <1>1, <1>2 DEF TypeOK
<1>5. /\ free' \in Seq(Letters) /\ DOMAIN free' = DOMAIN free \cup {Len(free) + 1}
      /\ Len(free) + 1 \notin DOMAIN free
      /\ free'[Len(free) + 1] = c
      /\ \A i \in DOMAIN free : free'[i] = free[i]
  BY <1>1, <1>2 DEF TypeOK
<1>6. TypeOK'
  BY <1>1, <1>2, <1>5 DEF TypeOK
<1>7. LetterOnce'
  <2> SUFFICES ASSUME NEW d \in Letters
               PROVE  /\ mounted'[d] # NoBlock <=> \A i \in DOMAIN free' : free'[i] # d
                      /\ \A i, j \in DOMAIN free' : free'[i] = d /\ free'[j] = d => i = j
    BY DEF LetterOnce
  <2>1. CASE d = c
    BY <1>3, <1>4, <1>5, <2>1
  <2>2. CASE d # c
    BY <1>4, <1>5, <2>2 DEF LetterOnce
  <2> QED
    BY <2>1, <2>2
<1>8. MountedIsLive'
  BY <1>1, <1>2, <1>4 DEF MountedIsLive
<1>9. UnmountsMounted'
  <2> SUFFICES ASSUME NEW v \in Unmounters, at'[v] # "idle"
               PROVE  /\ <<v, letter'[v]>> \in MayUnmount
                      /\ pntr'[v] = mounted'[letter'[v]] /\ pntr'[v] # NoBlock
    BY DEF UnmountsMounted
  <2>1. v # u /\ at[v] # "idle" /\ pntr'[v] = pntr[v]
    BY <1>1 DEF TypeOK
  <2>2. /\ letter[v] \in Letters /\ <<v, letter[v]>> \in MayUnmount
        /\ pntr[v] = mounted[letter[v]] /\ pntr[v] # NoBlock
    BY <2>1 DEF UnmountsMounted, TypeOK
  <2>3. letter[v] # c
    BY <1>2, <2>1, <2>2 DEF OneEach
  <2> QED
    BY <1>1, <1>4, <2>1, <2>2, <2>3
<1> QED
  BY <1>6, <1>7, <1>8, <1>9

LEMMA StepMInv == OneEach /\ MInv /\ [Next]_vars => MInv'
<1> SUFFICES ASSUME OneEach, MInv, [Next]_vars PROVE MInv'
  OBVIOUS
<1>1. ASSUME NEW b \in Blocks, Mount(b) PROVE MInv'
  BY <1>1, MountKeepsMInv
<1>2. ASSUME NEW u \in Unmounters, Prepared(u) PROVE MInv'
  BY <1>2 DEF Prepared, MInv, TypeOK, LetterOnce, MountedIsLive, UnmountsMounted
<1>3. ASSUME NEW u \in Unmounters, UnmountFinish(u) PROVE MInv'
  BY <1>3, UnmountKeepsMInv
<1>4. ASSUME NEW u \in Unmounters, NEW c \in Letters, UnmountCall(u, c) PROVE MInv'
  <2>1. TypeOK' /\ LetterOnce' /\ MountedIsLive'
    BY <1>4 DEF UnmountCall, MInv, TypeOK, LetterOnce, MountedIsLive
  <2>2. UnmountsMounted'
    BY <1>4 DEF UnmountCall, MInv, TypeOK, UnmountsMounted
  <2> QED
    BY <2>1, <2>2 DEF MInv
<1>5. ASSUME NEW t \in Users, Done(t) \/ \E c \in Letters : GetPCBPointer(t, c) PROVE MInv'
  <2>1. /\ \E x \in Blocks \cup {NoBlock} : pntr' = [pntr EXCEPT ![t] = x]
        /\ UNCHANGED <<free, mounted, live, made, at, letter>>
    BY <1>5 DEF Done, GetPCBPointer, MInv, TypeOK
  <2>2. \A u \in Unmounters : pntr'[u] = pntr[u]
    BY <2>1, TableAssumption DEF MInv, TypeOK
  <2> QED
    BY <2>1, <2>2 DEF MInv, TypeOK, LetterOnce, MountedIsLive, UnmountsMounted
<1>6. CASE UNCHANGED vars
  BY <1>6 DEF vars, MInv, TypeOK, LetterOnce, MountedIsLive, UnmountsMounted
<1> QED
  BY <1>1, <1>2, <1>3, <1>4, <1>5, <1>6 DEF Next

LEMMA AlwaysMInv == ASSUME OneEach PROVE Spec => []MInv
<1>1. MInv /\ [Next]_vars => MInv'
  BY OneEach, StepMInv
<1> QED
  BY <1>1, InitMInv, PTL DEF Spec

-----------------------------------------------------------------------------
\* mountPCBpointer and unmountPCBPointer neither lose a letter nor give it to two
\* partitions.
THEOREM LettersAreKept == ASSUME OneEach PROVE Spec => []LetterOnce
<1>1. MInv => LetterOnce
  BY DEF MInv
<1> QED
  BY <1>1, AlwaysMInv, PTL

\* Types: the stack of letters never holds anything else.
THEOREM TableTypeCorrect == ASSUME OneEach PROVE Spec => []TypeOK
<1>1. MInv => TypeOK
  BY DEF MInv
<1> QED
  BY <1>1, AlwaysMInv, PTL

\* The table never holds a block that was deleted.
THEOREM MountedBlocksLive == ASSUME OneEach PROVE Spec => []MountedIsLive
<1>1. MInv => MountedIsLive
  BY DEF MInv
<1> QED
  BY <1>1, AlwaysMInv, PTL

\* unmountPCBPointer deletes a block that exists, although it waited without the
\* mutex since it looked.
THEOREM BlocksAreDeletedOnce == ASSUME OneEach PROVE Spec => []DeletesOnce
<1>1. MInv => DeletesOnce
  BY DEF MInv, TypeOK, UnmountsMounted, MountedIsLive, DeletesOnce
<1> QED
  BY <1>1, AlwaysMInv, PTL

\* mountPCBpointer never takes the letter of a mounted partition.
THEOREM MountTakesAFreeLetter == ASSUME OneEach PROVE Spec => MountReplacesNothing
<1> DEFINE Kept == \A c \in Letters :
                      mounted'[c] # NoBlock => mounted[c] \in {NoBlock, mounted'[c]}
<1>1. ASSUME MInv, Next PROVE Kept
  <2>1. ASSUME NEW b \in Blocks, Mount(b) PROVE Kept
    <3>1. CASE free = <<>>
      BY <2>1, <3>1 DEF Mount
    <3>2. CASE free # <<>>
      <4>1. mounted[Last(free)] = NoBlock
        BY <1>1, <3>2, TopOfStack DEF MInv, TypeOK, LetterOnce
      <4> QED
        BY <1>1, <2>1, <3>2, <4>1 DEF Mount, MInv, TypeOK
    <3> QED
      BY <3>1, <3>2
  <2>2. ASSUME NEW u \in Unmounters, UnmountFinish(u) PROVE Kept
    BY <1>1, <2>2 DEF UnmountFinish, NoLongerMounted, MInv, TypeOK
  <2> QED
    BY <1>1, <2>1, <2>2 DEF Next, Prepared, UnmountCall, Done, GetPCBPointer
<1>2. MInv /\ [Next]_vars => [Kept]_vars
  BY <1>1
<1> QED
  BY <1>2, AlwaysMInv, PTL DEF Spec, MountReplacesNothing
=============================================================================

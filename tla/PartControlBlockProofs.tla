------------------------ MODULE PartControlBlockProofs ------------------------
(***************************************************************************)
(* Proofs about PartControlBlock for every set of threads and every number *)
(* of calls.                                                               *)
(***************************************************************************)
EXTENDS PartControlBlock, FiniteSetTheorems, TLAPS

CInv == TypeOK /\ CountIsOpenFiles

LEMMA HoldersAreFinite == IsFiniteSet(Holders) /\ Cardinality(Holders) \in Nat
  BY FS_Subset, FS_CardinalityType, GateAssumption DEF Holders

LEMMA SignalTyped ==
    ASSUME NEW s \in BinarySemaphores PROVE SignalB(s) \in BinarySemaphores
<1>1. s.counter \in Int /\ s.sem \in Nat /\ s.sem <= SEM_MAX /\ SEM_MAX \in Nat
  BY GateAssumption DEF BinarySemaphores
<1>2. CASE s.counter = 0
  BY <1>2 DEF SignalB
<1>3. CASE s.counter # 0
  <2>1. (IF s.counter < 0 \/ s.sem + s.counter > SEM_MAX THEN SEM_MAX ELSE s.sem + s.counter)
          \in 0..SEM_MAX
    BY <1>1, <1>3
  <2> QED BY <1>3, <2>1 DEF SignalB, BinarySemaphores
<1> QED BY <1>2, <1>3

\* A step that moves no thread into or out of "open" leaves the holders alone.
LEMMA SameHolders ==
    ASSUME TypeOK, NEW t \in Callers, NEW l \in Places, Goto(t, l), pc[t] # "open", l # "open"
    PROVE  Holders' = Holders /\ pc' \in [Callers -> Places]
  BY DEF TypeOK, Goto, Holders, Callers

LEMMA ThreadsAre ==
    /\ \A o \in Openers : o \in Callers /\ o \notin Formatters /\ o \notin Unmounters
    /\ \A f \in Formatters : f \in Callers /\ f \notin Openers /\ f \notin Unmounters
    /\ \A u \in Unmounters : u \in Callers /\ u \notin Openers /\ u \notin Formatters
  BY GateAssumption DEF Callers

LEMMA InitCInv == Init => CInv
<1> SUFFICES ASSUME Init PROVE CInv
  OBVIOUS
<1>1. Holders = {}
  BY DEF Init, Holders, Callers
<1>2. TypeOK
  BY GateAssumption DEF Init, TypeOK, NewBinarySemaphore, BinarySemaphores, Places
<1> QED BY <1>1, <1>2, FS_EmptySet DEF Init, CInv, CountIsOpenFiles

LEMMA OpenerKeepsCInv ==
    ASSUME CInv, NEW o \in Openers, OpenerStep(o) PROVE CInv'
<1>0. TypeOK /\ filesOpen = Cardinality(Holders) /\ o \in Callers
  BY ThreadsAre DEF CInv, CountIsOpenFiles
<1>1. CASE CheckPremision(o)
  <2>1. Holders' = Holders /\ pc' \in [Callers -> Places]
    BY <1>0, <1>1, SameHolders DEF CheckPremision, From, Places
  <2> QED BY <1>0, <1>1, <2>1 DEF CheckPremision, CInv, TypeOK, CountIsOpenFiles, counts, sems
<1>2. CASE OpenFails(o)
  <2>1. Holders' = Holders /\ pc' \in [Callers -> Places]
    BY <1>0, <1>2, SameHolders DEF OpenFails, From, Places
  <2> QED BY <1>0, <1>2, <2>1 DEF OpenFails, CInv, TypeOK, CountIsOpenFiles, counts, sems
<1>3. CASE IncOpenFiles(o)
  <2>1. pc' \in [Callers -> Places] /\ Holders' = Holders \cup {o} /\ o \notin Holders
    BY <1>0, <1>3 DEF IncOpenFiles, From, Goto, TypeOK, Holders, Places, Callers
  <2>2. Cardinality(Holders') = Cardinality(Holders) + 1
    BY <2>1, HoldersAreFinite, FS_AddElement
  <2> QED BY <1>0, <1>3, <2>1, <2>2 DEF IncOpenFiles, CInv, TypeOK, CountIsOpenFiles, sems
<1>4. CASE DecOpenFiles(o)
  <2>1. pc' \in [Callers -> Places] /\ Holders' = Holders \ {o} /\ o \in Holders
    BY <1>0, <1>4 DEF DecOpenFiles, From, Goto, TypeOK, Holders, Places, Callers
  <2>2. Cardinality(Holders') = Cardinality(Holders) - 1 /\ Cardinality(Holders') \in Nat
    <3>1. IsFiniteSet(Holders')
      BY <2>1, HoldersAreFinite, FS_RemoveElement
    <3> QED BY <2>1, <3>1, HoldersAreFinite, FS_RemoveElement, FS_CardinalityType
  <2>3. filesOpen' = filesOpen - 1 /\ filesOpen' \in Nat
    BY <1>0, <1>4, <2>2, HoldersAreFinite DEF DecOpenFiles
  <2>4. formatBinSem' \in BinarySemaphores /\ unmountBinSem' \in BinarySemaphores
    BY <1>0, <1>4, SignalTyped DEF DecOpenFiles, TypeOK, sems
  <2> QED BY <1>0, <1>4, <2>1, <2>2, <2>3, <2>4
          DEF DecOpenFiles, CInv, TypeOK, CountIsOpenFiles
<1> QED BY <1>1, <1>2, <1>3, <1>4 DEF OpenerStep

LEMMA SemaphoreSteps ==
    ASSUME NEW s \in BinarySemaphores
    PROVE  /\ Enqueued(s) \in BinarySemaphores
           /\ s.sem > 0 => [s EXCEPT !.sem = @ - 1] \in BinarySemaphores
  BY GateAssumption DEF Enqueued, BinarySemaphores

LEMMA FormatterKeepsCInv ==
    ASSUME CInv, NEW f \in Formatters, FormatStep(f) PROVE CInv'
<1>0. TypeOK /\ filesOpen = Cardinality(Holders) /\ f \in Callers
  BY ThreadsAre DEF CInv, CountIsOpenFiles
<1>1. /\ Holders' = Holders /\ pc' \in [Callers -> Places]
      /\ filesOpen' = filesOpen /\ wantToUnmount' = wantToUnmount
      /\ unmountBinSem' = unmountBinSem /\ alive' = alive
  <2>1. CASE FormatCall(f)
    BY <1>0, <2>1, SameHolders DEF FormatCall, sems, Places, Holders, TypeOK
  <2>2. CASE FormatEnqueue(f)
    BY <1>0, <2>2, SameHolders DEF FormatEnqueue, From, counts, Places
  <2>3. CASE FormatWake(f)
    BY <1>0, <2>3, SameHolders DEF FormatWake, From, counts, Places
  <2>4. CASE FormatFinish(f)
    BY <1>0, <2>4, SameHolders DEF FormatFinish, From, sems, Places
  <2> QED BY <2>1, <2>2, <2>3, <2>4 DEF FormatStep
<1>2. wantToFormat' \in Int /\ formatBinSem' \in BinarySemaphores /\ calls' \in [Formatters -> 0..MAX_CALLS]
  <2>1. CASE FormatCall(f)
    <3>1. calls[f] \in 0..MAX_CALLS /\ wantToFormat \in Int
      BY <1>0 DEF TypeOK
    <3>2. calls[f] < MAX_CALLS /\ calls' = [calls EXCEPT ![f] = calls[f] + 1]
      BY <2>1 DEF FormatCall
    <3>3. calls[f] + 1 \in 0..MAX_CALLS
      BY <3>1, <3>2, GateAssumption
    <3>4. calls' \in [Formatters -> 0..MAX_CALLS]
      BY <1>0, <3>2, <3>3 DEF TypeOK
    <3>5. wantToFormat' \in {wantToFormat, wantToFormat + 1, 0}
      BY <2>1 DEF FormatCall
    <3>6. wantToFormat' \in Int
      BY <3>1, <3>5
    <3> QED BY <1>0, <2>1, <3>4, <3>6 DEF FormatCall, sems, TypeOK
  <2>2. CASE FormatEnqueue(f)
    BY <1>0, <2>2, SemaphoreSteps DEF FormatEnqueue, counts, TypeOK
  <2>3. CASE FormatWake(f)
    BY <1>0, <2>3, SemaphoreSteps DEF FormatWake, counts, TypeOK
  <2>4. CASE FormatFinish(f)
    <3>1. wantToFormat \in Int /\ wantToFormat' = wantToFormat - 1
      BY <1>0, <2>4 DEF FormatFinish, TypeOK
    <3>2. wantToFormat' \in Int
      BY <3>1
    <3> QED BY <1>0, <2>4, <3>2 DEF FormatFinish, sems, TypeOK
  <2> QED BY <2>1, <2>2, <2>3, <2>4 DEF FormatStep
<1> QED BY <1>0, <1>1, <1>2 DEF CInv, TypeOK, CountIsOpenFiles

LEMMA UnmounterKeepsCInv ==
    ASSUME CInv, NEW u \in Unmounters, UnmountStep(u) PROVE CInv'
<1>0. TypeOK /\ filesOpen = Cardinality(Holders) /\ u \in Callers
  BY ThreadsAre DEF CInv, CountIsOpenFiles
<1>1. /\ Holders' = Holders /\ pc' \in [Callers -> Places]
      /\ filesOpen' = filesOpen /\ wantToFormat' = wantToFormat
      /\ formatBinSem' = formatBinSem /\ calls' = calls
  <2>1. CASE UnmountCall(u)
    BY <1>0, <2>1, SameHolders DEF UnmountCall, From, sems, Places
  <2>2. CASE UnmountEnqueue(u)
    BY <1>0, <2>2, SameHolders DEF UnmountEnqueue, From, counts, Places
  <2>3. CASE UnmountWake(u)
    BY <1>0, <2>3, SameHolders DEF UnmountWake, From, counts, Places
  <2>4. CASE UnmountFinish(u)
    BY <1>0, <2>4, SameHolders DEF UnmountFinish, From, sems, Places
  <2>5. CASE Delete(u)
    BY <1>0, <2>5, SameHolders DEF Delete, From, counts, sems, Places
  <2> QED BY <2>1, <2>2, <2>3, <2>4, <2>5 DEF UnmountStep
<1>2. wantToUnmount' \in Int /\ unmountBinSem' \in BinarySemaphores /\ alive' \in BOOLEAN
  <2>1. CASE UnmountCall(u)
    <3>1. wantToUnmount \in Int
      BY <1>0 DEF TypeOK
    <3>2. wantToUnmount' \in {wantToUnmount, wantToUnmount + 1}
      BY <2>1 DEF UnmountCall
    <3>3. wantToUnmount' \in Int
      BY <3>1, <3>2
    <3> QED BY <1>0, <2>1, <3>3 DEF UnmountCall, sems, TypeOK
  <2>2. CASE UnmountEnqueue(u)
    BY <1>0, <2>2, SemaphoreSteps DEF UnmountEnqueue, counts, TypeOK
  <2>3. CASE UnmountWake(u)
    BY <1>0, <2>3, SemaphoreSteps DEF UnmountWake, counts, TypeOK
  <2>4. CASE UnmountFinish(u)
    BY <1>0, <2>4 DEF UnmountFinish, sems, TypeOK
  <2>5. CASE Delete(u)
    BY <1>0, <2>5 DEF Delete, counts, sems, TypeOK
  <2> QED BY <2>1, <2>2, <2>3, <2>4, <2>5 DEF UnmountStep
<1> QED BY <1>0, <1>1, <1>2 DEF CInv, TypeOK, CountIsOpenFiles

LEMMA StepCInv == CInv /\ [Next]_vars => CInv'
<1> SUFFICES ASSUME CInv, [Next]_vars PROVE CInv'
  OBVIOUS
<1>1. CASE UNCHANGED vars
  BY <1>1 DEF vars, counts, sems, CInv, TypeOK, CountIsOpenFiles, Holders
<1> QED BY <1>1, OpenerKeepsCInv, FormatterKeepsCInv, UnmounterKeepsCInv DEF Next

\* The types, and the count of open files, whatever threads there are.
THEOREM GateCountsOpenFiles == Spec => [](TypeOK /\ CountIsOpenFiles)
<1>1. Init => CInv
  BY InitCInv
<1>2. CInv /\ [Next]_vars => CInv'
  BY StepCInv
<1> QED BY <1>1, <1>2, PTL DEF Spec, CInv

\* Types: the semaphores stay in their range, however often they are signalled.
THEOREM GateTypeCorrect == Spec => []TypeOK
  BY GateCountsOpenFiles, PTL

-----------------------------------------------------------------------------
\* With at most one thread of each kind, the counters of the gate are exact.

OneOfEach == /\ \A f, g \in Formatters : f = g
             /\ \A u, v \in Unmounters : u = v

GInv ==
    /\ pc \in [Callers -> Places]
    /\ \A f \in Formatters : wantToFormat = IF FormatWaits(f) THEN 1 ELSE 0
    /\ Formatters = {} => wantToFormat = 0
    /\ \A u \in Unmounters : /\ UnmountWaits(u) => wantToUnmount = 1
                             /\ pc[u] = "idle" => wantToUnmount = 0

LEMMA InitGInv == Init => GInv
  BY ThreadsAre DEF Init, GInv, FormatWaits, UnmountWaits, Places

LEMMA StepGInv == OneOfEach /\ GInv /\ [Next]_vars => GInv'
<1>a. SUFFICES ASSUME OneOfEach, GInv, [Next]_vars PROVE GInv'
  OBVIOUS
<1>0. pc \in [Callers -> Places]
  BY <1>a DEF GInv
<1>1. ASSUME NEW o \in Openers, OpenerStep(o) PROVE GInv'
  <2>1. PICK l \in Places : pc' = [pc EXCEPT ![o] = l]
    BY <1>1 DEF OpenerStep, CheckPremision, OpenFails, IncOpenFiles, DecOpenFiles, From, Goto, Places
  <2>2. wantToFormat' = wantToFormat /\ wantToUnmount' = wantToUnmount
    BY <1>1 DEF OpenerStep, CheckPremision, OpenFails, IncOpenFiles, DecOpenFiles, counts
  <2>3. pc' \in [Callers -> Places]
    BY <1>0, <2>1
  <2>4. \A t \in Formatters \cup Unmounters : pc'[t] = pc[t]
    BY <1>0, <2>1, ThreadsAre
  <2> QED BY <1>a, <2>2, <2>3, <2>4 DEF GInv, FormatWaits, UnmountWaits
<1>2. ASSUME NEW f \in Formatters, FormatStep(f) PROVE GInv'
  <2>0. f \in Callers /\ \A g \in Formatters : g = f
    BY <1>a, ThreadsAre DEF OneOfEach
  <2>1. wantToUnmount' = wantToUnmount
    BY <1>2 DEF FormatStep, FormatCall, FormatEnqueue, FormatWake, FormatFinish, counts
  <2>2. /\ pc' \in [Callers -> Places]
        /\ \A u \in Unmounters : pc'[u] = pc[u]
    BY <1>0, <1>2, <2>0, ThreadsAre
       DEF FormatStep, FormatCall, FormatEnqueue, FormatWake, FormatFinish, From, Goto, Places
  <2>3. wantToFormat' = IF FormatWaits(f)' THEN 1 ELSE 0
    <3>1. wantToFormat = IF FormatWaits(f) THEN 1 ELSE 0
      BY <1>a DEF GInv
    <3>2. CASE FormatCall(f)
      <4>1. pc[f] = "idle" /\ wantToFormat = 0
        BY <3>1, <3>2 DEF FormatCall, FormatWaits
      <4>2. \/ wantToFormat' = wantToFormat /\ pc' = pc
            \/ wantToFormat' = wantToFormat + 1 /\ Goto(f, "first to wait")
            \/ wantToFormat' = 0 /\ pc' = pc
        <5>1. 0 + 1 = 1
          OBVIOUS
        <5>2. wantToFormat + 1 = 1
          BY <4>1, <5>1, Zenon
        <5>3. \/ UNCHANGED <<wantToFormat, pc>>
              \/ wantToFormat' = wantToFormat + 1 /\ Goto(f, IF wantToFormat + 1 = 1 THEN "first to wait" ELSE "to wait")
              \/ wantToFormat' = 0 /\ UNCHANGED pc
          BY <3>2, Zenon DEF FormatCall
        <5> QED BY <5>2, <5>3, Zenon
      <4>3. CASE pc' = pc /\ wantToFormat' = 0
        BY <4>1, <4>3 DEF FormatWaits
      <4>4. CASE wantToFormat' = wantToFormat + 1 /\ Goto(f, "first to wait")
        <5>1. pc'[f] = "first to wait"
          BY <1>0, <2>0, <4>4 DEF Goto
        <5>2. FormatWaits(f)'
          BY <5>1 DEF FormatWaits
        <5>3. wantToFormat' = 1
          <6>1. 0 + 1 = 1
            OBVIOUS
          <6> QED BY <4>1, <4>4, <6>1, Zenon
        <5> QED BY <5>2, <5>3
      <4> QED BY <4>1, <4>2, <4>3, <4>4
    <3>3. CASE FormatEnqueue(f)
      BY <1>0, <2>0, <3>1, <3>3 DEF FormatEnqueue, From, Goto, FormatWaits, counts
    <3>4. CASE FormatWake(f)
      BY <1>0, <2>0, <3>1, <3>4 DEF FormatWake, From, Goto, FormatWaits, counts
    <3>5. CASE FormatFinish(f)
      <4>1. pc[f] \in {"first woken", "woken"} /\ wantToFormat' = wantToFormat - 1
        BY <3>5 DEF FormatFinish, From
      <4>2. pc'[f] = "idle"
        BY <1>0, <2>0, <3>5 DEF FormatFinish, From, Goto
      <4>3. wantToFormat = 1
        BY <3>1, <4>1 DEF FormatWaits
      <4>4. ~FormatWaits(f)'
        BY <4>2 DEF FormatWaits
      <4>5. wantToFormat' = 0
        <5>1. 1 - 1 = 0
          OBVIOUS
        <5> QED BY <4>1, <4>3, <5>1, Zenon
      <4> QED BY <4>4, <4>5
    <3> QED BY <1>2, <3>2, <3>3, <3>4, <3>5 DEF FormatStep
  <2> QED BY <1>a, <2>0, <2>1, <2>2, <2>3 DEF GInv, UnmountWaits
<1>3. ASSUME NEW u \in Unmounters, UnmountStep(u) PROVE GInv'
  <2>0. u \in Callers /\ \A v \in Unmounters : v = u
    BY <1>a, ThreadsAre DEF OneOfEach
  <2>1. wantToFormat' = wantToFormat
    BY <1>3 DEF UnmountStep, UnmountCall, UnmountEnqueue, UnmountWake, UnmountFinish, Delete, counts
  <2>2. /\ pc' \in [Callers -> Places]
        /\ \A f \in Formatters : pc'[f] = pc[f]
    BY <1>0, <1>3, <2>0, ThreadsAre
       DEF UnmountStep, UnmountCall, UnmountEnqueue, UnmountWake, UnmountFinish, Delete, From, Goto, Places
  <2>3. /\ UnmountWaits(u)' => wantToUnmount' = 1
        /\ pc'[u] = "idle" => wantToUnmount' = 0
    <3>1. /\ UnmountWaits(u) => wantToUnmount = 1
          /\ pc[u] = "idle" => wantToUnmount = 0
      BY <1>a DEF GInv
    <3>2. CASE UnmountCall(u)
      <4>1. pc[u] = "idle" /\ wantToUnmount = 0
        BY <3>1, <3>2 DEF UnmountCall, From
      <4>2. \/ wantToUnmount' = wantToUnmount + 1 /\ pc'[u] = "to wait"
            \/ wantToUnmount' = wantToUnmount /\ pc'[u] = "prepared"
        BY <1>0, <2>0, <3>2 DEF UnmountCall, From, Goto
      <4>3. CASE wantToUnmount' = wantToUnmount + 1 /\ pc'[u] = "to wait"
        <5>1. wantToUnmount' = 1
          <6>1. 0 + 1 = 1
            OBVIOUS
          <6> QED BY <4>1, <4>3, <6>1, Zenon
        <5> QED BY <4>3, <5>1
      <4>4. CASE wantToUnmount' = wantToUnmount /\ pc'[u] = "prepared"
        BY <4>4 DEF UnmountWaits
      <4> QED BY <4>2, <4>3, <4>4
    <3>3. CASE UnmountEnqueue(u) \/ UnmountWake(u)
      BY <1>0, <2>0, <3>1, <3>3 DEF UnmountEnqueue, UnmountWake, From, Goto, UnmountWaits, counts
    <3>4. CASE UnmountFinish(u) \/ Delete(u)
      BY <1>0, <2>0, <3>1, <3>4 DEF UnmountFinish, Delete, From, Goto, UnmountWaits, counts
    <3> QED BY <1>3, <3>2, <3>3, <3>4 DEF UnmountStep
  <2> QED BY <1>a, <2>0, <2>1, <2>2, <2>3 DEF GInv, FormatWaits
<1>4. CASE UNCHANGED vars
  BY <1>a, <1>4 DEF vars, counts, GInv, FormatWaits, UnmountWaits
<1> QED BY <1>a, <1>1, <1>2, <1>3, <1>4 DEF Next

\* With at most one formatting and one unmounting thread, and any number of
\* threads that open files, the gate is shut as long as either of them waits.
THEOREM GateIsShut ==
    ASSUME OneOfEach PROVE Spec => []GateShut
<1>1. Init => GInv
  BY InitGInv
<1>2. GInv /\ [Next]_vars => GInv'
  BY StepGInv
<1>3. GInv => GateShut
  BY DEF GInv, GateShut
<1> QED BY <1>1, <1>2, <1>3, PTL DEF Spec

=============================================================================

--------------------------- MODULE PartControlBlock ---------------------------
(***************************************************************************)
(* PartControlBlock (src/part_cnt_blck.cpp) with its two BinarySemaphores  *)
(* (src/binary_semaphore.cpp): the gate of a mounted partition.  Threads   *)
(* open and close files, format the partition and unmount it; format and   *)
(* unmount wait until no file is open and keep new opens out meanwhile.    *)
(*                                                                         *)
(* Every section under the block's mutex is one action.  format and        *)
(* prepareUnmount leave the mutex before waitB and take it again after, so *)
(* each is three actions: the call, the entry into waitB, the return.      *)
(***************************************************************************)
EXTENDS Integers, FiniteSets

CONSTANTS
    Openers,     \* threads that open and close files, one at a time
    Formatters,  \* threads that format the partition
    Unmounters,  \* threads that unmount it
    SEM_MAX,     \* greatest value of a Windows semaphore (32 in the code)
    MAX_CALLS    \* bound: how often a thread calls format

Callers == Openers \cup Formatters \cup Unmounters

ASSUME GateAssumption ==
    /\ SEM_MAX \in Nat \ {0} /\ MAX_CALLS \in Nat
    /\ IsFiniteSet(Openers)
    /\ Openers \cap Formatters = {} /\ Openers \cap Unmounters = {}
    /\ Formatters \cap Unmounters = {}

VARIABLES
    filesOpen, wantToFormat, wantToUnmount,   \* the fields of the block
    formatBinSem, unmountBinSem,              \* [counter, sem] of a BinarySemaphore
    alive,     \* the block has not been deleted
    pc,        \* where a thread is
    calls      \* how often a formatter has called format

counts == <<filesOpen, wantToFormat, wantToUnmount>>
sems   == <<formatBinSem, unmountBinSem>>
vars   == <<counts, sems, alive, pc, calls>>

Goto(t, l) == pc' = [pc EXCEPT ![t] = l]
From(t, k, l) == pc[t] = k /\ Goto(t, l)

-----------------------------------------------------------------------------
\* BinarySemaphore

NewBinarySemaphore == [counter |-> 0, sem |-> 0]

\* Variant: the waiter is not counted.
NotEnqueued(s) == s

\* waitB up to the wait: the thread is counted as a waiter.
Enqueued(s) == [s EXCEPT !.counter = @ + 1]

\* Variant: the counter is released at once, a negative one too.
SignalByCounter(s) == [counter |-> -1, sem |-> s.sem + s.counter]

\* signalB: "if (counter) while (counter--) ReleaseSemaphore(sem)".  A positive
\* counter releases that many; a negative one is counted down through the whole
\* range of an int, which fills the semaphore.  Either way it ends at -1.
SignalB(s) ==
    IF s.counter = 0 THEN s
    ELSE [counter |-> -1,
          sem     |-> IF s.counter < 0 \/ s.sem + s.counter > SEM_MAX
                      THEN SEM_MAX ELSE s.sem + s.counter]

-----------------------------------------------------------------------------
Init ==
    /\ filesOpen = 0 /\ wantToFormat = 0 /\ wantToUnmount = 0
    /\ formatBinSem = NewBinarySemaphore /\ unmountBinSem = NewBinarySemaphore
    /\ alive = TRUE
    /\ pc = [t \in Callers |-> "idle"]
    /\ calls = [f \in Formatters |-> 0]

\* checkPremision: an open is let in, or turned away and tried again later.
CheckPremision(o) ==
    /\ alive
    /\ wantToUnmount = 0 /\ wantToFormat = 0
    /\ From(o, "idle", "admitted")
    /\ UNCHANGED <<counts, sems, alive, calls>>

\* What openFile does after checkPremision may fail before the file is counted.
OpenFails(o) ==
    /\ alive
    /\ From(o, "admitted", "idle")
    /\ UNCHANGED <<counts, sems, alive, calls>>

\* Variant: the file is not added to those that are open.
SetOpenFiles(o) ==
    /\ alive
    /\ From(o, "admitted", "open")
    /\ filesOpen' = 1
    /\ UNCHANGED <<wantToFormat, wantToUnmount, sems, alive, calls>>

IncOpenFiles(o) ==
    /\ alive
    /\ From(o, "admitted", "open")
    /\ filesOpen' = filesOpen + 1
    /\ UNCHANGED <<wantToFormat, wantToUnmount, sems, alive, calls>>

\* decOpenFiles, with the signals it sends while it holds the mutex.
DecOpenFiles(o) ==
    /\ alive
    /\ From(o, "open", "idle")
    /\ filesOpen' = IF filesOpen - 1 < 0 THEN 0 ELSE filesOpen - 1
    /\ IF filesOpen - 1 = 0
       THEN /\ formatBinSem' = SignalB(formatBinSem)
            /\ unmountBinSem' = SignalB(unmountBinSem)
       ELSE UNCHANGED sems
    /\ UNCHANGED <<wantToFormat, wantToUnmount, alive, calls>>

\* format up to the wait, or to its end when no file is open.  The first caller
\* that waits will format, the others only wait for it.
FormatCall(f) ==
    /\ alive /\ pc[f] = "idle" /\ calls[f] < MAX_CALLS
    /\ calls' = [calls EXCEPT ![f] = @ + 1]
    /\ \/ /\ wantToUnmount # 0
          /\ UNCHANGED <<wantToFormat, pc>>
       \/ /\ wantToUnmount = 0 /\ filesOpen > 0
          /\ wantToFormat' = wantToFormat + 1
          /\ Goto(f, IF wantToFormat + 1 = 1 THEN "first to wait" ELSE "to wait")
       \/ /\ wantToUnmount = 0 /\ filesOpen <= 0
          /\ wantToFormat' = 0             \* formatBV, formatRI
          /\ UNCHANGED pc
    /\ UNCHANGED <<filesOpen, wantToUnmount, sems, alive>>

\* Variant: the caller is counted off before it waits.
FormatCountedOff(f) ==
    /\ alive
    /\ From(f, "first to wait", "first waits") \/ From(f, "to wait", "waits")
    /\ wantToFormat' = wantToFormat - 1
    /\ formatBinSem' = Enqueued(formatBinSem)
    /\ UNCHANGED <<filesOpen, wantToUnmount, unmountBinSem, alive, calls>>

FormatEnqueue(f) ==
    /\ alive
    /\ From(f, "first to wait", "first waits") \/ From(f, "to wait", "waits")
    /\ formatBinSem' = Enqueued(formatBinSem)
    /\ UNCHANGED <<counts, unmountBinSem, alive, calls>>

FormatWake(f) ==
    /\ alive
    /\ From(f, "first waits", "first woken") \/ From(f, "waits", "woken")
    /\ formatBinSem.sem > 0
    /\ formatBinSem' = [formatBinSem EXCEPT !.sem = @ - 1]
    /\ UNCHANGED <<counts, unmountBinSem, alive, calls>>

\* The rest of format: the first caller formats, every caller is counted off.
FormatFinish(f) ==
    /\ alive
    /\ From(f, "first woken", "idle") \/ From(f, "woken", "idle")
    /\ wantToFormat' = wantToFormat - 1
    /\ UNCHANGED <<filesOpen, wantToUnmount, sems, alive, calls>>

\* prepareUnmount up to the wait, or to its end when no file is open.
UnmountCall(u) ==
    /\ alive
    /\ \/ /\ filesOpen > 0
          /\ wantToUnmount' = wantToUnmount + 1
          /\ From(u, "idle", "to wait")
       \/ /\ filesOpen <= 0
          /\ wantToUnmount' = wantToUnmount    \* counted on and off again
          /\ From(u, "idle", "prepared")
    /\ UNCHANGED <<filesOpen, wantToFormat, sems, alive, calls>>

UnmountEnqueue(u) ==
    /\ alive
    /\ From(u, "to wait", "waits")
    /\ unmountBinSem' = Enqueued(unmountBinSem)
    /\ UNCHANGED <<counts, formatBinSem, alive, calls>>

UnmountWake(u) ==
    /\ alive
    /\ From(u, "waits", "woken")
    /\ unmountBinSem.sem > 0
    /\ unmountBinSem' = [unmountBinSem EXCEPT !.sem = @ - 1]
    /\ UNCHANGED <<counts, formatBinSem, alive, calls>>

\* The rest of prepareUnmount: a caller that waited is counted off twice.
UnmountFinish(u) ==
    /\ alive
    /\ From(u, "woken", "prepared")
    /\ wantToUnmount' = wantToUnmount - 2
    /\ UNCHANGED <<filesOpen, wantToFormat, sems, alive, calls>>

\* unmountPCBPointer deletes the block once prepareUnmount has returned.
Delete(u) ==
    /\ alive
    /\ From(u, "prepared", "unmounted")
    /\ alive' = FALSE
    /\ UNCHANGED <<counts, sems, calls>>

OpenerStep(o) == CheckPremision(o) \/ OpenFails(o) \/ IncOpenFiles(o) \/ DecOpenFiles(o)
FormatStep(f) == FormatCall(f) \/ FormatEnqueue(f) \/ FormatWake(f) \/ FormatFinish(f)
UnmountStep(u) ==
    UnmountCall(u) \/ UnmountEnqueue(u) \/ UnmountWake(u) \/ UnmountFinish(u) \/ Delete(u)

Next ==
    \/ \E o \in Openers : OpenerStep(o)
    \/ \E f \in Formatters : FormatStep(f)
    \/ \E u \in Unmounters : UnmountStep(u)

Spec == Init /\ [][Next]_vars

\* Threads are scheduled, semaphores are fair, and files are closed in the end;
\* nobody has to open, format or unmount anything.
Fairness ==
    /\ \A o \in Openers : WF_vars(OpenFails(o) \/ IncOpenFiles(o)) /\ WF_vars(DecOpenFiles(o))
    /\ \A f \in Formatters : /\ WF_vars(FormatEnqueue(f)) /\ SF_vars(FormatWake(f))
                             /\ WF_vars(FormatFinish(f))
    /\ \A u \in Unmounters : /\ WF_vars(UnmountEnqueue(u)) /\ SF_vars(UnmountWake(u))
                             /\ WF_vars(UnmountFinish(u)) /\ WF_vars(Delete(u))

FairSpec == Spec /\ Fairness

-----------------------------------------------------------------------------
Places == {"idle", "admitted", "open", "first to wait", "to wait", "first waits",
           "waits", "first woken", "woken", "prepared", "unmounted"}

BinarySemaphores == [counter : Int, sem : 0..SEM_MAX]

TypeOK ==
    /\ filesOpen \in Nat /\ wantToFormat \in Int /\ wantToUnmount \in Int
    /\ formatBinSem \in BinarySemaphores /\ unmountBinSem \in BinarySemaphores
    /\ alive \in BOOLEAN
    /\ pc \in [Callers -> Places]
    /\ calls \in [Formatters -> 0..MAX_CALLS]

Holders == {o \in Openers : pc[o] = "open"}

FormatWaits(f) == pc[f] \in {"first to wait", "first waits", "first woken",
                             "to wait", "waits", "woken"}
UnmountWaits(u) == pc[u] \in {"to wait", "waits", "woken"}

\* filesOpen is the number of files that are open: no close is lost or counted
\* twice, so the last close, and only the last one, signals.
CountIsOpenFiles == filesOpen = Cardinality(Holders)

\* From its call to its return a waiting format or unmount keeps the gate shut.
GateShut ==
    /\ \A f \in Formatters : FormatWaits(f) => wantToFormat # 0
    /\ \A u \in Unmounters : UnmountWaits(u) => wantToUnmount # 0

\* The partition is never formatted while a file is open on it.  Not so: an open
\* that was let in is counted only later.
Formats(f) == \/ pc[f] = "first woken" /\ pc'[f] = "idle"
              \/ pc[f] = "idle" /\ calls'[f] > calls[f] /\ pc'[f] = "idle" /\ wantToUnmount = 0
FormatsOnlyWhenClosed ==
    [][\A f \in Formatters : Formats(f) => Holders = {}]_vars

\* No thread is inside the block when it is deleted.  Not so, for the same reason.
DeletedWhenUnused ==
    ~alive => \A t \in Callers : pc[t] \in {"idle", "unmounted"}

\* A format that waits gets its turn, once the files are closed.  Not so: the last
\* close may signal before the format is in waitB.
FormatReturns == \A f \in Formatters : FormatWaits(f) ~> pc[f] = "idle"

\* The same for callers that are in waitB before the last close: it wakes a format, which
\* may find the block deleted by an unmount that was woken with it, and an unmount.
QueuedCallersReturn ==
    /\ \A f \in Formatters :
          (pc[f] \in {"first waits", "waits"} /\ filesOpen > 0) ~> (pc[f] = "idle" \/ ~alive)
    /\ \A u \in Unmounters : (pc[u] = "waits" /\ filesOpen > 0) ~> pc[u] = "unmounted"
=============================================================================

------------------------- MODULE MountedPartitionTable -------------------------
(***************************************************************************)
(* MountedPartitionTable (src/mount_part_table.cpp) with its callers in    *)
(* KernelFS (src/kernel_fs.cpp): the letters of the mounted partitions and *)
(* the control blocks behind them.                                         *)
(*                                                                         *)
(* Every section under the table's mutex is one action.  An unmount leaves *)
(* the mutex while the block prepares (PartControlBlock), and a thread     *)
(* that looked a block up uses it without the mutex.                       *)
(***************************************************************************)
EXTENDS Integers, Sequences, SequencesExt

CONSTANTS
    Blocks,        \* control blocks: every mount makes a new one
    NoBlock,       \* the null pointer
    Unmounters,    \* threads that unmount
    MayUnmount,    \* which letters each of them unmounts
    Users,         \* threads that look up a block and work with it
    NUM_OF_PARTS   \* letters (26 in the code)

Letters == 1..NUM_OF_PARTS

ASSUME TableAssumption ==
    /\ NoBlock \notin Blocks /\ NUM_OF_PARTS \in Nat \ {0}
    /\ Unmounters \cap Users = {}
    /\ MayUnmount \subseteq Unmounters \X Letters

VARIABLES
    free,      \* the stack of free letters, its top at the end
    mounted,   \* the block of each letter
    live,      \* the blocks that exist
    made,      \* the blocks that were ever made
    at,        \* where an unmounting thread is
    letter,    \* its letter
    pntr       \* the block a thread has a pointer to

vars == <<free, mounted, live, made, at, letter, pntr>>

\* Variant: the letters begin one too late.
LateStack == [i \in Letters |-> NUM_OF_PARTS + 2 - i]

\* The constructor's stack: the first letter on top.
StartStack == [i \in Letters |-> NUM_OF_PARTS + 1 - i]

\* Variant: the letter stays on the stack.
PeekMPoint == free

\* getFreeMPoint, when there is a letter.
GetFreeMPoint == Front(free)

\* Variant: the letter does not come back.
LostMountPoint(c) == free

ReturnMountPoint(c) == Append(free, c)

\* Variant: the table keeps the pointer.
StillMounted(c) == mounted

NoLongerMounted(c) == [mounted EXCEPT ![c] = NoBlock]

Init ==
    /\ free = StartStack
    /\ mounted = [c \in Letters |-> NoBlock]
    /\ live = {} /\ made = {}
    /\ at = [u \in Unmounters |-> "idle"]
    /\ letter = [u \in Unmounters |-> 1]
    /\ pntr = [t \in Unmounters \cup Users |-> NoBlock]

\* KernelFS::mount and mountPCBpointer.  With no letter left the answer is 0, and
\* the block that was made for the partition stays.
Mount(b) ==
    /\ b \notin made
    /\ made' = made \cup {b} /\ live' = live \cup {b}
    /\ IF free = <<>> THEN UNCHANGED <<free, mounted>>
       ELSE /\ free' = GetFreeMPoint
            /\ mounted' = [mounted EXCEPT ![Last(free)] = b]
    /\ UNCHANGED <<at, letter, pntr>>

\* unmountPCBPointer up to the wait; a letter that is not mounted ends it.
UnmountCall(u, c) ==
    /\ <<u, c>> \in MayUnmount
    /\ at[u] = "idle" /\ mounted[c] # NoBlock
    /\ at' = [at EXCEPT ![u] = "prepares"]
    /\ letter' = [letter EXCEPT ![u] = c]
    /\ pntr' = [pntr EXCEPT ![u] = mounted[c]]
    /\ UNCHANGED <<free, mounted, live, made>>

\* prepareUnmount returns: no file of the partition is open.
Prepared(u) ==
    /\ at[u] = "prepares"
    /\ at' = [at EXCEPT ![u] = "prepared"]
    /\ UNCHANGED <<free, mounted, live, made, letter, pntr>>

\* The rest of unmountPCBPointer, with the mutex again.
UnmountFinish(u) ==
    /\ at[u] = "prepared"
    /\ at' = [at EXCEPT ![u] = "idle"]
    /\ mounted' = NoLongerMounted(letter[u])
    /\ free' = ReturnMountPoint(letter[u])
    /\ live' = live \ {pntr[u]}
    /\ pntr' = [pntr EXCEPT ![u] = NoBlock]
    /\ UNCHANGED <<made, letter>>

\* getPCBPointer, and what openFile, format and the other callers do with it.
GetPCBPointer(t, c) ==
    /\ pntr[t] = NoBlock /\ mounted[c] # NoBlock
    /\ pntr' = [pntr EXCEPT ![t] = mounted[c]]
    /\ UNCHANGED <<free, mounted, live, made, at, letter>>

Done(t) ==
    /\ pntr[t] # NoBlock
    /\ pntr' = [pntr EXCEPT ![t] = NoBlock]
    /\ UNCHANGED <<free, mounted, live, made, at, letter>>

Next ==
    \/ \E b \in Blocks : Mount(b)
    \/ \E u \in Unmounters :
          Prepared(u) \/ UnmountFinish(u) \/ \E c \in Letters : UnmountCall(u, c)
    \/ \E t \in Users : Done(t) \/ \E c \in Letters : GetPCBPointer(t, c)

Spec == Init /\ [][Next]_vars

-----------------------------------------------------------------------------
TypeOK ==
    /\ free \in Seq(Letters)
    /\ mounted \in [Letters -> Blocks \cup {NoBlock}]
    /\ live \subseteq made /\ made \subseteq Blocks
    /\ at \in [Unmounters -> {"idle", "prepares", "prepared"}]
    /\ letter \in [Unmounters -> Letters]
    /\ pntr \in [Unmounters \cup Users -> Blocks \cup {NoBlock}]

\* Every letter is either on the stack, once, or mounted: none is lost by a mount
\* or an unmount and none is handed out twice.
LetterOnce ==
    \A c \in Letters :
        /\ mounted[c] # NoBlock <=> \A i \in DOMAIN free : free[i] # c
        /\ \A i, j \in DOMAIN free : free[i] = c /\ free[j] = c => i = j

\* The table holds only blocks that exist, each under one letter.
MountedIsLive ==
    /\ \A c \in Letters : mounted[c] # NoBlock => mounted[c] \in live
    /\ \A c, d \in Letters : mounted[c] = mounted[d] /\ mounted[c] # NoBlock => c = d

\* A block is deleted once, by the unmount that found it mounted.
DeletesOnce == \A u \in Unmounters : at[u] # "idle" => pntr[u] \in live

\* A mount never takes the letter of a mounted partition.
MountReplacesNothing ==
    [][\A c \in Letters : mounted'[c] # NoBlock => mounted[c] \in {NoBlock, mounted'[c]}]_vars

\* A thread never works with a block that has been deleted.  Not so: it uses the
\* pointer without the mutex.
UsesLiveBlock == \A t \in Users : pntr[t] # NoBlock => pntr[t] \in live
=============================================================================

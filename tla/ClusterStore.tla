---------------------------- MODULE ClusterStore ----------------------------
(***************************************************************************)
(* What the partition cache promises to the layers above it: an array of   *)
(* clusters in which every request either fails and changes nothing, or    *)
(* reads the last value written.  `stable' is what has reached the         *)
(* partition; it lags behind `store' and only ever catches up with it.     *)
(***************************************************************************)
CONSTANTS
    Clusters,   \* numbers of the clusters of the partition
    Values      \* contents a cluster may have

VARIABLES
    store,      \* what a reader of the open store must see
    stable,     \* what is on the partition itself
    live,       \* the store is open
    ret         \* answer to the latest request

vars == <<store, stable, live, ret>>

Idle           == [op |-> "none",  no |-> "none", val |-> "none", ok |-> TRUE]
Answer(op, c, v) == [op |-> op, no |-> c, val |-> v, ok |-> TRUE]
Failure(op, c)   == [op |-> op, no |-> c, val |-> "none", ok |-> FALSE]

\* The partition may at any request receive some written clusters, and nothing
\* but the value a reader would see.
CatchUp(new) ==
    stable' \in {[c \in Clusters |-> IF c \in S THEN new[c] ELSE stable[c]] :
                    S \in SUBSET Clusters}

Init ==
    /\ store \in [Clusters -> Values]
    /\ stable = store
    /\ live = FALSE
    /\ ret = Idle

Open == ~live /\ live' = TRUE /\ ret' = Idle /\ UNCHANGED <<store, stable>>

Read(c) ==
    /\ live
    /\ ret' \in {Answer("read", c, store[c]), Failure("read", c)}
    /\ CatchUp(store)
    /\ UNCHANGED <<store, live>>

Write(c, v) ==
    /\ live
    /\ \/ /\ store' = [store EXCEPT ![c] = v]
          /\ ret' = Answer("write", c, v)
       \/ /\ store' = store
          /\ ret' = Failure("write", c)
    /\ CatchUp(store)
    /\ UNCHANGED live

\* Closing writes back what it can; what could not be written is lost.
Close ==
    /\ live
    /\ live' = FALSE
    /\ CatchUp(store)
    /\ store' = stable'
    /\ ret' = Idle

Next ==
    \/ Open
    \/ \E c \in Clusters : Read(c)
    \/ \E c \in Clusters, v \in Values : Write(c, v)
    \/ Close

Spec == Init /\ [][Next]_vars
=============================================================================

------------------------------ MODULE LruQueue ------------------------------
(***************************************************************************)
(* The replacement policy the partition cache is meant to follow: a queue  *)
(* of at most Capacity clusters, the most recently used first.  A cluster  *)
(* leaves it only from the end, and only to make room.                     *)
(***************************************************************************)
EXTENDS Naturals, Sequences

CONSTANTS Clusters, Capacity

VARIABLE queue

Without(c) == SelectSeq(queue, LAMBDA d : d # c)
Full       == Len(queue) = Capacity
Room       == IF Full THEN SubSeq(queue, 1, Len(queue) - 1) ELSE queue
Queued     == {queue[k] : k \in 1..Len(queue)}

Init == queue = <<>>

Hit(c)     == c \in Queued    /\ queue' = <<c>> \o Without(c)
Load(c)    == c \notin Queued /\ queue' = <<c>> \o Room
MakeRoom   == Full /\ queue' = Room        \* room was made, the load failed
Clear      == queue' = <<>>                \* the cache is destroyed

Next == Clear \/ MakeRoom \/ \E c \in Clusters : Hit(c) \/ Load(c)

Spec == Init /\ [][Next]_queue
=============================================================================

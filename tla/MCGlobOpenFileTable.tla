------------------------- MODULE MCGlobOpenFileTable -------------------------
EXTENDS GlobOpenFileTable, TLC

\* "anchor" is in entry 0 of the directory, the one entry that can be cleared.
Anchored == 0 :> "anchor"
TwoFiles == 0 :> "anchor" @@ 1 :> "f1"

AnyTime(t, s) == TRUE

OwnerOf(t, p) == {t} \X {p} \X Operations

\* Threads in three groups; a behaviour is of one of them.  In Private each thread
\* has a file of its own, does not delete, and may find the disk full.  In Sharing
\* "k" opens "anchor" before two readers and closes it after them, and a writer
\* waits.  In Handing "t2" calls while "t1" has the file open, and "t1" closes it
\* once "t2" waits.  (The second and third are what the code gets right of sharing.)
Private == {"p1", "p2"}
Readers == {"r1", "r2"}
Sharing == Readers \cup {"k", "w1"}
Handing == {"t1", "t2"}
GroupOf(t) == CHOOSE G \in {Private, Sharing, Handing} : t \in G

GroupUses ==
    {<<"p1", "f1", op>> : op \in {"r", "w", "a"}} \cup {<<"p2", "f2", op>> : op \in {"r", "w", "a"}}
       \cup {<<t, "anchor", "r">> : t \in Readers \cup {"k"}}
       \cup {<<"w1", "anchor", "a">>, <<"w1", "f1", "a">>, <<"w1", "f1", "w">>}
       \cup Handing \X {"f1"} \X {"w", "a", "r", "delete"}

GroupCalls(t, s) ==
    /\ \A u \in Threads \ GroupOf(t) : s[u].opens = 0
    /\ t \in Handing \cup {"k"} => s[t].opens = 0
    /\ t \in Readers => s["k"].at = "open"
    /\ t = "w1" => s["k"].opens = 1 /\ s["k"].at \in {"open", "idle"}
    /\ t = "t2" => s["t1"].at = "open"

GroupCloses(t, s) ==
    /\ t = "k" => \A r \in Readers : s[r].at = "idle"
    /\ t = "t1" => s["t2"].at = "waits"

-----------------------------------------------------------------------------
\* Orders in which the code goes wrong: two threads that append to one file; one that
\* deletes a file; one that deletes the file in entry 0 while another creates one.
AppendUses   == {"t1", "t2"} \X {"anchor"} \X {"a"}
DeleteUses   == {<<"t1", "f1", "delete">>}
ClearingUses == {<<"t1", "anchor", "delete">>, <<"t2", "f2", "w">>}
=============================================================================

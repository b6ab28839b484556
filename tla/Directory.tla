------------------------------- MODULE Directory -------------------------------
(***************************************************************************)
(* What the root directory of a partition promises to the layers above: a  *)
(* numbered list of files, each with the cluster of its index and its      *)
(* size.  It is kept in memory and is on the partition after a format and  *)
(* after an unmount.                                                       *)
(***************************************************************************)
EXTENDS Integers, Sequences, SequencesExt, FiniteSetsExt

CONSTANTS
    ENTRYCNT,
    Paths,
    FileOf,        \* path -> the file it names, NoFile for a malformed one
    NoFile,
    Indices, Sizes \* the clusters an index may be in; the sizes of files

VARIABLES
    entries,   \* entry -> file, index cluster, size, or Free
    durable,   \* the same on the partition
    mounted,
    ret        \* the answer of the call just made: a number, a listing

vars == <<entries, durable, mounted, ret>>

EntryNums == 0..ENTRYCNT - 1
Free      == [file |-> NoFile, index |-> 0, size |-> 0]
AllFree   == [e \in EntryNums |-> Free]
Answer(no, list) == [no |-> no, list |-> list]
NoAnswer  == Answer(-1, <<>>)

First(S)   == IF S = {} THEN -1 ELSE Min(S)
Find(f)    == First({e \in EntryNums : entries[e].file = f})
Unused     == First({e \in EntryNums : entries[e] = Free})
Used       == {e \in EntryNums : entries[e] # Free}

\* The files from an entry on, in the order of their entries.
ListFrom(n) ==
    LET order == SetToSortSeq({e \in Used : e >= n}, <) IN
    [k \in DOMAIN order |-> entries[order[k]]]

Init ==
    /\ entries = AllFree /\ durable = AllFree
    /\ mounted = FALSE
    /\ ret = NoAnswer

Kept == UNCHANGED <<entries, durable, mounted>>

Mount ==
    /\ ~mounted /\ mounted'
    /\ ret' = NoAnswer
    /\ entries' = durable
    /\ UNCHANGED durable

Unmount ==
    /\ mounted /\ ~mounted'
    /\ ret' = NoAnswer
    /\ durable' = entries
    /\ UNCHANGED entries

Format ==
    /\ mounted /\ mounted' /\ ret' = NoAnswer
    /\ entries' = AllFree /\ durable' = AllFree

\* The entry e becomes x.
Change(e, x, answer) ==
    /\ mounted /\ mounted' /\ ret' = answer
    /\ entries' = [entries EXCEPT ![e] = x]
    /\ UNCHANGED durable

\* A new file in the first entry that is free, -1 when there is none.
Create(f) ==
    /\ f # NoFile /\ Find(f) = -1
    /\ IF Unused = -1 THEN mounted /\ ret' = NoAnswer /\ Kept
       ELSE \E c \in Indices :
               Change(Unused, [file |-> f, index |-> c, size |-> 0], Answer(Unused, <<>>))

\* A file gets another index and is empty; it gets another size; it goes.
Rewrite(e, c) == Change(e, [entries[e] EXCEPT !.index = c, !.size = 0], NoAnswer)
Resize(e, n)  == Change(e, [entries[e] EXCEPT !.size = n], NoAnswer)
Delete(e)     == Change(e, Free, NoAnswer)

\* Looking a path up: the entry of the file it names, -1 when there is no such file;
\* a malformed path names none.
LookUp(p) ==
    /\ mounted
    /\ ret' = Answer(IF FileOf[p] = NoFile THEN -1 ELSE Find(FileOf[p]), <<>>)
    /\ Kept

List(n) ==
    /\ mounted
    /\ ret' = Answer(Len(ListFrom(n)), ListFrom(n))
    /\ Kept

Next ==
    \/ Mount \/ Unmount \/ Format
    \/ \E p \in Paths : LookUp(p)
    \/ \E p \in Paths : Create(FileOf[p])
    \/ \E e \in Used, n \in Sizes : Resize(e, n)
    \/ \E e \in Used, c \in Indices : Rewrite(e, c)
    \/ \E e \in Used : Delete(e)
    \/ \E n \in EntryNums : List(n)

Spec == Init /\ [][Next]_vars
=============================================================================

------------------------------ MODULE ByteFiles ------------------------------
(***************************************************************************)
(* What the files of a partition promise to a program: a file is a         *)
(* sequence of bytes that is read, overwritten and extended at a cursor.   *)
(* A write that runs out of space leaves the file as long as it was where  *)
(* the write began, not as it was before (KernelFile::writeData), and may  *)
(* cost the program its file altogether.                                   *)
(***************************************************************************)
EXTENDS Naturals, Sequences

CONSTANTS
    Files,
    Bytes,     \* the bytes a program writes
    Absent,    \* the content of a file that does not exist
    Nothing    \* no answer, and the answer of a read at the end of the file

VARIABLES
    content,   \* the bytes of each file, or Absent
    handle,    \* where its one user is: place, mode, cursor, start of the write
    ret        \* the byte the latest call read

vars == <<content, handle, ret>>

Places == {"closed", "open", "writes", "rewrites", "lost"}
Modes  == {"r", "w", "a"}
Closed == [at |-> "closed", mode |-> "r", cursor |-> 0, begin |-> 0]

Init ==
    /\ content = [f \in Files |-> Absent]
    /\ handle = [f \in Files |-> Closed]
    /\ ret = Nothing

Exists(f) == content[f] # Absent
At(f, k)  == handle[f].at = k
Upto(s, n) == SubSeq(s, 1, n)

\* From one place to another, with the cursor at c and the content s.
Move(f, k, l, c, s) ==
    /\ At(f, k)
    /\ handle' = [handle EXCEPT ![f].at = l, ![f].cursor = c,
                                ![f].begin = IF l = "writes" THEN @ ELSE 0]
    /\ content' = [content EXCEPT ![f] = s]

Opened(f, l, mode, c, s) ==
    /\ handle' = [handle EXCEPT ![f] = [at |-> l, mode |-> mode, cursor |-> c, begin |-> 0]]
    /\ content' = [content EXCEPT ![f] = s]
    /\ ret' = Nothing

Create(f) == At(f, "closed") /\ ~Exists(f) /\ Opened(f, "open", "w", 0, <<>>)
Reopen(f, mode) ==
    /\ At(f, "closed") /\ Exists(f) /\ mode # "w"
    /\ Opened(f, "open", mode, IF mode = "a" THEN Len(content[f]) ELSE 0, content[f])
Empty(f)  == At(f, "closed") /\ Exists(f) /\ Opened(f, "rewrites", "w", 0, <<>>)
Ready(f)  == Move(f, "rewrites", "open", 0, <<>>) /\ ret' = Nothing

Begin(f) ==
    /\ At(f, "open") /\ handle[f].mode # "r"
    /\ handle' = [handle EXCEPT ![f].at = "writes", ![f].begin = handle[f].cursor]
    /\ ret' = Nothing
    /\ UNCHANGED content

\* A byte at the cursor; the last one ends the call.
Put(f, v) ==
    LET c == handle[f].cursor IN
    /\ \E l \in {"open", "writes"} :
          Move(f, "writes", l, c + 1, IF c = Len(content[f]) THEN Append(content[f], v)
                                      ELSE [content[f] EXCEPT ![c + 1] = v])
    /\ ret' = Nothing

\* No space is left: the file ends where the write began.
Fail(f) ==
    /\ Move(f, "writes", "open", handle[f].begin, Upto(content[f], handle[f].begin))
    /\ ret' = Nothing

\* A call that fails may take the file and its handle with it.
Lose(f) ==
    /\ handle[f].at \in {"closed", "writes", "rewrites"}
    /\ handle' = [handle EXCEPT ![f] = [Closed EXCEPT !.at = "lost"]]
    /\ content' = [content EXCEPT ![f] = Absent]
    /\ ret' = Nothing

\* A read answers the byte at the cursor; at the end there is none.
Read(f) ==
    LET c == handle[f].cursor IN
    /\ At(f, "open")
    /\ IF c < Len(content[f])
       THEN Move(f, "open", "open", c + 1, content[f]) /\ ret' = content[f][c + 1]
       ELSE Move(f, "open", "open", c, content[f]) /\ ret' = Nothing

Seek(f) ==
    /\ At(f, "open")
    /\ \E p \in 0..Len(content[f]) : Move(f, "open", "open", p, content[f])
    /\ ret' = Nothing

Truncate(f) ==
    /\ handle[f].mode # "r"
    /\ Move(f, "open", "open", handle[f].cursor, Upto(content[f], handle[f].cursor))
    /\ ret' = Nothing

Close(f) ==
    /\ At(f, "open")
    /\ handle' = [handle EXCEPT ![f] = Closed]
    /\ ret' = Nothing
    /\ UNCHANGED content

Delete(f) ==
    /\ At(f, "closed") /\ Exists(f)
    /\ content' = [content EXCEPT ![f] = Absent]
    /\ ret' = Nothing
    /\ UNCHANGED handle

Next ==
    \E f \in Files :
        \/ Create(f) \/ Empty(f) \/ Ready(f) \/ Close(f) \/ Delete(f)
        \/ \E mode \in {"r", "a"} : Reopen(f, mode)
        \/ Begin(f) \/ Fail(f) \/ Lose(f) \/ \E v \in Bytes : Put(f, v)
        \/ Read(f) \/ Seek(f) \/ Truncate(f)

Spec == Init /\ [][Next]_vars
=============================================================================

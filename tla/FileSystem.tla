------------------------------ MODULE FileSystem ------------------------------
(***************************************************************************)
(* What the file system promises its callers about one partition: files    *)
(* with a size, of which threads have some open.  A file has one writer or *)
(* many readers and does not disappear while it is open; while any file is *)
(* open the partition is neither formatted nor unmounted; unmounting and   *)
(* mounting keep every file as it is.                                      *)
(***************************************************************************)
CONSTANTS Threads, Paths, Modes, Sizes, Absent

VARIABLES
    files,    \* the size of every file, Absent for one that does not exist
    handles,  \* who has which file open, and in which mode
    mounted

vars == <<files, handles, mounted>>

Handle(t, p, m) == [thread |-> t, path |-> p, mode |-> m]
HandlesOf(p)    == {h \in handles : h.path = p}

Init ==
    /\ files \in [Paths -> Sizes \cup {Absent}]
    /\ handles = {}
    /\ mounted = TRUE

Create(p) ==
    /\ mounted /\ files[p] = Absent
    /\ files' = [files EXCEPT ![p] = 0]
    /\ UNCHANGED <<handles, mounted>>

\* The old contents go before the file is opened with 'w'.
Empty(p) ==
    /\ mounted /\ files[p] # Absent /\ HandlesOf(p) = {}
    /\ files' = [files EXCEPT ![p] = 0]
    /\ UNCHANGED <<handles, mounted>>

Delete(p) ==
    /\ mounted /\ files[p] # Absent /\ HandlesOf(p) = {}
    /\ files' = [files EXCEPT ![p] = Absent]
    /\ UNCHANGED <<handles, mounted>>

Open(t, p, m) ==
    /\ mounted /\ files[p] # Absent
    /\ \A h \in HandlesOf(p) : m = "r" /\ h.mode = "r"
    /\ \A h \in handles : h.thread # t
    /\ handles' = handles \cup {Handle(t, p, m)}
    /\ UNCHANGED <<files, mounted>>

\* A writer leaves the file at some size, a reader as it is.
Close(h) ==
    /\ h \in handles
    /\ handles' = handles \ {h}
    /\ IF h.mode = "r" THEN files' = files
       ELSE \E s \in Sizes : files' = [files EXCEPT ![h.path] = s]
    /\ UNCHANGED mounted

Format ==
    /\ mounted /\ handles = {}
    /\ files' = [p \in Paths |-> Absent]
    /\ UNCHANGED <<handles, mounted>>

Unmount ==
    /\ mounted /\ handles = {}
    /\ mounted' = FALSE
    /\ UNCHANGED <<files, handles>>

Mount ==
    /\ ~mounted /\ mounted' = TRUE
    /\ UNCHANGED <<files, handles>>

Next ==
    \/ \E p \in Paths : Create(p) \/ Empty(p) \/ Delete(p)
    \/ \E t \in Threads, p \in Paths, m \in Modes : Open(t, p, m)
    \/ \E h \in handles : Close(h)
    \/ Format \/ Unmount \/ Mount

Spec == Init /\ [][Next]_vars
=============================================================================

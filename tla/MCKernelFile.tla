----------------------------- MODULE MCKernelFile -----------------------------
EXTENDS KernelFile, FiniteSetsExt, TLC

\* "f" is in entry 0 of the directory and reaches two second-level indices, "g" one.
MCMaxSize(f) == IF f = "f" THEN 9 ELSE 3

\* Each position of each file has bytes of its own, two at some positions.
Base(f) == IF f = "f" THEN 0 ELSE 40
MCBytes == 1..60
MCWrites(f, p) == {Base(f) + p + 1} \cup IF p = 3 /\ f = "f" THEN {p + 11} ELSE {}

Lowest(S) == IF S = {} THEN {} ELSE {Min(S)}

\* The partition is empty, and large enough for both files; or other files have all
\* but a few of its clusters.  The last cluster tells which.
MCData   == 2..11
MCTaken  == {{}} \cup {k..11 : k \in {2, 3, 5, 8, 9, 10}}
Crowded(A) == Max(MCData) \in A

\* What is in a slot before: as after createEntry, the end of another file, or
\* memory nobody has written.
MCStale == {[IInum |-> 0, IILevDataLeft |-> 0], [IInum |-> 3, IILevDataLeft |-> 2],
            [IInum |-> 99, IILevDataLeft |-> -7]}

ForWriting(h) == h.at # "closed" /\ h.mode # "r"
Others(f)     == Files \ {f}

\* What the code supports.  After a truncation or a failed write nothing is
\* allocated until the file has been deleted or rewritten; where the disk may
\* become full there is one writer.
SupportedOpen(f, mode, s, c, A) ==
    /\ f = "f" \/ mode = "w"
    /\ f = "f" \/ ~Crowded(A) \/ (s["f"].at = "rewrites" /\ 3 \in A)
    /\ mode = "w" => c \subseteq {f}
    /\ mode # "r" /\ Crowded(A) =>
          \A g \in Others(f) : ForWriting(s[g]) => s[g].at = "rewrites"

LastII(s) == II_LEV_POINTERS - s.IILevLeft - 1

\* No growth after a cut; bytes before the end are overwritten where the index in
\* memory is the right one.
SupportedWrite(f, n, s, c, A) ==
    LET p == s[f].cursor IN
    /\ c = {} \/ p + n <= s[f].size
    /\ Crowded(A) \/ p + n <= 3
    /\ Crowded(A) => \A g \in Others(f) : ~ForWriting(s[g])
    /\ \A q \in p..p + n - 1 : q < s[f].size /\ Block(q) >= I_LEV_DATA_POINTERS =>
          IIEntry(Block(q)) - I_LEV_DATA_POINTERS = LastII(s[f])

\* Bytes of the second level are read where the index is on the partition.
SupportedRead(s, A) ==
    \/ s.mode = "r" \/ Block(s.cursor) < I_LEV_DATA_POINTERS
    \/ IIEntry(Block(s.cursor)) - I_LEV_DATA_POINTERS < LastII(s)

SupportedSeek(f, p, A) == Crowded(A)

SupportedCut(f, s) ==
    Crowded(allocated) /\ \A g \in Others(f) : s[g].at \notin {"writes", "rewrites"}

-----------------------------------------------------------------------------
\* One file, whatever its user does.
AnyOpen(f, mode, s, c, A) == TRUE
AnyWrite(f, n, s, c, A) == TRUE
AnyRead(s, A) == TRUE
AnySeek(f, p, A) == TRUE
AnyCut(f, s) == TRUE
Roomy == {{}}
=============================================================================

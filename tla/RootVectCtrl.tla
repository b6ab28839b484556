----------------------------- MODULE RootVectCtrl -----------------------------
(***************************************************************************)
(* RootVectCtrl (src/root_vec_ctrl.cpp), the root directory as the bytes   *)
(* of one cluster, with the parsing of paths it relies on                  *)
(* (src/path_tokenizer.cpp).  The calls are those of the rest of the       *)
(* program, one after the other; which threads make them, what comes       *)
(* between and whom the gate of the partition refuses is in                *)
(* GlobOpenFileTable and PartControlBlock.                                 *)
(*                                                                         *)
(* Not here: bytes 0 to 2 of a path beyond whether they are a letter, ':'  *)
(* and '\', and what is done with a malformed path after its look-up (a    *)
(* null pointer is followed).                                              *)
(***************************************************************************)
EXTENDS Integers, Sequences, SequencesExt, FiniteSetsExt

CONSTANTS
    ENTRYCNT, FNAMELEN, FEXTLEN,
    NUM_SIZE,      \* bytes of a cluster's number and of a size (4 in the code)
    BYTE,          \* values of a byte
    Space, Dot,
    Paths,         \* [rooted, rest]: whether it begins as it should; what follows
    Asked,         \* the paths that programs look up
    NoFile,
    Indices, Sizes,   \* bounds: the numbers that are written
    Deletable         \* the entries that are deleted: clearing works for entry 0

Numbers == 0..BYTE^NUM_SIZE - 1

ASSUME DirectoryAssumption ==
    /\ ENTRYCNT \in Nat \ {0} /\ FNAMELEN \in Nat \ {0} /\ FEXTLEN \in Nat \ {0}
    /\ NUM_SIZE \in Nat \ {0} /\ BYTE \in Nat \ {0}
    /\ \A p \in Paths : p.rooted \in BOOLEAN /\ p.rest \in Seq(1..BYTE - 1)
    /\ Asked \subseteq Paths
    /\ Indices \subseteq Numbers \ {0} /\ Sizes \subseteq Numbers /\ 0 \in Sizes
    /\ Deletable \subseteq 0..ENTRYCNT - 1

VARIABLES
    rootIndex,   \* the cluster of the directory in memory
    stored,      \* the same on the partition
    mounted,
    ret          \* the answer of the call just made

vars == <<rootIndex, stored, mounted, ret>>

-----------------------------------------------------------------------------
\* Paths.  A name and an extension are what is before and after the first dot,
\* filled with spaces; a null pointer when one of them is too long or missing.
Null == <<>>

DotAt(s) == Min({i \in DOMAIN s : s[i] = Dot} \cup {Len(s) + 1})

Filled(s, n) == s \o [i \in 1..n - Len(s) |-> Space]

GetFileName(p) ==
    IF ~p.rooted \/ DotAt(p.rest) - 1 > FNAMELEN THEN Null
    ELSE Filled(SubSeq(p.rest, 1, DotAt(p.rest) - 1), FNAMELEN)
GetFileExt(p) ==
    LET d == DotAt(p.rest) IN
    IF ~p.rooted \/ d > Len(p.rest) \/ d - 1 > FNAMELEN \/ Len(p.rest) - d > FEXTLEN
    THEN Null
    ELSE Filled(SubSeq(p.rest, d + 1, Len(p.rest)), FEXTLEN)

-----------------------------------------------------------------------------
\* The bytes of an entry: name, extension, one that is reserved, index cluster, size.
ROOT_ENTRY_OFFSET == FNAMELEN + FEXTLEN + 1 + 2 * NUM_SIZE
Start(no)   == no * ROOT_ENTRY_OFFSET
IndexAt(no) == Start(no) + FNAMELEN + FEXTLEN + 1
SizeAt(no)  == IndexAt(no) + NUM_SIZE

EntryNums == 0..ENTRYCNT - 1
Blank     == [i \in 0..ENTRYCNT * ROOT_ENTRY_OFFSET - 1 |-> 0]

Get(r, at, n)    == [i \in 1..n |-> r[at + i - 1]]
Put(r, at, s)    == [i \in DOMAIN r |-> IF i \in at..at + Len(s) - 1 THEN s[i - at + 1] ELSE r[i]]
Clear(r, at, to) == [i \in DOMAIN r |-> IF i >= at /\ i < to THEN 0 ELSE r[i]]

\* A number, lowest byte first.
Digits(n) == [i \in 1..NUM_SIZE |-> (n \div BYTE^(i - 1)) % BYTE]
Values    == [s \in [1..NUM_SIZE -> 0..BYTE - 1] |-> FoldRight(LAMBDA b, v : v * BYTE + b, s, 0)]
Value(s)  == Values[s]

\* writeDirEntry; the reserved byte goes where the index cluster's first one follows.
WriteDirEntry(r, no, e) ==
    Put(Put(Put(Put(Put(r, Start(no), e.name), Start(no) + FNAMELEN, e.ext),
                IndexAt(no), <<0>>), IndexAt(no), Digits(e.indexCluster)), SizeAt(no), Digits(e.size))

ReadDirEntry(r, no) ==
    [name |-> Get(r, Start(no), FNAMELEN), ext |-> Get(r, Start(no) + FNAMELEN, FEXTLEN),
     indexCluster |-> Value(Get(r, IndexAt(no), NUM_SIZE)),
     size |-> Value(Get(r, SizeAt(no), NUM_SIZE))]

\* The loops of these three begin in the entry and end where entry 0 ends.
ClearDirEntry(r, no)     == Clear(r, Start(no), ROOT_ENTRY_OFFSET)
ClearDirEntryName(r, no) == Clear(r, Start(no), FNAMELEN)
ClearDirEntryExt(r, no)  == Clear(r, Start(no) + FNAMELEN, FNAMELEN + FEXTLEN)

First(S) == IF S = {} THEN -1 ELSE Min(S)

CheckForName(r, name, ext) ==
    First({no \in EntryNums : /\ Get(r, Start(no), FNAMELEN) = name
                              /\ Get(r, Start(no) + FNAMELEN, FEXTLEN) = ext})
GetFreeEntry(r) == First({no \in EntryNums : r[Start(no)] = 0})

\* A malformed path is answered 0, the number of an entry.
DoesExist(r, p) ==
    IF Null \in {GetFileName(p), GetFileExt(p)} THEN 0
    ELSE CheckForName(r, GetFileName(p), GetFileExt(p))

\* Variant: the size goes where the index cluster is.
UpdateFileSizeLow(r, no, n) == Put(r, IndexAt(no), Digits(n))

UpdateFileSize(r, no, n) == Put(r, SizeAt(no), Digits(n))

\* readRootDir.  copyEnry copies more bytes of the extension than there are; the
\* fields behind it are assigned after that.  (On the order of its increments, see
\* the README.)
IsEmpty(e) == e.indexCluster = 0 /\ e.size = 0 /\ e.name[1] = 0 /\ e.ext[1] = 0
ReadRootDir(r, from) ==
    SelectSeq([i \in 1..ENTRYCNT - from |-> ReadDirEntry(r, from + i - 1)], LAMBDA e : ~IsEmpty(e))

-----------------------------------------------------------------------------
Answer(no, list) == [no |-> no, list |-> list]
NoAnswer         == Answer(-1, <<>>)

Init ==
    /\ rootIndex = Blank /\ stored = Blank
    /\ mounted = FALSE
    /\ ret = NoAnswer

\* The constructor; the destructor; the partition keeps what is written at once.
Mount ==
    /\ ~mounted /\ mounted' = TRUE
    /\ rootIndex' = stored /\ ret' = NoAnswer
    /\ UNCHANGED stored

Unmount ==
    /\ mounted /\ mounted' = FALSE
    /\ stored' = rootIndex /\ ret' = NoAnswer
    /\ UNCHANGED rootIndex

FormatRI ==
    /\ mounted
    /\ rootIndex' = Blank /\ stored' = Blank /\ ret' = NoAnswer
    /\ UNCHANGED mounted

Changed(r) == mounted /\ rootIndex' = r /\ UNCHANGED <<stored, mounted>>

\* openFile with 'w' of a file that is not there: createEntry.
CreateEntry(p, c) ==
    LET no == GetFreeEntry(rootIndex) IN
    /\ DoesExist(rootIndex, p) = -1
    /\ ret' = Answer(no, <<>>)
    /\ IF no = -1 THEN mounted /\ UNCHANGED <<rootIndex, stored, mounted>>
       ELSE Changed(WriteDirEntry(rootIndex, no,
                [name |-> GetFileName(p), ext |-> GetFileExt(p), indexCluster |-> c, size |-> 0]))

\* ... of a file that is: reopenGOFEntryWithDelete.
RewriteEntry(p, c) ==
    LET no == DoesExist(rootIndex, p) IN
    /\ no # -1 /\ GetFileName(p) # Null /\ GetFileExt(p) # Null
    /\ Changed(WriteDirEntry(ClearDirEntry(rootIndex, no), no,
                [name |-> GetFileName(p), ext |-> GetFileExt(p), indexCluster |-> c, size |-> 0]))
    /\ ret' = NoAnswer

\* ... when no cluster is left: the entry is cleared, as far as that goes.
RewriteFails(p) ==
    LET no == DoesExist(rootIndex, p) IN
    /\ no # -1 /\ GetFileName(p) # Null /\ GetFileExt(p) # Null
    /\ Changed(ClearDirEntry(rootIndex, no))
    /\ ret' = NoAnswer

\* closeEntry of a file that was open for writing.
CloseEntry(no, n) ==
    /\ ~IsEmpty(ReadDirEntry(rootIndex, no))
    /\ Changed(UpdateFileSize(rootIndex, no, n))
    /\ ret' = NoAnswer

\* KernelFS::deleteFile and GlobOpenFileTable::deleteFile: first the name, then all.
DeleteFile(p) ==
    LET no == DoesExist(rootIndex, p) IN
    /\ no \in Deletable /\ GetFileName(p) # Null /\ GetFileExt(p) # Null
    /\ Changed(ClearDirEntry(ClearDirEntryExt(ClearDirEntryName(rootIndex, no), no), no))
    /\ ret' = NoAnswer

LookUp(p) ==
    /\ mounted
    /\ ret' = Answer(DoesExist(rootIndex, p), <<>>)
    /\ UNCHANGED <<rootIndex, stored, mounted>>

ListFrom(from) ==
    /\ mounted
    /\ ret' = Answer(Len(ReadRootDir(rootIndex, from)), ReadRootDir(rootIndex, from))
    /\ UNCHANGED <<rootIndex, stored, mounted>>

Next ==
    \/ Mount \/ Unmount \/ FormatRI
    \/ \E p \in Asked : LookUp(p)
    \/ \E p \in Paths : DeleteFile(p) \/ RewriteFails(p)
    \/ \E p \in Paths, c \in Indices : CreateEntry(p, c) \/ RewriteEntry(p, c)
    \/ \E no \in EntryNums : ListFrom(no) \/ \E n \in Sizes : CloseEntry(no, n)

Spec == Init /\ [][Next]_vars

\* FS::doesExist, which nothing in the repository calls.
Exists(p) ==
    /\ mounted
    /\ ret' = Answer(IF DoesExist(rootIndex, p) = 0 THEN 0 ELSE 1, <<>>)
    /\ UNCHANGED <<rootIndex, stored, mounted>>

PublicSpec == Init /\ [][Next \/ \E p \in Paths : Exists(p)]_vars

-----------------------------------------------------------------------------
\* The file a path names: a name without a dot, a dot, an extension, neither too
\* long; spaces at the end of either do not count.
Trimmed(s)   == SubSeq(s, 1, Max({0} \cup {i \in DOMAIN s : s[i] # Space}))
TrimmedNames == [s \in [1..FNAMELEN -> 0..BYTE - 1] |-> Trimmed(s)]
TrimmedExts  == [s \in [1..FEXTLEN -> 0..BYTE - 1] |-> Trimmed(s)]

NameOf(p) ==
    LET Parts == {i \in DOMAIN p.rest : /\ p.rest[i] = Dot /\ \A j \in 1..i - 1 : p.rest[j] # Dot
                                        /\ i - 1 <= FNAMELEN /\ Len(p.rest) - i <= FEXTLEN} IN
    IF ~p.rooted \/ Parts = {} THEN NoFile
    ELSE LET i == CHOOSE i \in Parts : TRUE IN
         <<Trimmed(SubSeq(p.rest, 1, i - 1)), Trimmed(SubSeq(p.rest, i + 1, Len(p.rest)))>>

FileOf == [p \in Paths |-> NameOf(p)]

\* The directory is a numbered list of files, whatever was created, resized,
\* rewritten, deleted or mounted again, and look-ups and listings answer from it.
\* (Not so for programs that look a malformed path up: it is taken for entry 0.)
Abstract(e) ==
    IF IsEmpty(e) THEN [file |-> NoFile, index |-> 0, size |-> 0]
    ELSE [file |-> <<TrimmedNames[e.name], TrimmedExts[e.ext]>>,
          index |-> e.indexCluster, size |-> e.size]

Promise == INSTANCE Directory WITH
    entries <- [no \in EntryNums |-> Abstract(ReadDirEntry(rootIndex, no))],
    durable <- [no \in EntryNums |-> Abstract(ReadDirEntry(stored, no))],
    ret     <- [ret EXCEPT !.list = [k \in DOMAIN ret.list |-> Abstract(ret.list[k])]]

ImplementsDirectory == Promise!Spec

\* FS::doesExist answers 1 for the files that are there.  Not so: it answers 0 for
\* the file in entry 0 and for a malformed path, and 1 for everything else.
ExistsTells ==
    [][\A p \in Paths : Exists(p) =>
          (ret'.no = 1 <=> FileOf[p] # NoFile /\ Promise!Find(FileOf[p]) # -1)]_vars

\* fs.h says of readRootDir that its argument is the number of the valid entry from
\* which reading begins.  Not so: the entries that are free count too.
ListsFromValid ==
    [][\A n \in EntryNums : ListFrom(n) =>
          ret'.list = LET all == ReadRootDir(rootIndex, 0) IN SubSeq(all, n + 1, Len(all))]_vars
=============================================================================

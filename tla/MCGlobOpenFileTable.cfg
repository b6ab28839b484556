SPECIFICATION FairSpec
CONSTANTS
    Threads = {"p1", "p2", "k", "r1", "r2", "w1", "t1", "t2"}
    Paths = {"anchor", "f1", "f2"}
    NoFile = NoFile
    Uses <- GroupUses
    CallsWhen <- GroupCalls
    ClosesWhen <- GroupCloses
    InitDir <- TwoFiles
    ENTRYCNT = 3
    START_SIZE = 4
    INCREMENT = 2
    Starved <- Private
    UINT_MAX = 15
    MAX_SIZE = 1
    MAX_OPENS = 2
    MAX_TABLE = 4
INVARIANTS
    TypeOK
    OneWriter
    HandleIsItsFile
    EntryIsItsFile
    LocksMatchHolders
    FilesOpenCounts
    ReaderSeesStoredSize
    NamesUnique
PROPERTIES
    CallsReturn
CHECK_DEADLOCK FALSE

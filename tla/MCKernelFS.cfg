SPECIFICATION KernelSpec
CONSTANTS
    Threads = {"k", "r1", "p1", "d"}
    Paths = {"anchor", "f1"}
    NoFile = NoFile
    Uses <- MCUses
    CallsWhen <- MCCalls
    ClosesWhen <- MCCloses
    InitDir <- AnchorOnly
    ENTRYCNT = 2
    START_SIZE = 3
    INCREMENT = 2
    Starved = {}
    UINT_MAX = 15
    MAX_SIZE = 1
    MAX_OPENS = 2
    MAX_TABLE = 3
    Formatters = {"f"}
    Unmounters = {"u"}
    SEM_MAX = 4
    MAX_CALLS = 1
    OpensWhen <- MCOpens
    ShutsWhen <- MCShuts
    MAX_MOUNTS = 1
PROPERTIES
    ImplementsFileSystem
    WaitersReturn
CHECK_DEADLOCK FALSE

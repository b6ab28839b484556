SPECIFICATION Spec
CONSTANTS
    Files = {"f", "g"}
    Deletable = {"f"}
    Data <- MCData
    Taken <- MCTaken
    ClusterSize = 2
    I_LEV_DATA_POINTERS = 1
    II_LEV_POINTERS = 2
    II_LEV_DATA_POINTERS = 3
    Bytes <- MCBytes
    Nothing = Nothing
    Absent = Absent
    Stale <- MCStale
    MaxSize <- MCMaxSize
    Lengths = {3}
    Writes <- MCWrites
    Answers <- Lowest
    MayOpen <- SupportedOpen
    MayWrite <- SupportedWrite
    MaySeek <- SupportedSeek
    MayRead <- SupportedRead
    MayCut <- SupportedCut
INVARIANTS
    TypeOK
    UsedIsAllocated
    ReleasesOnlyOwn
    NothingLeaks
    LeftMatchesSize
PROPERTIES
    WritesStayInFile
    ImplementsByteFiles
CHECK_DEADLOCK FALSE

SPECIFICATION AnySpec
CONSTANTS
    Files = {"f"}
    Deletable = {"f"}
    Data <- MCData
    Taken <- Roomy
    ClusterSize = 2
    I_LEV_DATA_POINTERS = 1
    II_LEV_POINTERS = 2
    II_LEV_DATA_POINTERS = 3
    Bytes <- MCBytes
    Nothing = Nothing
    Absent = Absent
    Stale <- MCStale
    MaxSize <- MCMaxSize
    Lengths = {3}
    Writes <- MCWrites
    Answers <- Lowest
    MayOpen <- AnyOpen
    MayWrite <- AnyWrite
    MaySeek <- AnySeek
    MayRead <- AnyRead
    MayCut <- AnyCut
PROPERTIES
    ReadsContent
CHECK_DEADLOCK FALSE

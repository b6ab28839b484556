SPECIFICATION FairSpec
CONSTANTS
    Openers = {o1, o2, o3}
    Formatters = {f1}
    Unmounters = {u1}
    SEM_MAX = 4
    MAX_CALLS = 1
INVARIANTS
    TypeOK
    CountIsOpenFiles
    GateShut
PROPERTIES
    QueuedCallersReturn
CHECK_DEADLOCK FALSE

SPECIFICATION Spec
CONSTANTS
    CACHE_SIZE = 3
    LRU_START_VAL = 4
    Clusters = {c1, c2, c3, c4}
    Values = {v1, v2}
    Unset = Unset
SYMMETRY Symmetry
INVARIANTS
    TypeOK
    NoDoubleEntry
    CleanIsOnDisk
    LruChain
PROPERTIES
    NoBlockLost
    ImplementsStore
    ImplementsLru

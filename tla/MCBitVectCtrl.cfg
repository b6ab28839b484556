SPECIFICATION Spec
CONSTANTS
    clustersInPartition = 8
    F_CLUST_POOL_SIZE = 3
    ClusterSize = 3
    BYTE_SIZE = 4
    MAX_MOUNTS = 2
INVARIANTS
    TypeOK
    PoolIsFree
    BitsMatchOwners
PROPERTIES
    FailsOnlyWhenFull
    AllocatesFree
CHECK_DEADLOCK FALSE

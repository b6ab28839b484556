SPECIFICATION Spec
CONSTANTS
    clustersInPartition = 7
    F_CLUST_POOL_SIZE = 2
    ClusterSize = 3
    BYTE_SIZE = 4
    MAX_MOUNTS = 2
PROPERTIES
    NeverTakesOwned
CHECK_DEADLOCK FALSE

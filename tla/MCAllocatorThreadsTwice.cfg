SPECIFICATION Spec
CONSTANTS
    Threads = {t1, t2}
    Data <- Clusters2To6
    F_CLUST_POOL_SIZE = 3
    BYTE_SIZE = 4
INVARIANTS
    NoSharedCluster
CHECK_DEADLOCK FALSE

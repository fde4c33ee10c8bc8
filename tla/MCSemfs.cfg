CONSTANTS
    Threads = {t1, t2, t3}
    Names = {a}
    Sems = {s1, s2, s3}
    SEMFS_ROOTDIR = 2
    UINT_MAX = 2
    Environments <- SomeEvents
    NULL = NULL
SPECIFICATION Spec
INVARIANTS NoPanic SemaphoresRight
PROPERTY OpenReturns
CHECK_DEADLOCK FALSE

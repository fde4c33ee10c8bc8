CONSTANTS
    menu = menu  t1 = t1  t2 = t2  t3 = t3
    Menu = menu
    NULL = NULL
    Threads = {menu, t1, t2, t3}
    Structs = {s1, s2, s3}
    MAX_PROCESSES = 3
    INT_LIMIT = 16
    Codes <- SomeCodes
    Environments <- AllEnvironments
SPECIFICATION LiveSpec
INVARIANTS NoPanic WaitsForItsChild
PROPERTY WaitReturns
CHECK_DEADLOCK FALSE

SPECIFICATION Spec
CONSTANTS
    Threads = {t1, t2}
    Callers = {k1, k2}
    CPUs = {c1, c2}
    AsIds = {1, 2, 3}
    NULL = NULL
    FIRSTPADDR = 1
    LASTPADDR = 10
    ADDRPAGES = 16
    Settings <- SomeSettings
    PAGE_SIZE = 8
    sizes <- Sizes
    NUM_PAGEREFPAGES = 2
    NPAGEREFS_PER_PAGE = 3
    Requests = {2, 3, 9, 125}
    MAXHELD = 2
    NUM_TLB = 3
    USERSTACK = 8
    DUMBVM_STACKPAGES = 1
    Programs <- SomePrograms
    WORD = 16
    USERSPACETOP = 8
    KARGBUF = 24
SYMMETRY Symmetry
INVARIANTS NoPanic HeapSound MemoryApart UserDataRight
CHECK_DEADLOCK FALSE

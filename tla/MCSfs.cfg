CONSTANTS
    Names = {a, b}
    NBLOCKS = 8
    BLOCKSIZE = 2
    DIRSIZE = 1
    NDIRECT = 1
    DBPERIDB = 2
    WRITES <- SomeWrites
    LENGTHS = {0, 2}
    MAXREFS = 2
    MAXIO = 10
    MAXCALLS = 4
    Environments <- EachEvent
    NULL = NULL
SPECIFICATION Spec
INVARIANTS NoPanic Consistent SyncedSurvives
PROPERTY Refines
SYMMETRY Symmetry
CHECK_DEADLOCK FALSE

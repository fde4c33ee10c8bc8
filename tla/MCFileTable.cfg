CONSTANTS
    p1 = p1  p2 = p2
    Procs = {p1, p2}
    First = p1
    Files = {f1, f2}
    Vnodes = {v}
    MAX_OPEN_FILES = 2
    OPEN_MAX = 3
    MaxOffset = 1
    MaxLeak = 3
    Modes = {"rdonly", "wronly", "badmode"}
    Environments <- EachEvent
    NULL = NULL
SPECIFICATION Spec
INVARIANTS NoPanic FilesRight
PROPERTY ExitReturns
CHECK_DEADLOCK FALSE

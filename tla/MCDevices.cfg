SPECIFICATION Spec
CONSTANTS
    Threads = {t1, t2}
    Boot = t1
    Board <- Slots5
    MAXDUDS = 2
    Settings <- SomeSettings
    NULL = NULL
    NSECT = 2
    WORD = 8
    DiskRequests <- SomeRequests
    EMU_MAXHANDLES = 1
    RETRIES = 1
    CONSOLE_INPUT_BUFFER_SIZE = 3
    DELAYBUFSIZE = 2
    MESSAGE = 2
    LINE = 2
    NSEC = 4
    SMALL = 2
    GAP = 1
INVARIANTS NoPanic IoRight
PROPERTY CallsReturn
CHECK_DEADLOCK FALSE

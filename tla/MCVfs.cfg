CONSTANTS
    Threads = {t1, t2}
    Disks <- OneDisk
    RawName <- Raw
    VolName <- Vol
    Names = {"f", "sub"}
    SubDirs = {"sub"}
    Handles = {"h0", "h1", "h2"}
    EMU_ROOTHANDLE = "h0"
    Paths <- SomePaths
    OpenModes <- Modes
    MAXCALLS = 3
    Environments <- EachEvent
    NULL = NULL
SPECIFICATION Spec
INVARIANTS NoPanic RefsRight HandlesRight
PROPERTY CallsReturn
CHECK_DEADLOCK FALSE

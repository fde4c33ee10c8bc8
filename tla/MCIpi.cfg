CONSTANTS
    CPUs = {c1, c2}
    Mappings = {m1, m2}
    TLBSHOOTDOWN_MAX = 2
    MaxWork = 1
    MaxShootdowns = 3
    StopCodes = {"panic", "offline"}
    NoCPU = NoCPU
CHECK_DEADLOCK FALSE
SYMMETRY Symm
SPECIFICATION IpiSpec
INVARIANTS IpisArrive

CONSTANTS
    Threads = {t1, t2, t3}
    MaxCalls = 2
    None = None
CHECK_DEADLOCK FALSE
SPECIFICATION MonLiveSpec
INVARIANTS LockExcludes NobodyStranded
PROPERTIES RefinesAtomic AcquireReturns

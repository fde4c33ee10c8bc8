CONSTANTS
    t1 = t1
    t2 = t2
    t3 = t3
    t4 = t4
    Threads = {t1, t2, t3, t4}
    InitialCount = 1
    Ps <- TwoAndTwoP
    Vs <- TwoAndTwoV
    Owner = t1
    None = None
CHECK_DEADLOCK FALSE
SPECIFICATION SemLiveSpec
INVARIANTS SemTypeOK VWakesThenLeaves
PROPERTIES SemIsAtomic AllReturn

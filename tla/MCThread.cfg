CONSTANTS
    NumCPUs = 2
    t1 = t1
    t2 = t2
    Threads = {t1, t2, t3}
    BootThread <- Boot
    WChans = {w, x}
    lbolt = w
    None = None
    Calls <- AllCalls
SPECIFICATION LiveSpec
INVARIANTS NoThreadLost StacksSafe NoPanic
PROPERTY ReadyRuns

SPECIFICATION FairSpec
CONSTANTS
    m = m
    t1 = t1
    t2 = t2
    t3 = t3
    t4 = t4
    NULL = NULL
    Main = m
    TCB <- SmallPool
    TestFuncs <- OnlyLong
    AppFuncs <- TwoSleepers
    LongIters = 1
    SleepIters = 2
    TermIter = 1
    SleepDelay = 1
    SleepDelay1 = 1
    BootTicks = 0
    MaxTicks = 2
    Wrap = 100
    CleanupDead = TRUE
INVARIANTS
    NoDanglingList
    LockConservation
PROPERTIES
    ReachesIdle
    ReadyRuns

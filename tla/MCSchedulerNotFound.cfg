SPECIFICATION Spec
SYMMETRY Blocks
CONSTANTS
    m = m
    t1 = t1
    t2 = t2
    t3 = t3
    t4 = t4
    NULL = NULL
    Main = m
    TCB <- SmallPool
    TestFuncs <- OnlyLong
    AppFuncs <- TwoSleepers
    LongIters = 2
    SleepIters = 2
    TermIter = 1
    SleepDelay = 1
    SleepDelay1 = 2
    BootTicks = 0
    MaxTicks = 5
    Wrap = 100
    CleanupDead = FALSE
INVARIANT NotFoundMeansGone

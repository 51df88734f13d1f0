SPECIFICATION FairSpec
CONSTANTS
    NULL = NULL
    Lines <- Wired
    Events = {e1, e2}
    Word = 2
    MaxTicks = 2
    MaxLocks = 2
    MaxDepth = 2
INVARIANTS
    HandlersExclusive
    InServiceMatches
    EventsRunOnce
    EventsAfterInit
    ClockReadSound
PROPERTIES
    TimerServed

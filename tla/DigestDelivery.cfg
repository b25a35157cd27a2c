CONSTANTS
    r1 = r1
    r2 = r2
    NSubs = 2
    MaxEvents = 2
    NHours = 3
    PoolSize = 1
    Runs <- MCTwoRuns
    Preferences <- MCBothPaths
    Default <- MCQuiet
SPECIFICATION FairSpec
INVARIANTS
    IInv
PROPERTIES
    NothingDroppedUnsent
    NoNewMailOnceStopped
    UnsubscribeTakesEffect
    QueuedMailed

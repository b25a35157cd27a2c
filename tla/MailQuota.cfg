CONSTANTS
    s1 = s1
    s2 = s2
    Senders <- MCSenders
    NProviders = 2
    Limit <- MCLimit
    MaxDay = 1
    MaxSent = 1
SPECIFICATION FairSpec
INVARIANTS
    IInv
    OvershootBounded
PROPERTIES
    CallEnds

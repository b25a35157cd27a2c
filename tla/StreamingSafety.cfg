CONSTANTS
    b1 = b1
    b2 = b2
    g1 = g1
    r1 = r1
    r2 = r2
    Nobody = Nobody
    NoRec = NoRec
    Sockets <- MCSockets
    Broadcasters <- MCBroadcasters
    Recordings <- MCRecordings
    MaxListeners = 1
    MaxGen = 0
    OrgMayGo = TRUE
SYMMETRY Symmetry
SPECIFICATION Spec
INVARIANTS
    CapacityRespected
    InitSegmentFromBroadcaster
    OpenStreamHeld
PROPERTIES
    OpenBroadcasterKept
    LiveEndsWithBroadcaster
    ImplementsStage

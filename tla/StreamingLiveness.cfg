CONSTANTS
    b1 = b1
    b2 = b2
    g1 = g1
    r1 = r1
    r2 = r2
    Nobody = Nobody
    NoRec = NoRec
    Sockets <- MCBroadcasters
    Broadcasters <- MCBroadcasters
    Recordings <- MCOneRecording
    MaxListeners = 1
    MaxGen = 1
    OrgMayGo = FALSE
SPECIFICATION FairSpec
INVARIANTS
    IInv
PROPERTIES
    DeadBroadcasterFreesRoom
    DeadListenerFreesSlot
    DeadBroadcasterRecordingEnds
CHECK_DEADLOCK FALSE

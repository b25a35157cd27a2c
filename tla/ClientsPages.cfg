CONSTANTS
    b1 = b1
    b2 = b2
    l1 = l1
    None = None
    BSocks <- MCBSocks
    LSocks <- MCLSocks
    MaxReconnect = 1
    MaxTimers = 1
    MaxAsks = 2
SYMMETRY Symmetry
CONSTRAINT MCBound
SPECIFICATION Spec
INVARIANTS
    IInv
    OneLadder
    ShownLive
    Decodes

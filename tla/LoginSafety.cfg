CONSTANTS
    imam = imam
    office = office
    s1 = s1
    s2 = s2
    l1 = l1
    b1 = b1
    None = None
    Users <- MCUsers
    Shared <- MCShared
    Superadmins = {}
    SessionIds <- MCSessions
    LoginTokens = {l1}
    BackupCodes = {b1}
    PendingLife = 1
    Window = 1
    Grace = 1
    MaxTime = 2
    MaxPasswords <- MCMaxPasswords
SYMMETRY Symmetry
SPECIFICATION Spec
INVARIANTS
    IInv
    SecondFactorOnce
    StaleLoginWindow
PROPERTIES
    GraceBlockStands

CONSTANTS
    x = x
    y = y
    z = z
    i = i
    j = j
    p = p
    Root = Root
    None = None
    Slugs = {1, 2}
    Apps = {p}
    Accounts <- MCAccounts
    Invites <- MCInvites
SYMMETRY Symmetry
SPECIFICATION Spec
INVARIANTS
    IInv
PROPERTIES
    LeadershipKept

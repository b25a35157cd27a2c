CONSTANTS
    q1 = q1
    q2 = q2
    q3 = q3
    d1 = d1
    d2 = d2
    None = None
    Requests <- MCRequests
    Downloads <- MCDownloads
    MaxOrgs = 2
SPECIFICATION FairSpec
INVARIANTS
    IInv
PROPERTIES
    SingleUse
    ImplementsDeletion
    LinkEnds

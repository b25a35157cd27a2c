CONSTANTS
    r1 = r1
    r2 = r2
    None = None
    Recs <- MCRecs
    Patience = 1
    MaxPublished = 2
    MaxForced = 1
    MaxPosts = 2
    MaxRestarts = 1
SPECIFICATION FairSpec
INVARIANTS
    IInv
PROPERTIES
    ReaperPatience
    ImplementsCaptions
    PendingSettles

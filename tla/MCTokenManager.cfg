SPECIFICATION FairSpec
CONSTANTS
    MaxGrants = 2
    MaxCrashes = 1
    None = None
    Torn = Torn
INVARIANTS
    DiskFollowsMemory
    RestartsFromLiveToken
    ShownIsCurrent
PROPERTIES
    TokenRefined
    NearTokenIsReplaced
    ComesUp

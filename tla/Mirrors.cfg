CONSTANTS
    Operator = {alice, bob}
    lib = lib
    tool = tool
    old = old
    tar = tar
    crate = crate
    upstream = upstream
    None = None
    Ours <- MCOurs
    GroupOf <- MCGroupOf
    Ignored <- MCIgnored
    Declared <- MCDeclared
    Lists <- MCLists
    Existing = {old}
    MaxRuns = 3
    MaxFaults = 1
SYMMETRY MCSymmetry
SPECIFICATION Spec
INVARIANTS
    TypeOK
    PublishedIntact
    DoneMeansMirrored
    PassedMeansMirrored
PROPERTIES
    PushesOwnWorkOnly
    ImplementsMirrors
CHECK_DEADLOCK FALSE

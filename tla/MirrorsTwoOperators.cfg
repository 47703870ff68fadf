CONSTANTS
    Operator = {alice, bob}
    lib = lib
    tool = tool
    old = old
    tar = tar
    crate = crate
    upstream = upstream
    None = None
    Ours <- MCOurs
    GroupOf <- MCGroupOf
    Ignored <- MCIgnored
    Declared <- MCGitOnly
    Lists <- MCLists
    Existing = {old}
    MaxRuns = 2
    MaxFaults = 0
SYMMETRY MCSymmetry
SPECIFICATION Spec
INVARIANTS
    NoConflicts
CHECK_DEADLOCK FALSE

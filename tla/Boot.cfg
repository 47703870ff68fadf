SPECIFICATION FairSpec
CONSTANTS
    Prompts = 3
    Impatient = {3}
    Chatter <- MCChatter
    MaxChatter = 2
    BufferSize = 3
INVARIANTS
    ZeroMeansDialog
    WaitsOnlyWhereKnown
PROPERTIES
    EndsInTime

SPECIFICATION LayerSpec
CONSTANTS
    NameOrder <- MCNameOrder
    Trees <- MCTrees
    Bases <- MCBases
    MaxLayers = 3
INVARIANTS
    OnlyKnownDifferences
    FailsOnlyOnSpecial
PROPERTIES
    NothingRepeated
CHECK_DEADLOCK FALSE

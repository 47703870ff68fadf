CONSTANTS
    None = None
    Element = {"gcc", "tool", "lib", "app"}
    BuildScope <- MCBuildScope
    RunOrder <- MCRunOrder
    Deterministic = {"gcc", "app"}
    Settings <- MCSettings
    MaxFaults = 2
SPECIFICATION Spec
INVARIANTS
    ComparesWithRebuilt
    NoFalseAlarm
    FailsOnlyAfterFault

CONSTANTS
    f1 = f1
    f2 = f2
    f3 = f3
    i1 = i1
    i2 = i2
    i3 = i3
    s1 = s1
    s2 = s2
    s3 = s3
    File = {f1, f2, f3}
    Inode = {i1, i2, i3}
    Source = {s1, s2, s3}
    ArchOrder <- MCArchOrder
    Jobs = 2
    ToolOutcome = {"ok", "exit"}
    Inputs <- MCInputs
SPECIFICATION FairSpec
INVARIANTS
    TypeOK
    ExclusiveRewrite
    DebugInfoKept
    SuccessIsComplete
    SuccessLeavesNoTask
PROPERTIES
    Termination

CONSTANTS
    Worker = {w1, w2, w3}
    Task = {t1, t2, t3, t4}
    None = None
SPECIFICATION FairSpec
INVARIANTS
    TypeOK
    EachTaskOnce
    NoLostWakeup
    DestroyedIsDrained
PROPERTIES
    DestructorReturns
    ImplementsFairExecutor

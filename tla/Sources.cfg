CONSTANTS
    None = None
    one = one
    two = two
    Source = {one, two}
    Release = {1, 2, 3}
    Sdist = {1, 2}
    Final = {1, 2}
    Admitted = {1, 2, 3}
    Zip = {2}
    MaxFaults = 2
SPECIFICATION Spec
SYMMETRY Sources2
INVARIANTS
    TypeOK
    RefsAgree
    StagedIsReferenced
    CachedMeansStageable
    TrackIsLatest

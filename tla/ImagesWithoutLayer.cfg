SPECIFICATION Spec
CONSTANTS
    Tree = {t1}
    None = None
    Confs <- MCConfs
    Layers <- MCLayers
    MaxRuns = 3
    MaxImages = 2
INVARIANTS
    ManifestNamesEveryLayer
CHECK_DEADLOCK FALSE

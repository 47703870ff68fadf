CONSTANTS
    None = None
    AnyVersion = AnyVersion
    Years = 2
    MaxVersion = 2
    Feeds <- MCFeeds
    Manifests <- MCManifests
    MaxFaults = 2
SPECIFICATION FairSpec
INVARIANTS
    TypeOK
    SavedCacheIsWhole
    ReportIsFresh
    ReportIsExact
PROPERTIES
    CiRecovers

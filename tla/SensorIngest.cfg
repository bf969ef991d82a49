CONSTANTS
    Pods = {p1, p2}
    Readings <- AllReadings
    SaveInterval = 2
    GateSec = 2
    ZoneTTL = 3
    RecoveryCheck = 2
    MaxLatency = 1
    MaxTime = 5
    MaxPosts = 5
    MaxOutages = 1
    MaxAborts = 1
    FewReadings <- Swing
    FewPosts = 3
    ShortTime = 4
SPECIFICATION MCSpec
CHECK_DEADLOCK FALSE
SYMMETRY PodSymmetry
INVARIANT TypeOK
INVARIANT NoDuplicateZones
INVARIANT StatusIsLatestInOrder
INVARIANT GateMeansZone

CONSTANTS
    Pods = {p1}
    Readings <- Swing
    SaveInterval = 2
    GateSec = 3
    ZoneTTL = 9
    RecoveryCheck = 1
    MaxLatency = 1
    MaxTime = 6
    MaxPosts = 6
    MaxOutages = 0
    MaxAborts = 0
    FewReadings <- Swing
    FewPosts = 6
    ShortTime = 6
SPECIFICATION OverlapSpec
CHECK_DEADLOCK FALSE
PROPERTY RecoveredMeansNormal

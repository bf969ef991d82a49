CONSTANTS
    near = near
    far = far
    Zones = {z1, z2}
    Tickers = {t1}
    Sensors = {near, far}
    Distance <- TwoDistances
    TentativeTTL = 1
    ConfirmedTTL = 2
    CriticalTTL = 2
    ScenarioTTL = 1
    InitialAge = 1
    ScenarioAge = 2
    RadiusCap = 2
    MinConfirmed = 1
    MinCritical = 2
    MaxDeletes = 0
    Orphans = {z1}
SPECIFICATION FairSpec
INVARIANT TypeOK
INVARIANT AnnouncedOnce
 
PROPERTY EveryZoneEnds

CONSTANTS
    near = near
    far = far
    Zones = {z1}
    Tickers = {t1, t2}
    Sensors = {near, far}
    Distance <- TwoDistances
    TentativeTTL = 1
    ConfirmedTTL = 2
    CriticalTTL = 3
    ScenarioTTL = 1
    InitialAge = 1
    ScenarioAge = 2
    RadiusCap = 2
    MinConfirmed = 1
    MinCritical = 2
    MaxDeletes = 0
    Orphans = {}
SPECIFICATION Spec
SYMMETRY TickerSymmetry
PROPERTY NoResurrection

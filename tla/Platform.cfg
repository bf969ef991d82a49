CONSTANTS
    NoRow = NoRow
    s1 = s1
    s2 = s2
    s3 = s3
    z1 = z1
    z2 = z2
    Mapped <- TwoSwitches
    PhaseTime <- ShortPhases
    Devices = {s1, s3}
    EventTicks = 1
    Margin = 1
    Width = 3
    MaxSpeed = 1
    MaxChanges = 2
    Keys <- FourKeys
    Limits <- GasLimits
    Oxygen <- OxygenLimits
    GenLimits <- BothTables
    Readings <- AtLimits
    Watts = {2, 7}
    MinPower = 3
    MaxPower = 7
    MinSamples = 1
    MinTrend = 2
    RefitEvery = 2
    RefitTime = 1
    Throttle = 2
    Horizons = {1}
    Requests = {r1, r2}
    MaxValues = 4
    MaxFits = 3
    MaxSeconds = 3
    Zones = {z1, z2}
    Sensors = {s1, s2}
    Source <- Sources
    Distance <- TwoApart
    FirstReach <- FirstReaches
    LastReach <- LastReaches
    RampUp = 1
    Sustain = 1
    RampDown = 2
    MaxSteps = 5
    FlagTime = 3
    MaxLate = 1
    MaxIntervals = 4
    Clients = {s1, s2}
    Groups <- TwoGroups
    MaxMessages = 2
    MaxFaults = 1
    Placed = {s1, s2, s3}
    Leak = s1
    Places <- ThreePlaces
    Circle <- Octagon
    Arc <- Diamond
    Grid <- Window
    CriticalAt = 2
    MaxRadius = 4
    MaxMoves = 1
SPECIFICATION MCSpec
CHECK_DEADLOCK FALSE
INVARIANT ReadingsAreClassified
 
INVARIANT DashboardsAreCurrent
PROPERTY GeneratorIsFaithful
 
PROPERTY ZoneHasItsShape

CONSTANTS
    Evaluators = {e1}
    Situations <- AllSituations
    RecoveryTicks = 2
    ReAlarmInterval = 2
    TTL = 9
    Epoch = 2
    MaxTime = 3
    MaxObs = 5
    MaxOutages = 0
    MaxAborts = 0
    FewObs = 5
    FewStates = {}
    ShortTime = 3
SPECIFICATION OverlapSpec
CHECK_DEADLOCK FALSE
INVARIANT RecoveryPromise

CONSTANTS
    Evaluators = {e1, e2}
    CautionThreshold = 2
    DangerThreshold = 3
    RecoveryThreshold = 2
    CautionWindow = 2
    RecoveryWindow = 2
    ReAlarmInterval = 2
    TTL = 3
    Epoch = 2
    MaxTime = 4
    MaxObs = 6
    MaxOutages = 1
    MaxAborts = 1
    FewObs = 4
    ShortTime = 3
SPECIFICATION MCSpec
SYMMETRY EvaluatorSymmetry
CHECK_DEADLOCK FALSE
INVARIANT TypeOK
INVARIANT EvidenceSound
 
INVARIANT ReAlarmSpacingInOrder
INVARIANT UninterruptedRecoveryInOrder
INVARIANT SustainedEscalatesInOrder
PROPERTY StateFollowsAlarmInOrder
PROPERTY AnnouncedFirst

CONSTANTS
    Evaluators = {e1, e2}
    Situations <- AllSituations
    RecoveryTicks = 2
    ReAlarmInterval = 2
    TTL = 3
    Epoch = 2
    MaxTime = 4
    MaxObs = 5
    MaxOutages = 1
    MaxAborts = 1
    FewObs = 3
    FewStates = {"safe", "danger"}
    ShortTime = 2
SPECIFICATION MCSpec
SYMMETRY EvaluatorSymmetry
CHECK_DEADLOCK FALSE
INVARIANT TypeOK
 
INVARIANT EscalatesAtOnceInOrder
INVARIANT RecoveryIsConsecutiveInOrder
INVARIANT NotifiedOncePerEntryInOrder
INVARIANT SteadyRecoversInOrder
PROPERTY AnnouncedFirst

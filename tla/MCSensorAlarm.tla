--------------------------- MODULE MCSensorAlarm ---------------------------
(* Model-checking instances of SensorAlarm, two in one run: evaluations that *)
(* overlap and fail, fewer and for a shorter time, and evaluations one after *)
(* the other without failures.  The thresholds, windows and intervals keep   *)
(* the order of the real ones.                                               *)
EXTENDS SensorAlarm, TLC

CONSTANTS
    FewObs,   \* bound: observations when evaluations overlap
    ShortTime \* bound: seconds when evaluations overlap

VARIABLE single \* evaluations run one at a time

EvaluatorSymmetry == Permutations(Evaluators)

MCInit == Init /\ single \in BOOLEAN

MCNext ==
    /\ IF single THEN Next /\ InOrder
       ELSE Next /\ Len(seen') <= FewObs /\ clock' <= Epoch + ShortTime
    /\ UNCHANGED single

MCSpec == MCInit /\ [][MCNext]_<<vars, single>>

OverlapSpec == Init /\ single = FALSE /\ [][Next /\ UNCHANGED single]_<<vars, single>>

\* Evaluations one at a time: ReAlarmSpacing (sensor_evaluator.py:94-101).
ReAlarmSpacingInOrder == single => ReAlarmSpacing

\* Evaluations one at a time: UninterruptedRecovery (sensor_evaluator.py:60-69).
UninterruptedRecoveryInOrder == single => UninterruptedRecovery

\* Evaluations one at a time: SustainedEscalates (sensor_evaluator.py:70-87).
SustainedEscalatesInOrder == single => SustainedEscalates

\* Evaluations one at a time: StateFollowsAlarm (sensor_evaluator.py:115-179).
StateFollowsAlarmInOrder == [][single => FollowsAlarm]_hash

=============================================================================

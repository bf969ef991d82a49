--------------------------- MODULE MCWorkerAlarm ---------------------------
(* Model-checking instances of WorkerAlarm, two in one run: evaluations that *)
(* overlap and fail, fewer of them and in two states of a worker, and        *)
(* evaluations one after the other without failures, in all four states.     *)
EXTENDS WorkerAlarm, TLC

CONSTANTS
    FewObs,    \* bound: evaluations when they overlap
    FewStates, \* bound: what they observe when they overlap
    ShortTime  \* bound: seconds when they overlap

VARIABLE single \* evaluations run one at a time

EvaluatorSymmetry == Permutations(Evaluators)

At(fences, nearby) == [fences |-> fences, nearby |-> nearby]

\* One situation for each way into each of the four states.
AllSituations ==
    {At({}, "normal"), At({"caution"}, "normal"), At({}, "danger"),
     At({"danger", "caution"}, "caution"), At({"dynamicCritical", "danger"}, "normal")}

Few ==
    /\ Len(seen) <= FewObs
    /\ \A i \in 1 .. Len(seen) : seen[i].state \in FewStates
    /\ clock <= Epoch + ShortTime

MCInit == Init /\ single \in BOOLEAN

MCNext ==
    /\ IF single THEN Next /\ InOrder ELSE Next /\ Few'
    /\ UNCHANGED single

MCSpec == MCInit /\ [][MCNext]_<<vars, single>>

OverlapSpec == Init /\ single = FALSE /\ [][Next /\ UNCHANGED single]_<<vars, single>>

\* Evaluations one at a time: EscalatesAtOnce (worker_evaluator.py:268-284).
EscalatesAtOnceInOrder == single => EscalatesAtOnce

\* Evaluations one at a time: RecoveryIsConsecutive (worker_evaluator.py:22).
RecoveryIsConsecutiveInOrder == single => RecoveryIsConsecutive

\* Evaluations one at a time: NotifiedOncePerEntry (worker_evaluator.py:344-354).
NotifiedOncePerEntryInOrder == single => NotifiedOncePerEntry

\* Evaluations one at a time: SteadyRecovers (worker_evaluator.py:268-298).
SteadyRecoversInOrder == single => SteadyRecovers

=============================================================================

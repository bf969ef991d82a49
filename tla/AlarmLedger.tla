----------------------------- MODULE AlarmLedger -----------------------------
(***************************************************************************)
(* What the two alarm evaluators promise to whoever reads the official     *)
(* state of a sensor or of a worker: an abnormal state is in force only    *)
(* after it has been announced, that is, after an alarm that names it is   *)
(* in the database.  Announcing and putting in force are two steps, and    *)
(* anything may happen between them: the same state announced twice, the   *)
(* other one put in force, or, when the hash expires or Redis cannot be    *)
(* reached, the return to the quiet state without any announcement.        *)
(* SensorAlarm and WorkerAlarm implement this module.                      *)
(***************************************************************************)
CONSTANTS
    States, \* the official states
    Quiet   \* the state that needs no announcement: "normal" or "safe"

VARIABLES
    official, \* the state that a reader of the hash is given
    announced \* the states that the alarms in the database name

vars == <<official, announced>>

Init ==
    /\ official = Quiet
    /\ announced = {}

\* The row of an alarm is inserted.
Announce(s) ==
    /\ announced' = announced \cup {s}
    /\ UNCHANGED official

\* A state is put in force, or the official state lapses.
Adopt(s) ==
    /\ s \in announced \cup {Quiet}
    /\ official' = s
    /\ UNCHANGED announced

Next == \E s \in States : Announce(s) \/ Adopt(s)

Spec == Init /\ [][Next]_vars

=============================================================================

------------------------------ MODULE Training ------------------------------
(***************************************************************************)
(* What a user does before work: the safety checklist of the day, and the   *)
(* training video, whose position is recorded until its end is reached.     *)
(* There is one row of each per user and day; users do not meet, so one is  *)
(* modelled.  A request reads the row of the day on which it began and      *)
(* saves some of its columns later; two browser windows make two requests.  *)
(***************************************************************************)
EXTENDS Integers

CONSTANTS
    None,
    Duration,  \* VR_VIDEO_DURATION_SEC
    Requests,  \* ids of requests under way
    MaxDay     \* bound: days

VARIABLES
    today,
    checked,     \* the days with a SafetyChecklist
    logs,        \* VRTrainingLog by day: None or [position, completed]
    asking,      \* request -> None or [kind, day, position]
    furthest,    \* history: the largest position saved by day
    overlapped,  \* history: days on which two savings of the position overlapped
    page         \* what the last visit of the page showed

trainingVars == <<today, checked, logs, asking, furthest, overlapped, page>>

Days == 0 .. MaxDay

Init ==
    /\ today = 0
    /\ checked = {}
    /\ logs = [d \in Days |-> None]
    /\ asking = [r \in Requests |-> None]
    /\ furthest = [d \in Days |-> 0]
    /\ overlapped = {}
    /\ page = None

\* ChecklistSubmitView: every item and no other, once more on the same day if
\* need be.
Submit ==
    /\ checked' = checked \cup {today}
    /\ UNCHANGED <<today, logs, asking, furthest, overlapped, page>>

\* player_page: back to the checklist until it is done; then the video from where
\* the day's log says.
Visit ==
    /\ page' = CASE today \notin checked -> "checklist"
                 [] today \in checked /\ logs[today] = None -> [position |-> 0, completed |-> FALSE]
                 [] today \in checked /\ logs[today] # None -> logs[today]
    /\ UNCHANGED <<today, checked, logs, asking, furthest, overlapped>>

Saving(d) == {r \in Requests : /\ asking[r] # None
                               /\ asking[r].kind = "progress"
                               /\ asking[r].day = d}

Later(p, q) == IF p > q THEN p ELSE q

\* Faulty variants of the definition that follows each of them, named
\* <definition>_<fault>, are used by no specification: they record which
\* mistake in the code each property would catch.
ReadProgress_AsSent(r, position) ==
    /\ asking[r] = None
    /\ LET log == IF logs[today] = None THEN [position |-> 0, completed |-> FALSE]
                  ELSE logs[today]
       IN  /\ logs' = [logs EXCEPT ![today] = log]
           /\ asking' = [asking EXCEPT ![r] =
                           [kind |-> "progress", day |-> today, position |-> position]]
    /\ overlapped' = IF Saving(today) = {} THEN overlapped ELSE overlapped \cup {today}
    /\ UNCHANGED <<today, checked, furthest, page>>

\* VRProgressView gets or creates the day's log and takes the later position ...
ReadProgress(r, position) ==
    /\ asking[r] = None
    /\ LET log == IF logs[today] = None THEN [position |-> 0, completed |-> FALSE]
                  ELSE logs[today]
       IN  /\ logs' = [logs EXCEPT ![today] = log]
           /\ asking' = [asking EXCEPT ![r] =
                           [kind |-> "progress", day |-> today,
                            position |-> Later(position, log.position)]]
    /\ overlapped' = IF Saving(today) = {} THEN overlapped ELSE overlapped \cup {today}
    /\ UNCHANGED <<today, checked, furthest, page>>

\* ... and saves it, and no other column that matters.
SaveProgress(r) ==
    /\ asking[r] # None
    /\ asking[r].kind = "progress"
    /\ LET d == asking[r].day IN
       /\ logs' = [logs EXCEPT ![d].position = asking[r].position]
       /\ furthest' = [furthest EXCEPT ![d] = Later(asking[r].position, @)]
    /\ asking' = [asking EXCEPT ![r] = None]
    /\ UNCHANGED <<today, checked, overlapped, page>>

\* VRCompleteView refuses without a log that has come to the end, and has nothing
\* to do when it is completed; else it will mark it ...
ReadComplete(r) ==
    /\ asking[r] = None
    /\ logs[today] # None
    /\ logs[today].position >= Duration
    /\ ~logs[today].completed
    /\ asking' = [asking EXCEPT ![r] = [kind |-> "complete", day |-> today, position |-> Duration]]
    /\ UNCHANGED <<today, checked, logs, furthest, overlapped, page>>

SaveComplete_OfToday(r) ==
    /\ asking[r] # None
    /\ asking[r].kind = "complete"
    /\ logs[today] # None
    /\ logs' = [logs EXCEPT ![today].completed = TRUE]
    /\ asking' = [asking EXCEPT ![r] = None]
    /\ UNCHANGED <<today, checked, furthest, overlapped, page>>

\* ... and does, on the day on which the request began.
SaveComplete(r) ==
    /\ asking[r] # None
    /\ asking[r].kind = "complete"
    /\ logs' = [logs EXCEPT ![asking[r].day].completed = TRUE]
    /\ asking' = [asking EXCEPT ![r] = None]
    /\ UNCHANGED <<today, checked, furthest, overlapped, page>>

Midnight ==
    /\ today < MaxDay
    /\ today' = today + 1
    /\ UNCHANGED <<checked, logs, asking, furthest, overlapped, page>>

Next ==
    \/ Submit \/ Visit \/ Midnight
    \/ \E r \in Requests :
         \/ \E position \in 0 .. Duration : ReadProgress(r, position)
         \/ SaveProgress(r) \/ ReadComplete(r) \/ SaveComplete(r)

Spec == Init /\ [][Next]_trainingVars

-----------------------------------------------------------------------------
\* Every variable has its type.
TypeOK ==
    /\ today \in Days
    /\ checked \subseteq Days
    /\ \A d \in Days : logs[d] # None =>
         logs[d].position \in 0 .. Duration /\ logs[d].completed \in BOOLEAN
    /\ \A d \in Days : furthest[d] \in 0 .. Duration

\* A day counts as trained only if the end of the video was recorded on that very
\* day, also when requests run across midnight (vr_training/views.py:177-210).
CompletedAtTheEnd ==
    \A d \in Days : logs[d] # None /\ logs[d].completed => furthest[d] = Duration

\* Savings of the position that do not overlap never take it back
\* (vr_training/views.py:134-142).
ForwardAlone ==
    \A d \in Days \ overlapped : logs[d] # None => logs[d].position = furthest[d]

=============================================================================

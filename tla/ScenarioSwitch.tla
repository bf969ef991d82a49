--------------------------- MODULE ScenarioSwitch ---------------------------
(***************************************************************************)
(* The scenario switches of the data generator: each device of a scenario   *)
(* runs through the phases of a leak while its switch is on and returns     *)
(* when it is off.  Nothing moves by itself: whoever asks for a phase moves *)
(* it, and between two questions any time may pass.  A clock is an age, the *)
(* seconds since an instant, up to the time of a phase.                     *)
(***************************************************************************)
EXTENDS Integers

CONSTANTS
    None,
    Mapped,    \* SCENARIO_DEVICE_MAP: device -> its type of sensor
    PhaseTime  \* PHASE_DURATION_GAS_SEC and PHASE_DURATION_POWER_SEC, by type

VARIABLES
    toggles,  \* ScenarioState._toggles: None or [on, phase, age]
    stay,     \* history: the seconds since the phase last changed
    label     \* expected_status of the device's last reading

switchVars == <<toggles, stay, label>>

Driven == DOMAIN Mapped

Duration(d) == PhaseTime[Mapped[d]]

Older(n, d) == IF n < Duration(d) THEN n + 1 ELSE n

Off == [on |-> FALSE, phase |-> 0, age |-> 0]

Toggled(d) == IF toggles[d] = None THEN Off ELSE toggles[d]

\* PHASE_STATUS.
Status(phase) ==
    CASE phase \in {0, 1, 5} -> "normal" [] phase = 2 -> "caution" [] phase \in {3, 4} -> "danger"

Init ==
    /\ toggles = [d \in Driven |-> None]
    /\ stay = [d \in Driven |-> 0]
    /\ label = [d \in Driven |-> None]

\* The clock of the history starts with a new phase.
Watch(new) ==
    stay' = [d \in Driven |->
               IF new[d] # None /\ new[d].phase # Toggled(d).phase THEN 0 ELSE stay[d]]

\* Faulty variants of the definition that follows each of them, named
\* <definition>_<fault>, are used by no specification: they record which
\* mistake in the code each property would catch.
Switched_KeepsClock(was, state) ==
    [on |-> state,
     phase |-> CASE state /\ was.phase \in {0, 5} -> 1
                 [] ~state /\ was.phase # 0 -> 5
                 [] OTHER -> was.phase,
     age |-> was.age]

\* toggle: on begins the ramp or goes on with it; off begins the return, anew if
\* it had begun.
Switched(was, state) ==
    IF state
    THEN IF was.phase \in {0, 5} THEN [on |-> TRUE, phase |-> 1, age |-> 0]
                                 ELSE [was EXCEPT !.on = TRUE]
    ELSE [on |-> FALSE, phase |-> IF was.phase = 0 THEN 0 ELSE 5, age |-> 0]

Toggle(d, state) ==
    /\ toggles' = [toggles EXCEPT ![d] = Switched(Toggled(d), state)]
    /\ Watch(toggles')
    /\ UNCHANGED label

Ramp_FromAnywhere(d) ==
    LET s == toggles[d] IN
    IF s # None /\ s.age >= Duration(d) /\ s.phase < 4
    THEN [s EXCEPT !.phase = @ + 1, !.age = 0] ELSE s

\* get_phase: the state after the question, one phase further if its time is over.
Ramp(d) ==
    LET s == toggles[d] IN
    CASE s = None -> None
      [] s # None /\ s.age >= Duration(d) /\ s.on /\ s.phase < 4 ->
             [s EXCEPT !.phase = @ + 1, !.age = 0]
      [] s # None /\ s.age >= Duration(d) /\ ~s.on /\ s.phase = 5 ->
             [s EXCEPT !.phase = 0, !.age = 0]
      [] OTHER -> s

\* get_labels: a tick labels the reading of the device with what its phase, after
\* the question, should look like.
Tick(d) ==
    /\ toggles' = [toggles EXCEPT ![d] = Ramp(d)]
    /\ Watch(toggles')
    /\ label' = [label EXCEPT ![d] = Status(IF Ramp(d) = None THEN 0 ELSE Ramp(d).phase)]

\* ScenarioState.state asks for every phase.
ReadState ==
    /\ toggles' = [d \in Driven |-> Ramp(d)]
    /\ Watch(toggles')
    /\ UNCHANGED label

\* clear_all returns to normal without the phase between.
ClearAll ==
    /\ toggles' = [d \in Driven |-> Off]
    /\ Watch(toggles')
    /\ UNCHANGED label

\* Another second.
Pass ==
    /\ toggles' = [d \in Driven |-> IF toggles[d] = None THEN None
                                     ELSE [toggles[d] EXCEPT !.age = Older(@, d)]]
    /\ stay' = [d \in Driven |-> Older(stay[d], d)]
    /\ UNCHANGED label

\* The process starts again: all switches are off.
Restart ==
    /\ toggles' = [d \in Driven |-> None]
    /\ stay' = [d \in Driven |-> 0]
    /\ UNCHANGED label

Next ==
    \/ \E d \in Driven, state \in BOOLEAN : Toggle(d, state)
    \/ \E d \in Driven : Tick(d)
    \/ ReadState \/ ClearAll \/ Pass \/ Restart

Spec == Init /\ [][Next]_switchVars

-----------------------------------------------------------------------------
\* Every variable has its type; a device whose switch is off is normal or on its
\* return, and one whose switch is on is on its way up (scenario.py:25-33).
TypeOK ==
    /\ \A d \in Driven : toggles[d] # None =>
         /\ toggles[d].on \in BOOLEAN
         /\ toggles[d].phase \in IF toggles[d].on THEN 1 .. 4 ELSE {0, 5}
         /\ toggles[d].age \in 0 .. Duration(d)
    /\ \A d \in Driven : label[d] \in {None, "normal", "caution", "danger"}

\* A phase of the ramp lasts its time before the next one begins, however often
\* the switch is pressed and the phase is asked for in between
\* (scenario.py:25-33, :177-256).
FullPhases ==
    [][\A d \in Driven :
         /\ toggles[d] # None /\ toggles'[d] # None
         /\ toggles'[d].on /\ toggles[d].phase \in 1 .. 3
         /\ toggles'[d].phase = toggles[d].phase + 1
         => stay[d] >= Duration(d)]_switchVars

=============================================================================

--------------------------- MODULE SpikeInjection ---------------------------
(***************************************************************************)
(* The operational scenarios: one picks a source, creates a zone and starts *)
(* a chain of tasks for each sensor that the leak has reached; each task    *)
(* writes one reading of a curve, keeps the data generator's readings away  *)
(* from the sensor by a flag, and queues the next.  The tick that widens    *)
(* the zone starts chains for the sensors that come in.  Time counts        *)
(* injection intervals; a reading is how far the curve has gone from the    *)
(* sensor's base to the spike, 0 to Full, without its noise.                *)
(***************************************************************************)
EXTENDS Integers, Sequences, FiniteSets

CONSTANTS
    Zones,         \* ids of zones
    Sensors,       \* the operational gas sensors
    Source,        \* zone -> the sensor its scenario picks
    Distance,      \* sensor, sensor -> distance, as a function of pairs
    FirstReach,    \* zone -> the diffusion radii it may have when it is created
    LastReach,     \* zone -> the radius at its end
    RampUp, Sustain, RampDown,  \* of the curve, in intervals
    MaxSteps,      \* of a chain
    FlagTime,      \* how long the flag holds without a new step
    MaxLate,       \* bound: how late the queue runs a task
    MaxTime        \* bound: intervals

VARIABLES
    zones,     \* zone -> [state, reach, confirmed, left]
    tick,      \* the tick that has looked at a zone: sequence of [zone, sensor] to start
    chains,    \* tasks: [zone, sensor, joined, step, wait, height, no]
    flag,      \* scenario_spike:<device>: the time it still holds
    mixed,     \* history: sensors of which a generator's reading was saved in between
    released,  \* history: sensors whose flag was deleted by the end of another chain
    raced,     \* history: zones looked at before the scenario had marked its sensors
    ended,     \* history: height of the last reading, of chains at their natural end
    now

spikeVars == <<zones, tick, chains, flag, mixed, released, raced, ended, now>>

Full == RampUp * RampDown

Init ==
    /\ zones = [z \in Zones |-> [state |-> "none", reach |-> 0, confirmed |-> {}, left |-> {}]]
    /\ tick = <<>>
    /\ chains = {}
    /\ flag = [s \in Sensors |-> 0]
    /\ mixed = {}
    /\ released = {}
    /\ raced = {}
    /\ ended = {}
    /\ now = 0

Reached(z, reach) == {s \in Sensors : Distance[<<Source[z], s>>] <= reach}

Chain(z, s, joined) ==
    [zone |-> z, sensor |-> s, joined |-> joined, step |-> 0, wait |-> 0, height |-> 0,
     no |-> Cardinality({c \in chains : c.zone = z /\ c.sensor = s})]

\* execute: the source is picked, the sensors within the radius found and the zone
\* created ...
RunScenario(z) ==
    /\ zones[z].state = "none"
    /\ \E reach \in FirstReach[z] :
         zones' = [zones EXCEPT ![z] = [state |-> "active", reach |-> reach, confirmed |-> {},
                                        left |-> Reached(z, reach)]]
    /\ UNCHANGED <<tick, chains, flag, mixed, released, raced, ended, now>>

\* Faulty variants of the definition that follows each of them, named
\* <definition>_<fault>, are used by no specification: they record which
\* mistake in the code each property would catch.
StartSpike_NotConfirmed(z, s) ==
    /\ s \in zones[z].left
    /\ chains' = chains \cup {Chain(z, s, FALSE)}
    /\ zones' = [zones EXCEPT ![z].left = @ \ {s}]
    /\ UNCHANGED <<tick, flag, mixed, released, raced, ended, now>>

\* ... _start_sustained_spike: chain by chain, each sensor noted in the zone.
StartSpike(z, s) ==
    /\ s \in zones[z].left
    /\ chains' = chains \cup {Chain(z, s, FALSE)}
    /\ zones' = [zones EXCEPT ![z].left = @ \ {s}, ![z].confirmed = @ \cup {s}]
    /\ UNCHANGED <<tick, flag, mixed, released, raced, ended, now>>

\* update_zone_radius widens an active zone, and finds the sensors inside that are
\* not noted; the source counts as noted ...
Widen(z) ==
    /\ tick = <<>>
    /\ zones[z].state = "active"
    /\ zones[z].reach < LastReach[z]
    /\ zones' = [zones EXCEPT ![z].reach = LastReach[z]]
    /\ LET found == Reached(z, LastReach[z]) \ (zones[z].confirmed \cup {Source[z]}) IN
       tick' \in {q \in [1 .. Cardinality(found) -> [zone : {z}, sensor : found]] :
                    \A i, j \in DOMAIN q : q[i] = q[j] => i = j}
    /\ raced' = IF zones[z].left # {} THEN raced \cup {z} ELSE raced
    /\ UNCHANGED <<chains, flag, mixed, released, ended, now>>

\* ... _detect_and_spike_new_sensors_in_scenario_zone: their chains have a curve
\* without an end, and the zone may be gone by now.
Join ==
    /\ tick # <<>>
    /\ LET e == Head(tick) IN
       /\ chains' = chains \cup {Chain(e.zone, e.sensor, TRUE)}
       /\ zones' = [zones EXCEPT ![e.zone].confirmed = @ \cup {e.sensor}]
    /\ tick' = Tail(tick)
    /\ UNCHANGED <<flag, mixed, released, raced, ended, now>>

-----------------------------------------------------------------------------
(* One task: sustain_spike_task.                                            *)

Height_CliffEnd(c) ==
    IF c.step < RampUp THEN c.step * RampDown ELSE Full

\* The curve; the last part only for chains that a scenario started.
Height(c) ==
    IF c.step < RampUp THEN c.step * RampDown
    ELSE IF c.joined \/ c.step < RampUp + Sustain THEN Full
    ELSE Full - (c.step - RampUp - Sustain) * RampUp

AtEnd(c) == ~c.joined /\ c.step >= RampUp + Sustain + RampDown

\* The zone is gone or the chain long enough: nothing is written, and the flag
\* runs out by itself.
Stop(c) ==
    /\ c.wait <= 0
    /\ zones[c.zone].state # "active" \/ c.step >= MaxSteps
    /\ chains' = chains \ {c}
    /\ UNCHANGED <<zones, tick, flag, mixed, released, raced, ended, now>>

\* The natural end of the curve: the flag, which this task has just set, is deleted.
End(c) ==
    /\ c.wait <= 0
    /\ zones[c.zone].state = "active" /\ c.step < MaxSteps
    /\ AtEnd(c)
    /\ chains' = chains \ {c}
    /\ flag' = [flag EXCEPT ![c.sensor] = 0]
    /\ released' = IF \E d \in chains \ {c} : d.sensor = c.sensor
                   THEN released \cup {c.sensor} ELSE released
    /\ ended' = ended \cup {c.height}
    /\ UNCHANGED <<zones, tick, mixed, raced, now>>

Inject_NoFlag(c) ==
    /\ c.wait <= 0
    /\ zones[c.zone].state = "active" /\ c.step < MaxSteps
    /\ ~AtEnd(c)
    /\ flag' = flag
    /\ chains' = (chains \ {c}) \cup {[c EXCEPT !.step = @ + 1, !.wait = 1, !.height = Height(c)]}
    /\ UNCHANGED <<zones, tick, mixed, released, raced, ended, now>>

\* A reading, and the next task after one interval.
Inject(c) ==
    /\ c.wait <= 0
    /\ zones[c.zone].state = "active" /\ c.step < MaxSteps
    /\ ~AtEnd(c)
    /\ flag' = [flag EXCEPT ![c.sensor] = FlagTime]
    /\ chains' = (chains \ {c}) \cup {[c EXCEPT !.step = @ + 1, !.wait = 1, !.height = Height(c)]}
    /\ UNCHANGED <<zones, tick, mixed, released, raced, ended, now>>

-----------------------------------------------------------------------------

\* SensorDataView.post of the data generator: dropped while the flag holds.
Generate(s) ==
    /\ flag[s] = 0
    /\ \E c \in chains : c.sensor = s /\ c.step > 0 /\ zones[c.zone].state = "active"
    /\ mixed' = mixed \cup {s}
    /\ UNCHANGED <<zones, tick, chains, flag, released, raced, ended, now>>

\* The zone expires, recovers or is cleaned up.
Finish(z) ==
    /\ zones[z].state = "active"
    /\ zones' = [zones EXCEPT ![z].state = "over"]
    /\ UNCHANGED <<tick, chains, flag, mixed, released, raced, ended, now>>

\* An interval; a task whose time has come waits MaxLate more at most.
Pass ==
    /\ now < MaxTime
    /\ \A c \in chains : c.wait > -MaxLate
    /\ now' = now + 1
    /\ chains' = {[c EXCEPT !.wait = @ - 1] : c \in chains}
    /\ flag' = [s \in Sensors |-> IF flag[s] = 0 THEN 0 ELSE flag[s] - 1]
    /\ UNCHANGED <<zones, tick, mixed, released, raced, ended>>

Next ==
    \/ \E z \in Zones : RunScenario(z) \/ Widen(z) \/ Finish(z)
    \/ \E z \in Zones, s \in Sensors : StartSpike(z, s)
    \/ Join
    \/ \E c \in chains : Stop(c) \/ End(c) \/ Inject(c)
    \/ \E s \in Sensors : Generate(s)
    \/ Pass

Spec == Init /\ [][Next]_spikeVars

-----------------------------------------------------------------------------
\* Every variable has its type.
TypeOK ==
    /\ \A z \in Zones : /\ zones[z].state \in {"none", "active", "over"}
                        /\ zones[z].confirmed \subseteq Sensors
                        /\ zones[z].left \subseteq Sensors
    /\ \A c \in chains : /\ c.zone \in Zones /\ c.sensor \in Sensors
                         /\ c.step \in 0 .. MaxSteps /\ c.wait \in -MaxLate .. 1
                         /\ c.height \in 0 .. Full
    /\ \A s \in Sensors : flag[s] \in 0 .. FlagTime
    /\ now \in 0 .. MaxTime

\* A sensor of a zone has one chain, not two that write over each other, unless
\* the tick came between the zone and its chains
\* (zone_lifecycle.py:213-228, operational_base.py:291-292).
OneChainEach ==
    \A c, d \in chains :
        c.zone = d.zone /\ c.sensor = d.sensor /\ c.zone \notin raced => c = d

\* No reading of the generator comes between those of a chain, however late the
\* queue runs up to the flag's time, unless another chain on the sensor ended and
\* took the flag away (devices/views.py:127-134, tasks_scenario.py:96-99).
NoMixing == mixed \subseteq released

\* A curve that comes to its end has come down: the last reading is one step
\* above the base (tasks_scenario.py:101-124).
EndsDown == \A h \in ended : h <= RampUp

=============================================================================

------------------------------ MODULE Platform ------------------------------
(***************************************************************************)
(* What stands around the alarms: the switches and the loop of the data     *)
(* generator, the meaning of a reading, the two learners of a sensor's      *)
(* values, the spikes of a scenario's zone, the connections of the          *)
(* dashboards and the shape of a zone.  Each part keeps its own state: a    *)
(* step of the system is a step of one of them.                             *)
(***************************************************************************)
EXTENDS Integers, Sequences, FiniteSets

CONSTANTS
    NoRow,
    Mapped, PhaseTime,                                            \* of ScenarioSwitch
    Devices, EventTicks, Margin, Width, MaxSpeed, MaxChanges,     \* of GeneratorLoop
    Keys, Limits, Oxygen, GenLimits, Readings, Watts, MinPower, MaxPower, \* of Classification
    MinSamples, MinTrend, RefitEvery, RefitTime, Throttle, Horizons, Requests,
    MaxValues, MaxFits, MaxSeconds,                               \* of EarlyWarning
    Zones, Sensors, Source, Distance, FirstReach, LastReach, RampUp, Sustain, RampDown,
    MaxSteps, FlagTime, MaxLate, MaxIntervals,                    \* of SpikeInjection
    Clients, Groups, MaxMessages, MaxFaults,                      \* of Realtime
    Placed, Leak, Places, Circle, Arc, Grid, CriticalAt, MaxRadius, MaxMoves \* of ZoneGeometry

VARIABLES
    toggles, stay, label,
    rows, employed, loop, mode, known, worker, answers, summary, changes,
    gas, samples,
    now, values, arima, threads, fits, judged, forest, lastPrediction, asking, predictions,
    zones, tick, chains, flag, mixed, released, raced, ended, spikeNow,
    clients, members, gauge, missed, sent, under, cached, published, disturbed, drifted, faults,
    place, cache, kind, round, radius, confirmed, polygon, built, moved, moves

Switches == INSTANCE ScenarioSwitch WITH None <- NoRow

Generator == INSTANCE GeneratorLoop WITH None <- NoRow

Classes == INSTANCE Classification WITH
    None <- NoRow, MinSamples <- MinPower, MaxSamples <- MaxPower

Warning == INSTANCE EarlyWarning WITH None <- NoRow, MaxTime <- MaxSeconds

Spikes == INSTANCE SpikeInjection WITH MaxTime <- MaxIntervals, now <- spikeNow

Sockets == INSTANCE Realtime WITH None <- NoRow

Geometry == INSTANCE ZoneGeometry WITH None <- NoRow, Sensors <- Placed, Source <- Leak

-----------------------------------------------------------------------------
(* The rows and what is assumed of the constants: a missing row is none of  *)
(* the rows, and a map has room between its edges.                          *)

SwitchRow == [on : BOOLEAN, phase : 0 .. 5, age : Nat]

ASSUME SwitchAssumption ==
    /\ PhaseTime \in [{"gas", "power"} -> Nat]
    /\ Mapped \in [DOMAIN Mapped -> {"gas", "power"}]
    /\ NoRow \notin SwitchRow

WorkerRow == [x : Int, dx : Int, moved : BOOLEAN]

ASSUME GeneratorAssumption ==
    /\ EventTicks \in Nat /\ MaxSpeed \in Nat /\ MaxChanges \in Nat
    /\ Margin \in Nat /\ Width \in Nat /\ 2 * Margin <= Width
    /\ NoRow \notin WorkerRow

\* A limit for caution comes before the one for danger, on either side of oxygen;
\* the tables of the generator and of Django agree; a power device uses power.
GenLimit(k, op, limits) ==
    [key |-> k, operator |-> op, caution |-> limits.caution, danger |-> limits.danger]

ASSUME ReadingAssumption ==
    /\ Keys \in Seq(STRING) /\ \E n \in DOMAIN Keys : Keys[n] = "o2"
    /\ \A m, n \in DOMAIN Keys : Keys[m] = Keys[n] => m = n
    /\ \A n \in DOMAIN Keys : Keys[n] # "o2" =>
          /\ Limits[Keys[n]] \in [caution : Int, danger : Int]
          /\ Limits[Keys[n]].caution < Limits[Keys[n]].danger
    /\ Oxygen \in [low2 : Int, low1 : Int, high1 : Int, high2 : Int]
    /\ Oxygen.low2 < Oxygen.low1 /\ Oxygen.low1 < Oxygen.high1 /\ Oxygen.high1 < Oxygen.high2
    /\ GenLimits =
          {GenLimit("o2", "over", [caution |-> Oxygen.high1, danger |-> Oxygen.high2]),
           GenLimit("o2", "under", [caution |-> Oxygen.low1, danger |-> Oxygen.low2])} \cup
          {GenLimit(k, "over", Limits[k]) : k \in {Keys[n] : n \in DOMAIN Keys} \ {"o2"}}
    /\ Readings \subseteq [{Keys[n] : n \in DOMAIN Keys} -> Int \cup {NoRow}]
    /\ NoRow \notin Int /\ NoRow \notin STRING

ASSUME PowerAssumption ==
    /\ Watts \subseteq Nat \ {0} /\ Watts # {}
    /\ MinPower \in Nat \ {0} /\ MaxPower \in Nat

ASSUME WarningAssumption ==
    /\ MaxValues \in Nat /\ MaxFits \in Nat /\ MaxSeconds \in Nat
    /\ Throttle \in Nat /\ Horizons \subseteq Nat
    /\ NoRow \notin Nat

ASSUME SpikeAssumption ==
    /\ IsFiniteSet(Sensors)
    /\ FirstReach \in [Zones -> SUBSET Nat] /\ LastReach \in [Zones -> Nat]
    /\ RampUp \in Nat /\ Sustain \in Nat /\ RampDown \in Nat
    /\ MaxSteps \in Nat /\ FlagTime \in Nat /\ MaxLate \in Nat /\ MaxIntervals \in Nat

ASSUME SocketAssumption ==
    /\ IsFiniteSet(Clients)
    /\ Groups \in Seq(STRING)
    /\ MaxMessages \in Nat /\ MaxFaults \in Nat

ASSUME LeakAssumption == Leak \in Placed

-----------------------------------------------------------------------------
switchVars == <<toggles, stay, label>>
loopVars == <<rows, employed, loop, mode, known, worker, answers, summary, changes>>
classVars == <<gas, samples>>
warningVars == <<now, values, arima, threads, fits, judged, forest, lastPrediction, asking,
                 predictions>>
spikeVars == <<zones, tick, chains, flag, mixed, released, raced, ended, spikeNow>>
socketVars == <<clients, members, gauge, missed, sent, under, cached, published, disturbed,
                drifted, faults>>
geometryVars == <<place, cache, kind, round, radius, confirmed, polygon, built, moved, moves>>
platformVars ==
    <<switchVars, loopVars, classVars, warningVars, spikeVars, socketVars, geometryVars>>

Init ==
    /\ Geometry!Init
    /\ Switches!Init /\ Generator!Init /\ Classes!Init /\ Warning!Init /\ Spikes!Init
    /\ Sockets!Init

PlayScenario ==
    /\ Switches!Next
    /\ UNCHANGED <<loopVars, classVars, warningVars, spikeVars, socketVars, geometryVars>>

GenerateReadings ==
    /\ Generator!Next
    /\ UNCHANGED <<switchVars, classVars, warningVars, spikeVars, socketVars, geometryVars>>

MeasurePower ==
    /\ Classes!Next
    /\ UNCHANGED <<switchVars, loopVars, warningVars, spikeVars, socketVars, geometryVars>>

Learn ==
    /\ Warning!Next
    /\ UNCHANGED <<switchVars, loopVars, classVars, spikeVars, socketVars, geometryVars>>

InjectSpikes ==
    /\ Spikes!Next
    /\ UNCHANGED <<switchVars, loopVars, classVars, warningVars, socketVars, geometryVars>>

PushToDashboards ==
    /\ Sockets!Next
    /\ UNCHANGED <<switchVars, loopVars, classVars, warningVars, spikeVars, geometryVars>>

ShapeZone ==
    /\ Geometry!Next
    /\ UNCHANGED <<switchVars, loopVars, classVars, warningVars, spikeVars, socketVars>>

Next ==
    \/ PlayScenario \/ GenerateReadings \/ MeasurePower \/ Learn \/ InjectSpikes
    \/ PushToDashboards \/ ShapeZone

Spec == Init /\ [][Next]_platformVars

-----------------------------------------------------------------------------
\* ScenarioSwitch and GeneratorLoop: a phase lasts its time, the summary of a tick
\* shows each sensor with its own status, and a worker whom the generator moves
\* stays on the map (scenario.py:25-33, :177-256, scheduler.py:93-157, :202-215,
\* generators.py:531-548).
GeneratorIsFaithful ==
    /\ [](Switches!TypeOK /\ Generator!TypeOK /\ Generator!OwnStatus /\ Generator!OnTheMap)
    /\ Switches!FullPhases

\* Classification: a reading is as bad as its worst value, the cause that an alarm
\* names is as bad as the alarm says, and spikes do not change what is normal for a
\* power device (classifiers.py:42-72, :85-87, generators.py:329-385).
ReadingsAreClassified ==
    Classes!WorstDecides /\ Classes!CauseIsNamed /\ Classes!SpikesChangeNothing

\* EarlyWarning: model and deviation are of one fit, or the deviation of an earlier
\* one; the throttle's time lies between two predictions; a prediction is judged
\* once and not before it is due (anomaly_detector.py:101-156,
\* devices/views.py:73, :384-388, trend_predictor.py:209-234).
LearnersInOrder ==
    /\ [](Warning!TypeOK /\ Warning!FitsInOrder /\ Warning!PredictionsSpaced)
    /\ Warning!JudgedOnce

\* SpikeInjection: a sensor of a zone has one chain, no reading of the generator lies
\* between those of a chain, and a curve that ends has come down
\* (zone_lifecycle.py:213-228, devices/views.py:127-134, tasks_scenario.py:96-124).
SpikesAreApart ==
    Spikes!TypeOK /\ Spikes!OneChainEach /\ Spikes!NoMixing /\ Spikes!EndsDown

\* Realtime: who is connected is sent every message, the gauge counts the
\* connections, and the cache shows the last value published
\* (realtime/consumers.py:41-57, realtime/publishers.py:51-68, :109-141).
DashboardsAreCurrent ==
    Sockets!TypeOK /\ Sockets!OpenHearsAll /\ Sockets!GaugeCounts /\ Sockets!CacheIsLatest

=============================================================================

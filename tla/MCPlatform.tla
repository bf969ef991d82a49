----------------------------- MODULE MCPlatform -----------------------------
(***************************************************************************)
(* Small instances of what stands around the alarms.  The parts share no    *)
(* state, so that each behaviour moves one of them and leaves the others    *)
(* at rest.                                                                 *)
(***************************************************************************)
EXTENDS Platform

CONSTANTS s1, s2, s3, z1, z2

VARIABLE focus

TwoSwitches == [d \in {s1, s2} |-> IF d = s1 THEN "gas" ELSE "power"]
ShortPhases == [t \in {"gas", "power"} |-> IF t = "gas" THEN 1 ELSE 2]

\* The first scenario's sensors are two apart, so that its zone reaches the other
\* one at once or while it grows; the second scenario's zone reaches its own only.
Sources == [z \in {z1, z2} |-> IF z = z1 THEN s1 ELSE s2]
TwoApart == [p \in {s1, s2} \X {s1, s2} |-> IF p[1] = p[2] THEN 0 ELSE 2]
FirstReaches == [z \in {z1, z2} |-> IF z = z1 THEN {1, 2} ELSE {0}]
LastReaches == [z \in {z1, z2} |-> IF z = z1 THEN 3 ELSE 0]

TwoGroups == <<"workers", "sensors">>

\* Around each limit, and readings of which gases are missing.
AtLimits ==
    {[co |-> a, co2 |-> b, no2 |-> c, o2 |-> d] :
       a \in {NoRow, 24, 25, 26, 199, 200, 350}, b \in {600, 999, 1000, 3000, 4999, 5000, 5001},
       c \in {NoRow, 0, 2, 3, 4, 5, 6}, d \in {15, 16, 17, 18, 20, 21, 22, 23, 24}}

GasLimits ==
    [co |-> [caution |-> 25, danger |-> 200], co2 |-> [caution |-> 1000, danger |-> 5000],
     no2 |-> [caution |-> 3, danger |-> 5]]

FourKeys == <<"co", "co2", "o2", "no2">>
OxygenLimits == [low2 |-> 16, low1 |-> 18, high1 |-> 21, high2 |-> 23]
BothTables ==
    {GenLimit("o2", "over", [caution |-> 21, danger |-> 23]),
     GenLimit("o2", "under", [caution |-> 18, danger |-> 16])} \cup
    {GenLimit(k, "over", GasLimits[k]) : k \in DOMAIN GasLimits}

Usual == [co |-> 24, co2 |-> 600, no2 |-> 0, o2 |-> 20]

ThreePlaces == {<<0, 0>>, <<1, 0>>, <<1, 2>>}
Octagon == <<<<1, 0>>, <<1, 1>>, <<0, 1>>, <<-1, 1>>, <<-1, 0>>, <<-1, -1>>, <<0, -1>>, <<1, -1>>>>
Diamond == <<<<1, 0>>, <<0, 1>>, <<-1, 0>>, <<0, -1>>>>
Window == {<<x, y>> : x \in -3 .. 3, y \in -2 .. 4}

Resting == [s \in {s1, s2, s3} |-> IF s = s1 THEN <<0, 0>> ELSE <<1, 0>>]

MCInit ==
    /\ focus \in {"switches", "loop", "gas", "power", "warning", "spikes", "sockets", "geometry"}
    /\ focus # "gas" => gas = Usual
    /\ focus # "loop" => rows = <<>> /\ employed = FALSE
    /\ focus # "geometry" => kind = "automatic" /\ place = Resting
    /\ Init
    /\ place[s1] = <<0, 0>>

MCNext ==
    /\ UNCHANGED focus
    /\ \/ focus = "switches" /\ PlayScenario
       \/ focus = "loop" /\ GenerateReadings
       \/ focus = "power" /\ MeasurePower
       \/ focus = "warning" /\ Learn
       \/ focus = "spikes" /\ InjectSpikes
       \/ focus = "sockets" /\ PushToDashboards
       \/ focus = "geometry" /\ ShapeZone

MCSpec == MCInit /\ [][MCNext]_<<focus, platformVars>>

\* ZoneGeometry: the test for a point agrees with the polygon, who confirmed the leak
\* is inside the zone, a sensor that has not moved confirms within the radius, and a
\* zone gives up no ground (geofence/services.py:10-32, polygon_utils.py:50-122,
\* zone_lifecycle.py:80-90, :127-163, devices/neighbor_graph.py:54-95).
ZoneHasItsShape ==
    /\ [](Geometry!TypeOK /\
          (focus = "geometry" => Geometry!InsideAgrees /\ Geometry!CentresInside))
    /\ Geometry!ConfirmedNear
    /\ Geometry!GainsGround

=============================================================================

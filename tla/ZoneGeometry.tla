---------------------------- MODULE ZoneGeometry ----------------------------
(***************************************************************************)
(* The polygon of one dynamic zone: built around the source and the sensors *)
(* that confirmed the leak, rebuilt or stretched while the radius grows,    *)
(* and what the test for a point inside makes of it.  The neighbours that   *)
(* may confirm come from distances cached per process, while devices are    *)
(* moved.  Coordinates are integers; the circles of the code are the rings  *)
(* Circle and Arc of the radius one; rounding is left out.                  *)
(***************************************************************************)
EXTENDS Integers, Sequences, FiniteSets, SequencesExt, FiniteSetsExt

CONSTANTS
    None,
    Sensors,
    Source,     \* the sensor in which the leak was found
    Places,     \* where sensors can be: set of <<x, y>>
    Circle,     \* circle_polygon around <<0, 0>>, a sequence of points
    Arc,        \* _arc_points_around <<0, 0>>, a sequence of points
    Grid,       \* the points that are looked at
    CriticalAt, \* MIN_CONFIRMING_FOR_CRITICAL
    MaxRadius,  \* bound: the radius doubles up to it
    MaxMoves    \* bound: devices moved, processes started

VARIABLES
    place,     \* Device.x, Device.y, by sensor
    cache,     \* the places when _cache was loaded, or None
    kind,      \* is it a zone of a scenario, or "automatic"?
    round,     \* has a scenario's zone become a circle?
    radius,    \* current_radius_px
    confirmed, \* confirmed_devices
    polygon,
    built,     \* the places from which the polygon was built last
    moved,     \* history: sensors moved since the cache was loaded
    moves

geometryVars == <<place, cache, kind, round, radius, confirmed, polygon, built, moved, moves>>

Shifted(points, c, r) == [i \in DOMAIN points |-> <<c[1] + r * points[i][1], c[2] + r * points[i][2]>>]

Cross(o, a, b) == (a[1] - o[1]) * (b[2] - o[2]) - (a[2] - o[2]) * (b[1] - o[1])

\* Faulty variants of the definition that follows each of them, named
\* <definition>_<fault>, are used by no specification: they record which
\* mistake in the code each property would catch.
AddToHull_PopOnce(hull, p) ==
    LET n == Len(hull) IN
    Append(IF n >= 2 /\ Cross(hull[n - 1], hull[n], p) <= 0 THEN Front(hull) ELSE hull, p)

\* The end of the chain goes as long as it does not turn left towards the point.
AddToHull(hull, p) ==
    LET keeps == {n \in DOMAIN hull : n = 1 \/ Cross(hull[n - 1], hull[n], p) > 0}
    IN  Append(IF hull = <<>> THEN hull ELSE SubSeq(hull, 1, Max(keeps)), p)

\* _convex_hull, counterclockwise.
ConvexHull(points) ==
    LET before(a, b) == a[1] < b[1] \/ (a[1] = b[1] /\ a[2] < b[2])
        sorted == [i \in 1 .. Cardinality(points) |->
                     CHOOSE p \in points : Cardinality({q \in points : before(q, p)}) = i - 1]
        chain(s) == FoldLeft(AddToHull, <<>>, s)
    IN  IF Len(sorted) <= 1 THEN sorted
        ELSE Front(chain(sorted)) \o Front(chain(Reverse(sorted)))

BuildZonePolygon_NoSource(at, ss, r) ==
    IF ss = {} THEN Shifted(Circle, at[Source], r)
    ELSE ConvexHull(UNION {ToSet(Shifted(Arc, at[s], r)) : s \in ss})

\* build_zone_polygon: a circle, or the hull of the arcs around all centres.
BuildZonePolygon(at, ss, r) ==
    IF ss = {} THEN Shifted(Circle, at[Source], r)
    ELSE ConvexHull(UNION {ToSet(Shifted(Arc, at[s], r)) : s \in ss \cup {Source}})

\* Does the ray from p to the right meet the edge from a to b?
Meets(p, a, b) ==
    /\ (a[2] > p[2]) # (b[2] > p[2])
    /\ IF b[2] > a[2] THEN (p[1] - a[1]) * (b[2] - a[2]) < (b[1] - a[1]) * (p[2] - a[2])
                      ELSE (p[1] - a[1]) * (b[2] - a[2]) > (b[1] - a[1]) * (p[2] - a[2])

Inside_CountsEnds(p, poly) ==
    LET n == Len(poly)
        last(i) == IF i = 1 THEN n ELSE i - 1
        touches(a, b) == /\ (a[2] >= p[2]) # (b[2] > p[2])
                         /\ IF b[2] > a[2]
                            THEN (p[1] - a[1]) * (b[2] - a[2]) < (b[1] - a[1]) * (p[2] - a[2])
                            ELSE (p[1] - a[1]) * (b[2] - a[2]) > (b[1] - a[1]) * (p[2] - a[2])
    IN  n >= 3 /\ Cardinality({i \in DOMAIN poly : touches(poly[i], poly[last(i)])}) % 2 = 1

\* point_in_polygon.
Inside(p, poly) ==
    LET n == Len(poly)
        last(i) == IF i = 1 THEN n ELSE i - 1
    IN  n >= 3 /\ Cardinality({i \in DOMAIN poly : Meets(p, poly[i], poly[last(i)])}) % 2 = 1

\* The reference for it: to the left of every edge, where edges are not counted.
StrictlyWithin(p, poly) ==
    \A i \in DOMAIN poly : Cross(poly[i], poly[IF i = Len(poly) THEN 1 ELSE i + 1], p) > 0

StrictlyOutside(p, poly) ==
    \E i \in DOMAIN poly : Cross(poly[i], poly[IF i = Len(poly) THEN 1 ELSE i + 1], p) < 0

Square(a, b) == (a[1] - b[1]) * (a[1] - b[1]) + (a[2] - b[2]) * (a[2] - b[2])

Neighbours_OfAnyDistance(at, r) == Sensors \ {Source}

\* The neighbours of the source within r, by the distances in the cache.
Neighbours(at, r) == {s \in Sensors \ {Source} : Square(at[s], at[Source]) <= r * r}

Init ==
    /\ place \in [Sensors -> Places]
    /\ cache = None
    /\ kind \in {"automatic", "scenario"}
    /\ round = FALSE
    /\ radius = 1
    /\ confirmed \in IF kind = "scenario" THEN SUBSET (Sensors \ {Source}) ELSE {{}}
    /\ polygon = BuildZonePolygon(place, confirmed, radius)
    /\ built = place
    /\ moved = {}
    /\ moves = 0

\* check_tier_upgrade: the cache is loaded if it is not, and of the neighbours
\* within the radius some show an anomaly; the polygon is built again.
Confirm ==
    /\ kind = "automatic" /\ Cardinality(confirmed) < CriticalAt
    /\ LET known == IF cache = None THEN place ELSE cache
           since == IF cache = None THEN {} ELSE moved
       IN  /\ cache' = known
           /\ moved' = since
           /\ \E new \in SUBSET (Neighbours(known, radius) \ confirmed) :
                IF new = {} THEN UNCHANGED <<confirmed, polygon, built>>
                ELSE /\ confirmed' = confirmed \cup new
                     /\ polygon' = BuildZonePolygon(place, confirmed', radius)
                     /\ built' = place
    /\ UNCHANGED <<place, kind, round, radius, moves>>

Grow_AroundSource(becomesRound) ==
    /\ radius < MaxRadius
    /\ radius' = 2 * radius
    /\ becomesRound => kind = "scenario"
    /\ round => becomesRound
    /\ round' = becomesRound
    /\ built' = place
    /\ polygon' = Shifted(Circle, place[Source], radius')
    /\ UNCHANGED <<place, cache, kind, confirmed, moved, moves>>

\* update_zone_radius: an automatic zone is built anew, a scenario's stretched from
\* the source until it has become a circle.
Grow(becomesRound) ==
    /\ radius < MaxRadius
    /\ radius' = 2 * radius
    /\ becomesRound => kind = "scenario"
    /\ round => becomesRound
    /\ round' = becomesRound
    /\ built' = IF kind = "automatic" THEN place ELSE built
    /\ LET c == place[Source] IN
       polygon' = CASE kind = "automatic" -> BuildZonePolygon(place, confirmed, radius')
                    [] kind = "scenario" /\ becomesRound -> Shifted(Circle, c, radius')
                    [] kind = "scenario" /\ ~becomesRound ->
                         [i \in DOMAIN polygon |-> <<2 * polygon[i][1] - c[1], 2 * polygon[i][2] - c[2]>>]
    /\ UNCHANGED <<place, cache, kind, confirmed, moved, moves>>

\* An administrator moves a device; nobody tells the caches.
MoveDevice(s, p) ==
    /\ moves < MaxMoves
    /\ place[s] # p
    /\ moves' = moves + 1
    /\ place' = [place EXCEPT ![s] = p]
    /\ moved' = moved \cup {s}
    /\ UNCHANGED <<cache, kind, round, radius, confirmed, polygon, built>>

\* invalidate_neighbor_cache, or a new process.
Invalidate ==
    /\ cache # None
    /\ moves < MaxMoves
    /\ moves' = moves + 1
    /\ cache' = None
    /\ UNCHANGED <<place, kind, round, radius, confirmed, polygon, built, moved>>

Next ==
    \/ Confirm \/ Invalidate
    \/ \E b \in BOOLEAN : Grow(b)
    \/ \E s \in Sensors, p \in Places : MoveDevice(s, p)

Spec == Init /\ [][Next]_geometryVars

-----------------------------------------------------------------------------
\* Every variable has its type.
TypeOK ==
    /\ place \in [Sensors -> Places]
    /\ radius \in 1 .. MaxRadius
    /\ confirmed \subseteq Sensors
    /\ Len(polygon) >= 3

\* The test for a point agrees with the polygon: what is within all edges is
\* inside, what is beyond one of them is not, also at the height of a corner; and
\* the hull has no dent (geofence/services.py:10-32, polygon_utils.py:50-80).
InsideAgrees ==
    \A p \in Grid : /\ StrictlyWithin(p, polygon) => Inside(p, polygon)
                    /\ StrictlyOutside(p, polygon) => ~Inside(p, polygon)

\* Every sensor that confirmed the leak is inside the zone, where it was when the
\* polygon was built, as long as a scenario's zone has not become a circle, nor its
\* source been moved
\* (zone_lifecycle.py:80-90, polygon_utils.py:83-122).
CentresInside ==
    ~round /\ (kind = "scenario" => Source \notin moved) =>
        \A s \in confirmed \cup {Source} : Inside(built[s], polygon)

\* A sensor confirms a leak only within the radius of the zone, unless it or the
\* source was moved after the distances were loaded (devices/neighbor_graph.py:54-95).
ConfirmedNear ==
    [][\A s \in confirmed' \ confirmed :
         \/ Square(place[s], place[Source]) <= radius * radius
         \/ moved' \cap {s, Source} # {}]_geometryVars

\* A zone does not give up ground as long as its devices stay where they are: not
\* when its radius grows, nor when a further sensor confirms; except that a
\* scenario's becomes a circle, and that the first confirmation replaces the circle
\* by arcs with fewer points (zone_lifecycle.py:80-90, :127-163).
GainsGround ==
    [][\/ polygon' = polygon \/ round'
       \/ IF kind = "scenario" THEN moved # {} ELSE place # built
       \/ confirmed = {} /\ confirmed' # {}
       \/ \A p \in Grid : Inside(p, polygon) => Inside(p, polygon')]_geometryVars

=============================================================================

---------------------------- MODULE SensorIngest ----------------------------
(***************************************************************************)
(* The POST of a gas sensor reading (devices/views.py, SensorDataView) and *)
(* the dynamic zone it triggers (geofence/auto_trigger.py), for one device *)
(* and one diffusing gas, together with the part of the 30 s tick that     *)
(* reads what the POST has stored (expire_zones, expire_recovered_zones).  *)
(*                                                                         *)
(* Requests run on several pods, without a transaction around the handler: *)
(* each reads Device.status first and compares its own reading with that   *)
(* copy to the end.  Two Redis keys set with SET NX EX are the gates: one  *)
(* reading is stored per SaveInterval, one zone is triggered per GateSec.  *)
(* While a scenario injects a spike into the device its POSTs are answered *)
(* before anything is done, a step that changes nothing here.  The alarm   *)
(* evaluation is SensorAlarm's subject: here it only may raise.            *)
(***************************************************************************)
EXTENDS Integers, Sequences, FiniteSets

CONSTANTS
    Pods,          \* threads of control that serve POSTs of this device
    Readings,      \* what a POST may carry: [status, diffuses] records
    SaveInterval,  \* DB_SAVE_INTERVAL_SEC (5)
    GateSec,       \* AUTO_ZONE_GATE_SEC (60)
    ZoneTTL,       \* TIER_TTL_SECONDS['tentative'] (300)
    RecoveryCheck, \* RECOVERY_CHECK_COUNT (5)
    MaxLatency,    \* bound: seconds a request may take
    MaxTime,       \* bound: seconds the clock may advance
    MaxPosts,      \* bound: POSTs that arrive
    MaxOutages,    \* bound: times the cache becomes unreachable
    MaxAborts      \* bound: requests that raise before their end

Status == {"normal", "caution", "danger"}

\* A reading is of the gas that is modelled, or not: danger of O2 alone does not
\* count as a leak.
ASSUME IngestConstantsAssumption ==
    /\ Readings \subseteq [status : Status, diffuses : BOOLEAN]
    /\ SaveInterval \in Nat
    /\ GateSec \in Nat \ {0}
    /\ ZoneTTL \in Nat \ {0}
    /\ RecoveryCheck \in Nat \ {0}
    /\ MaxLatency \in Nat
    /\ MaxTime \in Nat
    /\ MaxPosts \in Nat
    /\ MaxOutages \in Nat
    /\ MaxAborts \in Nat

VARIABLES
    clock,    \* time in seconds
    cacheUp,  \* the Redis cache can be reached
    saveGate, \* when the key dbsave:<device> expires
    zoneGate, \* when the key autozone:<device>:<gas> expires
    status,   \* Device.status
    stored,   \* status of the latest SensorData rows, newest first
    zones,    \* dynamic zones of this device and gas, in the order of creation
    pc,       \* where each request stands
    local,    \* what each request holds in its local variables
    expiring, \* zones the tick has judged recovered and not yet saved
    latest,   \* history: status carried by the POST that was last let in
    posts,    \* POSTs that have arrived so far
    outages,  \* times the cache has become unreachable so far
    aborts    \* requests that have raised so far

vars == <<clock, cacheUp, saveGate, zoneGate, status, stored, zones, pc, local,
          expiring, latest, posts, outages, aborts>>

world == <<clock, cacheUp>>
gates == <<saveGate, zoneGate>>
database == <<status, stored, zones>>
history == <<latest, posts, outages, aborts>>

-----------------------------------------------------------------------------
NotServing == [reading |-> [status |-> "normal", diffuses |-> FALSE],
               prev |-> "normal", persist |-> FALSE, at |-> 0]

Active == {z \in 1 .. Len(zones) : zones[z].active}

Init ==
    /\ clock = 0
    /\ cacheUp = TRUE
    /\ saveGate = 0
    /\ zoneGate = 0
    /\ status = "normal"
    /\ stored = <<>>
    /\ zones = <<>>
    /\ pc = [p \in Pods |-> "idle"]
    /\ local = [p \in Pods |-> NotServing]
    /\ expiring = {}
    /\ latest = "normal"
    /\ posts = 0
    /\ outages = 0
    /\ aborts = 0

Goto(p, label) == pc' = [pc EXCEPT ![p] = label]

Respond(p) == Goto(p, "idle") /\ local' = [local EXCEPT ![p] = NotServing]

\* Device.objects.get; then the cache is asked for scenario_spike:<device>, and
\* nothing catches the error if it cannot be reached.
Receive(p, r) ==
    /\ pc[p] = "idle"
    /\ posts < MaxPosts
    /\ posts' = posts + 1
    /\ IF cacheUp
       THEN /\ Goto(p, "gate")
            /\ local' = [local EXCEPT ![p] =
                 [reading |-> r, prev |-> status, persist |-> FALSE, at |-> clock]]
            /\ latest' = r.status
       ELSE UNCHANGED <<pc, local, latest>>
    /\ UNCHANGED <<world, gates, database, expiring, outages, aborts>>

\* _should_persist: cache.add, or True when the cache cannot be reached.
SaveGate(p) ==
    /\ pc[p] = "gate"
    /\ LET persist == ~cacheUp \/ clock >= saveGate IN
       /\ saveGate' = IF cacheUp /\ persist THEN clock + SaveInterval ELSE saveGate
       /\ local' = [local EXCEPT ![p].persist = persist]
       /\ Goto(p, IF persist THEN "insert" ELSE "device")
    /\ UNCHANGED <<world, zoneGate, database, expiring, history>>

Newest(rows) == SubSeq(rows, 1, IF Len(rows) < RecoveryCheck THEN Len(rows) ELSE RecoveryCheck)

\* SensorData.objects.create.
Insert(p) ==
    /\ pc[p] = "insert"
    /\ stored' = Newest(<<local[p].reading.status>> \o stored)
    /\ Goto(p, "device")
    /\ UNCHANGED <<world, gates, status, zones, local, expiring, history>>

\* Faulty variants of the definition that follows each of them, named
\* <definition>_<fault>, are used by no specification: they record which
\* mistake in the code each property would catch.
SaveDevice_OnlyStored(p) ==
    /\ pc[p] = "device"
    /\ status' = IF local[p].persist THEN local[p].reading.status ELSE status
    /\ Goto(p, "evaluate")
    /\ UNCHANGED <<world, gates, stored, zones, local, expiring, history>>

\* device.save, if the status differs from the copy or the reading was stored.
SaveDevice(p) ==
    /\ pc[p] = "device"
    /\ LET r == local[p].reading IN
       status' = IF r.status # local[p].prev \/ local[p].persist THEN r.status ELSE status
    /\ Goto(p, "evaluate")
    /\ UNCHANGED <<world, gates, stored, zones, local, expiring, history>>

\* evaluate_sensor has returned; maybe_trigger_zone acts on a transition to
\* danger of a diffusing gas.
Evaluate(p) ==
    /\ pc[p] = "evaluate"
    /\ LET r == local[p].reading IN
       IF r.status = "danger" /\ local[p].prev # "danger" /\ r.diffuses
       THEN Goto(p, "zoneGate") /\ UNCHANGED local
       ELSE Respond(p)
    /\ UNCHANGED <<world, gates, database, expiring, history>>

ZoneGate_Ignored(p) ==
    /\ pc[p] = "zoneGate"
    /\ zoneGate' = clock + GateSec
    /\ Goto(p, "lookup")
    /\ UNCHANGED <<world, saveGate, database, local, expiring, history>>

\* cache.add of the zone gate; without the cache the request goes on.
ZoneGate(p) ==
    /\ pc[p] = "zoneGate"
    /\ IF ~cacheUp
       THEN Goto(p, "lookup") /\ UNCHANGED <<local, zoneGate>>
       ELSE IF clock >= zoneGate
       THEN /\ zoneGate' = clock + GateSec
            /\ Goto(p, "lookup")
            /\ UNCHANGED local
       ELSE Respond(p) /\ UNCHANGED zoneGate
    /\ UNCHANGED <<world, saveGate, database, expiring, history>>

Lookup_AnyZone(p) ==
    /\ pc[p] = "lookup"
    /\ IF zones = <<>> THEN Goto(p, "create") /\ UNCHANGED local ELSE Respond(p)
    /\ UNCHANGED <<world, gates, database, expiring, history>>

\* An active zone of this device and gas already exists, or not.
Lookup(p) ==
    /\ pc[p] = "lookup"
    /\ IF Active = {} THEN Goto(p, "create") /\ UNCHANGED local ELSE Respond(p)
    /\ UNCHANGED <<world, gates, database, expiring, history>>

CreateZone_Endless(p) ==
    /\ pc[p] = "create"
    /\ zones' = Append(zones, [active |-> TRUE, until |-> -1, ended |-> 0])
    /\ Respond(p)
    /\ UNCHANGED <<world, gates, status, stored, expiring, history>>

\* create_dynamic_zone.
CreateZone(p) ==
    /\ pc[p] = "create"
    /\ zones' = Append(zones, [active |-> TRUE, until |-> clock + ZoneTTL, ended |-> 0])
    /\ Respond(p)
    /\ UNCHANGED <<world, gates, status, stored, expiring, history>>

\* The insert or the evaluation raises and the client gets an error, a failure
\* inside maybe_trigger_zone is absorbed, or the pod dies.
Abort(p) ==
    /\ pc[p] # "idle"
    /\ aborts < MaxAborts
    /\ aborts' = aborts + 1
    /\ Respond(p)
    /\ UNCHANGED <<world, gates, database, expiring, latest, posts, outages>>

-----------------------------------------------------------------------------
(* The tick of the Celery worker.                                          *)

End(z) == zones' = [zones EXCEPT ![z].active = FALSE, ![z].ended = clock]

\* expire_zones.
ExpireDue ==
    /\ expiring = {}
    /\ \E z \in Active : zones[z].until <= clock /\ End(z)
    /\ UNCHANGED <<world, gates, status, stored, pc, local, expiring, history>>

\* expire_recovered_zones: every zone is judged before the first is saved.
JudgeRecovered ==
    /\ expiring = {}
    /\ Len(stored) >= RecoveryCheck
    /\ \A i \in 1 .. RecoveryCheck : stored[i] = "normal"
    /\ Active # {}
    /\ expiring' = Active
    /\ UNCHANGED <<world, gates, database, pc, local, history>>

ExpireRecovered ==
    /\ \E z \in expiring : End(z) /\ expiring' = expiring \ {z}
    /\ UNCHANGED <<world, gates, status, stored, pc, local, history>>

-----------------------------------------------------------------------------
\* No request outlives MaxLatency.
TimePasses ==
    /\ clock < MaxTime
    /\ \A p \in Pods : pc[p] # "idle" => clock - local[p].at < MaxLatency
    /\ clock' = clock + 1
    /\ UNCHANGED <<cacheUp, gates, database, pc, local, expiring, history>>

\* The cache becomes unreachable and is reachable again, with the keys it held.
CacheFails ==
    /\ cacheUp
    /\ outages < MaxOutages
    /\ outages' = outages + 1
    /\ cacheUp' = FALSE
    /\ UNCHANGED <<clock, gates, database, pc, local, expiring, latest, posts, aborts>>

CacheReturns ==
    /\ ~cacheUp
    /\ cacheUp' = TRUE
    /\ UNCHANGED <<clock, gates, database, pc, local, expiring, history>>

Next ==
    \/ TimePasses
    \/ CacheFails
    \/ CacheReturns
    \/ ExpireDue
    \/ JudgeRecovered
    \/ ExpireRecovered
    \/ \E p \in Pods :
         \/ \E r \in Readings : Receive(p, r)
         \/ SaveGate(p)
         \/ Insert(p)
         \/ SaveDevice(p)
         \/ Evaluate(p)
         \/ ZoneGate(p)
         \/ Lookup(p)
         \/ CreateZone(p)
         \/ Abort(p)

Spec == Init /\ [][Next]_vars

-----------------------------------------------------------------------------
RequestType ==
    [reading : [status : Status, diffuses : BOOLEAN], prev : Status, persist : BOOLEAN,
     at : Nat]

\* Every variable has its type.
TypeOK ==
    /\ clock \in Nat
    /\ cacheUp \in BOOLEAN
    /\ saveGate \in Nat
    /\ zoneGate \in Nat
    /\ status \in Status
    /\ stored \in Seq(Status)
    /\ zones \in Seq([active : BOOLEAN, until : Nat, ended : Nat])
    /\ pc \in [Pods -> {"idle", "gate", "insert", "device", "evaluate", "zoneGate",
                        "lookup", "create"}]
    /\ local \in [Pods -> RequestType]
    /\ expiring \in SUBSET (1 .. Len(zones))
    /\ latest \in Status
    /\ posts \in Nat
    /\ outages \in Nat
    /\ aborts \in Nat

AllIdle == \A p \in Pods : pc[p] = "idle"

\* There are never two active zones of the same device and gas
\* (auto_trigger.py:17-20): the lookup and the insert are not atomic, but while
\* the cache answers the gate lets one request through them at a time.
NoDuplicateZones == outages = 0 => Cardinality(Active) <= 1

\* The gate refuses nobody in vain: while it is shut, and no request has failed
\* in between, a request is about to look for or create the zone, or a zone has
\* been active since the gate was shut.
GateMeansZone ==
    aborts = 0 /\ clock < zoneGate =>
        \/ \E p \in Pods : pc[p] \in {"lookup", "create"}
        \/ \E z \in 1 .. Len(zones) :
             zones[z].active \/ zones[z].ended + GateSec >= zoneGate

\* Between requests Device.status is what the last POST that got past the cache
\* carried, although most
\* POSTs save nothing (devices/views.py:190-192: the status is always reflected
\* at once).
StatusIsLatest == AllIdle /\ aborts = 0 => status = latest

\* What expire_recovered_zones promises (zone_lifecycle.py:323): a zone is expired
\* as recovered when its source sensor is back to normal.
RecoveredMeansNormal ==
    [][\A z \in 1 .. Len(zones) :
         expiring # {} /\ zones[z].active /\ ~zones'[z].active => status # "danger"]_zones

=============================================================================

---------------------------- MODULE ZoneLifecycle ----------------------------
(***************************************************************************)
(* Dynamic danger zones (geofence/zone_lifecycle.py): GeoFence rows with   *)
(* is_dynamic, created around a gas sensor, grown by diffusion, promoted   *)
(* tentative -> confirmed -> critical as neighbouring sensors confirm the  *)
(* leak, and expired by their TTL or because the source has recovered.     *)
(*                                                                         *)
(* tick() is run by Celery beat every 30 s, by the management commands and *)
(* by the scenarios in a web request; Tickers are the runs that may        *)
(* overlap.  A tick loads all rows of a phase at once and then works on    *)
(* those in-memory objects, saving each one later: some saves write only   *)
(* the named fields, a promotion writes the whole row.                     *)
(*                                                                         *)
(* Times are relative (ttl is the time left until expires_at), so that no  *)
(* bound on the clock is needed and "eventually" can be checked.           *)
(***************************************************************************)
EXTENDS Integers, FiniteSets

CONSTANTS
    Zones,         \* rows that may come into being
    Tickers,       \* runs of tick() that may overlap
    Sensors,       \* gas sensors near the source of the zones
    Distance,      \* [Sensors -> Nat]: distance from the source, in radius units
    TentativeTTL,  \* TIER_TTL_SECONDS['tentative'] (300)
    ConfirmedTTL,  \* TIER_TTL_SECONDS['confirmed'] (1800)
    CriticalTTL,   \* TIER_TTL_SECONDS['critical'] (3600)
    ScenarioTTL,   \* ZONE_TTL_SEC of a scenario (90 to 180)
    InitialAge,    \* INITIAL_ELAPSED_SEC (10): the age the first radius is for
    ScenarioAge,   \* LEAK_ELAPSED_SEC: a scenario zone is born that old
    RadiusCap,     \* R_MAX: the radius stops growing
    MinConfirmed,  \* MIN_CONFIRMING_FOR_CONFIRMED (1)
    MinCritical,   \* MIN_CONFIRMING_FOR_CRITICAL (3)
    MaxDeletes,    \* bound: zones deleted by an operator
    Orphans        \* bound: zones whose source may be deleted

ASSUME ZoneConstantsAssumption ==
    /\ IsFiniteSet(Sensors)
    /\ Distance \in [Sensors -> Nat]
    /\ TentativeTTL \in Nat \ {0}
    /\ ConfirmedTTL \in Nat \ {0}
    /\ CriticalTTL \in Nat \ {0}
    /\ ScenarioTTL \in Nat \ {0}
    /\ InitialAge \in Nat \ {0}
    /\ RadiusCap \in Nat
    /\ ScenarioAge \in Nat
    /\ InitialAge <= ScenarioAge
    /\ ScenarioAge <= RadiusCap
    /\ MinConfirmed \in Nat \ {0}
    /\ MinCritical \in Nat
    /\ MinConfirmed <= MinCritical
    /\ MaxDeletes \in Nat

VARIABLES
    row,       \* GeoFence rows in the database
    confirmed, \* the many-to-many table confirmed_devices
    age,       \* time since created_at, counted up to RadiusCap
    anomalous, \* environment: sensors for which has_anomaly is true
    recovered, \* environment: the source's last 5 stored readings are normal
    pc,        \* phase of each tick
    todo,      \* zones the phase still has to work on
    copy,      \* in-memory zone objects of each tick
    saving,    \* the zone a tick is about to save as promoted, if any
    expiredEvents,  \* history: "expired" events recorded for each zone
    criticalEvents, \* history: "upgraded_to_critical" events for each zone
    deletes    \* zones deleted by an operator so far

vars == <<row, confirmed, age, anomalous, recovered, pc, todo, copy,
          saving, expiredEvents, criticalEvents, deletes>>

ticker == <<pc, todo, copy, saving>>
environment == <<anomalous, recovered>>
history == <<expiredEvents, criticalEvents>>

-----------------------------------------------------------------------------
Tier == {"tentative", "confirmed", "critical"}
TierRank == [tentative |-> 1, confirmed |-> 2, critical |-> 3]

TierTTL == [tentative |-> TentativeTTL, confirmed |-> ConfirmedTTL, critical |-> CriticalTTL]

\* diffusion_radius: proportional to the time elapsed, up to the cap.  The unit
\* of distance is what the gas covers in one unit of time.
DiffusionRadius(elapsed) == IF elapsed < RadiusCap THEN elapsed ELSE RadiusCap

Unborn ==
    [exists |-> FALSE, active |-> FALSE, tier |-> "tentative", ttl |-> 0, radius |-> 0,
     scenario |-> FALSE, source |-> FALSE]

Active == {z \in Zones : row[z].active}

\* get_neighbors_within_devices.
Near(radius) == {s \in Sensors : Distance[s] <= radius}

\* check_tier_upgrade's decision: the tier the zone is promoted to, or none.
NoPromotion == "none"

\* Faulty variants, named <definition>_<fault>, are used by no specification: they
\* record which mistake in the code each property would catch.
Promotion_OffByOne(tier, total) ==
    IF total + 1 >= MinCritical THEN "critical"
    ELSE IF tier = "tentative" /\ total >= MinConfirmed THEN "confirmed"
    ELSE NoPromotion

Promotion_Repeats(tier, total) ==
    IF total >= MinCritical THEN "critical"
    ELSE IF total >= MinConfirmed THEN "confirmed"
    ELSE NoPromotion

Promotion(tier, total) ==
    IF total >= MinCritical THEN "critical"
    ELSE IF tier = "tentative" /\ total >= MinConfirmed THEN "confirmed"
    ELSE NoPromotion

-----------------------------------------------------------------------------
Init ==
    /\ row = [z \in Zones |-> Unborn]
    /\ confirmed = [z \in Zones |-> {}]
    /\ age = [z \in Zones |-> 0]
    /\ anomalous = {}
    /\ recovered = FALSE
    /\ pc = [t \in Tickers |-> "idle"]
    /\ todo = [t \in Tickers |-> {}]
    /\ copy = [t \in Tickers |-> [z \in Zones |-> Unborn]]
    /\ saving = [t \in Tickers |-> {}]
    /\ expiredEvents = [z \in Zones |-> 0]
    /\ criticalEvents = [z \in Zones |-> 0]
    /\ deletes = 0

Create_BornNow(z) ==
    /\ ~row[z].exists
    /\ \E scenario \in BOOLEAN :
         row' = [row EXCEPT ![z] =
              [exists |-> TRUE, active |-> TRUE, tier |-> "tentative",
               ttl |-> IF scenario THEN ScenarioTTL ELSE TentativeTTL,
               radius |-> DiffusionRadius(IF scenario THEN ScenarioAge ELSE InitialAge),
               scenario |-> scenario, source |-> TRUE]]
    /\ age' = [age EXCEPT ![z] = 0]
    /\ UNCHANGED <<confirmed, environment, ticker, history, deletes>>

\* create_dynamic_zone: by the auto trigger, by hand or by a scenario, which
\* then sets created_at back, so that its zone begins with a larger radius.
Create(z) ==
    /\ ~row[z].exists
    /\ \E scenario \in BOOLEAN :
         /\ row' = [row EXCEPT ![z] =
              [exists |-> TRUE, active |-> TRUE, tier |-> "tentative",
               ttl |-> IF scenario THEN ScenarioTTL ELSE TentativeTTL,
               radius |-> DiffusionRadius(IF scenario THEN ScenarioAge ELSE InitialAge),
               scenario |-> scenario, source |-> TRUE]]
         /\ age' = [age EXCEPT ![z] = IF scenario THEN ScenarioAge ELSE 0]
    /\ UNCHANGED <<confirmed, environment, ticker, history, deletes>>

\* GeoFenceViewSet.destroy: a soft delete, without an event.
Delete(z) ==
    /\ row[z].active
    /\ deletes < MaxDeletes
    /\ deletes' = deletes + 1
    /\ row' = [row EXCEPT ![z].active = FALSE]
    /\ UNCHANGED <<confirmed, age, environment, ticker, history>>

\* The device in which the leak was found is deleted: source_device becomes null.  It
\* is none of the Sensors, and each zone has its own.
DeleteSource(z) ==
    /\ z \in Orphans
    /\ row[z].source
    /\ row' = [row EXCEPT ![z].source = FALSE]
    /\ UNCHANGED <<confirmed, age, environment, ticker, history, deletes>>

\* Readings come in: neighbours get or lose their residual, the source recovers
\* or deviates again.
Readings ==
    /\ \/ \E s \in Sensors :
            anomalous' = IF s \in anomalous THEN anomalous \ {s} ELSE anomalous \cup {s}
       \/ UNCHANGED anomalous
    /\ recovered' \in BOOLEAN
    /\ UNCHANGED <<row, confirmed, age, ticker, history, deletes>>

Less_BelowZero(n) == n - 1

Less(n) == IF n > 0 THEN n - 1 ELSE 0

\* One unit of time passes for every zone; expires_at in an in-memory object
\* draws nearer like the one in the row.
TimePasses ==
    /\ row' = [z \in Zones |-> [row[z] EXCEPT !.ttl = Less(@)]]
    /\ copy' = [t \in Tickers |-> [z \in Zones |-> [copy[t][z] EXCEPT !.ttl = Less(@)]]]
    /\ age' = [z \in Zones |->
                 IF row[z].exists /\ age[z] < RadiusCap THEN age[z] + 1 ELSE age[z]]
    /\ UNCHANGED <<confirmed, environment, pc, todo, saving, history, deletes>>

-----------------------------------------------------------------------------
(* tick(): expire, expire recovered, grow, promote.                        *)

Goto(t, phase) == pc' = [pc EXCEPT ![t] = phase]

\* The list of the phase is read in one query, before any zone is worked on;
\* objects that are not on it are forgotten.
Load(t, phase, zones) ==
    /\ Goto(t, phase)
    /\ todo' = [todo EXCEPT ![t] = zones]
    /\ copy' = [copy EXCEPT ![t] = [z \in Zones |-> IF z \in zones THEN row[z] ELSE Unborn]]

LoadExpired_TooEarly(t) ==
    /\ pc[t] = "idle"
    /\ Load(t, "expire", {z \in Active : row[z].ttl <= 1})
    /\ UNCHANGED <<row, confirmed, age, environment, saving, history, deletes>>

LoadExpired_WithSource(t) ==
    /\ pc[t] = "idle"
    /\ Load(t, "expire", {z \in Active : row[z].ttl = 0 /\ row[z].source})
    /\ UNCHANGED <<row, confirmed, age, environment, saving, history, deletes>>

\* expire_zones: the zones whose expires_at has come.
LoadExpired(t) ==
    /\ pc[t] = "idle"
    /\ Load(t, "expire", {z \in Active : row[z].ttl = 0})
    /\ UNCHANGED <<row, confirmed, age, environment, saving, history, deletes>>

\* expire_recovered_zones: the zones that have a source which has recovered.
LoadRecovered(t) ==
    /\ pc[t] = "expire"
    /\ todo[t] = {}
    /\ Load(t, "recover", IF recovered THEN {z \in Active : row[z].source} ELSE {})
    /\ UNCHANGED <<row, confirmed, age, environment, saving, history, deletes>>

\* A history counter goes up to 2, "more than once".
Bump(counter, z) == [counter EXCEPT ![z] = IF @ < 2 THEN @ + 1 ELSE @]

\* is_active = False, save(update_fields=['is_active', ...]), on_zone_expired.
\* Recording the event may fail without failing the tick.
Expire(t) ==
    /\ pc[t] \in {"expire", "recover"}
    /\ \E z \in todo[t] :
         /\ todo' = [todo EXCEPT ![t] = @ \ {z}]
         /\ copy' = [copy EXCEPT ![t][z] = Unborn]
         /\ row' = [row EXCEPT ![z].active = FALSE]
         /\ \/ expiredEvents' = Bump(expiredEvents, z)
            \/ UNCHANGED expiredEvents
    /\ UNCHANGED <<confirmed, age, environment, pc, saving, criticalEvents, deletes>>

\* update_all_active_zones.
LoadActive(t) ==
    /\ pc[t] = "recover"
    /\ todo[t] = {}
    /\ Load(t, "grow", Active)
    /\ UNCHANGED <<row, confirmed, age, environment, saving, history, deletes>>

Grow_SavesWholeRow(t) ==
    /\ pc[t] = "grow"
    /\ \E z \in todo[t] :
         /\ todo' = [todo EXCEPT ![t] = @ \ {z}]
         /\ copy' = [copy EXCEPT ![t][z] = Unborn]
         /\ row' = [row EXCEPT ![z] = [copy[t][z] EXCEPT !.radius = DiffusionRadius(age[z])]]
    /\ UNCHANGED <<confirmed, age, environment, pc, saving, history, deletes>>

\* update_zone_radius: save(update_fields=['polygon', 'current_radius_px', ...]).
Grow(t) ==
    /\ pc[t] = "grow"
    /\ \E z \in todo[t] :
         /\ todo' = [todo EXCEPT ![t] = @ \ {z}]
         /\ copy' = [copy EXCEPT ![t][z] = Unborn]
         /\ row' = [row EXCEPT ![z].radius = DiffusionRadius(age[z])]
    /\ UNCHANGED <<confirmed, age, environment, pc, saving, history, deletes>>

LoadPromotable_Critical(t) ==
    /\ pc[t] = "grow"
    /\ todo[t] = {}
    /\ Load(t, "promote", Active)
    /\ UNCHANGED <<row, confirmed, age, environment, saving, history, deletes>>

\* check_all_active_zones_upgrade: the active zones that are not critical yet.
LoadPromotable(t) ==
    /\ pc[t] = "grow"
    /\ todo[t] = {}
    /\ Load(t, "promote", {z \in Active : row[z].tier # "critical"})
    /\ UNCHANGED <<row, confirmed, age, environment, saving, history, deletes>>

\* check_tier_upgrade asks a zone without a source for its neighbours.
LacksSource(c) == ~c.scenario /\ c.radius > 0 /\ ~c.source

Confirm_AnyZone(t) ==
    /\ pc[t] = "promote"
    /\ \E z \in todo[t] :
         LET sure == confirmed[z] \cup (Near(copy[t][z].radius) \cap anomalous)
             promoted == Promotion(copy[t][z].tier, Cardinality(sure))
         IN /\ todo' = [todo EXCEPT ![t] = @ \ {z}]
            /\ confirmed' = [confirmed EXCEPT ![z] = sure]
            /\ IF promoted # NoPromotion
               THEN /\ copy' = [copy EXCEPT ![t][z].tier = promoted]
                    /\ saving' = [saving EXCEPT ![t] = {z}]
                    /\ Goto(t, "save")
               ELSE UNCHANGED <<copy, pc, saving>>
    /\ UNCHANGED <<row, age, environment, history, deletes>>

\* check_tier_upgrade up to the decision: the neighbours inside the radius that
\* show an anomaly are added to the table, then the table is counted.  A zone of
\* a scenario, a zone without a neighbour inside its radius and a zone that is
\* not promoted are finished here.
Confirm(t) ==
    /\ pc[t] = "promote"
    /\ \E z \in todo[t] :
         LET c == copy[t][z]
             inside == IF c.scenario \/ c.radius = 0 THEN {} ELSE Near(c.radius)
             sure == confirmed[z] \cup (inside \cap anomalous)
             promoted == IF inside = {} THEN NoPromotion ELSE Promotion(c.tier, Cardinality(sure))
         IN /\ ~LacksSource(c)
            /\ todo' = [todo EXCEPT ![t] = @ \ {z}]
            /\ confirmed' = [confirmed EXCEPT ![z] = sure]
            /\ IF promoted # NoPromotion
               THEN /\ copy' = [copy EXCEPT ![t][z].tier = promoted]
                    /\ saving' = [saving EXCEPT ![t] = {z}]
                    /\ Goto(t, "save")
               ELSE /\ copy' = [copy EXCEPT ![t][z] = Unborn]
                    /\ UNCHANGED <<pc, saving>>
    /\ UNCHANGED <<row, age, environment, history, deletes>>

\* _upgrade_to_confirmed and _upgrade_to_critical: save() without update_fields
\* writes every column of the object that was loaded when the phase began.
Promote(t) ==
    /\ pc[t] = "save"
    /\ \E z \in saving[t] :
         LET tier == copy[t][z].tier IN
         /\ row[z].source
         /\ row' = [row EXCEPT ![z] = [copy[t][z] EXCEPT !.ttl = TierTTL[tier]]]
         /\ copy' = [copy EXCEPT ![t][z] = Unborn]
         /\ \/ /\ tier = "critical"
               /\ criticalEvents' = Bump(criticalEvents, z)
               /\ UNCHANGED expiredEvents
            \/ UNCHANGED history
    /\ saving' = [saving EXCEPT ![t] = {}]
    /\ Goto(t, "promote")
    /\ UNCHANGED <<confirmed, age, environment, todo, deletes>>

\* tick() raises, and the zones still on the list are not looked at: a zone has no
\* source, or the save would write back a source that was deleted meanwhile, which
\* the database refuses.
Raise(t) ==
    /\ \/ pc[t] = "promote" /\ \E z \in todo[t] : LacksSource(copy[t][z])
       \/ pc[t] = "save" /\ \E z \in saving[t] : ~row[z].source
    /\ Load(t, "idle", {})
    /\ saving' = [saving EXCEPT ![t] = {}]
    /\ UNCHANGED <<row, confirmed, age, environment, history, deletes>>

\* tick() returns.
Finish(t) ==
    /\ pc[t] = "promote"
    /\ todo[t] = {}
    /\ Goto(t, "idle")
    /\ UNCHANGED <<row, confirmed, age, environment, todo, copy, saving, history, deletes>>

TickStep(t) ==
    \/ LoadExpired(t)
    \/ LoadRecovered(t)
    \/ Expire(t)
    \/ LoadActive(t)
    \/ Grow(t)
    \/ LoadPromotable(t)
    \/ Confirm(t)
    \/ Promote(t)
    \/ Raise(t)
    \/ Finish(t)

Next ==
    \/ \E z \in Zones : Create(z) \/ Delete(z) \/ DeleteSource(z)
    \/ Readings
    \/ TimePasses
    \/ \E t \in Tickers : TickStep(t)

Spec == Init /\ [][Next]_vars

\* Time passes, beat keeps starting ticks and a tick that has started goes on.
Fairness ==
    /\ WF_vars(TimePasses)
    /\ \A t \in Tickers : WF_vars(TickStep(t))

FairSpec == Spec /\ Fairness

-----------------------------------------------------------------------------
RowType ==
    [exists : BOOLEAN, active : BOOLEAN, tier : Tier, ttl : Nat, radius : Nat,
     scenario : BOOLEAN, source : BOOLEAN]

\* Every variable has its type.
TypeOK ==
    /\ row \in [Zones -> RowType]
    /\ confirmed \in [Zones -> SUBSET Sensors]
    /\ age \in [Zones -> 0 .. RadiusCap]
    /\ anomalous \in SUBSET Sensors
    /\ recovered \in BOOLEAN
    /\ pc \in [Tickers -> {"idle", "expire", "recover", "grow", "promote", "save"}]
    /\ todo \in [Tickers -> SUBSET Zones]
    /\ copy \in [Tickers -> [Zones -> RowType]]
    /\ saving \in [Tickers -> SUBSET Zones]
    /\ expiredEvents \in [Zones -> 0 .. 2]
    /\ criticalEvents \in [Zones -> 0 .. 2]
    /\ deletes \in Nat

-----------------------------------------------------------------------------
(* Properties that hold however ticks overlap.                             *)

\* A zone's tier never claims more confirming sensors than the table holds
\* (tier rules of zone_lifecycle.py:31-32), although it is decided on a count
\* taken before the row is saved and by ticks that know nothing of each other.
TierIsBacked ==
    \A z \in Zones :
        /\ row[z].tier = "critical" => Cardinality(confirmed[z]) >= MinCritical
        /\ row[z].tier = "confirmed" => Cardinality(confirmed[z]) >= MinConfirmed

\* A zone of a scenario is never promoted: its short life is part of the show.
ScenarioStaysTentative == \A z \in Zones : row[z].scenario => row[z].tier = "tentative"

\* A deactivated zone comes back to life only through the whole-row save of a
\* promotion that had been loaded before: growing the zone and expiring it write
\* the columns they mean to change and no others.
OnlyPromotionRevives ==
    [][\A z \in Zones :
         row[z].exists /\ ~row[z].active /\ row'[z].active =>
             \E t \in Tickers : pc[t] = "save" /\ z \in saving[t]]_row

\* Every zone ends: each promotion gives it a new TTL, but there are only two,
\* and beat never stops looking for zones whose time has come, which a zone that
\* makes ticks raise does not prevent (zone_lifecycle.py:427, :498-505).
EveryZoneEnds == \A z \in Zones : row[z].active ~> ~row[z].active

-----------------------------------------------------------------------------
(* Properties of ticks that do not overlap.                                *)

\* The promotion to critical, which goes out to the external channels, and the
\* expiry are recorded at most once for each zone.
AnnouncedOnce == \A z \in Zones : criticalEvents[z] <= 1 /\ expiredEvents[z] <= 1

\* The expiry phase deactivates no zone that still has time to live: a zone that
\* was listed as due has not been given a new TTL since.
ExpiredWhenDue ==
    [][\A t \in Tickers, z \in Zones :
         pc[t] = "expire" /\ row[z].active /\ ~row'[z].active => row[z].ttl = 0]_row

\* A zone that has been deactivated stays so: what tasks.py:18 says of ticks that
\* overlap (safe, as they use update_fields).
NoResurrection ==
    [][\A z \in Zones : row[z].exists /\ ~row[z].active => ~row'[z].active]_row

\* The life of a zone is renewed only by a promotion, which cannot be repeated: as
\* long as it is active its tier goes up, or stays and its time runs down
\* (zone_lifecycle.py:370-393, :445-453).
LifeRunsDown ==
    [][\A z \in Zones : row[z].active =>
         \/ ~row'[z].active
         \/ TierRank[row'[z].tier] > TierRank[row[z].tier]
         \/ row'[z].tier = row[z].tier /\ row'[z].ttl <= row[z].ttl]_row

\* An active zone becomes smaller only while it is younger than its first radius
\* supposes (INITIAL_ELAPSED_SEC): a promotion does not write back a radius that the
\* zone has outgrown (zone_lifecycle.py:109-158, :370-393).
KeepsRadius ==
    [][\A z \in Zones : row[z].active /\ row'[z].active =>
         row'[z].radius >= row[z].radius \/ age[z] < InitialAge]_row

\* What one tick at a time keeps of a zone from step to step.
ZonesRunDown == ExpiredWhenDue /\ NoResurrection /\ LifeRunsDown /\ KeepsRadius

=============================================================================

------------------------- MODULE ZoneLifecycleProofs -------------------------
(***************************************************************************)
(* Theorems about ZoneLifecycle, for any zones, sensors, distances, TTLs   *)
(* and thresholds, and any number of ticks that overlap.                   *)
(***************************************************************************)
EXTENDS ZoneLifecycle, TLAPS, FiniteSetTheorems

Phases == {"idle", "expire", "recover", "grow", "promote", "save"}

-----------------------------------------------------------------------------
(* What the operators return.                                              *)

\* The constants that rows are made of.
LEMMA ConstantTypes ==
  /\ TentativeTTL \in Nat /\ ScenarioTTL \in Nat
  /\ TierTTL \in [Tier -> Nat]
  /\ RadiusCap \in Nat /\ ScenarioAge \in 0 .. RadiusCap /\ InitialAge \in Nat
  /\ MinConfirmed \in Nat \ {0} /\ MinCritical \in Nat
  /\ Unborn \in RowType
  BY ZoneConstantsAssumption
  DEF ZoneConstantsAssumption, TierTTL, Tier, Unborn, RowType

LEMMA RadiusType ==
  ASSUME NEW n \in Nat
  PROVE  DiffusionRadius(n) \in Nat
  BY ConstantTypes DEF DiffusionRadius

LEMMA PromotionType ==
  ASSUME NEW tier, NEW total
  PROVE  Promotion(tier, total) \in Tier \cup {NoPromotion}
  BY DEF Promotion, Tier

\* Sets of confirming sensors are finite.
LEMMA ConfirmedFinite ==
  ASSUME NEW S \in SUBSET Sensors
  PROVE  IsFiniteSet(S) /\ Cardinality(S) \in Nat
  BY ZoneConstantsAssumption, FS_Subset, FS_CardinalityType DEF ZoneConstantsAssumption

\* One copy of one tick is replaced, and the others stay.
LEMMA CopyReplaced ==
  ASSUME TypeOK, NEW t \in Tickers, NEW z \in Zones, NEW r \in RowType,
         copy' = [copy EXCEPT ![t][z] = r]
  PROVE  /\ copy' \in [Tickers -> [Zones -> RowType]]
         /\ \A u \in Tickers, y \in Zones :
              copy'[u][y] = copy[u][y] \/ (y = z /\ copy'[u][y] = r)
  BY DEF TypeOK

\* One row is replaced, and the others stay.
LEMMA RowReplaced ==
  ASSUME TypeOK, NEW z \in Zones, NEW r \in RowType, row' = [row EXCEPT ![z] = r]
  PROVE  /\ row' \in [Zones -> RowType]
         /\ \A y \in Zones : row'[y] = row[y] \/ (y = z /\ row'[y] = r)
  BY DEF TypeOK

\* The load of a phase copies rows.
LEMMA LoadStep ==
  ASSUME TypeOK, NEW t \in Tickers, NEW phase \in Phases, NEW zones \in SUBSET Zones,
         Load(t, phase, zones)
  PROVE  /\ pc' \in [Tickers -> Phases]
         /\ todo' \in [Tickers -> SUBSET Zones]
         /\ copy' \in [Tickers -> [Zones -> RowType]]
         /\ \A u \in Tickers, z \in Zones : copy'[u][z] \in {copy[u][z], row[z], Unborn}
  <1> DEFINE loaded == [z \in Zones |-> IF z \in zones THEN row[z] ELSE Unborn]
  <1>1. loaded \in [Zones -> RowType]
        /\ \A z \in Zones : loaded[z] \in {row[z], Unborn}
    BY ConstantTypes DEF TypeOK
  <1>2. copy' = [copy EXCEPT ![t] = loaded]
    BY DEF Load
  <1> HIDE DEF loaded
  <1>3. /\ copy' \in [Tickers -> [Zones -> RowType]]
        /\ \A u \in Tickers, z \in Zones : copy'[u][z] \in {copy[u][z], row[z], Unborn}
    BY <1>1, <1>2 DEF TypeOK
  <1> QED BY <1>3 DEF Load, Goto, TypeOK, Phases

-----------------------------------------------------------------------------
(* What each step does to the rows and their copies.                       *)

\* The four steps that load the list of a phase.
Loads(t) ==
    \/ LoadExpired(t)
    \/ LoadRecovered(t)
    \/ LoadActive(t)
    \/ LoadPromotable(t)

LEMMA LoadsStep ==
  ASSUME TypeOK, NEW t \in Tickers, Loads(t)
  PROVE  /\ TypeOK'
         /\ UNCHANGED <<row, confirmed>>
         /\ \A u \in Tickers, z \in Zones : copy'[u][z] \in {copy[u][z], row[z], Unborn}
  <1>1. \E phase \in Phases, zones \in SUBSET Zones : Load(t, phase, zones)
    <2>1. /\ Active \in SUBSET Zones
          /\ {z \in Active : row[z].ttl = 0} \in SUBSET Zones
          /\ {z \in Active : row[z].tier # "critical"} \in SUBSET Zones
          /\ (IF recovered THEN Active ELSE {}) \in SUBSET Zones
      BY DEF Active
    <2>2. {"expire", "recover", "grow", "promote"} \subseteq Phases
      BY DEF Phases
    <2>3. CASE LoadExpired(t)
      BY <2>1, <2>2, <2>3 DEF LoadExpired
    <2>4. CASE LoadRecovered(t)
      BY <2>1, <2>2, <2>4 DEF LoadRecovered
    <2>5. CASE LoadActive(t)
      BY <2>1, <2>2, <2>5 DEF LoadActive
    <2>6. CASE LoadPromotable(t)
      BY <2>1, <2>2, <2>6 DEF LoadPromotable
    <2> QED BY <2>3, <2>4, <2>5, <2>6 DEF Loads
  <1>2. /\ pc' \in [Tickers -> Phases]
        /\ todo' \in [Tickers -> SUBSET Zones]
        /\ copy' \in [Tickers -> [Zones -> RowType]]
        /\ \A u \in Tickers, z \in Zones : copy'[u][z] \in {copy[u][z], row[z], Unborn}
    BY <1>1, LoadStep
  <1>3. UNCHANGED <<row, confirmed, age, anomalous, recovered, saving, expiredEvents,
                    criticalEvents, deletes>>
    BY DEF Loads, LoadExpired, LoadRecovered, LoadActive, LoadPromotable, environment, history
  <1> QED BY <1>2, <1>3 DEF TypeOK, Phases

\* Counting an event.
LEMMA BumpType ==
  ASSUME NEW c \in [Zones -> 0 .. 2], NEW z \in Zones
  PROVE  Bump(c, z) \in [Zones -> 0 .. 2]
  BY DEF Bump

\* A new zone is tentative.
LEMMA CreateStep ==
  ASSUME TypeOK, NEW z \in Zones, Create(z)
  PROVE  /\ TypeOK'
         /\ UNCHANGED <<confirmed, copy>>
         /\ ~row[z].exists
         /\ \A y \in Zones :
              row'[y] = row[y] \/ (y = z /\ row'[y].tier = "tentative")
  <1>1. PICK scenario \in BOOLEAN :
          /\ row' = [row EXCEPT ![z] =
               [exists |-> TRUE, active |-> TRUE, tier |-> "tentative",
                ttl |-> IF scenario THEN ScenarioTTL ELSE TentativeTTL,
                radius |-> DiffusionRadius(IF scenario THEN ScenarioAge ELSE InitialAge),
                scenario |-> scenario, source |-> TRUE]]
          /\ age' = [age EXCEPT ![z] = IF scenario THEN ScenarioAge ELSE 0]
    BY DEF Create
  <1> DEFINE ttl == IF scenario THEN ScenarioTTL ELSE TentativeTTL
             radius == DiffusionRadius(IF scenario THEN ScenarioAge ELSE InitialAge)
             r == [exists |-> TRUE, active |-> TRUE, tier |-> "tentative", ttl |-> ttl,
                   radius |-> radius, scenario |-> scenario, source |-> TRUE]
  <1>2. ttl \in Nat /\ radius \in Nat
    <2>1. (IF scenario THEN ScenarioAge ELSE InitialAge) \in Nat
      BY ConstantTypes
    <2> QED BY <2>1, RadiusType, ConstantTypes
  <1>3. row' = [row EXCEPT ![z] = r]
    BY <1>1
  <1> HIDE DEF ttl, radius
  <1>4. r \in RowType /\ r.tier = "tentative"
    BY <1>2 DEF RowType, Tier
  <1> HIDE DEF r
  <1>5. /\ row' \in [Zones -> RowType]
        /\ \A y \in Zones : row'[y] = row[y] \/ (y = z /\ row'[y] = r)
    BY <1>3, <1>4, RowReplaced
  <1>6. age' \in [Zones -> 0 .. RadiusCap]
    BY <1>1, ConstantTypes DEF TypeOK
  <1>7. TypeOK'
    BY <1>5, <1>6 DEF Create, TypeOK, environment, ticker, history
  <1>8. UNCHANGED <<confirmed, copy>> /\ ~row[z].exists
    BY DEF Create, ticker
  <1> QED BY <1>4, <1>5, <1>7, <1>8

\* Deleting, expiring and growing a zone leave its tier alone, as does time.
LEMMA UpdateStep ==
  ASSUME TypeOK,
         \/ \E z \in Zones : Delete(z) \/ DeleteSource(z)
         \/ TimePasses
         \/ \E t \in Tickers : Expire(t) \/ Grow(t) \/ Raise(t)
  PROVE  /\ TypeOK'
         /\ UNCHANGED confirmed
         /\ \A y \in Zones :
              /\ row'[y].tier = row[y].tier
              /\ row'[y].scenario = row[y].scenario
              /\ row'[y].active => row[y].active
         /\ \A u \in Tickers, y \in Zones :
              \/ copy'[u][y].tier = copy[u][y].tier /\ copy'[u][y].scenario = copy[u][y].scenario
              \/ copy'[u][y] = Unborn
  <1>a. \A y \in Zones : row[y] \in RowType
    BY DEF TypeOK
  <1>1. ASSUME NEW z \in Zones, Delete(z)
        PROVE  /\ TypeOK' /\ UNCHANGED <<confirmed, copy>>
               /\ \A y \in Zones : row'[y].tier = row[y].tier
                                   /\ row'[y].scenario = row[y].scenario
                                   /\ (row'[y].active => row[y].active)
    <2>1. row' = [row EXCEPT ![z] = [row[z] EXCEPT !.active = FALSE]]
      BY <1>1 DEF Delete
    <2>2. [row[z] EXCEPT !.active = FALSE] \in RowType
          /\ [row[z] EXCEPT !.active = FALSE].tier = row[z].tier
          /\ [row[z] EXCEPT !.active = FALSE].scenario = row[z].scenario
          /\ [row[z] EXCEPT !.active = FALSE].active = FALSE
      BY <1>a DEF RowType
    <2>3. /\ row' \in [Zones -> RowType]
          /\ \A y \in Zones :
               row'[y] = row[y] \/ (y = z /\ row'[y] = [row[z] EXCEPT !.active = FALSE])
      BY <2>1, <2>2, RowReplaced
    <2> QED BY <1>1, <2>2, <2>3 DEF Delete, TypeOK, environment, ticker, history
  <1>2. ASSUME TimePasses
        PROVE  /\ TypeOK' /\ UNCHANGED confirmed
               /\ \A y \in Zones : row'[y].tier = row[y].tier
                                   /\ row'[y].scenario = row[y].scenario
                                   /\ row'[y].active = row[y].active
               /\ \A u \in Tickers, y \in Zones :
                    copy'[u][y].tier = copy[u][y].tier
                    /\ copy'[u][y].scenario = copy[u][y].scenario
    <2>1. \A n \in Nat : Less(n) \in Nat
      BY DEF Less
    <2>2. ASSUME NEW r \in RowType
          PROVE  /\ [r EXCEPT !.ttl = Less(@)] \in RowType
                 /\ [r EXCEPT !.ttl = Less(@)].tier = r.tier
                 /\ [r EXCEPT !.ttl = Less(@)].scenario = r.scenario
                 /\ [r EXCEPT !.ttl = Less(@)].active = r.active
      BY <2>1 DEF RowType
    <2>3. row' = [z \in Zones |-> [row[z] EXCEPT !.ttl = Less(@)]]
          /\ copy' = [t \in Tickers |-> [z \in Zones |-> [copy[t][z] EXCEPT !.ttl = Less(@)]]]
      BY <1>2 DEF TimePasses
    <2>4. \A y \in Zones : row'[y] = [row[y] EXCEPT !.ttl = Less(@)]
      BY <2>3
    <2>5. row' \in [Zones -> RowType]
          /\ \A y \in Zones : row'[y].tier = row[y].tier
                              /\ row'[y].scenario = row[y].scenario
                              /\ row'[y].active = row[y].active
      BY <1>a, <2>2, <2>3, <2>4
    <2>6. \A u \in Tickers, y \in Zones : copy[u][y] \in RowType
      BY DEF TypeOK
    <2>7. \A u \in Tickers, y \in Zones : copy'[u][y] = [copy[u][y] EXCEPT !.ttl = Less(@)]
      BY <2>3
    <2>8. copy' \in [Tickers -> [Zones -> RowType]]
      BY <2>2, <2>3, <2>6
    <2>9. age' \in [Zones -> 0 .. RadiusCap]
      BY <1>2, ConstantTypes DEF TimePasses, TypeOK
    <2>10. TypeOK' /\ UNCHANGED confirmed
      BY <1>2, <2>5, <2>8, <2>9 DEF TimePasses, TypeOK, environment, history
    <2>11. \A u \in Tickers, y \in Zones :
             copy'[u][y].tier = copy[u][y].tier /\ copy'[u][y].scenario = copy[u][y].scenario
      BY <2>2, <2>6, <2>7
    <2> QED BY <2>5, <2>10, <2>11
  <1>3. ASSUME NEW t \in Tickers, Expire(t) \/ Grow(t)
        PROVE  /\ TypeOK' /\ UNCHANGED confirmed
               /\ \A y \in Zones : row'[y].tier = row[y].tier
                                   /\ row'[y].scenario = row[y].scenario
                                   /\ (row'[y].active => row[y].active)
               /\ \A u \in Tickers, y \in Zones :
                    copy'[u][y] = copy[u][y] \/ copy'[u][y] = Unborn
    <2>1. PICK z \in todo[t] :
            /\ todo' = [todo EXCEPT ![t] = @ \ {z}]
            /\ copy' = [copy EXCEPT ![t][z] = Unborn]
            /\ \/ row' = [row EXCEPT ![z].active = FALSE]
               \/ row' = [row EXCEPT ![z].radius = DiffusionRadius(age[z])]
            /\ expiredEvents' = Bump(expiredEvents, z) \/ UNCHANGED expiredEvents
      BY <1>3 DEF Expire, Grow, history
    <2>2. z \in Zones /\ age[z] \in Nat
      BY ConstantTypes DEF TypeOK
    <2>3. /\ [row[z] EXCEPT !.active = FALSE] \in RowType
          /\ [row[z] EXCEPT !.active = FALSE].tier = row[z].tier
          /\ [row[z] EXCEPT !.active = FALSE].scenario = row[z].scenario
          /\ [row[z] EXCEPT !.active = FALSE].active = FALSE
          /\ [row[z] EXCEPT !.radius = DiffusionRadius(age[z])] \in RowType
          /\ [row[z] EXCEPT !.radius = DiffusionRadius(age[z])].tier = row[z].tier
          /\ [row[z] EXCEPT !.radius = DiffusionRadius(age[z])].scenario = row[z].scenario
          /\ [row[z] EXCEPT !.radius = DiffusionRadius(age[z])].active = row[z].active
      BY <1>a, <2>2, RadiusType DEF RowType
    <2>4. PICK r \in RowType :
            /\ row' = [row EXCEPT ![z] = r]
            /\ r.tier = row[z].tier /\ r.scenario = row[z].scenario
            /\ r.active => row[z].active
      <3>1. CASE row' = [row EXCEPT ![z].active = FALSE]
        BY <2>3, <3>1
      <3>2. CASE row' = [row EXCEPT ![z].radius = DiffusionRadius(age[z])]
        BY <2>3, <3>2
      <3> QED BY <2>1, <3>1, <3>2
    <2>5. /\ row' \in [Zones -> RowType]
          /\ \A y \in Zones : row'[y] = row[y] \/ (y = z /\ row'[y] = r)
      BY <2>2, <2>4, RowReplaced
    <2>6. /\ copy' \in [Tickers -> [Zones -> RowType]]
          /\ \A u \in Tickers, y \in Zones :
               copy'[u][y] = copy[u][y] \/ copy'[u][y] = Unborn
      <3>1. Unborn \in RowType /\ copy' = [copy EXCEPT ![t][z] = Unborn]
        BY <2>1, ConstantTypes
      <3>2. /\ copy' \in [Tickers -> [Zones -> RowType]]
            /\ \A u \in Tickers, y \in Zones :
                 copy'[u][y] = copy[u][y] \/ (y = z /\ copy'[u][y] = Unborn)
        BY SMTT(30), <2>2, <3>1 DEF TypeOK
      <3> QED BY <3>2
    <2>7. todo' \in [Tickers -> SUBSET Zones]
      BY <2>1 DEF TypeOK
    <2>8. expiredEvents' \in [Zones -> 0 .. 2]
      BY <2>1, <2>2, BumpType DEF TypeOK
    <2>9. UNCHANGED <<confirmed, age, anomalous, recovered, pc, saving, criticalEvents, deletes>>
      BY <1>3 DEF Expire, Grow, environment, history
    <2>10. TypeOK'
      BY <2>5, <2>6, <2>7, <2>8, <2>9 DEF TypeOK
    <2> QED BY <2>4, <2>5, <2>6, <2>9, <2>10
  <1>4. ASSUME NEW z \in Zones, DeleteSource(z)
        PROVE  /\ TypeOK' /\ UNCHANGED <<confirmed, copy>>
               /\ \A y \in Zones : row'[y].tier = row[y].tier
                                   /\ row'[y].scenario = row[y].scenario
                                   /\ (row'[y].active => row[y].active)
    <2>1. row' = [row EXCEPT ![z] = [row[z] EXCEPT !.source = FALSE]]
      BY <1>4 DEF DeleteSource
    <2>2. [row[z] EXCEPT !.source = FALSE] \in RowType
          /\ [row[z] EXCEPT !.source = FALSE].tier = row[z].tier
          /\ [row[z] EXCEPT !.source = FALSE].scenario = row[z].scenario
          /\ [row[z] EXCEPT !.source = FALSE].active = row[z].active
      BY <1>a DEF RowType
    <2>3. /\ row' \in [Zones -> RowType]
          /\ \A y \in Zones :
               row'[y] = row[y] \/ (y = z /\ row'[y] = [row[z] EXCEPT !.source = FALSE])
      BY <2>1, <2>2, RowReplaced
    <2> QED BY <1>4, <2>2, <2>3 DEF DeleteSource, TypeOK, environment, ticker, history
  <1>5. ASSUME NEW t \in Tickers, Raise(t)
        PROVE  /\ TypeOK' /\ UNCHANGED <<confirmed, row>>
               /\ \A u \in Tickers, y \in Zones :
                    copy'[u][y] = copy[u][y] \/ copy'[u][y] = Unborn
    <2>1. /\ pc' = [pc EXCEPT ![t] = "idle"]
          /\ todo' = [todo EXCEPT ![t] = {}]
          /\ copy' = [copy EXCEPT ![t] = [y \in Zones |-> Unborn]]
          /\ saving' = [saving EXCEPT ![t] = {}]
          /\ UNCHANGED <<row, confirmed, age, environment, history, deletes>>
      BY <1>5 DEF Raise, Load, Goto
    <2>2. Unborn \in RowType
      BY ConstantTypes
    <2> HIDE DEF Unborn
    <2>3. /\ copy' \in [Tickers -> [Zones -> RowType]]
          /\ \A u \in Tickers, y \in Zones :
               copy'[u][y] = copy[u][y] \/ copy'[u][y] = Unborn
      BY <2>1, <2>2 DEF TypeOK
    <2>4. /\ pc' \in [Tickers -> Phases]
          /\ todo' \in [Tickers -> SUBSET Zones] /\ saving' \in [Tickers -> SUBSET Zones]
      BY <2>1 DEF TypeOK, Phases
    <2> QED BY <2>1, <2>3, <2>4 DEF TypeOK, Phases, environment, history
  <1> QED BY <1>1, <1>2, <1>3, <1>4, <1>5

\* What a promotion decides on: the table after this zone's neighbours were added.
LEMMA ConfirmStep ==
  ASSUME TypeOK, NEW t \in Tickers, Confirm(t)
  PROVE  \E z \in Zones, sure \in SUBSET Sensors, r \in RowType :
            /\ confirmed' = [confirmed EXCEPT ![z] = sure]
            /\ confirmed[z] \subseteq sure
            /\ copy' = [copy EXCEPT ![t][z] = r]
            /\ \/ r = Unborn
               \/ /\ r.tier \in Tier
                  /\ r.tier = Promotion(copy[t][z].tier, Cardinality(sure))
                  /\ ~r.scenario
            /\ UNCHANGED row
            /\ TypeOK'
  <1>1. PICK z \in todo[t] :
          LET c == copy[t][z]
              inside == IF c.scenario \/ c.radius = 0 THEN {} ELSE Near(c.radius)
              sure == confirmed[z] \cup (inside \cap anomalous)
              promoted == IF inside = {} THEN NoPromotion ELSE Promotion(c.tier, Cardinality(sure))
          IN /\ todo' = [todo EXCEPT ![t] = @ \ {z}]
             /\ confirmed' = [confirmed EXCEPT ![z] = sure]
             /\ IF promoted # NoPromotion
                THEN /\ copy' = [copy EXCEPT ![t][z].tier = promoted]
                     /\ saving' = [saving EXCEPT ![t] = {z}]
                     /\ Goto(t, "save")
                ELSE /\ copy' = [copy EXCEPT ![t][z] = Unborn]
                     /\ UNCHANGED <<pc, saving>>
    BY DEF Confirm
  <1> DEFINE c == copy[t][z]
             inside == IF c.scenario \/ c.radius = 0 THEN {} ELSE Near(c.radius)
             sure == confirmed[z] \cup (inside \cap anomalous)
             promoted == IF inside = {} THEN NoPromotion ELSE Promotion(c.tier, Cardinality(sure))
  <1>2. z \in Zones /\ c \in RowType
    BY DEF TypeOK
  <1>3. sure \in SUBSET Sensors /\ confirmed[z] \subseteq sure
    BY <1>2 DEF TypeOK
  <1>4. promoted \in Tier \cup {NoPromotion}
    BY PromotionType
  <1>5. promoted # NoPromotion =>
           ~c.scenario /\ promoted = Promotion(c.tier, Cardinality(sure))
    OBVIOUS
  <1>6. /\ todo' = [todo EXCEPT ![t] = @ \ {z}]
        /\ confirmed' = [confirmed EXCEPT ![z] = sure]
        /\ IF promoted # NoPromotion
           THEN /\ copy' = [copy EXCEPT ![t][z].tier = promoted]
                /\ saving' = [saving EXCEPT ![t] = {z}]
                /\ Goto(t, "save")
           ELSE /\ copy' = [copy EXCEPT ![t][z] = Unborn]
                /\ UNCHANGED <<pc, saving>>
    BY <1>1
  <1> HIDE DEF sure, promoted, inside
  <1>7. PICK r \in RowType :
          /\ copy' = [copy EXCEPT ![t][z] = r]
          /\ \/ r = Unborn
             \/ /\ r.tier \in Tier
                /\ r.tier = Promotion(copy[t][z].tier, Cardinality(sure))
                /\ ~r.scenario
    <2>1. CASE promoted # NoPromotion
      <3> DEFINE r == [copy[t][z] EXCEPT !.tier = promoted]
      <3>1. promoted \in Tier
        BY <1>4, <2>1
      <3>2. r \in RowType /\ r.tier = promoted /\ r.scenario = copy[t][z].scenario
        BY <1>2, <3>1 DEF RowType
      <3>3. copy' = [copy EXCEPT ![t][z] = r]
        BY <1>6, <2>1
      <3> HIDE DEF r
      <3> QED BY <1>5, <2>1, <3>1, <3>2, <3>3
    <2>2. CASE promoted = NoPromotion
      <3>1. Unborn \in RowType
        BY ConstantTypes
      <3> QED BY <1>6, <2>2, <3>1
    <2> QED BY <2>1, <2>2
  <1>8. copy' \in [Tickers -> [Zones -> RowType]]
    BY <1>2, <1>7, CopyReplaced
  <1>9. /\ confirmed' \in [Zones -> SUBSET Sensors]
        /\ todo' \in [Tickers -> SUBSET Zones]
    BY <1>3, <1>6 DEF TypeOK
  <1>10. saving' \in [Tickers -> SUBSET Zones] /\ pc' \in [Tickers -> Phases]
    <2>1. CASE promoted # NoPromotion
      <3>1. saving' = [saving EXCEPT ![t] = {z}] /\ {z} \in SUBSET Zones
        BY <1>2, <1>6, <2>1
      <3>2. pc' = [pc EXCEPT ![t] = "save"]
        BY <1>6, <2>1 DEF Goto
      <3> QED BY <3>1, <3>2 DEF TypeOK, Phases
    <2>2. CASE promoted = NoPromotion
      <3>1. saving' = saving /\ pc' = pc
        BY <1>6, <2>2
      <3> QED BY <3>1 DEF TypeOK, Phases
    <2> QED BY <2>1, <2>2
  <1>11. UNCHANGED <<row, age, anomalous, recovered, expiredEvents, criticalEvents, deletes>>
    BY DEF Confirm, environment, history
  <1>12. TypeOK'
    BY <1>8, <1>9, <1>10, <1>11 DEF TypeOK, Phases
  <1> QED BY <1>2, <1>3, <1>6, <1>7, <1>11, <1>12

\* A promotion writes the copy, with a new TTL, over the row.
LEMMA PromoteStep ==
  ASSUME TypeOK, NEW t \in Tickers, Promote(t)
  PROVE  \E z \in saving[t], r \in RowType :
            /\ row' = [row EXCEPT ![z] = r]
            /\ r.tier = copy[t][z].tier
            /\ r.scenario = copy[t][z].scenario
            /\ copy' = [copy EXCEPT ![t][z] = Unborn]
            /\ pc[t] = "save"
            /\ UNCHANGED confirmed
            /\ TypeOK'
  <1>1. PICK z \in saving[t] :
          /\ row' = [row EXCEPT ![z] = [copy[t][z] EXCEPT !.ttl = TierTTL[copy[t][z].tier]]]
          /\ copy' = [copy EXCEPT ![t][z] = Unborn]
          /\ criticalEvents' = Bump(criticalEvents, z) \/ UNCHANGED criticalEvents
          /\ UNCHANGED expiredEvents
    BY DEF Promote, history
  <1>2. z \in Zones /\ copy[t][z] \in RowType
    BY DEF TypeOK
  <1> DEFINE ttl == TierTTL[copy[t][z].tier]
             r == [copy[t][z] EXCEPT !.ttl = ttl]
  <1>3. ttl \in Nat
    BY <1>2, ConstantTypes DEF RowType
  <1>4. row' = [row EXCEPT ![z] = r]
    BY <1>1
  <1> HIDE DEF ttl
  <1>5. r \in RowType /\ r.tier = copy[t][z].tier /\ r.scenario = copy[t][z].scenario
    BY <1>2, <1>3 DEF RowType
  <1> HIDE DEF r
  <1>6. row' \in [Zones -> RowType]
    BY <1>2, <1>4, <1>5, RowReplaced
  <1>7. copy' \in [Tickers -> [Zones -> RowType]]
    <2>1. Unborn \in RowType
      BY ConstantTypes
    <2> QED BY <1>1, <1>2, <2>1, CopyReplaced
  <1>8. criticalEvents' \in [Zones -> 0 .. 2]
    BY <1>1, <1>2, BumpType DEF TypeOK
  <1>9. saving' \in [Tickers -> SUBSET Zones] /\ pc' \in [Tickers -> Phases]
    BY DEF Promote, Goto, TypeOK, Phases
  <1>10. UNCHANGED <<confirmed, age, anomalous, recovered, todo, deletes>> /\ pc[t] = "save"
    BY DEF Promote, environment
  <1>11. TypeOK'
    BY <1>1, <1>6, <1>7, <1>8, <1>9, <1>10 DEF TypeOK, Phases
  <1> QED BY <1>1, <1>4, <1>5, <1>10, <1>11

\* New readings and the end of a tick touch no zone.
LEMMA QuietStep ==
  ASSUME TypeOK, Readings \/ (\E t \in Tickers : Finish(t)) \/ UNCHANGED vars
  PROVE  TypeOK' /\ UNCHANGED <<row, confirmed, copy>>
  <1>1. CASE Readings
    BY <1>1 DEF Readings, TypeOK, ticker, history
  <1>2. CASE \E t \in Tickers : Finish(t)
    BY <1>2 DEF Finish, Goto, TypeOK, environment, history
  <1>3. CASE UNCHANGED vars
    BY <1>3 DEF vars, TypeOK
  <1> QED BY <1>1, <1>2, <1>3

\* The steps, as the lemmas above divide them.
LEMMA StepCases ==
  ASSUME [Next]_vars
  PROVE  \/ \E z \in Zones : Create(z)
         \/ \/ \E z \in Zones : Delete(z) \/ DeleteSource(z)
            \/ TimePasses
            \/ \E t \in Tickers : Expire(t) \/ Grow(t) \/ Raise(t)
         \/ \E t \in Tickers : Loads(t)
         \/ \E t \in Tickers : Confirm(t)
         \/ \E t \in Tickers : Promote(t)
         \/ Readings \/ (\E t \in Tickers : Finish(t)) \/ UNCHANGED vars
  BY DEF Next, TickStep, Loads

-----------------------------------------------------------------------------
(* Type correctness.                                                       *)

LEMMA TypeInit == Init => TypeOK
  <1> SUFFICES ASSUME Init PROVE TypeOK
    OBVIOUS
  <1>1. 0 \in 0 .. RadiusCap /\ 0 \in 0 .. 2
    BY ConstantTypes
  <1>2. Unborn \in RowType
    BY ConstantTypes
  <1> HIDE DEF Unborn
  <1> QED BY <1>1, <1>2 DEF Init, TypeOK

LEMMA TypeStep == TypeOK /\ [Next]_vars => TypeOK'
  <1> SUFFICES ASSUME TypeOK, [Next]_vars PROVE TypeOK'
    OBVIOUS
  <1> QED
    BY StepCases, CreateStep, UpdateStep, LoadsStep, ConfirmStep, PromoteStep, QuietStep

\* Every variable keeps its type however ticks overlap.
THEOREM TypeCorrect == Spec => []TypeOK
  BY TypeInit, TypeStep, PTL DEF Spec

-----------------------------------------------------------------------------
(* Tiers.                                                                  *)

\* A row or a copy r of zone z claims no tier that the table does not back, and
\* none but the first if it is a scenario's.
Justified(z, r) ==
    /\ r.tier = "critical" => Cardinality(confirmed[z]) >= MinCritical
    /\ r.tier = "confirmed" => Cardinality(confirmed[z]) >= MinConfirmed
    /\ r.scenario => r.tier = "tentative"

\* The inductive invariant: the rows are justified, and so are the copies that a
\* promotion may write over them long after they were loaded.  The table only
\* grows, so a copy that was justified stays so.
TierInv ==
    \A z \in Zones :
        /\ Justified(z, row[z])
        /\ \A t \in Tickers : Justified(z, copy[t][z])

\* An empty object is justified.
LEMMA UnbornJustified ==
  ASSUME NEW z
  PROVE  Justified(z, Unborn)
  BY DEF Justified, Unborn

LEMMA TierInit == Init => TierInv
  BY UnbornJustified DEF Init, TierInv

LEMMA TierStep == TypeOK /\ TierInv /\ [Next]_vars => TierInv'
  <1> SUFFICES ASSUME TypeOK, TierInv, [Next]_vars PROVE TierInv'
    OBVIOUS
  <1>1. ASSUME NEW z \in Zones, Create(z) PROVE TierInv'
    <2>1. /\ UNCHANGED <<confirmed, copy>>
          /\ \A y \in Zones : row'[y] = row[y] \/ (y = z /\ row'[y].tier = "tentative")
      BY <1>1, CreateStep
    <2> QED BY <2>1 DEF TierInv, Justified
  <1>2. CASE \/ \E z \in Zones : Delete(z) \/ DeleteSource(z)
             \/ TimePasses
             \/ \E t \in Tickers : Expire(t) \/ Grow(t) \/ Raise(t)
    <2>1. /\ UNCHANGED confirmed
          /\ \A y \in Zones :
               row'[y].tier = row[y].tier /\ row'[y].scenario = row[y].scenario
          /\ \A u \in Tickers, y \in Zones :
               \/ copy'[u][y].tier = copy[u][y].tier
                  /\ copy'[u][y].scenario = copy[u][y].scenario
               \/ copy'[u][y] = Unborn
      BY <1>2, UpdateStep
    <2>2. ASSUME NEW y \in Zones PROVE Justified(y, row[y])'
      BY <2>1 DEF TierInv, Justified
    <2>3. ASSUME NEW y \in Zones, NEW u \in Tickers PROVE Justified(y, copy[u][y])'
      <3>1. CASE copy'[u][y] = Unborn
        BY <3>1 DEF Justified, Unborn
      <3>2. CASE copy'[u][y] # Unborn
        BY <2>1, <3>2 DEF TierInv, Justified
      <3> QED BY <3>1, <3>2
    <2> QED BY <2>2, <2>3 DEF TierInv
  <1>3. ASSUME NEW t \in Tickers, Loads(t) PROVE TierInv'
    <2>1. /\ UNCHANGED <<row, confirmed>>
          /\ \A u \in Tickers, y \in Zones : copy'[u][y] \in {copy[u][y], row[y], Unborn}
      BY <1>3, LoadsStep
    <2>2. ASSUME NEW y \in Zones, NEW u \in Tickers PROVE Justified(y, copy[u][y])'
      <3>1. CASE copy'[u][y] = Unborn
        BY <3>1 DEF Justified, Unborn
      <3>2. CASE copy'[u][y] = row[y] \/ copy'[u][y] = copy[u][y]
        BY <2>1, <3>2 DEF TierInv, Justified
      <3> QED BY <2>1, <3>1, <3>2
    <2> QED BY <2>1, <2>2 DEF TierInv, Justified
  <1>4. ASSUME NEW t \in Tickers, Confirm(t) PROVE TierInv'
    <2>1. PICK z \in Zones, sure \in SUBSET Sensors, r \in RowType :
            /\ confirmed' = [confirmed EXCEPT ![z] = sure]
            /\ confirmed[z] \subseteq sure
            /\ copy' = [copy EXCEPT ![t][z] = r]
            /\ \/ r = Unborn
               \/ /\ r.tier \in Tier
                  /\ r.tier = Promotion(copy[t][z].tier, Cardinality(sure))
                  /\ ~r.scenario
            /\ UNCHANGED row
      BY <1>4, ConfirmStep
    <2>2. \A y \in Zones : confirmed[y] \in SUBSET Sensors
      BY DEF TypeOK
    <2>3. Cardinality(confirmed[z]) <= Cardinality(sure)
          /\ Cardinality(confirmed[z]) \in Nat /\ Cardinality(sure) \in Nat
      BY <2>1, <2>2, ConfirmedFinite, FS_Subset
    <2>4. /\ confirmed'[z] = sure
          /\ \A y \in Zones : y # z => confirmed'[y] = confirmed[y]
      BY <2>1 DEF TypeOK
    \* The table has only grown, so what was justified is so still.
    <2>5. ASSUME NEW y \in Zones, NEW s, Justified(y, s)
          PROVE  /\ s.tier = "critical" => Cardinality(confirmed'[y]) >= MinCritical
                 /\ s.tier = "confirmed" => Cardinality(confirmed'[y]) >= MinConfirmed
                 /\ s.scenario => s.tier = "tentative"
      BY <2>3, <2>4, <2>5, ConstantTypes DEF Justified
    <2>6. /\ r.tier = "critical" => Cardinality(sure) >= MinCritical
          /\ r.tier = "confirmed" => Cardinality(sure) >= MinConfirmed
          /\ r.scenario => r.tier = "tentative"
      <3>1. CASE r = Unborn
        BY <3>1 DEF Unborn
      <3>2. CASE r # Unborn
        BY <2>1, <3>2 DEF Promotion, Tier, NoPromotion
      <3> QED BY <3>1, <3>2
    <2>7. \A u \in Tickers, y \in Zones :
            copy'[u][y] = copy[u][y] \/ (y = z /\ copy'[u][y] = r)
      BY <2>1, CopyReplaced
    <2>8. ASSUME NEW y \in Zones PROVE Justified(y, row[y])'
      BY <2>1, <2>5 DEF TierInv, Justified
    <2>9. ASSUME NEW y \in Zones, NEW u \in Tickers PROVE Justified(y, copy[u][y])'
      <3>1. CASE copy'[u][y] = copy[u][y]
        BY <2>5, <3>1 DEF TierInv, Justified
      <3>2. CASE y = z /\ copy'[u][y] = r
        BY <2>4, <2>6, <3>2 DEF Justified
      <3> QED BY <2>7, <3>1, <3>2
    <2> QED BY <2>8, <2>9 DEF TierInv
  <1>5. ASSUME NEW t \in Tickers, Promote(t) PROVE TierInv'
    <2>1. PICK z \in saving[t], r \in RowType :
            /\ row' = [row EXCEPT ![z] = r]
            /\ r.tier = copy[t][z].tier
            /\ r.scenario = copy[t][z].scenario
            /\ copy' = [copy EXCEPT ![t][z] = Unborn]
            /\ UNCHANGED confirmed
      BY <1>5, PromoteStep
    <2>2. z \in Zones
      BY DEF TypeOK
    <2>3. \A y \in Zones : row'[y] = row[y] \/ (y = z /\ row'[y] = r)
      BY <2>1, <2>2, RowReplaced
    <2>4. \A u \in Tickers, y \in Zones : copy'[u][y] = copy[u][y] \/ copy'[u][y] = Unborn
      <3>1. Unborn \in RowType
        BY ConstantTypes
      <3> QED BY <2>1, <2>2, <3>1, CopyReplaced
    <2>5. ASSUME NEW y \in Zones PROVE Justified(y, row[y])'
      BY <2>1, <2>3 DEF TierInv, Justified
    <2>6. ASSUME NEW y \in Zones, NEW u \in Tickers PROVE Justified(y, copy[u][y])'
      <3>1. CASE copy'[u][y] = Unborn
        BY <3>1 DEF Justified, Unborn
      <3>2. CASE copy'[u][y] = copy[u][y]
        BY <2>1, <3>2 DEF TierInv, Justified
      <3> QED BY <2>4, <3>1, <3>2
    <2> QED BY <2>5, <2>6 DEF TierInv
  <1>6. CASE Readings \/ (\E t \in Tickers : Finish(t)) \/ UNCHANGED vars
    BY <1>6, QuietStep DEF TierInv, Justified
  <1> QED BY <1>1, <1>2, <1>3, <1>4, <1>5, <1>6, StepCases

LEMMA TierSafe == Spec => []TierInv
  BY TypeInit, TypeStep, TierInit, TierStep, PTL DEF Spec

\* However ticks overlap, a zone is called confirmed or critical only with as many
\* confirming sensors in the table as check_tier_upgrade asks for.
THEOREM TierIsBackedHolds == Spec => []TierIsBacked
  <1>1. TierInv => TierIsBacked
    BY DEF TierInv, Justified, TierIsBacked
  <1> QED BY <1>1, TierSafe, PTL

\* No tick promotes a zone of a scenario.
THEOREM ScenarioStaysTentativeHolds == Spec => []ScenarioStaysTentative
  <1>1. TierInv => ScenarioStaysTentative
    BY DEF TierInv, Justified, ScenarioStaysTentative
  <1> QED BY <1>1, TierSafe, PTL

-----------------------------------------------------------------------------
(* Revival.                                                                *)

\* No step other than the save of a promotion turns an inactive zone active.
LEMMA RevivalStep ==
  ASSUME TypeOK, [Next]_vars, NEW z \in Zones,
         row[z].exists, ~row[z].active, row'[z].active
  PROVE  \E t \in Tickers : pc[t] = "save" /\ z \in saving[t]
  <1>1. ASSUME NEW t \in Tickers, Promote(t) PROVE pc[t] = "save" /\ z \in saving[t]
    <2>1. PICK y \in saving[t], r \in RowType : row' = [row EXCEPT ![y] = r] /\ pc[t] = "save"
      BY <1>1, PromoteStep
    <2>2. row'[z] = row[z] \/ z = y
      BY <2>1 DEF TypeOK
    <2> QED BY <2>1, <2>2
  <1>2. ASSUME NEW y \in Zones, Create(y) PROVE FALSE
    <2>1. ~row[y].exists /\ row' = [row EXCEPT ![y] = row'[y]]
      BY <1>2 DEF Create, TypeOK
    <2> QED BY <2>1 DEF TypeOK
  <1>3. CASE \/ \E y \in Zones : Delete(y) \/ DeleteSource(y)
             \/ TimePasses
             \/ \E t \in Tickers : Expire(t) \/ Grow(t) \/ Raise(t)
    BY <1>3, UpdateStep
  <1>4. ASSUME NEW t \in Tickers, Loads(t) \/ Confirm(t) PROVE FALSE
    BY <1>4, LoadsStep, ConfirmStep
  <1>5. CASE Readings \/ (\E t \in Tickers : Finish(t)) \/ UNCHANGED vars
    BY <1>5, QuietStep
  <1> QED BY <1>1, <1>2, <1>3, <1>4, <1>5, StepCases

\* A zone that was expired or deleted comes back to life through the whole-row save
\* of a promotion and in no other way.
THEOREM OnlyPromotionRevivesHolds == Spec => OnlyPromotionRevives
  <1> DEFINE Step ==
        [\A z \in Zones :
            row[z].exists /\ ~row[z].active /\ row'[z].active =>
                \E t \in Tickers : pc[t] = "save" /\ z \in saving[t]]_row
  <1>1. TypeOK /\ [Next]_vars => Step
    BY RevivalStep
  <1> QED BY <1>1, TypeInit, TypeStep, PTL DEF Spec, OnlyPromotionRevives

-----------------------------------------------------------------------------
(* Ticks that do not overlap, while no operator deletes a zone: at most    *)
(* one ticker and MaxDeletes = 0.  ZoneLifecycleOverlap shows that a       *)
(* second ticker is enough to lose what is proved here.                    *)


OneTickAtATime == (\A t, u \in Tickers : t = u) /\ MaxDeletes = 0

\* What the events recorded of a zone say of its row.
Recorded(z) ==
    /\ row[z].active => row[z].exists /\ expiredEvents[z] = 0
    /\ row[z].tier # "critical" => criticalEvents[z] = 0
    /\ ~row[z].exists => expiredEvents[z] = 0 /\ criticalEvents[z] = 0
    /\ expiredEvents[z] <= 1
    /\ criticalEvents[z] <= 1

\* What a tick has loaded is still as it was when it was loaded.
Current(t) ==
    /\ pc[t] = "idle" => todo[t] = {}
    /\ pc[t] # "save" => saving[t] = {}
    /\ \A z \in todo[t] \cup saving[t] :
         row[z].active /\ copy[t][z].exists /\ copy[t][z].active
    /\ \A z \in saving[t] : z \notin todo[t] /\ row[z].tier # "critical"
    /\ pc[t] = "expire" => \A z \in todo[t] : row[z].ttl = 0
    /\ pc[t] \in {"promote", "save"} => \A z \in todo[t] : row[z].tier # "critical"

\* The inductive invariant.
OrderInv == (\A z \in Zones : Recorded(z)) /\ (\A t \in Tickers : Current(t))

LEMMA OrderInit == Init => OrderInv
  BY DEF Init, OrderInv, Recorded, Current, Unborn

\* A new zone was on no list.
LEMMA CreateOrder ==
  ASSUME TypeOK, OrderInv, NEW z \in Zones, Create(z)
  PROVE  OrderInv'
  <1>1. PICK r : /\ row' = [row EXCEPT ![z] = r]
                 /\ r.exists = TRUE /\ r.active = TRUE /\ r.tier = "tentative"
    <2>1. PICK scenario \in BOOLEAN :
            row' = [row EXCEPT ![z] =
              [exists |-> TRUE, active |-> TRUE, tier |-> "tentative",
               ttl |-> IF scenario THEN ScenarioTTL ELSE TentativeTTL,
               radius |-> DiffusionRadius(IF scenario THEN ScenarioAge ELSE InitialAge),
               scenario |-> scenario, source |-> TRUE]]
      BY DEF Create
    <2> DEFINE ttl == IF scenario THEN ScenarioTTL ELSE TentativeTTL
               radius == DiffusionRadius(IF scenario THEN ScenarioAge ELSE InitialAge)
               r == [exists |-> TRUE, active |-> TRUE, tier |-> "tentative", ttl |-> ttl,
                     radius |-> radius, scenario |-> scenario, source |-> TRUE]
    <2>2. row' = [row EXCEPT ![z] = r]
      BY <2>1
    <2> HIDE DEF ttl, radius
    <2>3. r.exists = TRUE /\ r.active = TRUE /\ r.tier = "tentative"
      OBVIOUS
    <2> HIDE DEF r
    <2> QED BY <2>2, <2>3
  <1>2. /\ ~row[z].exists
        /\ UNCHANGED <<pc, todo, copy, saving, expiredEvents, criticalEvents>>
    BY DEF Create, ticker, history
  <1>3. row'[z] = r /\ \A y \in Zones \ {z} : row'[y] = row[y]
    BY <1>1 DEF TypeOK
  <1>4. \A y \in Zones : Recorded(y)'
    BY <1>1, <1>2, <1>3 DEF OrderInv, Recorded
  <1>5. \A t \in Tickers : z \notin todo[t] \cup saving[t]
    BY <1>2 DEF OrderInv, Recorded, Current
  <1>6. ASSUME NEW t \in Tickers PROVE Current(t)'
    <2>1. todo[t] \subseteq Zones \ {z} /\ saving[t] \subseteq Zones \ {z}
      BY <1>5 DEF TypeOK
    <2>2. Current(t)
      BY DEF OrderInv
    <2> QED BY <1>2, <1>3, <2>1, <2>2 DEF Current
  <1> QED BY <1>4, <1>6 DEF OrderInv

\* A ttl that has come to its end stays there.
LEMMA TimeOrder ==
  ASSUME TypeOK, OrderInv, TimePasses
  PROVE  OrderInv'
  <1>1. \A z \in Zones : /\ row'[z].active = row[z].active
                         /\ row'[z].exists = row[z].exists
                         /\ row'[z].tier = row[z].tier
                         /\ row[z].ttl = 0 => row'[z].ttl = 0
    BY DEF TimePasses, TypeOK, RowType, Less
  <1>2. \A t \in Tickers, z \in Zones : /\ copy'[t][z].active = copy[t][z].active
                                        /\ copy'[t][z].exists = copy[t][z].exists
    <2> SUFFICES ASSUME NEW t \in Tickers, NEW z \in Zones
                 PROVE  /\ copy'[t][z].active = copy[t][z].active
                        /\ copy'[t][z].exists = copy[t][z].exists
      OBVIOUS
    <2>1. copy'[t][z] = [copy[t][z] EXCEPT !.ttl = Less(copy[t][z].ttl)]
      BY DEF TimePasses
    <2> QED BY <2>1 DEF TypeOK, RowType
  <1>3. UNCHANGED <<pc, todo, saving, expiredEvents, criticalEvents>>
    BY DEF TimePasses, history
  <1>4. \A z \in Zones : Recorded(z)'
    BY <1>1, <1>3 DEF OrderInv, Recorded
  <1>5. ASSUME NEW t \in Tickers PROVE Current(t)'
    <2>1. todo[t] \subseteq Zones /\ saving[t] \subseteq Zones /\ Current(t)
      BY DEF TypeOK, OrderInv
    <2> QED BY <1>1, <1>2, <1>3, <2>1 DEF Current
  <1> QED BY <1>4, <1>5 DEF OrderInv

\* What a phase loads is as the rows are.
LEMMA LoadOrder ==
  ASSUME TypeOK, OrderInv, OneTickAtATime, NEW t \in Tickers, Loads(t)
  PROVE  OrderInv'
  <1>1. UNCHANGED <<row, saving, expiredEvents, criticalEvents>>
    BY DEF Loads, LoadExpired, LoadRecovered, LoadActive, LoadPromotable, history
  <1>2. \A z \in Zones : Recorded(z)'
    BY <1>1 DEF OrderInv, Recorded
  <1>3. \A u \in Tickers : u = t
    BY DEF OneTickAtATime
  <1>4. pc[t] # "save" /\ saving[t] = {}
    BY DEF Loads, LoadExpired, LoadRecovered, LoadActive, LoadPromotable, OrderInv, Current
  <1>5. PICK phase \in {"expire", "recover", "grow", "promote"}, zones \in SUBSET Active :
          /\ Load(t, phase, zones)
          /\ phase = "expire" => \A z \in zones : row[z].ttl = 0
          /\ phase = "promote" => \A z \in zones : row[z].tier # "critical"
    <2>1. CASE LoadExpired(t)
      BY <2>1 DEF LoadExpired
    <2>2. CASE LoadRecovered(t)
      BY <2>2 DEF LoadRecovered
    <2>3. CASE LoadActive(t)
      BY <2>3 DEF LoadActive
    <2>4. CASE LoadPromotable(t)
      BY <2>4 DEF LoadPromotable
    <2> QED BY <2>1, <2>2, <2>3, <2>4 DEF Loads
  <1>6. zones \subseteq Zones /\ \A z \in zones : row[z].active /\ row[z].exists
    BY DEF Active, OrderInv, Recorded
  <1>7. pc'[t] = phase /\ todo'[t] = zones /\ \A z \in zones : copy'[t][z] = row[z]
    BY <1>5, <1>6 DEF Load, Goto, TypeOK
  <1>8. Current(t)'
    BY <1>1, <1>4, <1>5, <1>6, <1>7 DEF Current
  <1> QED BY <1>2, <1>3, <1>8 DEF OrderInv

\* An expired zone leaves the list.
LEMMA ExpireOrder ==
  ASSUME TypeOK, OrderInv, OneTickAtATime, NEW t \in Tickers, Expire(t)
  PROVE  OrderInv'
  <1>1. PICK z \in todo[t] :
          /\ todo' = [todo EXCEPT ![t] = @ \ {z}]
          /\ copy' = [copy EXCEPT ![t][z] = Unborn]
          /\ row' = [row EXCEPT ![z].active = FALSE]
          /\ expiredEvents' = Bump(expiredEvents, z) \/ UNCHANGED expiredEvents
    BY DEF Expire
  <1>2. /\ pc[t] \in {"expire", "recover"} /\ saving[t] = {}
        /\ UNCHANGED <<pc, saving, criticalEvents>>
    BY DEF Expire, OrderInv, Current
  <1>3. z \in Zones /\ row[z].active /\ Current(t)
    BY DEF TypeOK, OrderInv, Current
  <1>4. /\ \A y \in Zones \ {z} : row'[y] = row[y] /\ copy'[t][y] = copy[t][y]
        /\ ~row'[z].active /\ row'[z].exists = row[z].exists /\ row'[z].tier = row[z].tier
    BY <1>1, <1>3 DEF TypeOK, RowType
  <1>5. /\ expiredEvents'[z] \in {0, 1}
        /\ \A y \in Zones \ {z} : expiredEvents'[y] = expiredEvents[y]
    BY <1>1, <1>3 DEF Bump, TypeOK, OrderInv, Recorded
  <1>6. \A y \in Zones : Recorded(y)'
    BY <1>2, <1>3, <1>4, <1>5 DEF OrderInv, Recorded
  <1>7. todo'[t] = todo[t] \ {z} /\ todo'[t] \subseteq Zones
    BY <1>1 DEF TypeOK
  <1>8. Current(t)'
    BY <1>2, <1>3, <1>4, <1>7 DEF Current
  <1> QED BY <1>6, <1>8 DEF OrderInv, OneTickAtATime

\* A zone that has grown leaves the list.
LEMMA GrowOrder ==
  ASSUME TypeOK, OrderInv, OneTickAtATime, NEW t \in Tickers, Grow(t)
  PROVE  OrderInv'
  <1>1. PICK z \in todo[t] :
          /\ todo' = [todo EXCEPT ![t] = @ \ {z}]
          /\ copy' = [copy EXCEPT ![t][z] = Unborn]
          /\ row' = [row EXCEPT ![z].radius = DiffusionRadius(age[z])]
    BY DEF Grow
  <1>2. pc[t] = "grow" /\ UNCHANGED <<pc, saving, expiredEvents, criticalEvents>>
    BY DEF Grow, history
  <1>3. z \in Zones /\ Current(t) /\ saving[t] = {}
    BY <1>2 DEF TypeOK, OrderInv, Current
  <1>4. /\ \A y \in Zones \ {z} : row'[y] = row[y] /\ copy'[t][y] = copy[t][y]
        /\ \A y \in Zones : /\ row'[y].active = row[y].active
                            /\ row'[y].exists = row[y].exists
                            /\ row'[y].tier = row[y].tier
    BY <1>1, <1>3 DEF TypeOK, RowType
  <1>5. \A y \in Zones : Recorded(y)'
    BY <1>2, <1>4 DEF OrderInv, Recorded
  <1>6. todo'[t] = todo[t] \ {z} /\ todo'[t] \subseteq Zones
    BY <1>1 DEF TypeOK
  <1>7. Current(t)'
    BY <1>2, <1>3, <1>4, <1>6 DEF Current
  <1> QED BY <1>5, <1>7 DEF OrderInv, OneTickAtATime

\* A zone that is to be promoted moves from the list to the save.
LEMMA ConfirmOrder ==
  ASSUME TypeOK, OrderInv, OneTickAtATime, NEW t \in Tickers, Confirm(t)
  PROVE  OrderInv'
  <1>1. UNCHANGED <<row, expiredEvents, criticalEvents>> /\ pc[t] = "promote"
    BY DEF Confirm, history
  <1>2. \A z \in Zones : Recorded(z)'
    BY <1>1 DEF OrderInv, Recorded
  <1>3. Current(t) /\ saving[t] = {}
    BY <1>1 DEF OrderInv, Current
  <1>4. PICK z \in todo[t] :
          /\ todo' = [todo EXCEPT ![t] = @ \ {z}]
          /\ \/ /\ \E tier : copy' = [copy EXCEPT ![t][z].tier = tier]
                /\ saving' = [saving EXCEPT ![t] = {z}]
                /\ pc' = [pc EXCEPT ![t] = "save"]
             \/ /\ copy' = [copy EXCEPT ![t][z] = Unborn]
                /\ UNCHANGED <<pc, saving>>
    BY DEF Confirm, Goto
  <1>5. z \in Zones /\ todo'[t] = todo[t] \ {z} /\ todo'[t] \subseteq Zones
    BY <1>4 DEF TypeOK
  <1>6. \A y \in Zones \ {z} : copy'[t][y] = copy[t][y]
    BY <1>4, <1>5 DEF TypeOK
  <1>7. CASE UNCHANGED <<pc, saving>>
    BY <1>1, <1>3, <1>5, <1>6, <1>7, <1>2 DEF Current, OrderInv, OneTickAtATime
  <1>8. CASE /\ \E tier : copy' = [copy EXCEPT ![t][z].tier = tier]
             /\ saving' = [saving EXCEPT ![t] = {z}]
             /\ pc' = [pc EXCEPT ![t] = "save"]
    <2>1. copy'[t][z].exists = copy[t][z].exists /\ copy'[t][z].active = copy[t][z].active
      BY <1>5, <1>8 DEF TypeOK, RowType
    <2>2. saving'[t] = {z} /\ pc'[t] = "save"
      BY <1>8 DEF TypeOK
    <2>3. Current(t)'
      BY <1>1, <1>3, <1>5, <1>6, <2>1, <2>2 DEF Current
    <2> QED BY <1>2, <2>3 DEF OrderInv, OneTickAtATime
  <1> QED BY <1>4, <1>7, <1>8

\* The save of a promotion finds the row active, and not critical yet.
LEMMA PromoteOrder ==
  ASSUME TypeOK, OrderInv, OneTickAtATime, NEW t \in Tickers, Promote(t)
  PROVE  OrderInv'
  <1>1. PICK z \in saving[t] :
          /\ row' = [row EXCEPT ![z] = [copy[t][z] EXCEPT !.ttl = TierTTL[copy[t][z].tier]]]
          /\ copy' = [copy EXCEPT ![t][z] = Unborn]
          /\ \/ copy[t][z].tier = "critical" /\ criticalEvents' = Bump(criticalEvents, z)
             \/ UNCHANGED criticalEvents
          /\ UNCHANGED expiredEvents
    BY DEF Promote, history
  <1>2. pc[t] = "save" /\ pc'[t] = "promote" /\ saving'[t] = {} /\ UNCHANGED todo
    BY DEF Promote, Goto, TypeOK
  <1>3. z \in Zones /\ Current(t) /\ todo[t] \subseteq Zones \ {z}
    BY DEF TypeOK, OrderInv, Current
  <1>4. row[z].active /\ row[z].tier # "critical" /\ copy[t][z].exists /\ copy[t][z].active
    BY <1>3 DEF Current
  <1>5. /\ \A y \in Zones \ {z} : row'[y] = row[y] /\ copy'[t][y] = copy[t][y]
        /\ row'[z].exists /\ row'[z].active /\ row'[z].tier = copy[t][z].tier
    BY <1>1, <1>3, <1>4 DEF TypeOK, RowType
  <1>6. expiredEvents[z] = 0 /\ criticalEvents[z] = 0
    BY <1>3, <1>4 DEF OrderInv, Recorded
  <1>7. /\ \A y \in Zones \ {z} : criticalEvents'[y] = criticalEvents[y]
        /\ criticalEvents'[z] \in {0, 1}
        /\ copy[t][z].tier # "critical" => criticalEvents'[z] = 0
    BY <1>1, <1>3, <1>6 DEF Bump, TypeOK
  <1>8. \A y \in Zones : Recorded(y)'
    BY <1>1, <1>5, <1>6, <1>7 DEF OrderInv, Recorded
  <1>9. Current(t)'
    BY <1>2, <1>3, <1>5 DEF Current
  <1> QED BY <1>8, <1>9 DEF OrderInv, OneTickAtATime

\* Neither a missing source nor a tick that raises changes what is recorded.
LEMMA SourceOrder ==
  ASSUME TypeOK, OrderInv, NEW z \in Zones, DeleteSource(z)
  PROVE  OrderInv'
  <1>1. /\ row' = [row EXCEPT ![z].source = FALSE]
        /\ UNCHANGED <<pc, todo, copy, saving, expiredEvents, criticalEvents>>
    BY DEF DeleteSource, ticker, history
  <1>2. \A y \in Zones : /\ row'[y].active = row[y].active
                         /\ row'[y].exists = row[y].exists
                         /\ row'[y].tier = row[y].tier
                         /\ row'[y].ttl = row[y].ttl
    BY <1>1 DEF TypeOK, RowType
  <1>3. \A y \in Zones : Recorded(y)'
    BY <1>1, <1>2 DEF OrderInv, Recorded
  <1>4. ASSUME NEW t \in Tickers PROVE Current(t)'
    <2>1. todo[t] \subseteq Zones /\ saving[t] \subseteq Zones /\ Current(t)
      BY DEF TypeOK, OrderInv
    <2> QED BY <1>1, <1>2, <2>1 DEF Current
  <1> QED BY <1>3, <1>4 DEF OrderInv

LEMMA RaiseOrder ==
  ASSUME TypeOK, OrderInv, OneTickAtATime, NEW t \in Tickers, Raise(t)
  PROVE  OrderInv'
  <1>1. UNCHANGED <<row, expiredEvents, criticalEvents>>
    BY DEF Raise, history
  <1>2. pc'[t] = "idle" /\ todo'[t] = {} /\ saving'[t] = {}
    BY DEF Raise, Load, Goto, TypeOK
  <1>3. Current(t)'
    BY <1>2 DEF Current
  <1> QED BY <1>1, <1>3 DEF OrderInv, Recorded, OneTickAtATime

LEMMA OrderStep ==
  ASSUME OneTickAtATime
  PROVE  TypeOK /\ OrderInv /\ [Next]_vars => OrderInv'
  <1> SUFFICES ASSUME TypeOK, OrderInv, [Next]_vars PROVE OrderInv'
    OBVIOUS
  <1>1. ASSUME NEW z \in Zones, Delete(z) PROVE FALSE
    BY <1>1 DEF Delete, OneTickAtATime, TypeOK
  <1>2. CASE Readings \/ UNCHANGED vars
    BY <1>2 DEF Readings, ticker, history, vars, OrderInv, Recorded, Current
  <1>3. ASSUME NEW t \in Tickers, Finish(t) PROVE OrderInv'
    <2>1. UNCHANGED <<row, todo, copy, saving, expiredEvents, criticalEvents>>
          /\ pc[t] = "promote" /\ todo[t] = {} /\ pc'[t] = "idle"
      BY <1>3 DEF Finish, Goto, history, TypeOK
    <2>2. Current(t)'
      BY <2>1 DEF OrderInv, Current
    <2> QED BY <2>1, <2>2 DEF OrderInv, Recorded, OneTickAtATime
  <1> QED
    BY <1>1, <1>2, <1>3, StepCases, CreateOrder, TimeOrder, LoadOrder, ExpireOrder, GrowOrder,
       ConfirmOrder, PromoteOrder, SourceOrder, RaiseOrder

LEMMA OrderSafe ==
  ASSUME OneTickAtATime
  PROVE  Spec => [](TypeOK /\ OrderInv)
  <1>1. TypeOK /\ OrderInv /\ [Next]_vars => OrderInv'
    BY OrderStep
  <1> QED BY <1>1, OrderInit, TypeInit, TypeStep, PTL DEF Spec

-----------------------------------------------------------------------------
(* The theorems.                                                           *)

\* While one tick runs at a time and nobody deletes zones, a zone's promotion to
\* critical and its expiry are each recorded at most once (zone_lifecycle.py:379-438).
THEOREM AnnouncedOnceHolds ==
  ASSUME OneTickAtATime
  PROVE  Spec => []AnnouncedOnce
  <1>1. OrderInv => AnnouncedOnce
    BY DEF OrderInv, Recorded, AnnouncedOnce
  <1> QED BY <1>1, OrderSafe, PTL

\* Under the same conditions the expiry phase deactivates no zone that has time left:
\* what it listed as due is still due when its turn comes (zone_lifecycle.py:285-316).
THEOREM ExpiredWhenDueHolds ==
  ASSUME OneTickAtATime
  PROVE  Spec => ExpiredWhenDue
  <1> DEFINE Step ==
        [\A t \in Tickers, z \in Zones :
            pc[t] = "expire" /\ row[z].active /\ ~row'[z].active => row[z].ttl = 0]_row
  <1>1. TypeOK /\ OrderInv /\ [Next]_vars => Step
    <2> SUFFICES ASSUME TypeOK, OrderInv, [Next]_vars,
                        NEW t \in Tickers, NEW z \in Zones,
                        pc[t] = "expire", row[z].active, ~row'[z].active
                 PROVE  row[z].ttl = 0
      OBVIOUS
    <2>1. row' # row
      OBVIOUS
    <2>2. ASSUME NEW y \in Zones, Create(y) \/ Delete(y) PROVE FALSE
      <3>1. ~Delete(y)
        BY DEF Delete, OneTickAtATime, TypeOK
      <3>2. row'[z] = row[z] \/ row'[z].active
        BY <2>2, <3>1 DEF Create, TypeOK
      <3> QED BY <3>2
    <2>3. ASSUME TimePasses PROVE FALSE
      BY <2>3 DEF TimePasses, TypeOK, RowType
    <2>4. ASSUME NEW u \in Tickers, Loads(u) \/ Confirm(u) \/ Finish(u) PROVE FALSE
      BY <2>1, <2>4 DEF Loads, LoadExpired, LoadRecovered, LoadActive, LoadPromotable, Confirm,
                        Finish
    <2>5. ASSUME NEW u \in Tickers, Grow(u) \/ Promote(u) PROVE FALSE
      <3>1. u = t
        BY DEF OneTickAtATime
      <3> QED BY <2>5, <3>1 DEF Grow, Promote
    <2>6. ASSUME Readings \/ UNCHANGED vars PROVE FALSE
      BY <2>1, <2>6 DEF Readings, vars
    <2>7. ASSUME NEW u \in Tickers, Expire(u) PROVE row[z].ttl = 0
      <3>1. u = t
        BY DEF OneTickAtATime
      <3>2. PICK y \in todo[t] : row' = [row EXCEPT ![y].active = FALSE]
        BY <2>7, <3>1 DEF Expire
      <3>3. z = y
        BY <3>2 DEF TypeOK
      <3> QED BY <3>2, <3>3 DEF OrderInv, Current
    <2>8. ASSUME NEW y \in Zones, DeleteSource(y) PROVE FALSE
      BY <2>8 DEF DeleteSource, TypeOK, RowType
    <2>9. ASSUME NEW u \in Tickers, Raise(u) PROVE FALSE
      BY <2>1, <2>9 DEF Raise
    <2> QED BY <2>2, <2>3, <2>4, <2>5, <2>6, <2>7, <2>8, <2>9, StepCases
  <1> QED BY <1>1, OrderSafe, PTL DEF Spec, ExpiredWhenDue

-----------------------------------------------------------------------------
(* The life of a zone, again while one tick runs at a time and no operator *)
(* deletes a zone.                                                         *)

\* The radius is what the zone has grown to, or the first one.
Grown(z) == row[z].radius <= age[z] \/ row[z].radius <= InitialAge

\* What a tick has still to work on has the size and the tier it has in the database,
\* and what it is about to save is as large and of a higher tier.
Kept(t) ==
    /\ \A z \in todo[t] : copy[t][z].radius = row[z].radius /\ copy[t][z].tier = row[z].tier
    /\ \A z \in saving[t] : /\ copy[t][z].radius = row[z].radius
                            /\ TierRank[copy[t][z].tier] > TierRank[row[z].tier]

\* The inductive invariant.
RunInv == (\A z \in Zones : Grown(z)) /\ (\A t \in Tickers : Kept(t))

\* What a step may do to a zone.
RunsDown(z) ==
    /\ row[z].exists /\ ~row[z].active => ~row'[z].active
    /\ row[z].active => \/ ~row'[z].active
                        \/ TierRank[row'[z].tier] > TierRank[row[z].tier]
                        \/ row'[z].tier = row[z].tier /\ row'[z].ttl <= row[z].ttl
    /\ row[z].active /\ row'[z].active => row'[z].radius >= row[z].radius \/ age[z] < InitialAge

RunStep == RunInv' /\ \A z \in Zones : RunsDown(z)

\* A zone that does not change, or is deactivated, runs down.
LEMMA RowStays ==
  ASSUME TypeOK, NEW z \in Zones, row'[z] = row[z]
  PROVE  RunsDown(z)
  BY DEF RunsDown, TypeOK, RowType

LEMMA RunInit == Init => RunInv
  <1> SUFFICES ASSUME Init PROVE RunInv
    OBVIOUS
  <1>1. \A z \in Zones : row[z].radius = 0 /\ age[z] = 0
    BY DEF Init, Unborn
  <1>2. \A t \in Tickers : todo[t] = {} /\ saving[t] = {}
    BY DEF Init
  <1> QED BY <1>1, <1>2 DEF RunInv, Grown, Kept

LEMMA CreateRun ==
  ASSUME TypeOK, OrderInv, RunInv, NEW z \in Zones, Create(z)
  PROVE  RunStep
  <1>1. PICK scenario \in BOOLEAN :
          /\ row' = [row EXCEPT ![z] =
               [exists |-> TRUE, active |-> TRUE, tier |-> "tentative",
                ttl |-> IF scenario THEN ScenarioTTL ELSE TentativeTTL,
                radius |-> DiffusionRadius(IF scenario THEN ScenarioAge ELSE InitialAge),
                scenario |-> scenario, source |-> TRUE]]
          /\ age' = [age EXCEPT ![z] = IF scenario THEN ScenarioAge ELSE 0]
    BY DEF Create
  <1>2. ~row[z].exists /\ ~row[z].active /\ UNCHANGED <<todo, copy, saving>>
    BY DEF Create, ticker, OrderInv, Recorded
  <1>3. /\ \A y \in Zones \ {z} : row'[y] = row[y] /\ age'[y] = age[y]
        /\ age'[z] = IF scenario THEN ScenarioAge ELSE 0
        /\ row'[z].radius = DiffusionRadius(IF scenario THEN ScenarioAge ELSE InitialAge)
    BY <1>1 DEF TypeOK
  <1>4. row'[z].radius <= age'[z] \/ row'[z].radius <= InitialAge
    BY <1>3, ZoneConstantsAssumption DEF ZoneConstantsAssumption, DiffusionRadius
  <1>5. \A y \in Zones : Grown(y)'
    BY <1>3, <1>4 DEF RunInv, Grown
  <1>6. ASSUME NEW t \in Tickers PROVE Kept(t)'
    <2>1. z \notin todo[t] \cup saving[t]
      BY <1>2 DEF OrderInv, Current
    <2>2. todo[t] \subseteq Zones \ {z} /\ saving[t] \subseteq Zones \ {z}
      BY <2>1 DEF TypeOK
    <2>3. Kept(t)
      BY DEF RunInv
    <2> QED BY <1>2, <1>3, <2>2, <2>3 DEF Kept
  <1>7. \A y \in Zones : RunsDown(y)
    <2>1. RunsDown(z)
      BY <1>2 DEF RunsDown
    <2> QED BY <1>3, <2>1, RowStays
  <1> QED BY <1>5, <1>6, <1>7 DEF RunStep, RunInv

\* Time touches neither the size nor the tier of a zone.
LEMMA TimeRun ==
  ASSUME TypeOK, RunInv, TimePasses
  PROVE  RunStep
  <1>1. \A z \in Zones : row'[z] = [row[z] EXCEPT !.ttl = Less(@)]
    BY DEF TimePasses
  <1>2. \A t \in Tickers, z \in Zones : copy'[t][z] = [copy[t][z] EXCEPT !.ttl = Less(@)]
    BY DEF TimePasses
  <1>3. UNCHANGED <<todo, saving>>
    BY DEF TimePasses
  <1>4. \A z \in Zones : age'[z] >= age[z] /\ age'[z] \in Nat
    <2> SUFFICES ASSUME NEW z \in Zones PROVE age'[z] >= age[z] /\ age'[z] \in Nat
      OBVIOUS
    <2>1. age'[z] = IF row[z].exists /\ age[z] < RadiusCap THEN age[z] + 1 ELSE age[z]
      BY DEF TimePasses
    <2>2. age[z] \in Nat
      BY ZoneConstantsAssumption DEF TypeOK, ZoneConstantsAssumption
    <2> QED BY <2>1, <2>2
  <1>5. ASSUME NEW z \in Zones PROVE Grown(z)' /\ RunsDown(z)
    <2>1. row[z] \in RowType /\ row[z].ttl \in Nat /\ age[z] \in Nat /\ Grown(z)
      BY ZoneConstantsAssumption DEF TypeOK, RowType, RunInv, ZoneConstantsAssumption
    <2>2. /\ row'[z].radius = row[z].radius /\ row'[z].tier = row[z].tier
          /\ row'[z].active = row[z].active /\ row'[z].ttl <= row[z].ttl
      <3>1. row'[z] = [row[z] EXCEPT !.ttl = Less(row[z].ttl)]
        BY <1>1
      <3>2. Less(row[z].ttl) <= row[z].ttl
        BY <2>1 DEF Less
      <3> QED BY <2>1, <3>1, <3>2 DEF RowType
    <2>3. row[z].radius \in Nat /\ InitialAge \in Nat
      BY <2>1, ConstantTypes, ZoneConstantsAssumption DEF RowType, ZoneConstantsAssumption
    <2>4. Grown(z)'
      BY <1>4, <2>1, <2>2, <2>3 DEF Grown
    <2> QED BY <2>2, <2>3, <2>4 DEF RunsDown
  <1>6. ASSUME NEW t \in Tickers PROVE Kept(t)'
    <2>1. /\ todo[t] \subseteq Zones /\ saving[t] \subseteq Zones
          /\ \A z \in Zones : copy[t][z] \in RowType /\ row[z] \in RowType
      BY DEF TypeOK
    <2>2. \A z \in Zones :
            /\ copy'[t][z].radius = copy[t][z].radius /\ copy'[t][z].tier = copy[t][z].tier
            /\ row'[z].radius = row[z].radius /\ row'[z].tier = row[z].tier
      <3> SUFFICES ASSUME NEW z \in Zones
                   PROVE  /\ copy'[t][z].radius = copy[t][z].radius
                          /\ copy'[t][z].tier = copy[t][z].tier
                          /\ row'[z].radius = row[z].radius /\ row'[z].tier = row[z].tier
        OBVIOUS
      <3>1. /\ row'[z] = [row[z] EXCEPT !.ttl = Less(row[z].ttl)]
            /\ copy'[t][z] = [copy[t][z] EXCEPT !.ttl = Less(copy[t][z].ttl)]
        BY <1>1, <1>2
      <3> QED BY <2>1, <3>1 DEF RowType
    <2>3. \A z \in todo[t] : /\ copy[t][z].radius = row[z].radius
                             /\ copy[t][z].tier = row[z].tier
      BY DEF RunInv, Kept
    <2>4. \A z \in saving[t] : /\ copy[t][z].radius = row[z].radius
                               /\ TierRank[copy[t][z].tier] > TierRank[row[z].tier]
      BY DEF RunInv, Kept
    <2> QED BY <1>3, <2>1, <2>2, <2>3, <2>4 DEF Kept
  <1> QED BY <1>5, <1>6 DEF RunStep, RunInv

LEMMA LoadRun ==
  ASSUME TypeOK, OrderInv, RunInv, OneTickAtATime, NEW t \in Tickers, Loads(t)
  PROVE  RunStep
  <1>1. UNCHANGED <<row, age, saving>>
    BY DEF Loads, LoadExpired, LoadRecovered, LoadActive, LoadPromotable
  <1>2. saving[t] = {}
    BY DEF Loads, LoadExpired, LoadRecovered, LoadActive, LoadPromotable, OrderInv, Current
  <1>3. PICK phase \in {"expire", "recover", "grow", "promote"}, zones \in SUBSET Active :
          Load(t, phase, zones)
    <2>1. CASE LoadExpired(t)
      BY <2>1 DEF LoadExpired
    <2>2. CASE LoadRecovered(t)
      BY <2>2 DEF LoadRecovered
    <2>3. CASE LoadActive(t)
      BY <2>3 DEF LoadActive
    <2>4. CASE LoadPromotable(t)
      BY <2>4 DEF LoadPromotable
    <2> QED BY <2>1, <2>2, <2>3, <2>4 DEF Loads
  <1>4. zones \subseteq Zones /\ todo'[t] = zones /\ \A z \in zones : copy'[t][z] = row[z]
    BY <1>3 DEF Load, TypeOK, Active
  <1>5. Kept(t)'
    BY <1>1, <1>2, <1>4 DEF Kept
  <1>6. \A z \in Zones : Grown(z)' /\ RunsDown(z)
    BY <1>1, RowStays DEF RunInv, Grown
  <1> QED BY <1>5, <1>6 DEF RunStep, RunInv, OneTickAtATime

LEMMA ExpireRun ==
  ASSUME TypeOK, OrderInv, RunInv, OneTickAtATime, NEW t \in Tickers, Expire(t)
  PROVE  RunStep
  <1>1. PICK z \in todo[t] :
          /\ todo' = [todo EXCEPT ![t] = @ \ {z}]
          /\ copy' = [copy EXCEPT ![t][z] = Unborn]
          /\ row' = [row EXCEPT ![z].active = FALSE]
    BY DEF Expire
  <1>2. saving[t] = {} /\ UNCHANGED <<saving, age>>
    BY DEF Expire, OrderInv, Current
  <1>3. z \in Zones /\ todo'[t] = todo[t] \ {z} /\ todo[t] \subseteq Zones /\ Kept(t)
    BY <1>1 DEF TypeOK, RunInv
  <1>4. /\ \A y \in Zones \ {z} : row'[y] = row[y] /\ copy'[t][y] = copy[t][y]
        /\ ~row'[z].active /\ row'[z].radius = row[z].radius
    BY <1>1, <1>3 DEF TypeOK, RowType
  <1>5. Kept(t)'
    BY <1>2, <1>3, <1>4 DEF Kept
  <1>6. \A y \in Zones : Grown(y)'
    BY <1>2, <1>4 DEF RunInv, Grown
  <1>7. RunsDown(z)
    BY <1>4 DEF RunsDown
  <1>8. \A y \in Zones : RunsDown(y)
    BY <1>4, <1>7, RowStays
  <1> QED BY <1>5, <1>6, <1>8 DEF RunStep, RunInv, OneTickAtATime

\* A zone that is old enough has not grown farther than its age.
LEMMA GrowRun ==
  ASSUME TypeOK, OrderInv, RunInv, OneTickAtATime, NEW t \in Tickers, Grow(t)
  PROVE  RunStep
  <1>1. PICK z \in todo[t] :
          /\ todo' = [todo EXCEPT ![t] = @ \ {z}]
          /\ copy' = [copy EXCEPT ![t][z] = Unborn]
          /\ row' = [row EXCEPT ![z].radius = DiffusionRadius(age[z])]
    BY DEF Grow
  <1>2. saving[t] = {} /\ UNCHANGED <<saving, age>>
    BY DEF Grow, OrderInv, Current
  <1>3. z \in Zones /\ todo'[t] = todo[t] \ {z} /\ todo[t] \subseteq Zones /\ Kept(t)
    BY <1>1 DEF TypeOK, RunInv
  <1>4. /\ \A y \in Zones \ {z} : row'[y] = row[y] /\ copy'[t][y] = copy[t][y]
        /\ row'[z] = [row[z] EXCEPT !.radius = DiffusionRadius(age[z])]
    BY <1>1, <1>3 DEF TypeOK
  <1>5. age[z] \in Nat /\ DiffusionRadius(age[z]) = age[z]
    <2>1. age[z] \in 0 .. RadiusCap /\ RadiusCap \in Nat
      BY <1>3, ZoneConstantsAssumption DEF TypeOK, ZoneConstantsAssumption
    <2> QED BY <2>1 DEF DiffusionRadius
  <1>6. row[z] \in RowType /\ Grown(z) /\ InitialAge \in Nat
    BY <1>3, ZoneConstantsAssumption DEF TypeOK, RunInv, ZoneConstantsAssumption
  <1>7. /\ row'[z].radius = age[z] /\ row'[z].active = row[z].active
        /\ row'[z].tier = row[z].tier /\ row'[z].ttl = row[z].ttl
    BY <1>4, <1>5, <1>6 DEF RowType
  <1>8. Kept(t)'
    BY <1>2, <1>3, <1>4 DEF Kept
  <1>9. \A y \in Zones : Grown(y)'
    <2>1. Grown(z)'
      BY <1>2, <1>5, <1>7 DEF Grown
    <2> QED BY <1>2, <1>4, <2>1 DEF RunInv, Grown
  <1>10. RunsDown(z)
    <2>1. row[z].radius \in Nat /\ row[z].ttl \in Nat
      BY <1>6 DEF RowType
    <2>2. row'[z].radius >= row[z].radius \/ age[z] < InitialAge
      BY <1>5, <1>6, <1>7, <2>1 DEF Grown
    <2> QED BY <1>7, <2>1, <2>2 DEF RunsDown
  <1>11. \A y \in Zones : RunsDown(y)
    BY <1>4, <1>10, RowStays
  <1> QED BY <1>8, <1>9, <1>11 DEF RunStep, RunInv, OneTickAtATime

\* A promotion leads to a higher tier.
LEMMA PromotionRises ==
  ASSUME NEW tier \in Tier, tier # "critical", NEW total,
         Promotion(tier, total) # NoPromotion
  PROVE  TierRank[Promotion(tier, total)] > TierRank[tier]
  BY DEF Promotion, Tier, TierRank, NoPromotion

LEMMA ConfirmRun ==
  ASSUME TypeOK, OrderInv, RunInv, OneTickAtATime, NEW t \in Tickers, Confirm(t)
  PROVE  RunStep
  <1>1. UNCHANGED <<row, age>> /\ pc[t] = "promote" /\ saving[t] = {}
    BY DEF Confirm, OrderInv, Current
  <1>2. PICK z \in todo[t] :
          /\ todo' = [todo EXCEPT ![t] = @ \ {z}]
          /\ \/ \E total :
                  /\ Promotion(copy[t][z].tier, total) # NoPromotion
                  /\ copy' = [copy EXCEPT ![t][z].tier = Promotion(copy[t][z].tier, total)]
                  /\ saving' = [saving EXCEPT ![t] = {z}]
             \/ /\ copy' = [copy EXCEPT ![t][z] = Unborn]
                /\ UNCHANGED saving
    BY DEF Confirm
  <1>3. /\ z \in Zones /\ todo'[t] = todo[t] \ {z} /\ todo[t] \subseteq Zones
        /\ Kept(t) /\ copy[t][z].radius = row[z].radius /\ copy[t][z].tier = row[z].tier
        /\ row[z].tier # "critical" /\ row[z] \in RowType /\ copy[t][z] \in RowType
    BY <1>1, <1>2 DEF TypeOK, RunInv, Kept, OrderInv, Current
  <1>4. \A y \in Zones \ {z} : copy'[t][y] = copy[t][y]
    BY <1>2, <1>3 DEF TypeOK
  <1>5. \A y \in Zones : Grown(y)' /\ RunsDown(y)
    BY <1>1, RowStays DEF RunInv, Grown
  <1>6. CASE UNCHANGED saving
    BY <1>1, <1>3, <1>4, <1>5, <1>6 DEF Kept, RunStep, RunInv, OneTickAtATime
  <1>7. ASSUME NEW total, Promotion(copy[t][z].tier, total) # NoPromotion,
               copy' = [copy EXCEPT ![t][z].tier = Promotion(copy[t][z].tier, total)],
               saving' = [saving EXCEPT ![t] = {z}]
        PROVE  RunStep
    <2>1. saving'[t] = {z}
      BY <1>7 DEF TypeOK
    <2>2. copy'[t][z] = [copy[t][z] EXCEPT !.tier = Promotion(row[z].tier, total)]
      BY <1>3, <1>7 DEF TypeOK
    <2>3. copy'[t][z].radius = row[z].radius /\ copy'[t][z].tier = Promotion(row[z].tier, total)
      BY <1>3, <2>2 DEF RowType
    <2>4. TierRank[copy'[t][z].tier] > TierRank[row[z].tier]
      BY <1>3, <1>7, <2>3, PromotionRises DEF RowType
    <2>5. Kept(t)'
      BY <1>1, <1>3, <1>4, <2>1, <2>3, <2>4 DEF Kept
    <2> QED BY <1>5, <2>5 DEF RunStep, RunInv, OneTickAtATime
  <1> QED BY <1>2, <1>6, <1>7

LEMMA PromoteRun ==
  ASSUME TypeOK, OrderInv, RunInv, OneTickAtATime, NEW t \in Tickers, Promote(t)
  PROVE  RunStep
  <1>1. PICK z \in saving[t] :
          /\ row' = [row EXCEPT ![z] = [copy[t][z] EXCEPT !.ttl = TierTTL[copy[t][z].tier]]]
          /\ copy' = [copy EXCEPT ![t][z] = Unborn]
    BY DEF Promote
  <1>2. saving'[t] = {} /\ UNCHANGED <<todo, age>>
    BY DEF Promote, TypeOK
  <1>3. /\ z \in Zones /\ todo[t] \subseteq Zones \ {z} /\ Kept(t)
        /\ row[z].active /\ copy[t][z].active
    BY DEF TypeOK, OrderInv, Current, RunInv
  <1>4. /\ \A y \in Zones \ {z} : row'[y] = row[y] /\ copy'[t][y] = copy[t][y]
        /\ row'[z].tier = copy[t][z].tier /\ row'[z].radius = copy[t][z].radius
        /\ row'[z].active
    BY <1>1, <1>3 DEF TypeOK, RowType
  <1>5. /\ row'[z].radius = row[z].radius
        /\ TierRank[row'[z].tier] > TierRank[row[z].tier]
    BY <1>3, <1>4 DEF Kept
  <1>6. Kept(t)'
    BY <1>2, <1>3, <1>4 DEF Kept
  <1>7. \A y \in Zones : Grown(y)'
    BY <1>2, <1>4, <1>5 DEF RunInv, Grown
  <1>8. RunsDown(z)
    <2>1. row[z].radius \in Nat
      BY <1>3 DEF TypeOK, RowType
    <2> QED BY <1>3, <1>4, <1>5, <2>1 DEF RunsDown
  <1>9. \A y \in Zones : RunsDown(y)
    BY <1>4, <1>8, RowStays
  <1> QED BY <1>6, <1>7, <1>9 DEF RunStep, RunInv, OneTickAtATime

\* A deleted source is missing from the row, and may still be in a copy.
LEMMA SourceRun ==
  ASSUME TypeOK, RunInv, NEW z \in Zones, DeleteSource(z)
  PROVE  RunStep
  <1>1. row' = [row EXCEPT ![z].source = FALSE] /\ UNCHANGED <<age, todo, copy, saving>>
    BY DEF DeleteSource, ticker
  <1>2. \A y \in Zones : /\ row[y] \in RowType
                         /\ row'[y].active = row[y].active
                         /\ row'[y].exists = row[y].exists
                         /\ row'[y].tier = row[y].tier
                         /\ row'[y].ttl = row[y].ttl
                         /\ row'[y].radius = row[y].radius
    BY <1>1 DEF TypeOK, RowType
  <1>3. \A y \in Zones : Grown(y)' /\ RunsDown(y)
    BY <1>1, <1>2 DEF RunInv, Grown, RunsDown, RowType
  <1>4. ASSUME NEW t \in Tickers PROVE Kept(t)'
    <2>1. todo[t] \subseteq Zones /\ saving[t] \subseteq Zones /\ Kept(t)
      BY DEF TypeOK, RunInv
    <2> QED BY <1>1, <1>2, <2>1 DEF Kept
  <1> QED BY <1>3, <1>4 DEF RunStep, RunInv

LEMMA RaiseRun ==
  ASSUME TypeOK, RunInv, OneTickAtATime, NEW t \in Tickers, Raise(t)
  PROVE  RunStep
  <1>1. UNCHANGED <<row, age>>
    BY DEF Raise
  <1>2. todo'[t] = {} /\ saving'[t] = {}
    BY DEF Raise, Load, TypeOK
  <1>3. Kept(t)'
    BY <1>2 DEF Kept
  <1> QED BY <1>1, <1>3, RowStays DEF RunStep, RunInv, Grown, OneTickAtATime

LEMMA RunKept ==
  ASSUME OneTickAtATime
  PROVE  TypeOK /\ OrderInv /\ RunInv /\ [Next]_vars => RunStep
  <1> SUFFICES ASSUME TypeOK, OrderInv, RunInv, [Next]_vars PROVE RunStep
    OBVIOUS
  <1>1. ASSUME NEW z \in Zones, Delete(z) PROVE FALSE
    BY <1>1 DEF Delete, OneTickAtATime, TypeOK
  <1>2. CASE Readings \/ (\E t \in Tickers : Finish(t)) \/ UNCHANGED vars
    <2>1. UNCHANGED <<row, age, todo, copy, saving>>
      BY <1>2 DEF Readings, Finish, ticker, vars
    <2> QED BY <2>1, RowStays DEF RunStep, RunInv, Grown, Kept
  <1> QED
    BY <1>1, <1>2, StepCases, CreateRun, TimeRun, LoadRun, ExpireRun, GrowRun, ConfirmRun,
       PromoteRun, SourceRun, RaiseRun

\* While one tick runs at a time and nobody deletes zones, a zone's life only runs
\* down: what was deactivated stays so, only a promotion renews its time, which there
\* are two of, only a due zone is expired, and it becomes smaller only while younger
\* than its first radius supposes (zone_lifecycle.py:109-158, :294-316, :370-453).
THEOREM ZonesRunDownHolds ==
  ASSUME OneTickAtATime
  PROVE  Spec => ZonesRunDown
  <1>1. TypeOK /\ OrderInv /\ RunInv /\ [Next]_vars => RunStep
    BY RunKept
  <1>2. RunStep => RunInv'
    BY DEF RunStep
  <1>3. RunStep =>
          /\ [\A z \in Zones : row[z].exists /\ ~row[z].active => ~row'[z].active]_row
          /\ [\A z \in Zones : row[z].active =>
                \/ ~row'[z].active
                \/ TierRank[row'[z].tier] > TierRank[row[z].tier]
                \/ row'[z].tier = row[z].tier /\ row'[z].ttl <= row[z].ttl]_row
          /\ [\A z \in Zones : row[z].active /\ row'[z].active =>
                row'[z].radius >= row[z].radius \/ age[z] < InitialAge]_row
    BY DEF RunStep, RunsDown
  <1>4. Spec => NoResurrection /\ LifeRunsDown /\ KeepsRadius
    BY <1>1, <1>2, <1>3, RunInit, OrderSafe, PTL
    DEF Spec, NoResurrection, LifeRunsDown, KeepsRadius
  <1> QED BY <1>4, ExpiredWhenDueHolds, PTL DEF ZonesRunDown

=============================================================================

-------------------------- MODULE SensorIngestProofs --------------------------
(***************************************************************************)
(* Theorems about SensorIngest, for any set of pods, any readings and      *)
(* intervals, and any number of readings, outages and failed requests, and *)
(* about the requests of MCSensorIngest that are served one at a time.     *)
(***************************************************************************)
EXTENDS MCSensorIngest, FiniteSetTheorems, SequenceTheorems, TLAPS

Labels == {"idle", "gate", "insert", "device", "evaluate", "zoneGate", "lookup", "create"}

ZoneType == [active : BOOLEAN, until : Nat, ended : Nat]

-----------------------------------------------------------------------------
(* Type correctness.                                                       *)

\* The newest rows are rows.
LEMMA NewestType ==
  ASSUME NEW rows \in Seq(Status) PROVE Newest(rows) \in Seq(Status)
  <1>1. CASE Len(rows) < RecoveryCheck
    BY <1>1, SubSeqProperties DEF Newest
  <1>2. CASE ~(Len(rows) < RecoveryCheck)
    BY <1>2, IngestConstantsAssumption, SubSeqProperties DEF Newest
  <1> QED BY <1>1, <1>2

\* The locals of a request that does not run are typed.
LEMMA NotServingType == NotServing \in RequestType
  BY DEF NotServing, RequestType, Status

\* What the end of a request leaves of the locals.
LEMMA RespondType ==
  ASSUME TypeOK, NEW p \in Pods, Respond(p)
  PROVE  /\ pc' \in [Pods -> Labels]
         /\ local' \in [Pods -> RequestType]
         /\ \A q \in Pods : \/ q # p /\ pc'[q] = pc[q] /\ local'[q] = local[q]
                            \/ q = p /\ pc'[q] = "idle" /\ local'[q] = NotServing
  BY NotServingType DEF Respond, Goto, TypeOK, Labels

\* What a request that goes on to the next call leaves of them.
LEMMA GotoType ==
  ASSUME TypeOK, NEW p \in Pods, NEW label \in Labels, Goto(p, label)
  PROVE  /\ pc' \in [Pods -> Labels]
         /\ pc'[p] = label
         /\ \A q \in Pods \ {p} : pc'[q] = pc[q]
  BY DEF Goto, TypeOK, Labels

\* The two columns that the end of a zone writes.
LEMMA ZoneRow ==
  ASSUME NEW r \in ZoneType, NEW t \in Nat
  PROVE  /\ [r EXCEPT !.active = FALSE] \in ZoneType
         /\ [r EXCEPT !.active = FALSE].active = FALSE
         /\ [r EXCEPT !.ended = t] \in ZoneType
         /\ [r EXCEPT !.ended = t].active = r.active
  BY DEF ZoneType

\* The end of a zone.
LEMMA EndType ==
  ASSUME TypeOK, NEW z \in 1 .. Len(zones), End(z)
  PROVE  /\ zones' \in Seq(ZoneType)
         /\ Len(zones') = Len(zones)
         /\ Active' = Active \ {z}
  <1>1. zones \in Seq(ZoneType) /\ z \in 1 .. Len(zones) /\ clock \in Nat
    BY DEF TypeOK, ZoneType
  <1>0. zones[z] \in ZoneType
    BY <1>1
  <1> DEFINE closed == [zones[z] EXCEPT !.active = FALSE]
             half == [zones EXCEPT ![z] = closed]
             over == [half[z] EXCEPT !.ended = clock]
  <1>2. closed \in ZoneType /\ closed.active = FALSE
    BY <1>0, <1>1, ZoneRow
  <1> HIDE DEF closed
  <1>3. /\ half \in Seq(ZoneType) /\ Len(half) = Len(zones) /\ half[z] = closed
        /\ \A y \in 1 .. Len(zones) \ {z} : half[y] = zones[y]
    BY <1>1, <1>2
  <1>4. zones' = [half EXCEPT ![z] = over]
    BY <1>1 DEF End, closed
  <1> HIDE DEF half
  <1>5. over \in ZoneType /\ over.active = FALSE
    BY <1>1, <1>2, <1>3, ZoneRow
  <1> HIDE DEF over
  <1>6. /\ zones' \in Seq(ZoneType) /\ Len(zones') = Len(zones) /\ zones'[z] = over
        /\ \A y \in 1 .. Len(zones) \ {z} : zones'[y] = zones[y]
    BY <1>1, <1>3, <1>4, <1>5
  <1> QED BY <1>1, <1>5, <1>6 DEF Active

LEMMA TypeInit == Init => TypeOK
  BY NotServingType DEF Init, TypeOK, Status

LEMMA TypeStep == TypeOK /\ [Next]_vars => TypeOK'
  <1> SUFFICES ASSUME TypeOK, [Next]_vars PROVE TypeOK'
    OBVIOUS
  <1> USE DEF world, gates, database, history, Labels
  <1>1. CASE TimePasses
    BY <1>1 DEF TimePasses, TypeOK
  <1>2. CASE CacheFails
    <2>1. outages' \in Nat
      BY <1>2 DEF CacheFails, TypeOK
    <2>2. cacheUp' \in BOOLEAN
      BY <1>2 DEF CacheFails
    <2> QED BY <1>2, <2>1, <2>2 DEF CacheFails, TypeOK
  <1>3. CASE CacheReturns
    BY <1>3 DEF CacheReturns, TypeOK
  <1>4. CASE ExpireDue
    <2>1. PICK z \in Active : End(z)
      BY <1>4 DEF ExpireDue
    <2>2. zones' \in Seq(ZoneType) /\ Len(zones') = Len(zones)
      BY <2>1, EndType DEF Active
    <2> QED BY <1>4, <2>2 DEF ExpireDue, TypeOK, ZoneType
  <1>5. CASE JudgeRecovered
    BY <1>5 DEF JudgeRecovered, TypeOK, Active
  <1>6. CASE ExpireRecovered
    <2>1. PICK z \in expiring : End(z) /\ expiring' = expiring \ {z}
      BY <1>6 DEF ExpireRecovered
    <2>2. zones' \in Seq(ZoneType) /\ Len(zones') = Len(zones)
      BY <2>1, EndType DEF TypeOK
    <2> QED BY <1>6, <2>1, <2>2 DEF ExpireRecovered, TypeOK, ZoneType
  <1>7. ASSUME NEW p \in Pods, NEW r \in Readings, Receive(p, r) PROVE TypeOK'
    <2>1. r \in [status : Status, diffuses : BOOLEAN]
      BY IngestConstantsAssumption
    <2>2. /\ pc' \in [Pods -> Labels]
          /\ local' \in [Pods -> RequestType]
          /\ latest' \in Status
      <3>1. CASE cacheUp
        <4> DEFINE l == [reading |-> r, prev |-> status, persist |-> FALSE, at |-> clock]
        <4>1. l \in RequestType
          BY <2>1 DEF TypeOK, RequestType
        <4>2. local' = [local EXCEPT ![p] = l] /\ Goto(p, "gate") /\ latest' = r.status
          BY <1>7, <3>1 DEF Receive
        <4> HIDE DEF l
        <4> QED BY <2>1, <4>1, <4>2, GotoType DEF TypeOK
      <3>2. CASE ~cacheUp
        BY <1>7, <3>2 DEF Receive, TypeOK
      <3> QED BY <3>1, <3>2
    <2> QED BY <1>7, <2>2 DEF Receive, TypeOK
  <1>8. ASSUME NEW p \in Pods, SaveGate(p) PROVE TypeOK'
    <2> DEFINE persist == ~cacheUp \/ clock >= saveGate
    <2>1. /\ local' = [local EXCEPT ![p].persist = persist]
          /\ Goto(p, IF persist THEN "insert" ELSE "device")
          /\ saveGate' = IF cacheUp /\ persist THEN clock + SaveInterval ELSE saveGate
      BY <1>8 DEF SaveGate
    <2>2. persist \in BOOLEAN
      OBVIOUS
    <2> HIDE DEF persist
    <2>3. local' \in [Pods -> RequestType]
      BY <2>1, <2>2 DEF TypeOK, RequestType
    <2>4. pc' \in [Pods -> Labels]
      BY <2>1, GotoType
    <2>5. saveGate' \in Nat
      BY SMTT(30), <2>1, IngestConstantsAssumption DEF TypeOK
    <2> QED BY <1>8, <2>3, <2>4, <2>5 DEF SaveGate, TypeOK
  <1>9. ASSUME NEW p \in Pods, Insert(p) PROVE TypeOK'
    <2>1. <<local[p].reading.status>> \in Seq(Status) /\ stored \in Seq(Status)
      BY DEF TypeOK, RequestType
    <2>2. stored' \in Seq(Status)
      BY <1>9, <2>1, ConcatProperties, NewestType DEF Insert
    <2> QED BY <1>9, <2>2, GotoType DEF Insert, TypeOK
  <1>10. ASSUME NEW p \in Pods, SaveDevice(p) PROVE TypeOK'
    <2>1. status' \in Status
      BY <1>10 DEF SaveDevice, TypeOK, RequestType
    <2> QED BY <1>10, <2>1, GotoType DEF SaveDevice, TypeOK
  <1>11. ASSUME NEW p \in Pods, Evaluate(p) PROVE TypeOK'
    <2>1. /\ pc' \in [Pods -> Labels]
          /\ local' \in [Pods -> RequestType]
      BY <1>11, GotoType, RespondType DEF Evaluate, TypeOK
    <2> QED BY <1>11, <2>1 DEF Evaluate, TypeOK
  <1>12. ASSUME NEW p \in Pods, ZoneGate(p) PROVE TypeOK'
    <2>1. /\ pc' \in [Pods -> Labels]
          /\ local' \in [Pods -> RequestType]
      BY <1>12, GotoType, RespondType DEF ZoneGate, TypeOK
    <2>2. zoneGate' \in Nat
      BY <1>12, IngestConstantsAssumption DEF ZoneGate, TypeOK
    <2> QED BY <1>12, <2>1, <2>2 DEF ZoneGate, TypeOK
  <1>13. ASSUME NEW p \in Pods, Lookup(p) PROVE TypeOK'
    <2>1. /\ pc' \in [Pods -> Labels]
          /\ local' \in [Pods -> RequestType]
      BY <1>13, GotoType, RespondType DEF Lookup, TypeOK
    <2> QED BY <1>13, <2>1 DEF Lookup, TypeOK
  <1>14. ASSUME NEW p \in Pods, CreateZone(p) PROVE TypeOK'
    <2> DEFINE z == [active |-> TRUE, until |-> clock + ZoneTTL, ended |-> 0]
    <2>1. z \in ZoneType
      BY IngestConstantsAssumption DEF TypeOK, ZoneType
    <2>2. zones' = Append(zones, z) /\ Respond(p)
      BY <1>14 DEF CreateZone
    <2> HIDE DEF z
    <2>3. zones' \in Seq(ZoneType) /\ Len(zones') = Len(zones) + 1
      BY <2>1, <2>2 DEF TypeOK, ZoneType
    <2>4. expiring' \in SUBSET (1 .. Len(zones'))
      BY <1>14, <2>3 DEF CreateZone, TypeOK
    <2> QED BY <1>14, <2>2, <2>3, <2>4, RespondType DEF CreateZone, TypeOK, ZoneType
  <1>15. ASSUME NEW p \in Pods, Abort(p) PROVE TypeOK'
    BY <1>15, RespondType DEF Abort, TypeOK
  <1>16. CASE UNCHANGED vars
    BY <1>16 DEF vars, TypeOK
  <1> QED
    BY <1>1, <1>2, <1>3, <1>4, <1>5, <1>6, <1>7, <1>8, <1>9, <1>10, <1>11, <1>12, <1>13,
       <1>14, <1>15, <1>16 DEF Next

\* Every variable keeps its type.
THEOREM TypeCorrect == Spec => []TypeOK
  <1> QED BY TypeInit, TypeStep, PTL DEF Spec

-----------------------------------------------------------------------------
(* Never two active zones while the cache answers.                         *)

\* Past the gate, and not yet answered.
Deciding == {"lookup", "create"}

\* The inductive invariant: while the cache answers, a request that has passed the
\* gate is the only one, since it ends before the gate opens again, and what it
\* has looked up is still so.
GateInv ==
    outages = 0 =>
        /\ cacheUp
        /\ \A p \in Pods : pc[p] # "idle" =>
             local[p].at <= clock /\ clock <= local[p].at + MaxLatency
        /\ \A p \in Pods : pc[p] \in Deciding => local[p].at + GateSec <= zoneGate
        /\ \A p, q \in Pods : pc[p] \in Deciding /\ pc[q] \in Deciding => p = q
        /\ \A p \in Pods : pc[p] = "create" => Active = {}
        /\ \A y, z \in Active : y = z

\* Nobody passes the gate, and no zone begins.
LEMMA GateKept ==
  ASSUME GateInv, UNCHANGED <<clock, cacheUp, zoneGate, outages>>,
         Active' \subseteq Active,
         \A q \in Pods :
            \/ pc'[q] = "idle"
            \/ /\ pc[q] # "idle" /\ local'[q].at = local[q].at
               /\ pc'[q] = pc[q] \/ pc'[q] \notin Deciding
            \/ pc'[q] = "gate" /\ local'[q].at = clock
  PROVE  clock \in Nat /\ MaxLatency \in Nat => GateInv'
  BY DEF GateInv, Deciding

LEMMA GateInit == Init => GateInv
  BY DEF Init, GateInv, Active, Deciding

LEMMA GateStep ==
  ASSUME MaxLatency < GateSec
  PROVE  TypeOK /\ GateInv /\ [Next]_vars => GateInv'
  <1> SUFFICES ASSUME TypeOK, GateInv, [Next]_vars PROVE GateInv'
    OBVIOUS
  <1> USE DEF world, gates, database, history
  <1>a. clock \in Nat /\ zoneGate \in Nat /\ MaxLatency \in Nat /\ GateSec \in Nat \ {0}
    BY IngestConstantsAssumption DEF TypeOK
  <1>b. \A p \in Pods : local[p] \in RequestType /\ local[p].at \in Nat
    BY DEF TypeOK, RequestType
  <1>c. ASSUME UNCHANGED zones PROVE Active' = Active
    BY <1>c DEF Active
  \* A request that ends, and the others stay.
  <1>d. ASSUME NEW p \in Pods, Respond(p), Active' \subseteq Active,
               UNCHANGED <<clock, cacheUp, zoneGate, outages>>
        PROVE  GateInv'
    BY <1>a, <1>d, RespondType, GateKept
  \* A request that goes on to a call before the gate.
  <1>e. ASSUME NEW p \in Pods, NEW label \in Labels \ Deciding, Goto(p, label),
               pc[p] # "idle", \A q \in Pods : local'[q].at = local[q].at,
               UNCHANGED <<clock, cacheUp, zoneGate, outages, zones>>
        PROVE  GateInv'
    BY <1>a, <1>c, <1>e, GotoType, GateKept
  <1>1. CASE TimePasses
    <2>1. /\ clock' = clock + 1 /\ UNCHANGED <<cacheUp, zoneGate, zones, outages, pc, local>>
          /\ \A p \in Pods : pc[p] # "idle" => clock - local[p].at < MaxLatency
      BY <1>1 DEF TimePasses
    <2>2. \A p \in Pods : pc[p] # "idle" /\ local[p].at <= clock =>
             local[p].at <= clock' /\ clock' <= local[p].at + MaxLatency
      BY <1>a, <1>b, <2>1
    <2> QED BY <1>c, <2>1, <2>2 DEF GateInv
  <1>2. CASE CacheFails
    BY <1>2 DEF CacheFails, GateInv, TypeOK
  <1>3. CASE CacheReturns
    BY <1>3, <1>c DEF CacheReturns, GateInv
  <1>4. CASE ExpireDue
    <2>1. PICK z \in Active : End(z)
      BY <1>4 DEF ExpireDue
    <2>2. Active' \subseteq Active
      BY <2>1, EndType DEF Active
    <2> QED BY <1>4, <2>2 DEF ExpireDue, GateInv
  <1>5. CASE JudgeRecovered
    BY <1>5, <1>c DEF JudgeRecovered, GateInv
  <1>6. CASE ExpireRecovered
    <2>1. PICK z \in expiring : End(z)
      BY <1>6 DEF ExpireRecovered
    <2>2. Active' \subseteq Active
      BY <2>1, EndType DEF TypeOK
    <2> QED BY <1>6, <2>2 DEF ExpireRecovered, GateInv
  <1>7. ASSUME NEW p \in Pods, NEW r \in Readings, Receive(p, r) PROVE GateInv'
    <2>1. UNCHANGED <<clock, cacheUp, zoneGate, zones, outages>> /\ pc[p] = "idle"
      BY <1>7 DEF Receive
    <2>2. \A q \in Pods :
            \/ pc'[q] = pc[q] /\ local'[q] = local[q]
            \/ pc'[q] = "gate" /\ local'[q].at = clock
      BY <1>7 DEF Receive, Goto, TypeOK
    <2> QED BY <1>a, <1>c, <2>1, <2>2, GateKept
  <1>8. ASSUME NEW p \in Pods, SaveGate(p) PROVE GateInv'
    <2>1. \E label \in {"insert", "device"} : Goto(p, label)
      BY <1>8 DEF SaveGate
    <2>2. \A q \in Pods : local'[q].at = local[q].at
      BY <1>8 DEF SaveGate, TypeOK, RequestType
    <2> QED BY <1>8, <1>e, <2>1, <2>2 DEF SaveGate, Labels, Deciding
  <1>9. ASSUME NEW p \in Pods, Insert(p) PROVE GateInv'
    BY <1>9, <1>e DEF Insert, Labels, Deciding
  <1>10. ASSUME NEW p \in Pods, SaveDevice(p) PROVE GateInv'
    BY <1>10, <1>e DEF SaveDevice, Labels, Deciding
  <1>11. ASSUME NEW p \in Pods, Evaluate(p) PROVE GateInv'
    <2>1. CASE Respond(p)
      BY <1>11, <2>1, <1>c, <1>d DEF Evaluate
    <2>2. CASE Goto(p, "zoneGate") /\ UNCHANGED local
      BY <1>11, <2>2, <1>e DEF Evaluate, Labels, Deciding
    <2> QED BY <1>11, <2>1, <2>2 DEF Evaluate
  <1>12. ASSUME NEW p \in Pods, ZoneGate(p) PROVE GateInv'
    <2> SUFFICES ASSUME outages' = 0 PROVE GateInv'
      BY DEF GateInv
    <2>1. outages = 0 /\ cacheUp /\ pc[p] = "zoneGate"
          /\ UNCHANGED <<clock, cacheUp, outages, zones>>
      BY <1>12 DEF ZoneGate, GateInv
    <2>2. CASE clock >= zoneGate
      <3>1. /\ zoneGate' = clock + GateSec
            /\ Goto(p, "lookup") /\ local' = local
        BY <1>12, <2>1, <2>2 DEF ZoneGate
      \* Whoever passed earlier has ended.
      <3>2. \A q \in Pods : pc[q] \notin Deciding
        BY <1>a, <1>b, <2>1, <2>2 DEF GateInv, Deciding
      <3>3. \A q \in Pods : pc'[q] = pc[q] \/ (q = p /\ pc'[q] = "lookup")
        BY <3>1, GotoType DEF Labels
      <3>4. local[p].at <= clock
        BY <2>1 DEF GateInv
      <3> QED BY <1>a, <1>b, <1>c, <2>1, <3>1, <3>2, <3>3, <3>4 DEF GateInv, Deciding
    <2>3. CASE ~(clock >= zoneGate)
      <3>1. Respond(p) /\ UNCHANGED zoneGate
        BY <1>12, <2>1, <2>3 DEF ZoneGate
      <3> QED BY <1>c, <1>d, <2>1, <3>1
    <2> QED BY <2>2, <2>3
  <1>13. ASSUME NEW p \in Pods, Lookup(p) PROVE GateInv'
    <2>1. UNCHANGED <<clock, cacheUp, zoneGate, outages, zones>> /\ pc[p] = "lookup"
      BY <1>13 DEF Lookup
    <2>2. CASE Active = {}
      <3>1. Goto(p, "create") /\ local' = local
        BY <1>13, <2>2 DEF Lookup
      <3>2. \A q \in Pods : pc'[q] = pc[q] \/ (q = p /\ pc'[q] = "create")
        BY <3>1, GotoType DEF Labels
      <3> QED BY <1>c, <2>1, <2>2, <3>1, <3>2 DEF GateInv, Deciding
    <2>3. CASE Active # {}
      BY <1>13, <1>c, <1>d, <2>1, <2>3 DEF Lookup
    <2> QED BY <2>2, <2>3
  <1>14. ASSUME NEW p \in Pods, CreateZone(p) PROVE GateInv'
    <2> SUFFICES ASSUME outages' = 0 PROVE GateInv'
      BY DEF GateInv
    <2>1. /\ UNCHANGED <<clock, cacheUp, zoneGate, outages>>
          /\ outages = 0 /\ pc[p] = "create" /\ Respond(p) /\ Active = {}
      BY <1>14 DEF CreateZone, GateInv
    <2>2. Active' \subseteq {Len(zones) + 1}
      <3>1. PICK z : zones' = Append(zones, z)
        BY <1>14 DEF CreateZone
      <3>2. \A y \in 1 .. Len(zones) : ~zones[y].active
        BY <2>1 DEF Active
      <3> QED BY <3>1, <3>2 DEF Active, TypeOK
    <2>3. \A q \in Pods :
            \/ q # p /\ pc'[q] = pc[q] /\ local'[q] = local[q]
            \/ q = p /\ pc'[q] = "idle"
      BY <2>1, RespondType
    <2>4. \A q \in Pods : pc'[q] \notin Deciding
      BY <2>1, <2>3 DEF GateInv, Deciding
    <2> QED BY <2>1, <2>2, <2>3, <2>4 DEF GateInv, Deciding
  <1>15. ASSUME NEW p \in Pods, Abort(p) PROVE GateInv'
    BY <1>15, <1>c, <1>d DEF Abort
  <1>16. CASE UNCHANGED vars
    BY <1>16, <1>c DEF vars, GateInv
  <1> QED
    BY <1>1, <1>2, <1>3, <1>4, <1>5, <1>6, <1>7, <1>8, <1>9, <1>10, <1>11, <1>12, <1>13,
       <1>14, <1>15, <1>16 DEF Next

\* A set whose members are all the same has at most one.
LEMMA AtMostOne ==
  ASSUME NEW S, \A y, z \in S : y = z
  PROVE  Cardinality(S) <= 1
  <1>1. CASE S = {}
    BY <1>1, FS_EmptySet
  <1>2. CASE S # {}
    <2>1. PICK y \in S : S = {y}
      BY <1>2
    <2> QED BY <2>1, FS_Singleton
  <1> QED BY <1>1, <1>2

\* While the cache answers, and no request outlives the gate, a device never has two
\* active zones of one gas, however its requests and the tick overlap
\* (auto_trigger.py:17-20).
THEOREM NoDuplicateZonesHolds ==
  ASSUME MaxLatency < GateSec
  PROVE  Spec => []NoDuplicateZones
  <1>1. GateInv => NoDuplicateZones
    BY AtMostOne DEF GateInv, NoDuplicateZones
  <1>2. TypeOK /\ GateInv /\ [Next]_vars => GateInv'
    BY GateStep
  <1> QED BY <1>1, <1>2, TypeInit, TypeStep, GateInit, PTL DEF Spec

-----------------------------------------------------------------------------
(* A shut gate has a zone behind it.                                       *)

\* The gate was shut at most GateSec ago, and while it is shut and nothing has failed,
\* whoever shut it is still deciding or has left a zone.
ShutInv ==
    /\ zoneGate <= clock + GateSec
    /\ GateMeansZone

LEMMA ShutInit == Init => ShutInv
  BY IngestConstantsAssumption DEF Init, ShutInv, GateMeansZone, IngestConstantsAssumption

\* Nothing happens to the gate, the zones and whoever decides.
LEMMA ShutKept ==
  ASSUME TypeOK, ShutInv, UNCHANGED <<zoneGate, zones, aborts>>,
         clock' = clock \/ clock' = clock + 1,
         \A q \in Pods : pc[q] \in Deciding => pc'[q] \in Deciding
  PROVE  ShutInv'
  <1>1. clock \in Nat /\ zoneGate \in Nat /\ GateSec \in Nat
    BY IngestConstantsAssumption DEF TypeOK
  <1>2. zoneGate' <= clock' + GateSec
    <2>1. zoneGate <= clock + GateSec /\ zoneGate' = zoneGate
      BY DEF ShutInv
    <2> QED BY <1>1, <2>1
  <1>3. clock' < zoneGate => clock < zoneGate
    BY <1>1
  <1> QED BY <1>2, <1>3 DEF ShutInv, GateMeansZone, Deciding

\* A zone that is there keeps the promise.
LEMMA ShutByZone ==
  ASSUME ShutInv, UNCHANGED <<clock, zoneGate>>, NEW z \in 1 .. Len(zones'),
         zones'[z].active
  PROVE  ShutInv'
  BY DEF ShutInv, GateMeansZone

\* The end of a zone.
LEMMA ShutEnd ==
  ASSUME TypeOK, ShutInv, NEW z \in 1 .. Len(zones), End(z),
         UNCHANGED <<clock, zoneGate, pc, aborts>>
  PROVE  ShutInv'
  <1>1. /\ clock \in Nat /\ zoneGate \in Nat /\ GateSec \in Nat
        /\ zones \in Seq(ZoneType)
    BY IngestConstantsAssumption DEF TypeOK, ZoneType
  <1>2. /\ Len(zones') = Len(zones)
        /\ zones'[z].ended = clock
        /\ \A y \in 1 .. Len(zones) \ {z} : zones'[y] = zones[y]
    <2>1. zones[z] \in ZoneType
      BY <1>1
    <2> DEFINE closed == [zones[z] EXCEPT !.active = FALSE]
               half == [zones EXCEPT ![z] = closed]
               over == [half[z] EXCEPT !.ended = clock]
    <2>2. closed \in ZoneType
      BY <2>1, <1>1, ZoneRow
    <2>3. zones' = [half EXCEPT ![z] = over]
      BY <1>1 DEF End
    <2> HIDE DEF closed
    <2>4. /\ half \in Seq(ZoneType) /\ Len(half) = Len(zones) /\ half[z] = closed
          /\ \A y \in 1 .. Len(zones) \ {z} : half[y] = zones[y]
      BY <1>1, <2>2
    <2> HIDE DEF half
    <2>5. over.ended = clock
      BY <2>2, <2>4 DEF ZoneType
    <2> HIDE DEF over
    <2> QED BY <1>1, <2>3, <2>4, <2>5
  <1>3. zones'[z].ended + GateSec >= zoneGate
    BY <1>1, <1>2 DEF ShutInv
  <1> QED BY <1>2, <1>3 DEF ShutInv, GateMeansZone

LEMMA ShutStep == TypeOK /\ ShutInv /\ [Next]_vars => ShutInv'
  <1> SUFFICES ASSUME TypeOK, ShutInv, [Next]_vars PROVE ShutInv'
    OBVIOUS
  <1> USE DEF world, gates, database, history
  <1>a. clock \in Nat /\ zoneGate \in Nat /\ GateSec \in Nat \ {0}
    BY IngestConstantsAssumption DEF TypeOK
  \* A request that was not deciding goes on or ends.
  <1>b. ASSUME NEW p \in Pods, pc[p] \notin Deciding,
               Respond(p) \/ \E label \in Labels : Goto(p, label),
               UNCHANGED <<clock, zoneGate, zones, aborts>>
        PROVE  ShutInv'
    <2>1. \A q \in Pods : q # p => pc'[q] = pc[q]
      BY <1>b, RespondType, GotoType
    <2> QED BY <1>a, <1>b, <2>1, ShutKept
  <1>1. CASE TimePasses
    BY <1>1, <1>a, ShutKept DEF TimePasses
  <1>2. CASE CacheFails \/ CacheReturns \/ JudgeRecovered \/ UNCHANGED vars
    BY <1>2, <1>a, ShutKept DEF CacheFails, CacheReturns, JudgeRecovered, vars
  <1>3. CASE ExpireDue
    <2>1. PICK z \in Active : End(z)
      BY <1>3 DEF ExpireDue
    <2> QED BY <1>3, <2>1, ShutEnd DEF ExpireDue, Active
  <1>4. CASE ExpireRecovered
    <2>1. PICK z \in expiring : End(z)
      BY <1>4 DEF ExpireRecovered
    <2> QED BY <1>4, <2>1, ShutEnd DEF ExpireRecovered, TypeOK
  <1>5. ASSUME NEW p \in Pods, NEW r \in Readings, Receive(p, r) PROVE ShutInv'
    <2>1. UNCHANGED <<clock, zoneGate, zones, aborts>> /\ pc[p] = "idle"
          /\ (Goto(p, "gate") \/ UNCHANGED pc)
      BY <1>5 DEF Receive
    <2> QED BY <1>a, <1>b, <2>1, ShutKept DEF Labels, Deciding
  <1>6. ASSUME NEW p \in Pods, SaveGate(p) \/ Insert(p) \/ SaveDevice(p) \/ Evaluate(p)
        PROVE  ShutInv'
    <2>1. /\ UNCHANGED <<clock, zoneGate, zones, aborts>>
          /\ pc[p] \in {"gate", "insert", "device", "evaluate"}
      BY <1>6 DEF SaveGate, Insert, SaveDevice, Evaluate
    <2>2. Respond(p) \/ \E label \in Labels : Goto(p, label)
      BY <1>6 DEF SaveGate, Insert, SaveDevice, Evaluate, Labels
    <2> QED BY <1>b, <2>1, <2>2 DEF Deciding
  <1>7. ASSUME NEW p \in Pods, ZoneGate(p) PROVE ShutInv'
    <2>1. UNCHANGED <<clock, zones, aborts>> /\ pc[p] = "zoneGate"
      BY <1>7 DEF ZoneGate
    <2>2. CASE UNCHANGED zoneGate
      <3>1. Respond(p) \/ Goto(p, "lookup")
        BY <1>7 DEF ZoneGate
      <3> QED BY <1>b, <2>1, <2>2, <3>1 DEF Deciding, Labels
    <2>3. CASE zoneGate' = clock + GateSec /\ Goto(p, "lookup")
      <3>1. pc'[p] = "lookup"
        BY <2>3, GotoType DEF Labels
      <3> QED BY <1>a, <2>1, <2>3, <3>1 DEF ShutInv, GateMeansZone
    <2> QED BY <1>7, <2>2, <2>3 DEF ZoneGate
  <1>8. ASSUME NEW p \in Pods, Lookup(p) PROVE ShutInv'
    <2>1. UNCHANGED <<clock, zoneGate, zones, aborts>> /\ pc[p] = "lookup"
      BY <1>8 DEF Lookup
    <2>2. CASE Active = {}
      <3>1. Goto(p, "create")
        BY <1>8, <2>2 DEF Lookup
      <3>2. \A q \in Pods : pc'[q] = pc[q] \/ (q = p /\ pc'[q] = "create")
        BY <3>1, GotoType DEF Labels
      <3> QED BY <1>a, <2>1, <3>2, ShutKept DEF Deciding
    <2>3. CASE Active # {}
      <3>1. PICK z \in Active : TRUE
        BY <2>3
      <3> QED BY <2>1, <3>1, ShutByZone DEF Active
    <2> QED BY <2>2, <2>3
  <1>9. ASSUME NEW p \in Pods, CreateZone(p) PROVE ShutInv'
    <2> DEFINE z == [active |-> TRUE, until |-> clock + ZoneTTL, ended |-> 0]
    <2>1. zones' = Append(zones, z) /\ z.active /\ UNCHANGED <<clock, zoneGate>>
      BY <1>9 DEF CreateZone
    <2> HIDE DEF z
    <2>2. Len(zones) + 1 \in 1 .. Len(zones') /\ zones'[Len(zones) + 1] = z
      BY <2>1 DEF TypeOK
    <2> QED BY <2>1, <2>2, ShutByZone
  <1>10. ASSUME NEW p \in Pods, Abort(p) PROVE ShutInv'
    <2>1. aborts' # 0 /\ UNCHANGED <<clock, zoneGate>>
      BY <1>10 DEF Abort, TypeOK
    <2> QED BY <2>1 DEF ShutInv, GateMeansZone
  <1> QED BY <1>1, <1>2, <1>3, <1>4, <1>5, <1>6, <1>7, <1>8, <1>9, <1>10 DEF Next

\* A shut gate has refused nobody in vain, however requests, ticks and cache outages
\* interleave, unless a request has failed: behind it a request is about to look for or
\* to create the zone, or a zone has been active since it was shut
\* (auto_trigger.py:84-107).
THEOREM GateMeansZoneHolds == Spec => []GateMeansZone
  <1>1. ShutInv => GateMeansZone
    BY DEF ShutInv
  <1> QED BY <1>1, TypeInit, TypeStep, ShutInit, ShutStep, PTL DEF Spec

-----------------------------------------------------------------------------
(* Requests one at a time.                                                 *)

Unsaved == {"gate", "insert", "device"}

\* The request that runs carries what was last let in, and until it saves the device its
\* copy of the status is what is stored.
LatestInv ==
    /\ AtMostOneServing
    /\ aborts = 0 /\ AllIdle => status = latest
    /\ aborts = 0 => \A p \in Pods :
         pc[p] # "idle" =>
            /\ local[p].reading.status = latest
            /\ pc[p] \in Unsaved => local[p].prev = status
            /\ pc[p] \notin Unsaved => status = latest

LEMMA LatestInit == Init => LatestInv
  BY DEF Init, LatestInv, AtMostOneServing

LEMMA LatestStep ==
  ASSUME TypeOK, LatestInv, [Next]_vars, AtMostOneServing'
  PROVE  LatestInv'
  <1> USE DEF world, gates, database, history
  <1> USE DEF Unsaved
  <1>1. CASE UNCHANGED <<status, latest, pc, local, aborts>>
    BY <1>1 DEF LatestInv, AllIdle
  <1>2. ASSUME NEW p \in Pods, NEW r \in Readings, Receive(p, r) PROVE LatestInv'
    <2>1. CASE ~cacheUp
      BY <1>1, <1>2, <2>1 DEF Receive
    <2>2. CASE cacheUp
      <3> DEFINE l == [reading |-> r, prev |-> status, persist |-> FALSE, at |-> clock]
      <3>1. /\ pc[p] = "idle" /\ Goto(p, "gate") /\ local' = [local EXCEPT ![p] = l]
            /\ latest' = r.status /\ UNCHANGED <<status, aborts>>
            /\ l.reading = r /\ l.prev = status
        BY <1>2, <2>2 DEF Receive
      <3> HIDE DEF l
      <3>2. local'[p] = l /\ pc'[p] = "gate"
        BY <3>1, GotoType DEF TypeOK, Labels
      <3>3. \A q \in Pods : q # p => pc'[q] = "idle"
        BY <3>2 DEF AtMostOneServing
      <3> QED BY <3>1, <3>2, <3>3 DEF LatestInv, AllIdle
    <2> QED BY <2>1, <2>2
  <1>3. ASSUME NEW p \in Pods, pc[p] # "idle", Respond(p), UNCHANGED <<status, latest>>,
               pc[p] \notin Unsaved \/ aborts' # 0, UNCHANGED aborts \/ aborts' # 0
        PROVE  LatestInv'
    <2>1. \A q \in Pods : pc'[q] = "idle"
      BY <1>3, RespondType DEF LatestInv, AtMostOneServing
    <2> QED BY <1>3, <2>1 DEF LatestInv
  <1>4. ASSUME NEW p \in Pods, pc[p] # "idle", NEW label \in Labels \ {"idle"},
               Goto(p, label),
               UNCHANGED <<latest, aborts>>,
               local'[p].reading = local[p].reading, local'[p].prev = local[p].prev,
               \/ pc[p] \in Unsaved /\ label \in Unsaved /\ UNCHANGED status
               \/ /\ label \notin Unsaved
                  /\ aborts = 0 => status' = latest
        PROVE  LatestInv'
    <2>1. pc'[p] = label /\ \A q \in Pods : q # p => pc'[q] = "idle"
      BY <1>4, GotoType DEF LatestInv, AtMostOneServing
    <2> QED BY <1>4, <2>1 DEF LatestInv, AllIdle
  <1>5. ASSUME NEW p \in Pods, SaveGate(p) PROVE LatestInv'
    <2>1. /\ pc[p] = "gate" /\ UNCHANGED <<status, latest, aborts>>
          /\ local'[p].reading = local[p].reading /\ local'[p].prev = local[p].prev
      BY <1>5 DEF SaveGate, TypeOK, RequestType
    <2>2. \E label \in {"insert", "device"} : Goto(p, label)
      BY <1>5 DEF SaveGate
    <2> QED BY <1>4, <2>1, <2>2 DEF Labels
  <1>6. ASSUME NEW p \in Pods, Insert(p) PROVE LatestInv'
    BY <1>6, <1>4 DEF Insert, Labels
  <1>7. ASSUME NEW p \in Pods, SaveDevice(p) PROVE LatestInv'
    <2>1. /\ pc[p] = "device" /\ Goto(p, "evaluate") /\ UNCHANGED <<latest, aborts, local>>
      BY <1>7 DEF SaveDevice
    <2>2. aborts = 0 => status' = latest
      BY <1>7 DEF SaveDevice, LatestInv
    <2> QED BY <1>4, <2>1, <2>2 DEF Labels
  <1>8. ASSUME NEW p \in Pods, Evaluate(p) \/ ZoneGate(p) \/ Lookup(p) PROVE LatestInv'
    <2>1. /\ pc[p] \in {"evaluate", "zoneGate", "lookup"}
          /\ UNCHANGED <<status, latest, aborts>>
      BY <1>8 DEF Evaluate, ZoneGate, Lookup
    <2>2. \/ Respond(p)
          \/ UNCHANGED local /\ \E label \in {"zoneGate", "lookup", "create"} : Goto(p, label)
      BY <1>8 DEF Evaluate, ZoneGate, Lookup
    <2>3. aborts = 0 => status' = latest
      BY <2>1 DEF LatestInv
    <2> QED BY <1>3, <1>4, <2>1, <2>2, <2>3 DEF Labels
  <1>9. ASSUME NEW p \in Pods, CreateZone(p) \/ Abort(p) PROVE LatestInv'
    <2>1. aborts' = aborts \/ aborts' # 0
      BY <1>9 DEF CreateZone, Abort, TypeOK
    <2> QED BY <1>3, <1>9, <2>1 DEF CreateZone, Abort, TypeOK
  <1> QED BY <1>1, <1>2, <1>5, <1>6, <1>7, <1>8, <1>9
       DEF Next, vars, TimePasses, CacheFails, CacheReturns, ExpireDue, JudgeRecovered,
           ExpireRecovered

\* Between requests, while these are served one at a time and none has failed, the status
\* of the device is what the last POST carried that got past the cache, stored or not
\* (devices/views.py:190-192).
THEOREM StatusIsLatestInOrderHolds == MCSpec => []StatusIsLatestInOrder
  <1> DEFINE I == TypeOK /\ (single => LatestInv)
  <1>1. MCInit => I
    BY TypeInit, LatestInit DEF MCInit
  <1>2. I /\ [MCNext]_<<vars, single>> => I'
    <2> SUFFICES ASSUME I, [MCNext]_<<vars, single>> PROVE I'
      OBVIOUS
    <2>1. [Next]_vars /\ single' = single
      BY DEF MCNext, vars
    <2>2. single => AtMostOneServing'
      BY DEF MCNext, LatestInv, AtMostOneServing, vars
    <2> QED BY <2>1, <2>2, TypeStep, LatestStep
  <1>3. I => StatusIsLatestInOrder
    BY DEF LatestInv, StatusIsLatestInOrder, StatusIsLatest
  <1> QED BY <1>1, <1>2, <1>3, PTL DEF MCSpec

=============================================================================

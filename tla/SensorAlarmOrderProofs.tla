------------------------ MODULE SensorAlarmOrderProofs ------------------------
(***************************************************************************)
(* Theorems about the evaluations of a sensor that run one after the other *)
(* without failures (the behaviours of MCSensorAlarm whose "single" is     *)
(* TRUE), for any set of evaluators, any thresholds, windows and           *)
(* intervals, and any number of observations.                              *)
(***************************************************************************)
EXTENDS MCSensorAlarm, SensorAlarmProofs

\* The counters that an evaluation leaves behind.
Settled(l) ==
    [s \in Status |->
        IF l.observed = l.snap.state
        THEN IF s \in SaferThan(l.snap.state) THEN NoCount ELSE l.snap.window[s]
        ELSE IF Confirms(l) THEN NoCount
        ELSE IF s = l.observed THEN Accumulate(l) ELSE l.snap.window[s]]

\* The counters while an observation of the official state resets the safer ones.
Resetting(l) ==
    [s \in Status |-> IF s \in SaferThan(l.snap.state) \ l.todo THEN NoCount
                      ELSE l.snap.window[s]]

\* An evaluation that runs alone is about the latest observation, and what is stored
\* is what it has read with its own writes applied.
InStep(e) ==
    /\ seen # <<>>
    /\ local[e].id = Len(seen)
    /\ seen[Len(seen)] = [status |-> local[e].observed, at |-> local[e].now]
    /\ local[e].now <= clock
    /\ Stored.state = local[e].snap.state
    /\ Stored.lastAlarm = local[e].snap.lastAlarm
    /\ pc[e] = "reset" =>
         /\ local[e].observed = local[e].snap.state
         /\ local[e].todo \subseteq SaferThan(local[e].snap.state)
         /\ Stored.window = Resetting(local[e])
    /\ pc[e] \in {"count", "clear"} =>
         /\ local[e].observed # local[e].snap.state
         /\ pc[e] = "clear" <=> Confirms(local[e])
         /\ Stored.window = local[e].snap.window
    /\ pc[e] \in {"alarm", "commit"} =>
         /\ ShouldAlarm(local[e])
         /\ Stored.window = Settled(local[e])

\* An evaluation of an abnormal observation has renewed the TTL once it is past its
\* counters.
Renewing(e) ==
    (\/ pc[e] = "reset" /\ local[e].todo # SaferThan(local[e].snap.state)
     \/ pc[e] \in {"alarm", "commit"} /\ local[e].observed # "normal") =>
        clock < expireAt /\ expireAt >= local[e].now + TTL

SerialInv ==
    /\ AtMostOneRunning
    /\ \A e \in Evaluators : pc[e] # "idle" => InStep(e) /\ Renewing(e)

-----------------------------------------------------------------------------
(* The five kinds of steps.                                                *)

\* Time passes; the hash may run out when no evaluation runs.
Waits ==
    /\ UNCHANGED <<hash, expireAt, pc, local, alarms, seen>>
    /\ clock' = clock + 1
    /\ ~AllIdle => Stored' = Stored
    /\ Stored' \in {Stored, EmptyHash}

\* Two sets of locals of the same evaluation.
SameEvaluation(l, m) ==
    /\ l.id = m.id /\ l.observed = m.observed /\ l.now = m.now /\ l.snap = m.snap

\* An evaluation starts.
Opens(e, s) ==
    /\ AllIdle
    /\ pc'[e] \notin {"idle", "commit"}
    /\ seen' = Append(seen, [status |-> s, at |-> clock])
    /\ local'[e].id = Len(seen) + 1
    /\ local'[e].observed = s
    /\ local'[e].now = clock
    /\ local'[e].snap = Stored
    /\ UNCHANGED <<clock, hash, expireAt, alarms>>

\* It writes counters or goes on.
Continues(e) ==
    /\ pc[e] \in {"reset", "count", "clear"}
    /\ pc'[e] \in {"reset", "alarm"}
    /\ pc'[e] = "alarm" => ShouldAlarm(local[e])
    /\ SameEvaluation(local'[e], local[e])
    /\ UNCHANGED <<clock, alarms, seen>>
    /\ hash' = hash \/ hash'.state = Stored.state

\* The alarm row that it inserts.
Row(l) ==
    [reason |-> IF Confirms(l) THEN "transition" ELSE "ongoing",
     from |-> l.snap.state,
     to |-> TargetState(l),
     now |-> l.now,
     at |-> clock,
     evidence |-> IF Confirms(l) THEN Accumulate(l).evidence ELSE {}]

Announces(e) ==
    /\ pc[e] = "alarm" /\ pc'[e] = "commit"
    /\ alarms' = Append(alarms, Row(local[e]))
    /\ UNCHANGED <<clock, hash, expireAt, local, seen>>

\* It ends, after its commit or without an alarm.
Closes(e) ==
    /\ pc[e] # "idle"
    /\ AllIdle'
    /\ UNCHANGED <<clock, alarms, seen>>
    /\ hash' = hash \/ hash' = Stored'
    /\ Stored'.window = Settled(local[e])
    /\ \/ /\ pc[e] = "commit"
          /\ ShouldAlarm(local[e])
          /\ Stored'.state = TargetState(local[e])
          /\ Stored'.lastAlarm = clock
       \/ /\ pc[e] \notin {"alarm", "commit"}
          /\ ~ShouldAlarm(local[e])
          /\ Stored'.state = local[e].snap.state
          /\ Stored'.lastAlarm = local[e].snap.lastAlarm
    /\ local[e].observed # "normal" =>
         clock < expireAt' /\ expireAt' >= local[e].now + TTL

StepKinds ==
    \/ Waits
    \/ UNCHANGED <<clock, hash, expireAt, pc, local, alarms, seen>>
    \/ \E e \in Evaluators :
         \/ \E s \in Status : Opens(e, s)
         \/ Continues(e)
         \/ Announces(e)
         \/ Closes(e)

-----------------------------------------------------------------------------

LEMMA StatusFacts ==
  /\ SaferThan("normal") = {}
  /\ SaferThan("caution") = {"normal"}
  /\ SaferThan("danger") = {"normal", "caution"}
  BY DEF SaferThan, Status, Rank

LEMMA SerialInit == Init => SerialInv
  BY DEF Init, SerialInv, AtMostOneRunning

\* What is written is read back: the TTL has just been renewed.
LEMMA WriteSerial ==
  ASSUME TypeOK, NEW h \in HashType, Write(h), outages' = outages, clock' = clock
  PROVE  /\ hash' = h /\ expireAt' = clock + TTL
         /\ clock' < expireAt'
         /\ Stored' = h
         /\ \A t \in Nat : t <= clock => expireAt' >= t + TTL
  <1>1. TTL \in Nat \ {0} /\ clock \in Nat /\ outages \in Nat
    BY ConstantsAssumption DEF ConstantsAssumption, TypeOK
  <1> QED BY <1>1 DEF Write, Stored

\* Confirms, Accumulate and Settled do not look at the resets that are left to do.
LEMMA SameDecision ==
  ASSUME NEW l, NEW m, SameEvaluation(l, m)
  PROVE  /\ Confirms(l) = Confirms(m) /\ ShouldAlarm(l) = ShouldAlarm(m)
         /\ Accumulate(l) = Accumulate(m) /\ TargetState(l) = TargetState(m)
         /\ Settled(l) = Settled(m)
  <1>1. Accumulate(l) = Accumulate(m)
    BY DEF SameEvaluation, Accumulate
  <1>2. Confirms(l) = Confirms(m)
    BY <1>1 DEF SameEvaluation, Confirms
  <1>3. ShouldAlarm(l) = ShouldAlarm(m) /\ TargetState(l) = TargetState(m)
    BY <1>2 DEF SameEvaluation, ShouldAlarm, OngoingDue, TargetState
  <1>4. Settled(l) = Settled(m)
    BY <1>1, <1>2 DEF SameEvaluation, Settled
  <1> QED BY <1>1, <1>2, <1>3, <1>4
\* While one evaluation runs, no other does, and it alone moves.
LEMMA OneMoves ==
  ASSUME TypeOK, SerialInv, NEW e \in Evaluators, pc[e] # "idle",
         \A x \in Evaluators : x # e => pc'[x] = pc[x]
  PROVE  /\ \A x \in Evaluators : x # e => pc[x] = "idle" /\ pc'[x] = "idle"
         /\ AtMostOneRunning'
         /\ AllIdle' <=> pc'[e] = "idle"
  BY DEF SerialInv, AtMostOneRunning, AllIdle

\* A step that ends an evaluation after its counters or goes on to the alarm.
LEMMA AfterCountersSerial ==
  ASSUME TypeOK, SerialInv, NEW e \in Evaluators, AfterCounters(e),
         pc[e] \in {"reset", "count", "clear"},
         UNCHANGED <<clock, alarms, seen>>,
         Stored'.state = local[e].snap.state,
         Stored'.lastAlarm = local[e].snap.lastAlarm,
         Stored'.window = Settled(local[e]),
         local[e].observed # "normal" => clock < expireAt' /\ expireAt' >= local[e].now + TTL,
         hash' = hash \/ hash' = Stored'
  PROVE  SerialInv' /\ StepKinds
  <1> DEFINE l == local[e]
  <1>1. InStep(e)
    BY DEF SerialInv
  <1>2. \A x \in Evaluators : x # e => pc'[x] = pc[x] /\ local'[x] = local[x]
    BY AfterCountersFrame
  <1>3. /\ \A x \in Evaluators : x # e => pc[x] = "idle" /\ pc'[x] = "idle"
        /\ AtMostOneRunning'
        /\ AllIdle' <=> pc'[e] = "idle"
    BY <1>2, OneMoves
  <1>4. Stored.state = l.snap.state
    BY <1>1 DEF InStep
  <1>5. CASE ShouldAlarm(l)
    <2>1. local' = local /\ pc'[e] = "alarm"
      BY <1>5 DEF AfterCounters, Goto, TypeOK
    <2>2. Continues(e)
      BY <1>4, <1>5, <2>1 DEF Continues, SameEvaluation
    <2>3. InStep(e)'
      BY ZenonT(30), <1>1, <1>5, <2>1 DEF InStep, ShouldAlarm, Confirms, OngoingDue, Accumulate, Settled
    <2>4. Renewing(e)'
      BY <2>1 DEF Renewing
    <2> QED BY <1>3, <2>2, <2>3, <2>4 DEF SerialInv, StepKinds
  <1>6. CASE ~ShouldAlarm(l)
    <2>1. pc'[e] = "idle"
      BY <1>6 DEF AfterCounters, Return, Goto, TypeOK
    <2>2. Closes(e)
      BY <1>3, <1>6, <2>1 DEF Closes
    <2> QED BY <1>3, <2>1, <2>2 DEF SerialInv, StepKinds
  <1> QED BY <1>5, <1>6

LEMMA SerialStep ==
  ASSUME TypeOK, SerialInv, Next, InOrder
  PROVE  SerialInv' /\ StepKinds
  <1> USE DEF Labels
  <1>a. outages' = outages /\ aborts' = aborts
    BY DEF InOrder
  <1>b. TTL \in Nat \ {0} /\ clock \in Nat /\ outages \in Nat /\ aborts \in Nat
    BY ConstantsAssumption DEF ConstantsAssumption, TypeOK
  <1>c. \A e \in Evaluators : /\ local[e] \in LocalType /\ local[e].snap \in HashType
                              /\ local[e].now \in Nat /\ local[e].observed \in Status
                              /\ local[e].todo \subseteq Status /\ local[e].snap.state \in Status
    BY DEF TypeOK, LocalType, HashType
  <1>1. CASE Tick
    <2>1. /\ UNCHANGED <<hash, expireAt, pc, local, alarms, seen>>
          /\ clock' = clock + 1
      BY <1>1 DEF Tick
    <2>2. /\ ~AllIdle => Stored' = Stored /\ (clock < expireAt => clock' < expireAt')
          /\ Stored' \in {Stored, EmptyHash}
      BY <1>b, <2>1 DEF InOrder, Stored, TypeOK
    <2>3. AtMostOneRunning'
      BY DEF InOrder
    <2>4. ASSUME NEW e \in Evaluators, pc[e] # "idle" PROVE InStep(e)' /\ Renewing(e)'
      <3>1. InStep(e) /\ Renewing(e) /\ ~AllIdle
        BY <2>4 DEF SerialInv, AllIdle
      <3>2. local[e].now <= clock'
        BY <1>b, <1>c, <2>1, <3>1 DEF InStep
      <3>3. InStep(e)'
        BY ZenonT(30), <2>1, <2>2, <3>1, <3>2
           DEF InStep, Resetting, Settled, ShouldAlarm, Confirms, OngoingDue, Accumulate
      <3>4. Renewing(e)'
        BY <2>1, <2>2, <3>1 DEF Renewing
      <3> QED BY <3>3, <3>4
    <2> QED BY <2>1, <2>2, <2>3, <2>4 DEF SerialInv, StepKinds, Waits
  <1>2. ASSUME NEW e \in Evaluators, NEW s \in Status, Begin(e, s) PROVE SerialInv' /\ StepKinds
    <2> DEFINE l == [id |-> Len(seen) + 1, observed |-> s, now |-> clock, snap |-> Stored,
                     todo |-> IF s = Stored.state THEN SaferThan(Stored.state) ELSE {}]
    <2>1. /\ local' = [local EXCEPT ![e] = l]
          /\ pc' = [pc EXCEPT ![e] = IF s = Stored.state THEN "reset"
                                     ELSE IF Confirms(l) THEN "clear" ELSE "count"]
          /\ pc[e] = "idle"
          /\ seen' = Append(seen, [status |-> s, at |-> clock])
          /\ UNCHANGED <<clock, hash, expireAt, alarms>>
      <3>1. PICK reached \in BOOLEAN :
          /\ outages' = IF reached THEN outages ELSE outages + 1
          /\ LET snap == IF reached THEN Stored ELSE EmptyHash
                 m == [id |-> Len(seen) + 1, observed |-> s, now |-> clock, snap |-> snap,
                       todo |-> IF s = snap.state THEN SaferThan(snap.state) ELSE {}]
             IN /\ local' = [local EXCEPT ![e] = m]
                /\ Goto(e, IF s = snap.state THEN "reset"
                           ELSE IF Confirms(m) THEN "clear" ELSE "count")
        BY <1>2 DEF Begin
      <3>2. reached = TRUE
        BY <1>a, <1>b, <3>1
      <3> QED BY <1>2, <3>1, <3>2 DEF Begin, Goto
    <2>2. /\ l.id = Len(seen) + 1 /\ l.observed = s /\ l.now = clock /\ l.snap = Stored
          /\ l.todo = IF s = Stored.state THEN SaferThan(Stored.state) ELSE {}
      OBVIOUS
    <2> HIDE DEF l
    <2>3. local'[e] = l /\ pc'[e] = IF s = Stored.state THEN "reset"
                                    ELSE IF Confirms(l) THEN "clear" ELSE "count"
      BY <2>1 DEF TypeOK
    <2>4. \A x \in Evaluators : x # e => pc'[x] = pc[x]
      BY <2>1 DEF TypeOK
    <2>5. \A x \in Evaluators : x # e => pc[x] = "idle" /\ pc'[x] = "idle"
      BY <2>3, <2>4 DEF InOrder, AtMostOneRunning
    <2>6. AllIdle /\ AtMostOneRunning'
      BY <2>1, <2>5 DEF AllIdle, InOrder
    <2>7. Stored' = Stored /\ Stored \in HashType
      BY <2>1, StoredType DEF Stored
    <2> DEFINE row == [status |-> s, at |-> clock]
    <2>7a. seen' = Append(seen, row) /\ seen \in Seq([status : Status, at : Nat])
      BY <2>1 DEF TypeOK
    <2> HIDE DEF row
    <2>7b. Len(seen') = Len(seen) + 1 /\ seen' # <<>> /\ seen'[Len(seen) + 1] = row
      BY <2>7a
    <2>8. /\ Len(seen') = Len(seen) + 1 /\ seen' # <<>>
          /\ seen'[Len(seen) + 1] = [status |-> s, at |-> clock]
      BY <2>7b DEF row
    <2>9. Opens(e, s)
      BY <2>1, <2>2, <2>3, <2>6 DEF Opens
    <2>10. s = Stored.state => Stored.window = Resetting(l)
      BY <2>2, <2>7 DEF Resetting, HashType
    <2>11. InStep(e)'
      <3>1. /\ local'[e].id = Len(seen') /\ seen' # <<>>
            /\ seen'[Len(seen')] = [status |-> local'[e].observed, at |-> local'[e].now]
            /\ local'[e].now <= clock'
            /\ Stored'.state = local'[e].snap.state
            /\ Stored'.lastAlarm = local'[e].snap.lastAlarm
        BY <1>b, <2>1, <2>2, <2>3, <2>7, <2>8
      <3>2. pc'[e] = "reset" =>
              /\ local'[e].observed = local'[e].snap.state
              /\ local'[e].todo \subseteq SaferThan(local'[e].snap.state)
              /\ Stored'.window = Resetting(local'[e])
        BY <2>2, <2>3, <2>7, <2>10
      <3>3. pc'[e] \in {"count", "clear"} =>
              /\ local'[e].observed # local'[e].snap.state
              /\ pc'[e] = "clear" <=> Confirms(local'[e])
              /\ Stored'.window = local'[e].snap.window
        BY <2>2, <2>3, <2>7
      <3>4. pc'[e] \notin {"alarm", "commit"}
        BY <2>3
      <3> QED BY <3>1, <3>2, <3>3, <3>4 DEF InStep, Resetting, Confirms, Accumulate
    <2>12. Renewing(e)'
      BY <2>2, <2>3 DEF Renewing
    <2> QED BY <2>5, <2>6, <2>9, <2>11, <2>12 DEF SerialInv, StepKinds
  <1>3. ASSUME NEW e \in Evaluators, ResetSafer(e) PROVE SerialInv' /\ StepKinds
    <2>1. PICK s \in local[e].todo :
            /\ Write([Stored EXCEPT !.window[s] = NoCount])
            /\ local' = [local EXCEPT ![e].todo = @ \ {s}]
      BY <1>3 DEF ResetSafer
    <2>2. UNCHANGED <<clock, pc, alarms, seen>> /\ pc[e] = "reset"
      BY <1>3 DEF ResetSafer
    <2>3. s \in Status /\ NoCount \in Counter /\ Stored \in HashType
      BY <1>c, <2>1, StoredType DEF NoCount, Counter
    <2> DEFINE h == [Stored EXCEPT !.window[s] = NoCount]
    <2>4. /\ h \in HashType /\ h.state = Stored.state /\ h.lastAlarm = Stored.lastAlarm
          /\ h.window = [Stored.window EXCEPT ![s] = NoCount]
          /\ Stored.window \in [Status -> Counter]
      BY <2>3, SetCounterType DEF HashType
    <2>5. Write(h)
      BY <2>1
    <2> HIDE DEF h
    <2>6. /\ hash' = h /\ clock' < expireAt' /\ Stored' = h
          /\ expireAt' >= local[e].now + TTL
      <3>1. InStep(e)
        BY <2>2 DEF SerialInv
      <3> QED BY <1>a, <1>c, <2>2, <2>4, <2>5, <3>1, WriteSerial DEF InStep
    <2>7. InStep(e) /\ \A x \in Evaluators : x # e => pc'[x] = pc[x]
      BY <2>2 DEF SerialInv
    <2>8. /\ \A x \in Evaluators : x # e => pc[x] = "idle" /\ pc'[x] = "idle"
          /\ AtMostOneRunning'
      BY <2>2, <2>7, OneMoves
    <2>9. /\ SameEvaluation(local'[e], local[e])
          /\ local'[e].todo = local[e].todo \ {s}
      BY <1>c, <2>1 DEF SameEvaluation, TypeOK, LocalType
    <2>10. h.window = Resetting(local'[e])
      <3>1. Stored.window = Resetting(local[e]) /\ s \in SaferThan(local[e].snap.state)
        BY <2>1, <2>2, <2>7 DEF InStep
      <3>2. local'[e].snap = local[e].snap
        BY <2>9 DEF SameEvaluation
      <3> QED BY <2>3, <2>4, <2>9, <3>1, <3>2 DEF Resetting
    <2>11. Continues(e)
      BY <2>2, <2>4, <2>6, <2>9 DEF Continues
    <2>12. InStep(e)'
      <3>1. /\ seen' # <<>>
            /\ local'[e].id = Len(seen')
            /\ seen'[Len(seen')] = [status |-> local'[e].observed, at |-> local'[e].now]
            /\ local'[e].now <= clock'
            /\ Stored'.state = local'[e].snap.state
            /\ Stored'.lastAlarm = local'[e].snap.lastAlarm
            /\ local'[e].observed = local'[e].snap.state
            /\ local'[e].todo \subseteq SaferThan(local'[e].snap.state)
        BY <2>2, <2>4, <2>6, <2>7, <2>9 DEF InStep, SameEvaluation
      <3>2. Stored'.window = Resetting(local'[e]) /\ pc'[e] = "reset"
        BY <2>2, <2>6, <2>10
      <3> QED BY <3>1, <3>2 DEF InStep, Resetting
    <2>13. Renewing(e)'
      BY <2>2, <2>6, <2>9 DEF Renewing, SameEvaluation
    <2> QED BY <2>8, <2>11, <2>12, <2>13 DEF SerialInv, StepKinds
  <1>4. ASSUME NEW e \in Evaluators, ResetDone(e) PROVE SerialInv' /\ StepKinds
    <2>1. /\ UNCHANGED <<clock, hash, expireAt, alarms, seen>>
          /\ pc[e] = "reset" /\ local[e].todo = {} /\ AfterCounters(e)
      BY <1>4 DEF ResetDone
    <2>2. InStep(e) /\ Renewing(e) /\ Stored' = Stored
      BY <2>1 DEF SerialInv, Stored
    <2>3. Resetting(local[e]) = Settled(local[e])
      BY <2>1, <2>2 DEF Resetting, Settled, InStep
    <2>4. local[e].observed # "normal" => SaferThan(local[e].snap.state) # {}
      BY <1>c, <2>1, <2>2, StatusFacts DEF InStep, Status
    <2> QED BY <2>1, <2>2, <2>3, <2>4, AfterCountersSerial DEF InStep, Renewing
  <1>5. ASSUME NEW e \in Evaluators, Count(e) PROVE SerialInv' /\ StepKinds
    <2> DEFINE h == [Stored EXCEPT !.window[local[e].observed] = Accumulate(local[e])]
    <2>1. /\ Write(h) /\ AfterCounters(e) /\ pc[e] = "count"
          /\ UNCHANGED <<clock, alarms, seen>>
      BY <1>5 DEF Count
    <2>2. /\ h \in HashType /\ h.state = Stored.state /\ h.lastAlarm = Stored.lastAlarm
          /\ h.window = [Stored.window EXCEPT ![local[e].observed] = Accumulate(local[e])]
          /\ Stored.window \in [Status -> Counter]
      BY <1>c, SetCounterType, StoredType, AccumulateType DEF HashType
    <2>3. InStep(e)
      BY <2>1 DEF SerialInv
    <2> HIDE DEF h
    <2>4. /\ hash' = h /\ clock' < expireAt' /\ Stored' = h
          /\ expireAt' >= local[e].now + TTL
      BY <1>a, <1>c, <2>1, <2>2, <2>3, WriteSerial DEF InStep
    <2>5. h.window = Settled(local[e])
      BY <1>c, <2>1, <2>2, <2>3 DEF InStep, Settled, HashType
    <2> QED BY <2>1, <2>2, <2>3, <2>4, <2>5, AfterCountersSerial DEF InStep
  <1>6. ASSUME NEW e \in Evaluators, Clear(e) PROVE SerialInv' /\ StepKinds
    <2> DEFINE h == [Stored EXCEPT !.window = [s \in Status |-> NoCount]]
    <2>1. /\ Write(h) /\ AfterCounters(e) /\ pc[e] = "clear"
          /\ UNCHANGED <<clock, alarms, seen>>
      BY <1>6 DEF Clear
    <2>2. /\ h \in HashType /\ h.state = Stored.state /\ h.lastAlarm = Stored.lastAlarm
          /\ h.window = [s \in Status |-> NoCount]
      BY ClearCountersType, StoredType DEF HashType
    <2>3. InStep(e)
      BY <2>1 DEF SerialInv
    <2> HIDE DEF h
    <2>4. /\ hash' = h /\ clock' < expireAt' /\ Stored' = h
          /\ expireAt' >= local[e].now + TTL
      BY <1>a, <1>c, <2>1, <2>2, <2>3, WriteSerial DEF InStep
    <2>5. h.window = Settled(local[e])
      BY <2>1, <2>2, <2>3 DEF InStep, Settled
    <2> QED BY <2>1, <2>2, <2>3, <2>4, <2>5, AfterCountersSerial DEF InStep
  <1>7. ASSUME NEW e \in Evaluators, RaiseAlarm(e) PROVE SerialInv' /\ StepKinds
    <2>1. /\ alarms' = Append(alarms, Row(local[e]))
          /\ UNCHANGED <<clock, hash, expireAt, local, seen>>
          /\ pc[e] = "alarm" /\ pc' = [pc EXCEPT ![e] = "commit"]
      BY <1>7 DEF RaiseAlarm, Goto, Row
    <2>2. pc'[e] = "commit" /\ \A x \in Evaluators : x # e => pc'[x] = pc[x]
      BY <2>1 DEF TypeOK
    <2>3. /\ \A x \in Evaluators : x # e => pc[x] = "idle" /\ pc'[x] = "idle"
          /\ AtMostOneRunning'
      BY <2>1, <2>2, OneMoves
    <2>4. InStep(e) /\ Renewing(e)
      BY <2>1 DEF SerialInv
    <2>5. InStep(e)' /\ Renewing(e)'
      BY ZenonT(30), <2>1, <2>2, <2>4 DEF InStep, Renewing, Stored, ShouldAlarm, Confirms, OngoingDue,
                              Accumulate, Settled
    <2>6. Announces(e)
      BY <2>1, <2>2 DEF Announces
    <2> QED BY <2>3, <2>5, <2>6 DEF SerialInv, StepKinds
  <1>8. ASSUME NEW e \in Evaluators, Commit(e) PROVE SerialInv' /\ StepKinds
    <2> DEFINE h == [Stored EXCEPT !.state = TargetState(local[e]), !.lastAlarm = clock]
    <2>1. /\ Write(h) /\ Return(e) /\ pc[e] = "commit"
          /\ UNCHANGED <<clock, alarms, seen>>
      BY <1>8 DEF Commit
    <2>2. /\ h \in HashType /\ h.state = TargetState(local[e]) /\ h.window = Stored.window
          /\ h.lastAlarm = clock
      BY <1>b, <1>c, TargetStateType, StoredType, CommitType DEF HashType
    <2>3. InStep(e)
      BY <2>1 DEF SerialInv
    <2> HIDE DEF h
    <2>4. /\ hash' = h /\ clock' < expireAt' /\ Stored' = h
          /\ expireAt' >= local[e].now + TTL
      BY <1>a, <1>c, <2>1, <2>2, <2>3, WriteSerial DEF InStep
    <2>5. pc'[e] = "idle" /\ \A x \in Evaluators : x # e => pc'[x] = pc[x]
      BY <2>1 DEF Return, Goto, TypeOK
    <2>6. /\ \A x \in Evaluators : x # e => pc[x] = "idle" /\ pc'[x] = "idle"
          /\ AtMostOneRunning' /\ AllIdle'
      BY <2>1, <2>5, OneMoves
    <2>7. Closes(e)
      BY <2>1, <2>2, <2>3, <2>4, <2>6 DEF Closes, InStep
    <2> QED BY <2>5, <2>6, <2>7 DEF SerialInv, StepKinds
  <1>9. ASSUME NEW e \in Evaluators, Abort(e) PROVE SerialInv' /\ StepKinds
    BY <1>a, <1>b, <1>9 DEF Abort
  <1> QED
    BY <1>1, <1>2, <1>3, <1>4, <1>5, <1>6, <1>7, <1>8, <1>9 DEF Next

-----------------------------------------------------------------------------
(* Repeats are spaced.                                                     *)

\* The last alarm that is stored with an abnormal state is not before the last row;
\* between the insert and the commit it lags behind.
SpacedInv ==
    /\ ReAlarmSpacing
    /\ NoneSince(clock)
    /\ AllIdle /\ Stored.state # "normal" => NoneSince(Stored.lastAlarm)
    /\ \A e \in Evaluators :
         pc[e] \notin {"idle", "commit"} /\ local[e].snap.state # "normal" =>
            NoneSince(local[e].snap.lastAlarm)

LEMMA SpacedInit == Init => SpacedInv
  BY DEF Init, SpacedInv, ReAlarmSpacing, NoneSince, Stored, EmptyHash

\* Times of alarms are numbers.
LEMMA AlarmTimes ==
  ASSUME TypeOK
  PROVE  /\ Len(alarms) \in Nat
         /\ \A k \in 1 .. Len(alarms) : alarms[k].at \in Nat
         /\ alarms # <<>> <=> Len(alarms) \in 1 .. Len(alarms)
  <1>1. alarms \in Seq(AlarmRow)
    BY DEF TypeOK
  <1>2. \A k \in 1 .. Len(alarms) : alarms[k] \in AlarmRow
    BY <1>1
  <1>3. \A r \in AlarmRow : r.at \in Nat
    BY DEF AlarmRow
  <1> HIDE DEF AlarmRow
  <1>4. Len(alarms) \in Nat /\ (alarms # <<>> <=> Len(alarms) \in 1 .. Len(alarms))
    BY <1>1
  <1> QED BY <1>2, <1>3, <1>4

\* The rows after an insert.
LEMMA RowInserted ==
  ASSUME TypeOK, NEW r, alarms' = Append(alarms, r)
  PROVE  /\ Len(alarms') = Len(alarms) + 1 /\ Len(alarms) \in Nat
         /\ alarms'[Len(alarms) + 1] = r
         /\ \A k \in 1 .. Len(alarms) : alarms'[k] = alarms[k]
         /\ alarms' # <<>>
  BY DEF TypeOK

LEMMA SpacedStep ==
  ASSUME TypeOK, SerialInv, SerialInv', SpacedInv, StepKinds
  PROVE  SpacedInv'
  <1>a. clock \in Nat /\ ReAlarmInterval \in Nat
    BY ConstantsAssumption DEF ConstantsAssumption, TypeOK
  <1>b. \A e, f \in Evaluators : pc[e] # "idle" /\ pc[f] # "idle" => e = f
    BY DEF SerialInv, AtMostOneRunning
  <1>c. \A e, f \in Evaluators : pc'[e] # "idle" /\ pc'[f] # "idle" => e = f
    BY DEF SerialInv, AtMostOneRunning
  <1>1. CASE Waits
    <2>1. NoneSince(clock)' /\ ReAlarmSpacing'
      BY <1>1, <1>a, AlarmTimes DEF Waits, SpacedInv, NoneSince, ReAlarmSpacing
    <2>2. Stored'.state # "normal" => Stored' = Stored
      BY <1>1 DEF Waits, EmptyHash
    <2> QED BY <1>1, <2>1, <2>2 DEF Waits, SpacedInv, NoneSince, AllIdle
  <1>2. CASE UNCHANGED <<clock, hash, expireAt, pc, local, alarms, seen>>
    BY <1>2 DEF SpacedInv, NoneSince, AllIdle, ReAlarmSpacing, Stored
  <1>3. ASSUME NEW e \in Evaluators, NEW s \in Status, Opens(e, s) PROVE SpacedInv'
    <2>1. pc'[e] # "idle" /\ local'[e].snap = Stored /\ AllIdle /\ UNCHANGED <<clock, alarms>>
      BY <1>3 DEF Opens
    <2> QED BY <1>c, <2>1 DEF SpacedInv, NoneSince, AllIdle, ReAlarmSpacing
  <1>4. ASSUME NEW e \in Evaluators, Continues(e) PROVE SpacedInv'
    <2>1. /\ pc[e] \notin {"idle", "commit"} /\ pc'[e] # "idle"
          /\ local'[e].snap = local[e].snap /\ UNCHANGED <<clock, alarms>>
      BY <1>4 DEF Continues, SameEvaluation
    <2> QED BY <1>c, <2>1 DEF SpacedInv, NoneSince, AllIdle, ReAlarmSpacing
  <1>5. ASSUME NEW e \in Evaluators, Announces(e) PROVE SpacedInv'
    <2> DEFINE r == Row(local[e])
    <2>1. /\ alarms' = Append(alarms, r) /\ UNCHANGED <<clock, hash, local>>
          /\ pc[e] = "alarm" /\ pc'[e] = "commit"
      BY <1>5 DEF Announces
    <2>2. r.at = clock /\ (r.reason = "ongoing" <=> ~Confirms(local[e]))
      BY DEF Row
    <2> HIDE DEF r
    <2>3. /\ Len(alarms') = Len(alarms) + 1 /\ Len(alarms) \in Nat
          /\ alarms'[Len(alarms) + 1] = r
          /\ \A k \in 1 .. Len(alarms) : alarms'[k] = alarms[k]
          /\ alarms' # <<>>
      BY <2>1, RowInserted
    <2>4. r.reason = "ongoing" /\ alarms # <<>> =>
            r.at - alarms[Len(alarms)].at >= ReAlarmInterval
      <3> SUFFICES ASSUME r.reason = "ongoing", alarms # <<>>
                   PROVE  r.at - alarms[Len(alarms)].at >= ReAlarmInterval
        OBVIOUS
      <3>1. OngoingDue(local[e]) /\ InStep(e)
        BY <2>1, <2>2 DEF SerialInv, InStep, ShouldAlarm
      <3>2. alarms[Len(alarms)].at <= local[e].snap.lastAlarm
        BY <2>1, <3>1 DEF SpacedInv, OngoingDue, NoneSince
      <3>3. /\ local[e].now <= clock /\ alarms[Len(alarms)].at \in Nat
            /\ local[e].now \in Nat /\ local[e].snap.lastAlarm \in Nat
        BY <3>1, AlarmTimes DEF InStep, TypeOK, LocalType, HashType
      <3> QED BY <1>a, <2>2, <3>1, <3>2, <3>3 DEF OngoingDue
    <2>5. ReAlarmSpacing'
      <3> SUFFICES ASSUME NEW k \in 2 .. Len(alarms'), alarms'[k].reason = "ongoing"
                   PROVE  alarms'[k].at - alarms'[k - 1].at >= ReAlarmInterval
        BY DEF ReAlarmSpacing
      <3>1. CASE k = Len(alarms) + 1
        <4>1. alarms # <<>> /\ k - 1 = Len(alarms) /\ k - 1 \in 1 .. Len(alarms)
          BY <2>3, <3>1
        <4> QED BY <2>3, <2>4, <3>1, <4>1
      <3>2. CASE k # Len(alarms) + 1
        <4>1. k \in 2 .. Len(alarms) /\ k - 1 \in 1 .. Len(alarms) /\ k \in 1 .. Len(alarms)
          BY <2>3, <3>2
        <4> QED BY <2>3, <4>1 DEF SpacedInv, ReAlarmSpacing
      <3> QED BY <3>1, <3>2
    <2>6. NoneSince(clock)'
      BY <1>a, <2>1, <2>2, <2>3 DEF NoneSince
    <2> QED BY <1>c, <2>1, <2>5, <2>6 DEF SpacedInv, AllIdle
  <1>6. ASSUME NEW e \in Evaluators, Closes(e) PROVE SpacedInv'
    <2>1. AllIdle' /\ UNCHANGED <<clock, alarms>> /\ pc[e] # "idle"
      BY <1>6 DEF Closes
    <2>2. \/ Stored'.lastAlarm = clock
          \/ /\ pc[e] # "commit"
             /\ Stored'.state = local[e].snap.state
             /\ Stored'.lastAlarm = local[e].snap.lastAlarm
      BY <1>6 DEF Closes
    <2> QED BY <2>1, <2>2 DEF SpacedInv, NoneSince, AllIdle, ReAlarmSpacing
  <1> QED BY <1>1, <1>2, <1>3, <1>4, <1>5, <1>6 DEF StepKinds

-----------------------------------------------------------------------------
(* A state follows its alarm.                                              *)

\* The alarm of a state that is about to be committed is the last one.
FollowInv ==
    \A e \in Evaluators :
        pc[e] = "commit" =>
            /\ Len(alarms) > 0
            /\ alarms[Len(alarms)].from = local[e].snap.state
            /\ alarms[Len(alarms)].to = TargetState(local[e])

LEMMA FollowInit == Init => FollowInv
  BY DEF Init, FollowInv

LEMMA FollowStep ==
  ASSUME TypeOK, SerialInv, SerialInv', FollowInv, StepKinds
  PROVE  FollowInv' /\ (hash' # hash => FollowsAlarm)
  <1>b. \A e, f \in Evaluators : pc[e] # "idle" /\ pc[f] # "idle" => e = f
    BY DEF SerialInv, AtMostOneRunning
  <1>c. \A e, f \in Evaluators : pc'[e] # "idle" /\ pc'[f] # "idle" => e = f
    BY DEF SerialInv, AtMostOneRunning
  <1>1. CASE UNCHANGED <<hash, pc, local, alarms>>
    BY <1>1 DEF FollowInv, TargetState, Confirms, Accumulate
  <1>2. ASSUME NEW e \in Evaluators, NEW s \in Status, Opens(e, s)
        PROVE  FollowInv' /\ (hash' # hash => FollowsAlarm)
    BY <1>2, <1>c DEF Opens, FollowInv
  <1>3. ASSUME NEW e \in Evaluators, Continues(e)
        PROVE  FollowInv' /\ (hash' # hash => FollowsAlarm)
    BY <1>3, <1>c DEF Continues, FollowInv, FollowsAlarm
  <1>4. ASSUME NEW e \in Evaluators, Announces(e)
        PROVE  FollowInv' /\ (hash' # hash => FollowsAlarm)
    <2> DEFINE r == Row(local[e])
    <2>1. /\ alarms' = Append(alarms, r) /\ UNCHANGED <<hash, local>> /\ pc'[e] = "commit"
      BY <1>4 DEF Announces
    <2>2. r.from = local[e].snap.state /\ r.to = TargetState(local[e])
      BY DEF Row
    <2> HIDE DEF r
    <2>3. Len(alarms') = Len(alarms) + 1 /\ Len(alarms) \in Nat /\ alarms'[Len(alarms')] = r
      BY <2>1, RowInserted
    <2>4. TargetState(local[e])' = TargetState(local[e])
      BY <2>1 DEF TargetState, Confirms, Accumulate
    <2> QED BY <1>c, <2>1, <2>2, <2>3, <2>4 DEF FollowInv
  <1>5. ASSUME NEW e \in Evaluators, Closes(e)
        PROVE  FollowInv' /\ (hash' # hash => FollowsAlarm)
    <2>1. FollowInv'
      BY <1>5 DEF Closes, AllIdle, FollowInv
    <2>2. InStep(e) /\ pc[e] # "idle"
      BY <1>5 DEF Closes, SerialInv
    <2>3. hash' # hash => FollowsAlarm
      BY <1>5, <2>2 DEF Closes, InStep, FollowInv, FollowsAlarm
    <2> QED BY <2>1, <2>3
  <1> QED BY <1>1, <1>2, <1>3, <1>4, <1>5 DEF StepKinds, Waits

-----------------------------------------------------------------------------
(* A recovery is not interrupted.                                          *)

\* No observation of the state of h among the first n is later than one that counts
\* for leaving it.
Clean(h, n) ==
    \A s \in Status :
        /\ h.window[s].evidence \subseteq 1 .. n
        /\ s \in SaferThan(h.state) =>
             \A i \in h.window[s].evidence : \A m \in i .. n : seen[m].status # h.state

RecoveryInv ==
    /\ UninterruptedRecovery
    /\ \A k \in 1 .. Len(alarms) : alarms[k].evidence \subseteq 1 .. Len(seen)
    /\ AllIdle => Clean(Stored, Len(seen))
    /\ \A e \in Evaluators : pc[e] # "idle" => Clean(local[e].snap, Len(seen) - 1)

LEMMA EmptyClean == ASSUME NEW n \in Nat PROVE Clean(EmptyHash, n)
  BY StatusFacts DEF Clean, EmptyHash, NoCount

LEMMA RecoveryInit == Init => RecoveryInv
  <1> SUFFICES ASSUME Init PROVE RecoveryInv
    OBVIOUS
  <1>1. Stored = EmptyHash /\ Len(seen) = 0 /\ Len(alarms) = 0 /\ \A e \in Evaluators : pc[e] = "idle"
    BY DEF Init, Stored
  <1> QED BY <1>1, EmptyClean DEF RecoveryInv, UninterruptedRecovery

\* The evidence of a confirmed recovery.
LEMMA RecoveryEvidence ==
  ASSUME TypeOK, NEW e \in Evaluators, InStep(e), Clean(local[e].snap, Len(seen) - 1),
         local[e].observed # local[e].snap.state
  PROVE  LET l == local[e] IN
         /\ Accumulate(l).evidence \subseteq 1 .. Len(seen)
         /\ l.observed \in SaferThan(l.snap.state) =>
              \A i \in Accumulate(l).evidence : \A m \in i .. Len(seen) :
                 seen[m].status # l.snap.state
  <1> DEFINE l == local[e]
             w == l.snap.window[l.observed]
             n == Len(seen)
  <1>1. n \in Nat /\ n > 0 /\ l.id = n /\ seen[n].status = l.observed /\ l.observed \in Status
    BY DEF InStep, TypeOK, LocalType
  <1>2. Accumulate(l).evidence \subseteq w.evidence \cup {n}
    BY <1>1 DEF Accumulate
  <1>3. w.evidence \subseteq 1 .. n - 1
    BY <1>1 DEF Clean
  <1>4. ASSUME l.observed \in SaferThan(l.snap.state), NEW i \in w.evidence \cup {n},
               NEW m \in i .. n
        PROVE  seen[m].status # l.snap.state
    BY <1>1, <1>3, <1>4 DEF Clean
  <1> QED BY <1>1, <1>2, <1>3, <1>4

LEMMA SettledClean ==
  ASSUME TypeOK, NEW e \in Evaluators, InStep(e), Clean(local[e].snap, Len(seen) - 1),
         NEW h, h.state = TargetState(local[e]), h.window = Settled(local[e])
  PROVE  Clean(h, Len(seen))
  <1> DEFINE l == local[e]
             n == Len(seen)
  <1>1. n \in Nat /\ n > 0 /\ l.id = n /\ seen[n].status = l.observed /\ l.observed \in Status
    BY DEF InStep, TypeOK, LocalType
  <1>2. NoCount.evidence = {}
    BY DEF NoCount
  <1>3. CASE Confirms(l)
    <2>1. \A s \in Status : h.window[s].evidence = {}
      BY <1>2, <1>3 DEF Settled, Confirms
    <2> QED BY <2>1 DEF Clean
  <1>4. CASE ~Confirms(l) /\ l.observed = l.snap.state
    <2>1. h.state = l.snap.state
      BY <1>4 DEF TargetState
    <2>2. \A s \in Status : h.window[s] = IF s \in SaferThan(h.state) THEN NoCount
                                          ELSE l.snap.window[s]
      BY <1>4, <2>1 DEF Settled
    <2>3. \A s \in Status : h.window[s].evidence \subseteq 1 .. n
      BY <1>1, <1>2, <2>2 DEF Clean
    <2> QED BY <1>2, <2>2, <2>3 DEF Clean
  <1>5. CASE ~Confirms(l) /\ l.observed # l.snap.state
    <2>1. h.state = l.snap.state
      BY <1>5 DEF TargetState
    <2>2. \A s \in Status : h.window[s] = IF s = l.observed THEN Accumulate(l)
                                          ELSE l.snap.window[s]
      BY <1>5 DEF Settled
    <2>3. ASSUME NEW s \in Status, s # l.observed
          PROVE  /\ h.window[s].evidence \subseteq 1 .. n
                 /\ s \in SaferThan(h.state) =>
                      \A i \in h.window[s].evidence : \A m \in i .. n : seen[m].status # h.state
      BY <1>1, <1>5, <2>1, <2>2, <2>3 DEF Clean
    <2> QED BY <1>5, <2>1, <2>2, <2>3, RecoveryEvidence DEF Clean
  <1> QED BY <1>3, <1>4, <1>5

LEMMA RecoveryStep ==
  ASSUME TypeOK, SerialInv, SerialInv', RecoveryInv, StepKinds
  PROVE  RecoveryInv'
  <1>a. Len(seen) \in Nat
    BY DEF TypeOK
  <1>b. \A e, f \in Evaluators : pc[e] # "idle" /\ pc[f] # "idle" => e = f
    BY DEF SerialInv, AtMostOneRunning
  <1>c. \A e, f \in Evaluators : pc'[e] # "idle" /\ pc'[f] # "idle" => e = f
    BY DEF SerialInv, AtMostOneRunning
  <1>1. CASE Waits
    <2>1. UNCHANGED <<pc, local, alarms, seen>> /\ Stored' \in {Stored, EmptyHash}
      BY <1>1 DEF Waits
    <2>2. AllIdle => Clean(Stored, Len(seen))'
      BY <1>a, <2>1, EmptyClean DEF RecoveryInv, Clean
    <2> QED BY <2>1, <2>2 DEF RecoveryInv, Clean, AllIdle, UninterruptedRecovery
  <1>2. CASE UNCHANGED <<clock, hash, expireAt, pc, local, alarms, seen>>
    BY <1>2 DEF RecoveryInv, Clean, AllIdle, UninterruptedRecovery, Stored
  <1>3. ASSUME NEW e \in Evaluators, NEW s \in Status, Opens(e, s) PROVE RecoveryInv'
    <2> DEFINE n == Len(seen)
    <2>1. /\ AllIdle /\ pc'[e] # "idle" /\ local'[e].snap = Stored /\ alarms' = alarms
          /\ seen' = Append(seen, [status |-> s, at |-> clock])
      BY <1>3 DEF Opens
    <2>2. Len(seen') = n + 1 /\ \A i \in 1 .. n : seen'[i] = seen[i]
      BY <2>1 DEF TypeOK
    <2>3. Clean(local[e].snap, Len(seen) - 1)'
      <3>1. Clean(Stored, n) /\ Len(seen') - 1 = n
        BY <1>a, <2>1, <2>2 DEF RecoveryInv
      <3>2. ASSUME NEW t \in Status, NEW i \in Stored.window[t].evidence, NEW m \in i .. n
            PROVE  seen'[m] = seen[m]
        BY <1>a, <2>2, <3>1, <3>2 DEF Clean
      <3> QED BY <2>1, <3>1, <3>2 DEF Clean
    <2>4. \A k \in 1 .. Len(alarms) : alarms[k].evidence \subseteq 1 .. n
      BY DEF RecoveryInv
    <2>5. UninterruptedRecovery'
      <3>1. ASSUME NEW k \in 1 .. Len(alarms), NEW i \in alarms[k].evidence,
                   NEW j \in alarms[k].evidence, NEW m \in i .. j
            PROVE  seen'[m] = seen[m]
        BY <1>a, <2>2, <2>4
      <3> QED BY <2>1, <3>1 DEF RecoveryInv, UninterruptedRecovery
    <2>6. (\A k \in 1 .. Len(alarms) : alarms[k].evidence \subseteq 1 .. Len(seen))'
      BY <1>a, <2>1, <2>2, <2>4
    <2> QED BY <1>c, <2>1, <2>3, <2>5, <2>6 DEF RecoveryInv, AllIdle
  <1>4. ASSUME NEW e \in Evaluators, Continues(e) PROVE RecoveryInv'
    <2>1. /\ pc[e] # "idle" /\ pc'[e] # "idle" /\ local'[e].snap = local[e].snap
          /\ UNCHANGED <<alarms, seen>>
      BY <1>4 DEF Continues, SameEvaluation
    <2> QED BY <1>c, <2>1 DEF RecoveryInv, Clean, AllIdle, UninterruptedRecovery
  <1>5. ASSUME NEW e \in Evaluators, Announces(e) PROVE RecoveryInv'
    <2> DEFINE r == Row(local[e])
               l == local[e]
    <2>1. /\ alarms' = Append(alarms, r) /\ UNCHANGED <<hash, local, seen>>
          /\ pc[e] # "idle" /\ pc'[e] = "commit"
      BY <1>5 DEF Announces
    <2>2. /\ r.from = l.snap.state /\ r.to = TargetState(l)
          /\ r.reason = "transition" <=> Confirms(l)
          /\ r.evidence = IF Confirms(l) THEN Accumulate(l).evidence ELSE {}
      BY DEF Row
    <2>3. InStep(e) /\ Clean(l.snap, Len(seen) - 1)
      BY <2>1 DEF SerialInv, RecoveryInv
    <2>4. l.observed \in Status /\ l.snap.state \in Status
      BY DEF TypeOK, LocalType, HashType
    <2>5. /\ r.evidence \subseteq 1 .. Len(seen)
          /\ r.reason = "transition" /\ ~IsEscalation(r.from, r.to) =>
               \A i, j \in r.evidence : \A m \in i .. j : seen[m].status # r.from
      <3>1. CASE Confirms(l)
        <4>1. /\ r.to = l.observed /\ l.observed # l.snap.state /\ r.from = l.snap.state
              /\ r.evidence = Accumulate(l).evidence
          BY <2>2, <3>1 DEF TargetState, Confirms
        <4>2. ~IsEscalation(r.from, r.to) => l.observed \in SaferThan(l.snap.state)
          BY <2>4, <4>1 DEF IsEscalation, SaferThan, Status, Rank
        <4> HIDE DEF r
        <4>3. /\ r.evidence \subseteq 1 .. Len(seen)
              /\ ~IsEscalation(r.from, r.to) =>
                   \A i \in r.evidence : \A m \in i .. Len(seen) : seen[m].status # r.from
          BY <2>3, <4>1, <4>2, RecoveryEvidence
        <4> QED BY <1>a, <4>3
      <3>2. CASE ~Confirms(l)
        BY <2>2, <3>2
      <3> QED BY <3>1, <3>2
    <2> HIDE DEF r
    <2>6. /\ Len(alarms') = Len(alarms) + 1 /\ Len(alarms) \in Nat
          /\ alarms'[Len(alarms) + 1] = r
          /\ \A k \in 1 .. Len(alarms) : alarms'[k] = alarms[k]
      BY <2>1, RowInserted
    <2>7. UninterruptedRecovery'
      BY <2>1, <2>5, <2>6 DEF RecoveryInv, UninterruptedRecovery
    <2>8. (\A k \in 1 .. Len(alarms) : alarms[k].evidence \subseteq 1 .. Len(seen))'
      BY <2>1, <2>5, <2>6 DEF RecoveryInv
    <2> QED BY <1>c, <2>1, <2>7, <2>8, <2>3 DEF RecoveryInv, Clean, AllIdle
  <1>6. ASSUME NEW e \in Evaluators, Closes(e) PROVE RecoveryInv'
    <2>1. AllIdle' /\ UNCHANGED <<alarms, seen>> /\ pc[e] # "idle"
      BY <1>6 DEF Closes
    <2>2. Stored'.window = Settled(local[e]) /\ Stored'.state = TargetState(local[e])
      BY <1>6 DEF Closes, TargetState, ShouldAlarm
    <2>3. Clean(Stored', Len(seen))
      BY <2>1, <2>2, SettledClean DEF SerialInv, RecoveryInv
    <2> QED BY <2>1, <2>3 DEF RecoveryInv, Clean, AllIdle, UninterruptedRecovery
  <1> QED BY <1>1, <1>2, <1>3, <1>4, <1>5, <1>6 DEF StepKinds

-----------------------------------------------------------------------------
(* A sustained status is confirmed.                                        *)

Alert == {"caution", "danger"}

\* What an escalation to s takes.
Needed(s) == IF s = "danger" THEN DangerThreshold ELSE CautionThreshold

\* After k observations of s since time from, the state is at least as bad, or the
\* counter of s knows of all k, or it has started again since and lacks those before.
Carried(h, s, k, from) ==
    \/ Rank[h.state] >= Rank[s]
    \/ /\ h.window[s].count < Needed(s)
       /\ \/ h.window[s].count >= k
          \/ /\ h.window[s].first >= from
             /\ h.window[s].count >= k - Needed(s) + 1

\* The last k of the first n observations are of status s, none of them more than a
\* window before time t.
Recent(n, s, k, t) ==
    /\ k <= n
    /\ \A i \in n - k + 1 .. n : seen[i].status = s
    /\ t - seen[n - k + 1].at <= CautionWindow

Carries(h, n, t) ==
    \A s \in Alert : \A k \in Nat \ {0} :
        Recent(n, s, k, t) => Carried(h, s, k, seen[n - k + 1].at)

\* The times of the observations, in the order of their reads.
InTime ==
    /\ \A i \in 1 .. Len(seen) : seen[i].at > 0 /\ seen[i].at <= clock
    /\ \A i, j \in 1 .. Len(seen) : i <= j => seen[i].at <= seen[j].at

SustainedInv ==
    /\ clock > 0
    /\ InTime
    /\ AllIdle /\ seen # <<>> =>
         /\ Carries(hash, Len(seen), seen[Len(seen)].at)
         /\ seen[Len(seen)].status # "normal" => expireAt >= seen[Len(seen)].at + TTL
    /\ \A e \in Evaluators :
         pc[e] # "idle" => Carries(local[e].snap, Len(seen) - 1, local[e].now)

LEMMA SustainedInit == Init => SustainedInv
  <1> SUFFICES ASSUME Init PROVE SustainedInv
    OBVIOUS
  <1>1. clock > 0 /\ Len(seen) = 0 /\ seen = <<>>
    BY ConstantsAssumption DEF Init, ConstantsAssumption
  <1> QED BY <1>1 DEF Init, SustainedInv, InTime

\* Observations have a status and a time.
LEMMA SeenType ==
  ASSUME TypeOK
  PROVE  /\ Len(seen) \in Nat
         /\ \A i \in 1 .. Len(seen) : seen[i].status \in Status /\ seen[i].at \in Nat
         /\ seen # <<>> <=> Len(seen) >= 1
  <1>1. seen \in Seq(Observation)
    BY DEF TypeOK, Observation
  <1>2. /\ Len(seen) \in Nat /\ (seen # <<>> <=> Len(seen) >= 1)
        /\ \A i \in 1 .. Len(seen) : seen[i] \in Observation
    BY <1>1
  <1> QED BY <1>2 DEF Observation

\* The invariant says what the property does.
LEMMA CarriedConfirms ==
  ASSUME NEW h \in HashType, NEW s \in Alert, NEW from \in Nat,
         Carried(h, s, 2 * Needed(s) - 1, from)
  PROVE  Rank[h.state] >= Rank[s]
  <1>1. h.window[s].count \in Nat
    BY DEF HashType, Counter, Alert, Status
  <1>2. Needed(s) \in Nat /\ Needed(s) >= 2
    BY ConstantsAssumption DEF ConstantsAssumption, Needed
  <1> HIDE DEF Needed
  <1> QED BY <1>1, <1>2 DEF Carried

LEMMA SustainedHolds ==
  ASSUME TypeOK, SustainedInv
  PROVE  SustainedEscalates
  <1> SUFFICES ASSUME AllIdle,
                      NEW s \in Alert,
                      Sustained(2 * Needed(s) - 1, s)
               PROVE  Rank[hash.state] >= Rank[s]
    <2>1. hash.state \in Status
      BY DEF TypeOK, HashType
    <2>2. Rank[hash.state] >= Rank["danger"] => hash.state = "danger"
      BY <2>1 DEF Rank, Status
    <2>3. Rank[hash.state] >= Rank["caution"] => hash.state # "normal"
      BY <2>1 DEF Rank, Status
    <2> QED BY <2>2, <2>3 DEF SustainedEscalates, Alert, Needed
  <1> DEFINE k == 2 * Needed(s) - 1
             n == Len(seen)
  <1>1. Needed(s) \in Nat /\ Needed(s) >= 2
    BY ConstantsAssumption DEF ConstantsAssumption, Needed
  <1>2. k \in Nat \ {0} /\ n \in Nat /\ n >= k
    BY <1>1, SeenType DEF Sustained
  <1>3. Recent(n, s, k, seen[n].at)
    BY <1>2 DEF Sustained, Recent
  <1> HIDE DEF k
  <1>4. seen # <<>> /\ n - k + 1 \in 1 .. n
    BY <1>2, SeenType
  <1>5. Carried(hash, s, k, seen[n - k + 1].at)
    BY <1>2, <1>3, <1>4 DEF SustainedInv, Carries
  <1>6. hash \in HashType /\ seen[n - k + 1].at \in Nat
    BY <1>4, SeenType DEF TypeOK
  <1> QED BY <1>5, <1>6, CarriedConfirms DEF k

\* One more observation of s, within a window of the first.
LEMMA CarriedOn ==
  ASSUME NEW l \in LocalType, NEW h, NEW k \in Nat, NEW from \in Nat,
         l.observed \in Alert, from > 0, from <= l.now, l.now - from <= CautionWindow,
         k > 0 => Carried(l.snap, l.observed, k, from),
         h.state = TargetState(l), h.window = Settled(l)
  PROVE  Carried(h, l.observed, k + 1, from)
  <1> DEFINE obs == l.observed
             w == l.snap.window[obs]
  <1>a. /\ w \in Counter /\ obs \in Status /\ l.snap.state \in Status /\ l.now \in Nat
        /\ CautionWindow \in Nat
    BY ConstantsAssumption DEF LocalType, HashType, ConstantsAssumption
  <1>b. w.count \in Nat /\ w.first \in Nat
    BY <1>a DEF Counter
  <1>c. Needed(obs) \in Nat /\ Needed(obs) >= 2
    BY ConstantsAssumption DEF ConstantsAssumption, Needed
  <1>1. CASE Confirms(l)
    <2>1. h.state = obs
      BY <1>1 DEF TargetState
    <2> QED BY <1>a, <2>1 DEF Carried, Rank, Status
  <1>2. CASE ~Confirms(l) /\ Rank[l.snap.state] >= Rank[obs]
    BY <1>2 DEF TargetState, Carried
  <1>3. CASE ~Confirms(l) /\ ~(Rank[l.snap.state] >= Rank[obs])
    <2>1. IsEscalation(l.snap.state, obs) /\ obs # l.snap.state
      BY <1>3, <1>a DEF IsEscalation, Rank, Status
    <2>2. h.window[obs] = Accumulate(l)
      BY <1>3, <1>a, <2>1 DEF Settled
    <2>a. h.window[obs].count \in Nat /\ h.window[obs].first \in Nat
      BY <2>2, AccumulateType DEF Counter
    <2>3. Threshold(l.snap.state, obs) = Needed(obs) /\ Window(l.snap.state, obs) = CautionWindow
      BY <2>1 DEF Threshold, Needed, Window
    <2>4. Accumulate(l).count < Needed(obs)
      <3>1. Accumulate(l).count \in Nat
        BY AccumulateType DEF Counter
      <3>2. ~(Accumulate(l).count >= Needed(obs))
        BY <1>3, <2>1, <2>3 DEF Confirms
      <3> QED BY <1>c, <3>1, <3>2
    <2>5. k > 0 => \/ w.count >= k
                   \/ w.first >= from /\ w.count >= k - Needed(obs) + 1
      BY <1>3 DEF Carried
    <2>6. k > 0 /\ w.count >= k => k < Needed(obs)
      <3> SUFFICES ASSUME k > 0, w.count >= k PROVE k < Needed(obs)
        OBVIOUS
      <3>1. w.count < Needed(obs)
        BY <1>3 DEF Carried
      <3> HIDE DEF w
      <3> QED BY <1>b, <1>c, <3>1
    <2> HIDE DEF w
    <2>7. CASE w.first = 0 \/ l.now - w.first > CautionWindow
      <3>1. Accumulate(l).count = 1 /\ Accumulate(l).first = l.now
        BY <2>3, <2>7 DEF Accumulate, w
      <3>2. ~(w.first >= from)
        BY <1>a, <1>b, <2>7
      <3>3. k < Needed(obs)
        BY <1>c, <2>5, <2>6, <3>2
      <3>4. 1 >= k + 1 - Needed(obs) + 1
        BY <1>c, <3>3
      <3>5. /\ h.window[obs].count < Needed(obs)
            /\ h.window[obs].first >= from
            /\ h.window[obs].count >= k + 1 - Needed(obs) + 1
        BY <2>2, <2>4, <3>1, <3>4
      <3> QED BY <1>c, <2>a, <3>5 DEF Carried
    <2>8. CASE ~(w.first = 0 \/ l.now - w.first > CautionWindow)
      <3>1. Accumulate(l).count = w.count + 1 /\ Accumulate(l).first = w.first
        BY <2>3, <2>8 DEF Accumulate, w
      <3>2. \/ w.count + 1 >= k + 1
            \/ w.first >= from /\ w.count + 1 >= k + 1 - Needed(obs) + 1
        BY <1>b, <1>c, <2>5
      <3>3. /\ h.window[obs].count < Needed(obs)
            /\ \/ h.window[obs].count >= k + 1
               \/ h.window[obs].first >= from /\ h.window[obs].count >= k + 1 - Needed(obs) + 1
        BY <2>2, <2>4, <3>1, <3>2
      <3> QED BY <1>c, <2>a, <3>3 DEF Carried
    <2> QED BY <2>7, <2>8
  <1> QED BY <1>1, <1>2, <1>3

LEMMA SustainedStep ==
  ASSUME TypeOK, SerialInv, SerialInv', SustainedInv, StepKinds, TTL > CautionWindow
  PROVE  SustainedInv'
  <1> DEFINE n == Len(seen)
  <1>a. /\ n \in Nat /\ clock \in Nat /\ expireAt \in Nat
        /\ \A i \in 1 .. n : seen[i].status \in Status /\ seen[i].at \in Nat
        /\ seen # <<>> <=> n >= 1
        /\ CautionWindow \in Nat /\ TTL \in Nat
    BY SeenType, ConstantsAssumption DEF TypeOK, ConstantsAssumption
  <1>c. \A e, f \in Evaluators : pc'[e] # "idle" /\ pc'[f] # "idle" => e = f
    BY DEF SerialInv, AtMostOneRunning
  <1>1. CASE Waits
    <2>1. UNCHANGED <<hash, expireAt, pc, local, seen>> /\ clock' = clock + 1
      BY <1>1 DEF Waits
    <2>2. InTime' /\ clock' > 0
      BY <1>a, <2>1 DEF SustainedInv, InTime
    <2> QED BY <2>1, <2>2 DEF SustainedInv, Carries, Recent, AllIdle
  <1>2. CASE UNCHANGED <<clock, hash, expireAt, pc, local, alarms, seen>>
    BY <1>2 DEF SustainedInv, InTime, Carries, Recent, AllIdle
  <1>3. ASSUME NEW e \in Evaluators, NEW s \in Status, Opens(e, s) PROVE SustainedInv'
    <2>1. /\ AllIdle /\ pc'[e] # "idle" /\ local'[e].snap = Stored /\ local'[e].now = clock
          /\ seen' = Append(seen, [status |-> s, at |-> clock]) /\ clock' = clock
      BY <1>3 DEF Opens
    <2>2. /\ Len(seen') = n + 1 /\ \A i \in 1 .. n : seen'[i] = seen[i]
          /\ seen'[n + 1].at = clock
      BY <2>1 DEF TypeOK
    <2>3. InTime'
      BY <1>a, <2>1, <2>2 DEF SustainedInv, InTime
    <2>4. Carries(local[e].snap, Len(seen) - 1, local[e].now)'
      <3> SUFFICES ASSUME NEW t \in Alert, NEW k \in Nat \ {0}, k <= n,
                          \A i \in n - k + 1 .. n : seen'[i].status = t,
                          clock - seen'[n - k + 1].at <= CautionWindow
                   PROVE  Carried(Stored, t, k, seen'[n - k + 1].at)
        <4>1. Len(seen') - 1 = n
          BY <1>a, <2>2
        <4> HIDE DEF n
        <4> QED BY <2>1, <4>1 DEF Carries, Recent, Carried, Needed
      <3>1. k \in Nat /\ k >= 1 /\ n \in Nat
        BY <1>a
      <3> HIDE DEF n
      <3>2. k <= n /\ n - k + 1 \in 1 .. n /\ \A i \in n - k + 1 .. n : i \in 1 .. n
        BY <3>1
      <3>3. /\ \A i \in n - k + 1 .. n : seen[i].status = t
            /\ clock - seen[n - k + 1].at <= CautionWindow
            /\ seen'[n - k + 1].at = seen[n - k + 1].at
        BY <2>2, <3>2
      <3>4. n \in 1 .. n /\ n \in n - k + 1 .. n /\ n - k + 1 <= n
        BY <3>2, <3>1
      <3>5. /\ seen[n - k + 1].at <= seen[n].at /\ seen[n].at <= clock /\ seen[n].status = t
            /\ seen # <<>>
        BY <1>a, <3>2, <3>3, <3>4 DEF SustainedInv, InTime, n
      <3>6. seen[n].at \in Nat /\ seen[n - k + 1].at \in Nat
        BY <1>a, <3>2, <3>4
      <3>7. Recent(n, t, k, seen[n].at)
        BY <1>a, <3>2, <3>3, <3>5, <3>6 DEF Recent
      <3>8. expireAt >= seen[n].at + TTL
        BY <2>1, <3>5 DEF SustainedInv, Alert, n
      <3>9. clock < expireAt
        BY <1>a, <3>3, <3>5, <3>6, <3>8
      <3>10. Stored = hash
        BY <3>9 DEF Stored
      <3> QED BY <2>1, <3>3, <3>5, <3>7, <3>10 DEF SustainedInv, Carries, n
    <2> QED BY <1>c, <2>1, <2>3, <2>4 DEF SustainedInv, AllIdle
  <1>4. ASSUME NEW e \in Evaluators, Continues(e) \/ Announces(e) PROVE SustainedInv'
    <2>1. /\ pc[e] # "idle" /\ pc'[e] # "idle" /\ local'[e].snap = local[e].snap
          /\ local'[e].now = local[e].now /\ UNCHANGED <<clock, seen>>
      BY <1>4 DEF Continues, Announces, SameEvaluation
    <2> QED BY <1>c, <2>1 DEF SustainedInv, InTime, Carries, Recent, AllIdle
  <1>5. ASSUME NEW e \in Evaluators, Closes(e) PROVE SustainedInv'
    <2> DEFINE l == local[e]
    <2>1. AllIdle' /\ UNCHANGED <<clock, seen>> /\ pc[e] # "idle"
      BY <1>5 DEF Closes
    <2>2. Stored'.window = Settled(l) /\ Stored'.state = TargetState(l)
      BY <1>5 DEF Closes, TargetState, ShouldAlarm
    <2>3. /\ n >= 1 /\ seen[n].status = l.observed /\ seen[n].at = l.now
          /\ l \in LocalType /\ l.now \in Nat
      <3>1. seen # <<>> /\ seen[n] = [status |-> l.observed, at |-> l.now]
        BY <2>1 DEF SerialInv, InStep
      <3>2. l \in LocalType /\ l.now \in Nat
        BY DEF TypeOK, LocalType
      <3> QED BY <1>a, <3>1, <3>2
    <2>4. l.observed # "normal" => Stored' = hash' /\ expireAt' >= l.now + TTL
      BY <1>5, <2>1 DEF Closes, Stored
    <2>5. Carries(hash', n, l.now)
      <3> SUFFICES ASSUME NEW s \in Alert, NEW k \in Nat \ {0}, Recent(n, s, k, l.now)
                   PROVE  Carried(hash', s, k, seen[n - k + 1].at)
        BY DEF Carries
      <3>1. k <= n /\ n - k + 1 \in 1 .. n /\ n \in n - k + 1 .. n
        BY <1>a DEF Recent
      <3>2. s = l.observed /\ l.observed \in Alert /\ Stored' = hash'
        BY <2>3, <2>4, <3>1 DEF Recent, Alert
      <3> DEFINE from == seen[n - k + 1].at
      <3>3. from \in Nat /\ from > 0 /\ from <= l.now /\ l.now - from <= CautionWindow
        BY <1>a, <2>3, <3>1 DEF SustainedInv, InTime, Recent
      <3>4. k - 1 \in Nat /\ (n - 1) - (k - 1) + 1 = n - k + 1 /\ k = (k - 1) + 1
        BY <1>a
      <3>5. k - 1 > 0 => Carried(l.snap, s, k - 1, from)
        <4> SUFFICES ASSUME k - 1 > 0 PROVE Carried(l.snap, s, k - 1, from)
          OBVIOUS
        <4>1. Recent(n - 1, s, k - 1, l.now)
          BY <1>a, <3>1, <3>4 DEF Recent
        <4>2. Carries(l.snap, n - 1, l.now)
          BY <2>1 DEF SustainedInv
        <4> QED BY <3>4, <4>1, <4>2 DEF Carries
      <3> HIDE DEF from
      <3>6. Carried(hash', s, (k - 1) + 1, from)
        BY <2>2, <2>3, <3>2, <3>3, <3>4, <3>5, CarriedOn
      <3> QED BY <3>4, <3>6 DEF from
    <2>6. Carries(hash, Len(seen), seen[Len(seen)].at)'
      BY <2>1, <2>3, <2>5 DEF Carries, Recent, Carried, Needed
    <2>7. (seen[Len(seen)].status # "normal" => expireAt >= seen[Len(seen)].at + TTL)'
      BY <2>1, <2>3, <2>4
    <2> QED BY <2>1, <2>6, <2>7 DEF SustainedInv, InTime, AllIdle
  <1> QED BY <1>1, <1>2, <1>3, <1>4, <1>5 DEF StepKinds

-----------------------------------------------------------------------------
(* The theorems.                                                           *)

OrderInv == SerialInv /\ SpacedInv /\ FollowInv /\ RecoveryInv

LEMMA OrderInit == MCInit => TypeOK /\ OrderInv
  BY TypeInit, SerialInit, SpacedInit, FollowInit, RecoveryInit DEF MCInit, OrderInv

LEMMA OrderStep ==
  ASSUME TypeOK, OrderInv, single, [MCNext]_<<vars, single>>
  PROVE  TypeOK' /\ OrderInv' /\ StepKinds /\ (hash' # hash => FollowsAlarm) /\ single'
  <1>1. CASE Next /\ InOrder /\ single' = single
    <2>1. SerialInv' /\ StepKinds
      BY <1>1, SerialStep DEF OrderInv
    <2> QED BY <1>1, <2>1, TypeStep, SpacedStep, FollowStep, RecoveryStep DEF OrderInv
  <1>2. CASE UNCHANGED <<vars, single>>
    <2>1. UNCHANGED <<clock, hash, expireAt, pc, local, alarms, seen>> /\ UNCHANGED vars
      BY <1>2 DEF vars
    <2>2. SerialInv'
      <3>1. Stored' = Stored
        BY <2>1 DEF Stored
      <3>2. ASSUME NEW e \in Evaluators, InStep(e) PROVE InStep(e)'
        BY ZenonT(30), <2>1, <3>1, <3>2 DEF InStep, Resetting, Settled, ShouldAlarm, Confirms, OngoingDue, Accumulate
      <3>3. \A e \in Evaluators : Renewing(e) => Renewing(e)'
        BY <2>1 DEF Renewing
      <3> QED BY <2>1, <3>2, <3>3 DEF OrderInv, SerialInv, AtMostOneRunning
    <2>3. StepKinds
      BY <2>1 DEF StepKinds
    <2> QED BY <1>2, <2>1, <2>2, <2>3, TypeStep, SpacedStep, FollowStep, RecoveryStep DEF OrderInv
  <1> QED BY <1>1, <1>2 DEF MCNext

\* A step keeps the instance that was chosen, and every type.
LEMMA InstanceKept ==
  ASSUME TypeOK, [MCNext]_<<vars, single>>
  PROVE  TypeOK' /\ single' = single
  BY TypeStep DEF MCNext, vars

LEMMA OrderInvariant == MCSpec => [](TypeOK /\ (single => OrderInv))
  <1> DEFINE I == TypeOK /\ (single => OrderInv)
  <1>1. MCInit => I
    BY OrderInit
  <1>2. I /\ [MCNext]_<<vars, single>> => I'
    BY InstanceKept, OrderStep
  <1> QED BY <1>1, <1>2, PTL DEF MCSpec

\* An ongoing alarm is never repeated within the re-alarm interval, while evaluations of
\* the sensor, in whatever thread each of them runs, come one after the other
\* (sensor_evaluator.py:94-101).
THEOREM ReAlarmSpacingInOrderHolds == MCSpec => []ReAlarmSpacingInOrder
  <1>1. TypeOK /\ (single => OrderInv) => ReAlarmSpacingInOrder
    BY DEF OrderInv, SpacedInv, ReAlarmSpacingInOrder
  <1> QED BY <1>1, OrderInvariant, PTL

\* A recovery is never confirmed across an observation of the state it leaves, while
\* evaluations come one after the other: the first observation of that state resets the
\* counters of the safer ones (sensor_evaluator.py:60-69).
THEOREM UninterruptedRecoveryInOrderHolds == MCSpec => []UninterruptedRecoveryInOrder
  <1>1. TypeOK /\ (single => OrderInv) => UninterruptedRecoveryInOrder
    BY DEF OrderInv, RecoveryInv, UninterruptedRecoveryInOrder
  <1> QED BY <1>1, OrderInvariant, PTL

\* Every change of the official state is the transition that the latest alarm row
\* announces, while evaluations come one after the other (sensor_evaluator.py:115-179).
THEOREM StateFollowsAlarmInOrderHolds == MCSpec => StateFollowsAlarmInOrder
  <1>1. TypeOK /\ (single => OrderInv) /\ [MCNext]_<<vars, single>> =>
          [single => FollowsAlarm]_hash
    BY OrderStep
  <1> QED BY <1>1, OrderInvariant, PTL DEF MCSpec, StateFollowsAlarmInOrder

\* 2 * threshold - 1 observations of danger, or of caution, within one window end in that
\* state or a worse one, whatever came before them, if a hash lives longer than a window:
\* its window restarts at most once among them (sensor_evaluator.py:70-87).
THEOREM SustainedEscalatesInOrderHolds ==
  ASSUME TTL > CautionWindow
  PROVE  MCSpec => []SustainedEscalatesInOrder
  <1> DEFINE I == TypeOK /\ (single => OrderInv /\ SustainedInv)
  <1>1. MCInit => I
    BY OrderInit, SustainedInit DEF MCInit
  <1>2. I /\ [MCNext]_<<vars, single>> => I'
    <2> SUFFICES ASSUME I, single, [MCNext]_<<vars, single>> PROVE SustainedInv'
      BY InstanceKept, OrderStep
    <2>1. OrderInv' /\ StepKinds
      BY OrderStep
    <2> QED BY <2>1, SustainedStep DEF OrderInv
  <1>3. I => SustainedEscalatesInOrder
    BY SustainedHolds DEF SustainedEscalatesInOrder
  <1> QED BY <1>1, <1>2, <1>3, PTL DEF MCSpec

=============================================================================

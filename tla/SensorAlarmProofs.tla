-------------------------- MODULE SensorAlarmProofs --------------------------
(***************************************************************************)
(* Theorems about SensorAlarm, for any set of evaluators, any thresholds,  *)
(* windows and intervals, and any number of observations, outages and      *)
(* crashes.                                                                *)
(***************************************************************************)
EXTENDS SensorAlarm, TLAPS, FiniteSetTheorems

Labels == {"idle", "reset", "count", "clear", "alarm", "commit"}

-----------------------------------------------------------------------------
(* What the operators return.                                              *)

\* The empty hash, and so the locals of an evaluation that does not run, are typed.
LEMMA EmptyHashType == EmptyHash \in HashType /\ NotRunning \in LocalType
  <1>1. NoCount \in Counter
    BY DEF NoCount, Counter
  <1>2. [s \in Status |-> NoCount] \in [Status -> Counter]
    BY <1>1
  <1>3. EmptyHash \in HashType
    BY <1>2 DEF EmptyHash, HashType, Status
  <1> QED BY <1>3 DEF NotRunning, LocalType, Status

\* What a read of the hash returns is typed.
LEMMA StoredType == TypeOK => Stored \in HashType
  BY EmptyHashType DEF TypeOK, Stored

\* Replacing one counter of a hash.
LEMMA SetCounterType ==
  ASSUME NEW h \in HashType, NEW s \in Status, NEW c \in Counter
  PROVE  /\ [h EXCEPT !.window[s] = c] \in HashType
         /\ [h EXCEPT !.window[s] = c].state = h.state
         /\ [h EXCEPT !.window[s] = c].window = [h.window EXCEPT ![s] = c]
  BY DEF HashType

\* Replacing all the counters of a hash.
LEMMA ClearCountersType ==
  ASSUME NEW h \in HashType
  PROVE  /\ [h EXCEPT !.window = [s \in Status |-> NoCount]] \in HashType
         /\ [h EXCEPT !.window = [s \in Status |-> NoCount]].state = h.state
         /\ [h EXCEPT !.window = [s \in Status |-> NoCount]].window
              = [s \in Status |-> NoCount]
  BY DEF HashType, NoCount, Counter

\* Committing a state.
LEMMA CommitType ==
  ASSUME NEW h \in HashType, NEW s \in Status, NEW t \in Nat
  PROVE  /\ [h EXCEPT !.state = s, !.lastAlarm = t] \in HashType
         /\ [h EXCEPT !.state = s, !.lastAlarm = t].state = s
         /\ [h EXCEPT !.state = s, !.lastAlarm = t].window = h.window
  BY DEF HashType

\* A counter after one more observation is a counter.
LEMMA AccumulateType ==
  ASSUME NEW l \in LocalType
  PROVE  Accumulate(l) \in Counter
  <1> DEFINE w == l.snap.window[l.observed]
  <1>1. w \in Counter /\ l.now \in Nat /\ l.id \in Nat
    BY DEF LocalType, HashType
  <1>2. w.count + 1 \in Nat /\ w.first \in Nat /\ w.evidence \cup {l.id} \in SUBSET Nat
    BY <1>1 DEF Counter
  <1> HIDE DEF w
  <1>3. /\ [count |-> 1, first |-> l.now, evidence |-> {l.id}] \in Counter
        /\ [count |-> w.count + 1, first |-> w.first, evidence |-> w.evidence \cup {l.id}]
             \in Counter
    BY <1>1, <1>2 DEF Counter
  <1> QED BY <1>3 DEF Accumulate, w

\* The state that an evaluation commits is a status.
LEMMA TargetStateType ==
  ASSUME NEW l \in LocalType
  PROVE  TargetState(l) \in Status
  BY DEF TargetState, LocalType, HashType

-----------------------------------------------------------------------------
(* Type correctness.                                                       *)

\* A write leaves the hash and its expiry typed.
LEMMA WriteType ==
  ASSUME TypeOK, NEW h \in HashType, Write(h)
  PROVE  hash' \in HashType /\ expireAt' \in Nat /\ outages' \in Nat
  BY ConstantsAssumption DEF TypeOK, Write, ConstantsAssumption

\* So does a return the locals.
LEMMA ReturnType ==
  ASSUME TypeOK, NEW e \in Evaluators, Return(e)
  PROVE  /\ pc' \in [Evaluators -> Labels]
         /\ local' \in [Evaluators -> LocalType]
         /\ lastDone' \in Nat
  <1>1. local[e].now \in Nat
    BY DEF TypeOK, LocalType
  <1> QED BY <1>1, EmptyHashType DEF TypeOK, Return, Goto, Labels

\* The same after the counters, whether an alarm follows or not.
LEMMA AfterCountersType ==
  ASSUME TypeOK, NEW e \in Evaluators, AfterCounters(e)
  PROVE  /\ pc' \in [Evaluators -> Labels]
         /\ local' \in [Evaluators -> LocalType]
         /\ lastDone' \in Nat
  <1>1. CASE ShouldAlarm(local[e])
    BY <1>1 DEF AfterCounters, Goto, TypeOK, Labels
  <1>2. CASE ~ShouldAlarm(local[e])
    BY <1>2, ReturnType DEF AfterCounters
  <1> QED BY <1>1, <1>2

\* What Begin puts into the locals.
LEMMA BeginLocal ==
  ASSUME TypeOK, NEW e \in Evaluators, NEW s \in Status, Begin(e, s)
  PROVE  \E l \in LocalType :
            /\ local' = [local EXCEPT ![e] = l]
            /\ l.id = Len(seen) + 1
            /\ l.observed = s
            /\ l.now = clock
            /\ l.snap \in {Stored, EmptyHash}
            /\ outages' = 0 => l.snap = Stored
            /\ l.todo = IF s = l.snap.state THEN SaferThan(l.snap.state) ELSE {}
            /\ pc' \in [Evaluators -> Labels]
            /\ \E label \in {"reset", "clear", "count"} :
                  pc' = [pc EXCEPT ![e] = label] /\ (s # l.snap.state => label # "reset")
            /\ outages' \in Nat
            /\ outages' >= outages
  <1>1. PICK reached \in BOOLEAN :
          /\ ~reached => outages < MaxOutages
          /\ outages' = IF reached THEN outages ELSE outages + 1
          /\ LET snap == IF reached THEN Stored ELSE EmptyHash
                 l == [id |-> Len(seen) + 1, observed |-> s, now |-> clock, snap |-> snap,
                       todo |-> IF s = snap.state THEN SaferThan(snap.state) ELSE {}]
             IN /\ local' = [local EXCEPT ![e] = l]
                /\ Goto(e, IF s = snap.state THEN "reset"
                           ELSE IF Confirms(l) THEN "clear" ELSE "count")
    BY DEF Begin
  <1> DEFINE snap == IF reached THEN Stored ELSE EmptyHash
             l == [id |-> Len(seen) + 1, observed |-> s, now |-> clock, snap |-> snap,
                   todo |-> IF s = snap.state THEN SaferThan(snap.state) ELSE {}]
             label == IF s = snap.state THEN "reset"
                      ELSE IF Confirms(l) THEN "clear" ELSE "count"
  <1>2. snap \in HashType
    BY StoredType, EmptyHashType
  <1>3. l \in LocalType
    <2>1. Len(seen) + 1 \in Nat /\ clock \in Nat
      BY DEF TypeOK
    <2>2. (IF s = snap.state THEN SaferThan(snap.state) ELSE {}) \in SUBSET Status
      BY DEF SaferThan
    <2> HIDE DEF snap
    <2> QED BY <1>2, <2>1, <2>2 DEF LocalType
  <1>4. label \in {"reset", "clear", "count"} /\ (s # snap.state => label # "reset")
    OBVIOUS
  <1>5. pc' = [pc EXCEPT ![e] = label] /\ local' = [local EXCEPT ![e] = l]
    BY <1>1 DEF Goto
  <1>6. pc' \in [Evaluators -> Labels]
    <2> HIDE DEF label
    <2> QED BY <1>4, <1>5 DEF TypeOK, Labels
  <1>7. outages' \in Nat /\ outages' >= outages /\ (outages' = 0 => snap = Stored)
    BY <1>1 DEF TypeOK
  <1>8. /\ l.id = Len(seen) + 1 /\ l.observed = s /\ l.now = clock /\ l.snap = snap
        /\ snap \in {Stored, EmptyHash}
        /\ l.todo = IF s = snap.state THEN SaferThan(snap.state) ELSE {}
    OBVIOUS
  <1> HIDE DEF l, snap, label
  <1> QED BY <1>3, <1>4, <1>5, <1>6, <1>7, <1>8

\* Every variable has its type initially ...
LEMMA TypeInit == Init => TypeOK
  <1> SUFFICES ASSUME Init PROVE TypeOK
    OBVIOUS
  <1>1. clock \in Nat /\ expireAt \in Nat
    BY ConstantsAssumption DEF Init, ConstantsAssumption
  <1> QED BY <1>1, EmptyHashType DEF Init, TypeOK

\* ... and keeps it in every step.
LEMMA TypeStep == TypeOK /\ [Next]_vars => TypeOK'
  <1> SUFFICES ASSUME TypeOK, [Next]_vars PROVE TypeOK'
    OBVIOUS
  <1> USE DEF Labels
  <1>1. CASE Tick
    BY <1>1 DEF Tick, TypeOK
  <1>2. ASSUME NEW e \in Evaluators, NEW s \in Status, Begin(e, s) PROVE TypeOK'
    <2>1. local' \in [Evaluators -> LocalType] /\ pc' \in [Evaluators -> Labels]
          /\ outages' \in Nat
      BY <1>2, BeginLocal DEF TypeOK
    <2>2. seen' \in Seq([status : Status, at : Nat])
      BY <1>2 DEF Begin, TypeOK
    <2> QED BY <1>2, <2>1, <2>2 DEF Begin, TypeOK
  <1>3. ASSUME NEW e \in Evaluators, ResetSafer(e) PROVE TypeOK'
    <2>1. PICK s \in local[e].todo :
            /\ Write([Stored EXCEPT !.window[s] = NoCount])
            /\ local' = [local EXCEPT ![e].todo = @ \ {s}]
      BY <1>3 DEF ResetSafer
    <2>2. s \in Status /\ NoCount \in Counter
      BY <2>1 DEF TypeOK, LocalType, NoCount, Counter
    <2>3. [Stored EXCEPT !.window[s] = NoCount] \in HashType
      BY <2>2, StoredType, SetCounterType
    <2>4. local' \in [Evaluators -> LocalType]
      BY <2>1 DEF TypeOK, LocalType
    <2> QED BY <1>3, <2>1, <2>3, <2>4, WriteType DEF ResetSafer, TypeOK
  <1>4. ASSUME NEW e \in Evaluators, ResetDone(e) PROVE TypeOK'
    BY <1>4, AfterCountersType DEF ResetDone, TypeOK
  <1>5. ASSUME NEW e \in Evaluators, Count(e) PROVE TypeOK'
    <2>1. local[e] \in LocalType /\ local[e].observed \in Status
      BY DEF TypeOK, LocalType
    <2>2. [Stored EXCEPT !.window[local[e].observed] = Accumulate(local[e])] \in HashType
      BY <2>1, StoredType, AccumulateType, SetCounterType
    <2> QED BY <1>5, <2>2, WriteType, AfterCountersType DEF Count, TypeOK
  <1>6. ASSUME NEW e \in Evaluators, Clear(e) PROVE TypeOK'
    <2>1. [Stored EXCEPT !.window = [s \in Status |-> NoCount]] \in HashType
      BY StoredType, ClearCountersType
    <2> QED BY <1>6, <2>1, WriteType, AfterCountersType DEF Clear, TypeOK
  <1>7. ASSUME NEW e \in Evaluators, RaiseAlarm(e) PROVE TypeOK'
    <2>1. local[e] \in LocalType
      BY DEF TypeOK
    <2> DEFINE reason == IF Confirms(local[e]) THEN "transition" ELSE "ongoing"
               evidence == IF Confirms(local[e]) THEN Accumulate(local[e]).evidence ELSE {}
    <2>2. evidence \in SUBSET Nat
      BY <2>1, AccumulateType DEF Counter
    <2>3. local[e].snap.state \in Status /\ local[e].now \in Nat /\ clock \in Nat
      BY <2>1 DEF LocalType, HashType, TypeOK
    <2>4. TargetState(local[e]) \in Status
      BY <2>1, TargetStateType
    <2>5. reason \in {"transition", "ongoing"}
      OBVIOUS
    <2>6. alarms' = Append(alarms, [reason |-> reason, from |-> local[e].snap.state,
                      to |-> TargetState(local[e]), now |-> local[e].now, at |-> clock,
                      evidence |-> evidence])
      BY <1>7 DEF RaiseAlarm
    <2> HIDE DEF reason, evidence
    <2>7. alarms' \in Seq(AlarmRow)
      BY <2>2, <2>3, <2>4, <2>5, <2>6 DEF TypeOK, AlarmRow
    <2> QED BY <1>7, <2>7 DEF RaiseAlarm, Goto, TypeOK
  <1>8. ASSUME NEW e \in Evaluators, Commit(e) PROVE TypeOK'
    <2>1. TargetState(local[e]) \in Status /\ clock \in Nat
      BY TargetStateType DEF TypeOK
    <2>2. [Stored EXCEPT !.state = TargetState(local[e]), !.lastAlarm = clock] \in HashType
      BY <2>1, StoredType, CommitType
    <2> QED BY <1>8, <2>2, WriteType, ReturnType DEF Commit, TypeOK
  <1>9. ASSUME NEW e \in Evaluators, Abort(e) PROVE TypeOK'
    BY <1>9, EmptyHashType DEF Abort, Goto, TypeOK
  <1>10. CASE UNCHANGED vars
    BY <1>10 DEF vars, TypeOK
  <1> QED
    BY <1>1, <1>2, <1>3, <1>4, <1>5, <1>6, <1>7, <1>8, <1>9, <1>10 DEF Next

\* Every variable keeps its type whatever evaluations overlap, fail or crash.
THEOREM TypeCorrect == Spec => []TypeOK
  BY TypeInit, TypeStep, PTL DEF Spec

-----------------------------------------------------------------------------
(* What a step leaves alone.                                               *)

\* A return resets one evaluation.
LEMMA ReturnFrame ==
  ASSUME TypeOK, NEW e \in Evaluators, Return(e), NEW x \in Evaluators
  PROVE  \/ x # e /\ local'[x] = local[x] /\ pc'[x] = pc[x]
         \/ x = e /\ local'[x] = NotRunning /\ pc'[x] = "idle"
  BY DEF TypeOK, Return, Goto

\* After the counters an evaluation goes on to the alarm or is reset.
LEMMA AfterCountersFrame ==
  ASSUME TypeOK, NEW e \in Evaluators, AfterCounters(e), NEW x \in Evaluators
  PROVE  \/ x # e /\ local'[x] = local[x] /\ pc'[x] = pc[x]
         \/ x = e /\ local'[x] = local[x] /\ pc'[x] = "alarm"
         \/ x = e /\ local'[x] = NotRunning /\ pc'[x] = "idle"
  <1>1. CASE ShouldAlarm(local[e])
    BY <1>1 DEF AfterCounters, Goto, TypeOK
  <1>2. CASE ~ShouldAlarm(local[e])
    BY <1>2, ReturnFrame DEF AfterCounters
  <1> QED BY <1>1, <1>2

\* The state that is read is the one last written, or "normal".
LEMMA StoredState == Stored.state = hash.state \/ Stored.state = "normal"
  BY DEF Stored, EmptyHash

-----------------------------------------------------------------------------
(* No abnormal state without its alarm.                                    *)

\* The inductive invariant: NoSilentState, and the same of every snapshot, which
\* an alarm may repeat, and of every state that is about to be committed.
AnnouncedInv ==
    /\ NoSilentState
    /\ \A e \in Evaluators :
         local[e].snap.state # "normal" => HasAlarm(local[e].snap.state)
    /\ \A e \in Evaluators : pc[e] = "commit" => HasAlarm(TargetState(local[e]))

\* Alarm rows are only added.
LEMMA HasAlarmKept ==
  ASSUME TypeOK, NEW s, HasAlarm(s),
         \/ alarms' = alarms
         \/ \E row \in AlarmRow : alarms' = Append(alarms, row)
  PROVE  HasAlarm(s)'
  <1>1. PICK k \in 1 .. Len(alarms) : alarms[k].to = s
    BY DEF HasAlarm
  <1>2. k \in 1 .. Len(alarms') /\ alarms'[k] = alarms[k]
    BY DEF TypeOK
  <1> QED BY <1>1, <1>2 DEF HasAlarm

\* A write that keeps the state it has read announces nothing new.
LEMMA WriteKeepsState ==
  ASSUME NoSilentState, NEW h, Write(h), h.state = Stored.state, alarms' = alarms
  PROVE  NoSilentState'
  BY StoredState DEF Write, NoSilentState, HasAlarm

LEMMA AnnouncedInit == Init => AnnouncedInv
  BY DEF Init, AnnouncedInv, NoSilentState, EmptyHash, NotRunning

LEMMA AnnouncedStep == TypeOK /\ AnnouncedInv /\ [Next]_vars => AnnouncedInv'
  <1> SUFFICES ASSUME TypeOK, AnnouncedInv, [Next]_vars PROVE AnnouncedInv'
    OBVIOUS
  <1> USE DEF Labels
  <1> DEFINE Snapshots == \A e \in Evaluators :
                 local[e].snap.state # "normal" => HasAlarm(local[e].snap.state)
             Commits == \A e \in Evaluators :
                 pc[e] = "commit" => HasAlarm(TargetState(local[e]))
  <1>a. NotRunning.snap.state = "normal"
    BY DEF NotRunning, EmptyHash
  \* A step that only returns or goes on to the alarm changes no snapshot.
  <1>b. ASSUME NEW e \in Evaluators, alarms' = alarms,
               Return(e) \/ AfterCounters(e)
        PROVE  Snapshots' /\ Commits'
    <2>1. ASSUME NEW x \in Evaluators
          PROVE  \/ local'[x] = local[x] /\ (pc'[x] = pc[x] \/ pc'[x] = "alarm")
                 \/ local'[x] = NotRunning /\ pc'[x] = "idle"
      BY <1>b, ReturnFrame, AfterCountersFrame
    <2> QED BY <1>a, <1>b, <2>1 DEF AnnouncedInv, HasAlarm, TargetState, Confirms, Accumulate
  <1>1. CASE Tick
    BY <1>1 DEF Tick, AnnouncedInv, NoSilentState, HasAlarm, TargetState, Confirms, Accumulate
  <1>2. ASSUME NEW e \in Evaluators, NEW s \in Status, Begin(e, s) PROVE AnnouncedInv'
    <2>1. PICK l \in LocalType :
            /\ local' = [local EXCEPT ![e] = l]
            /\ l.snap \in {Stored, EmptyHash}
            /\ \E label \in {"reset", "clear", "count"} : pc' = [pc EXCEPT ![e] = label]
      BY <1>2, BeginLocal
    <2>2. alarms' = alarms /\ hash' = hash
      BY <1>2 DEF Begin
    <2>3. l.snap.state # "normal" => HasAlarm(l.snap.state)
      BY <2>1, StoredState DEF AnnouncedInv, NoSilentState, EmptyHash
    <2>4. \A x \in Evaluators :
            \/ local'[x] = local[x] /\ pc'[x] = pc[x]
            \/ local'[x] = l /\ pc'[x] # "commit"
      BY <2>1 DEF TypeOK
    <2> QED
      BY <2>2, <2>3, <2>4
      DEF AnnouncedInv, NoSilentState, HasAlarm, TargetState, Confirms, Accumulate
  <1>3. ASSUME NEW e \in Evaluators, ResetSafer(e) PROVE AnnouncedInv'
    <2>1. PICK s \in local[e].todo :
            /\ Write([Stored EXCEPT !.window[s] = NoCount])
            /\ local' = [local EXCEPT ![e].todo = @ \ {s}]
      BY <1>3 DEF ResetSafer
    <2>2. s \in Status /\ NoCount \in Counter
      BY <2>1 DEF TypeOK, LocalType, NoCount, Counter
    <2>3. [Stored EXCEPT !.window[s] = NoCount].state = Stored.state
      BY <2>2, StoredType, SetCounterType
    <2>4. alarms' = alarms /\ pc' = pc /\ pc[e] = "reset"
      BY <1>3 DEF ResetSafer
    <2>5. NoSilentState'
      BY <2>1, <2>3, <2>4, WriteKeepsState DEF AnnouncedInv
    <2>6. \A x \in Evaluators :
            /\ local'[x].snap = local[x].snap
            /\ x # e => local'[x] = local[x]
      BY <2>1 DEF TypeOK, LocalType
    <2> QED BY <2>4, <2>5, <2>6 DEF AnnouncedInv, HasAlarm, TargetState, Confirms, Accumulate
  <1>4. ASSUME NEW e \in Evaluators, ResetDone(e) PROVE AnnouncedInv'
    <2>1. alarms' = alarms /\ hash' = hash /\ AfterCounters(e)
      BY <1>4 DEF ResetDone
    <2>2. Snapshots' /\ Commits'
      BY <1>b, <2>1
    <2> QED BY <2>1, <2>2 DEF AnnouncedInv, NoSilentState, HasAlarm
  <1>5. ASSUME NEW e \in Evaluators, Count(e) PROVE AnnouncedInv'
    <2>1. local[e] \in LocalType /\ local[e].observed \in Status
      BY DEF TypeOK, LocalType
    <2>2. [Stored EXCEPT !.window[local[e].observed] = Accumulate(local[e])].state = Stored.state
      BY <2>1, StoredType, AccumulateType, SetCounterType
    <2>3. alarms' = alarms /\ AfterCounters(e)
      BY <1>5 DEF Count
    <2>4. NoSilentState'
      BY <1>5, <2>2, <2>3, WriteKeepsState DEF AnnouncedInv, Count
    <2>5. Snapshots' /\ Commits'
      BY <1>b, <2>3
    <2> QED BY <2>4, <2>5 DEF AnnouncedInv
  <1>6. ASSUME NEW e \in Evaluators, Clear(e) PROVE AnnouncedInv'
    <2>1. [Stored EXCEPT !.window = [s \in Status |-> NoCount]].state = Stored.state
      BY StoredType, ClearCountersType
    <2>2. alarms' = alarms /\ AfterCounters(e)
      BY <1>6 DEF Clear
    <2>3. NoSilentState'
      BY <1>6, <2>1, <2>2, WriteKeepsState DEF AnnouncedInv, Clear
    <2>4. Snapshots' /\ Commits'
      BY <1>b, <2>2
    <2> QED BY <2>3, <2>4 DEF AnnouncedInv
  <1>7. ASSUME NEW e \in Evaluators, RaiseAlarm(e) PROVE AnnouncedInv'
    <2>1. TypeOK'
      BY TypeStep
    <2> DEFINE row == alarms'[Len(alarms) + 1]
    <2>2. /\ alarms' = Append(alarms, row)
          /\ row.to = TargetState(local[e])
          /\ Len(alarms') = Len(alarms) + 1
      BY <1>7 DEF RaiseAlarm, TypeOK
    <2>3. row \in AlarmRow
      BY <2>1, <2>2 DEF TypeOK
    <2>4. local' = local /\ hash' = hash
          /\ \A x \in Evaluators : x # e => pc'[x] = pc[x]
      BY <1>7 DEF RaiseAlarm, Goto, TypeOK
    <2>5. HasAlarm(TargetState(local[e]))'
      <3>1. Len(alarms) + 1 \in 1 .. Len(alarms')
        BY <2>2 DEF TypeOK
      <3> QED BY <2>2, <2>4, <3>1 DEF HasAlarm, TargetState, Confirms, Accumulate
    <2>6. ASSUME NEW s, HasAlarm(s) PROVE HasAlarm(s)'
      BY <2>2, <2>3, <2>6, HasAlarmKept
    <2> HIDE DEF row
    <2>7. NoSilentState'
      BY <2>4, <2>6 DEF AnnouncedInv, NoSilentState
    <2>8. Snapshots'
      BY <2>4, <2>6 DEF AnnouncedInv
    <2>9. ASSUME NEW x \in Evaluators, pc'[x] = "commit" PROVE HasAlarm(TargetState(local[x]))'
      <3>1. CASE x = e
        BY <2>5, <3>1
      <3>2. CASE x # e
        <4>1. HasAlarm(TargetState(local[x]))
          BY <2>4, <2>9, <3>2 DEF AnnouncedInv
        <4>2. HasAlarm(TargetState(local[x]))'
          BY <4>1, <2>4, <2>6 DEF HasAlarm, TargetState, Confirms, Accumulate
        <4> QED BY <4>2
      <3> QED BY <3>1, <3>2
    <2> QED BY <2>7, <2>8, <2>9 DEF AnnouncedInv
  <1>8. ASSUME NEW e \in Evaluators, Commit(e) PROVE AnnouncedInv'
    <2>1. TargetState(local[e]) \in Status /\ clock \in Nat
      BY TargetStateType DEF TypeOK
    <2> DEFINE h == [Stored EXCEPT !.state = TargetState(local[e]), !.lastAlarm = clock]
    <2>2. h.state = TargetState(local[e])
      BY ZenonT(30), <2>1, StoredType, CommitType
    <2>3. alarms' = alarms /\ Return(e) /\ Write(h) /\ pc[e] = "commit"
      BY <1>8 DEF Commit
    <2> HIDE DEF h
    <2>4. NoSilentState'
      BY <2>2, <2>3 DEF Write, AnnouncedInv, NoSilentState, HasAlarm
    <2>5. Snapshots' /\ Commits'
      BY <1>b, <2>3
    <2> QED BY <2>4, <2>5 DEF AnnouncedInv
  <1>9. ASSUME NEW e \in Evaluators, Abort(e) PROVE AnnouncedInv'
    <2>1. alarms' = alarms /\ hash' = hash
          /\ \A x \in Evaluators :
               \/ local'[x] = local[x] /\ pc'[x] = pc[x]
               \/ local'[x] = NotRunning /\ pc'[x] = "idle"
      BY <1>9 DEF Abort, Goto, TypeOK
    <2> QED
      BY <1>a, <2>1
      DEF AnnouncedInv, NoSilentState, HasAlarm, TargetState, Confirms, Accumulate
  <1>10. CASE UNCHANGED vars
    BY <1>10
    DEF vars, AnnouncedInv, NoSilentState, HasAlarm, TargetState, Confirms, Accumulate
  <1> QED
    BY <1>1, <1>2, <1>3, <1>4, <1>5, <1>6, <1>7, <1>8, <1>9, <1>10 DEF Next

\* No interleaving, outage or crash leaves an abnormal state in the hash that no
\* alarm in the database has announced.
THEOREM NoSilentStateHolds == Spec => []NoSilentState
  <1>1. AnnouncedInv => NoSilentState
    BY DEF AnnouncedInv
  <1> QED BY <1>1, TypeInit, TypeStep, AnnouncedInit, AnnouncedStep, PTL DEF Spec

-----------------------------------------------------------------------------
(* The evaluations implement the ledger of AlarmLedger.                    *)

\* The states that the alarms name are those that have an alarm.
LEMMA AnnouncedHasAlarm == \A s : s \in Announced <=> HasAlarm(s)
  BY DEF Announced, HasAlarm

\* A write puts the state it carries in force, or nothing.
LEMMA WriteShows ==
  ASSUME TypeOK, NEW h, Write(h), UNCHANGED clock
  PROVE  Stored' = h \/ Stored' = Stored
  BY ConstantsAssumption DEF Write, Stored, TypeOK

\* What a write of the state read before, of the quiet state or of an announced one
\* does to the ledger.
LEMMA WriteAdopts ==
  ASSUME TypeOK, NEW h, Write(h), UNCHANGED <<clock, alarms>>,
         h.state \in Status, h.state = Stored.state \/ HasAlarm(h.state)
  PROVE  [Ledger!Next]_(Ledger!vars)
  <1>1. Announced' = Announced
    BY DEF Announced
  <1>2. CASE Stored'.state = Stored.state
    BY <1>1, <1>2 DEF Ledger!vars
  <1>3. CASE Stored'.state # Stored.state
    <2>1. Stored' = h /\ HasAlarm(h.state)
      BY <1>3, WriteShows
    <2>2. Ledger!Adopt(h.state)
      BY <1>1, <2>1, AnnouncedHasAlarm DEF Ledger!Adopt
    <2> QED BY <2>2 DEF Ledger!Next
  <1> QED BY <1>2, <1>3

LEMMA LedgerInit == Init => Ledger!Init
  <1> SUFFICES ASSUME Init PROVE Ledger!Init
    OBVIOUS
  <1>1. Stored.state = "normal"
    BY DEF Init, Stored, EmptyHash
  <1>2. Announced = {}
    BY DEF Init, Announced
  <1> QED BY <1>1, <1>2 DEF Ledger!Init

LEMMA LedgerStep == TypeOK /\ AnnouncedInv /\ [Next]_vars => [Ledger!Next]_(Ledger!vars)
  <1> SUFFICES ASSUME TypeOK, AnnouncedInv, [Next]_vars PROVE [Ledger!Next]_(Ledger!vars)
    OBVIOUS
  \* A step that leaves the hash and the alarms alone can only lapse.
  <1>a. ASSUME UNCHANGED <<hash, expireAt, alarms>> PROVE [Ledger!Next]_(Ledger!vars)
    <2>1. Announced' = Announced
      BY <1>a DEF Announced
    <2>2. Stored'.state \in {Stored.state, "normal", hash.state}
      BY <1>a DEF Stored, EmptyHash
    <2>3. hash.state \in Status /\ (hash.state # "normal" => hash.state \in Announced)
      BY AnnouncedHasAlarm DEF TypeOK, HashType, AnnouncedInv, NoSilentState
    <2>4. CASE Stored'.state = Stored.state
      BY <2>1, <2>4 DEF Ledger!vars
    <2>5. CASE Stored'.state # Stored.state
      <3>1. Stored'.state \in Status
        BY <2>2, <2>3, <2>5 DEF Status
      <3>2. Ledger!Adopt(Stored'.state)
        BY <2>1, <2>2, <2>3, <2>5 DEF Ledger!Adopt
      <3> QED BY <3>1, <3>2 DEF Ledger!Next
    <2> QED BY <2>4, <2>5
  <1>1. CASE Tick
    BY <1>1, <1>a DEF Tick
  <1>2. ASSUME NEW e \in Evaluators, NEW s \in Status, Begin(e, s)
        PROVE  [Ledger!Next]_(Ledger!vars)
    BY <1>2, <1>a DEF Begin
  <1>3. ASSUME NEW e \in Evaluators, ResetSafer(e) PROVE [Ledger!Next]_(Ledger!vars)
    <2>1. PICK s \in local[e].todo : Write([Stored EXCEPT !.window[s] = NoCount])
      BY <1>3 DEF ResetSafer
    <2>2. s \in Status /\ NoCount \in Counter
      BY <2>1 DEF TypeOK, LocalType, NoCount, Counter
    <2> DEFINE h == [Stored EXCEPT !.window[s] = NoCount]
    <2>3. h.state = Stored.state /\ h.state \in Status
      BY <2>2, StoredType, SetCounterType DEF HashType
    <2>4. Write(h) /\ UNCHANGED <<clock, alarms>>
      BY <1>3, <2>1 DEF ResetSafer
    <2> HIDE DEF h
    <2> QED BY <2>3, <2>4, WriteAdopts
  <1>4. ASSUME NEW e \in Evaluators, ResetDone(e) PROVE [Ledger!Next]_(Ledger!vars)
    BY <1>4, <1>a DEF ResetDone
  <1>5. ASSUME NEW e \in Evaluators, Count(e) PROVE [Ledger!Next]_(Ledger!vars)
    <2>1. local[e] \in LocalType /\ local[e].observed \in Status
      BY DEF TypeOK, LocalType
    <2> DEFINE h == [Stored EXCEPT !.window[local[e].observed] = Accumulate(local[e])]
    <2>2. h.state = Stored.state /\ h.state \in Status
      BY <2>1, StoredType, AccumulateType, SetCounterType DEF HashType
    <2>3. Write(h) /\ UNCHANGED <<clock, alarms>>
      BY <1>5 DEF Count
    <2> HIDE DEF h
    <2> QED BY <2>2, <2>3, WriteAdopts
  <1>6. ASSUME NEW e \in Evaluators, Clear(e) PROVE [Ledger!Next]_(Ledger!vars)
    <2> DEFINE h == [Stored EXCEPT !.window = [s \in Status |-> NoCount]]
    <2>1. h.state = Stored.state /\ h.state \in Status
      BY StoredType, ClearCountersType DEF HashType
    <2>2. Write(h) /\ UNCHANGED <<clock, alarms>>
      BY <1>6 DEF Clear
    <2> HIDE DEF h
    <2> QED BY <2>1, <2>2, WriteAdopts
  <1>7. ASSUME NEW e \in Evaluators, RaiseAlarm(e) PROVE [Ledger!Next]_(Ledger!vars)
    <2>1. PICK row : row.to = TargetState(local[e]) /\ alarms' = Append(alarms, row)
      BY <1>7 DEF RaiseAlarm
    <2>2. TargetState(local[e]) \in Status /\ Stored' = Stored
      BY <1>7, TargetStateType DEF RaiseAlarm, TypeOK, Stored
    <2>3. Announced' = Announced \cup {TargetState(local[e])}
      BY <2>1 DEF Announced, TypeOK
    <2>4. Ledger!Announce(TargetState(local[e]))
      BY <2>2, <2>3 DEF Ledger!Announce
    <2> QED BY <2>2, <2>4 DEF Ledger!Next
  <1>8. ASSUME NEW e \in Evaluators, Commit(e) PROVE [Ledger!Next]_(Ledger!vars)
    <2>1. TargetState(local[e]) \in Status /\ clock \in Nat
      BY TargetStateType DEF TypeOK
    <2> DEFINE h == [Stored EXCEPT !.state = TargetState(local[e]), !.lastAlarm = clock]
    <2>2. h.state = TargetState(local[e])
      BY ZenonT(30), <2>1, StoredType, CommitType
    <2>3. Write(h) /\ UNCHANGED <<clock, alarms>> /\ pc[e] = "commit"
      BY <1>8 DEF Commit
    <2> HIDE DEF h
    <2>4. HasAlarm(h.state)
      BY <2>2, <2>3 DEF AnnouncedInv
    <2> QED BY <2>1, <2>2, <2>3, <2>4, WriteAdopts
  <1>9. ASSUME NEW e \in Evaluators, Abort(e) PROVE [Ledger!Next]_(Ledger!vars)
    BY <1>9, <1>a DEF Abort
  <1>10. CASE UNCHANGED vars
    BY <1>10, <1>a DEF vars
  <1> QED
    BY <1>1, <1>2, <1>3, <1>4, <1>5, <1>6, <1>7, <1>8, <1>9, <1>10 DEF Next

\* SensorAlarm implements AlarmLedger: whoever reads the official state, whatever
\* evaluations overlap, stop and fail, is given a state that has been announced.
THEOREM AnnouncedFirstHolds == Spec => AnnouncedFirst
  <1> QED
    BY TypeInit, TypeStep, AnnouncedInit, AnnouncedStep, LedgerInit, LedgerStep, PTL
    DEF Spec, AnnouncedFirst, Ledger!Spec

-----------------------------------------------------------------------------
(* Repeats are spaced, while evaluations neither overlap nor fail.         *)

OneAtATime == (\A e, f \in Evaluators : e = f) /\ MaxOutages = 0 /\ MaxAborts = 0

\* No alarm is younger than time n.
NoneSince(n) == alarms # <<>> => alarms[Len(alarms)].at <= n

\* The inductive invariant: the time of the last alarm that the hash and the snapshot
\* of an evaluation carry with an abnormal state is not before that of the last row.
\* Between the insert and the commit the hash lags behind.
SpacingInv ==
    /\ ReAlarmSpacing
    /\ NoneSince(clock)
    /\ (hash.state # "normal" /\ \A e \in Evaluators : pc[e] # "commit") =>
         NoneSince(hash.lastAlarm)
    /\ \A e \in Evaluators :
         /\ local[e].now <= clock
         /\ pc[e] = "alarm" => ShouldAlarm(local[e])
         /\ pc[e] \notin {"idle", "commit"} /\ local[e].snap.state # "normal" =>
              NoneSince(local[e].snap.lastAlarm)

LEMMA SpacingInit == Init => SpacingInv
  <1> SUFFICES ASSUME Init PROVE SpacingInv
    OBVIOUS
  <1>1. Epoch \in Nat /\ Len(alarms) = 0 /\ alarms = <<>>
    BY ConstantsAssumption DEF Init, ConstantsAssumption
  <1> QED
    BY <1>1 DEF Init, SpacingInv, ReAlarmSpacing, NoneSince, NotRunning, EmptyHash

\* A return, or going on to the alarm, after a write that keeps state and last alarm.
LEMMA CountersSpacing ==
  ASSUME TypeOK, SpacingInv, OneAtATime, NEW e \in Evaluators, AfterCounters(e),
         pc[e] \notin {"idle", "commit"},
         hash'.state # "normal" => hash'.state = hash.state /\ hash'.lastAlarm = hash.lastAlarm,
         UNCHANGED <<clock, alarms>>
  PROVE  SpacingInv'
  <1>1. \A x \in Evaluators : x = e
    BY DEF OneAtATime
  <1>2. \/ local'[e] = local[e] /\ pc'[e] = "alarm" /\ ShouldAlarm(local[e])
        \/ local'[e] = NotRunning /\ pc'[e] = "idle"
    BY DEF AfterCounters, Return, Goto, TypeOK
  <1>3. NotRunning.now <= clock
    BY DEF NotRunning, TypeOK
  <1>4. ReAlarmSpacing' /\ NoneSince(clock)'
    BY DEF SpacingInv, ReAlarmSpacing, NoneSince
  <1> QED BY <1>1, <1>2, <1>3, <1>4 DEF SpacingInv, NoneSince, ShouldAlarm, Confirms, OngoingDue,
                                        Accumulate

LEMMA SpacingStep ==
  ASSUME OneAtATime
  PROVE  TypeOK /\ SpacingInv /\ [Next]_vars => SpacingInv'
  <1> SUFFICES ASSUME TypeOK, SpacingInv, [Next]_vars PROVE SpacingInv'
    OBVIOUS
  <1>a. \A e, f \in Evaluators : e = f
    BY DEF OneAtATime
  <1>b. MaxOutages = 0 /\ MaxAborts = 0 /\ outages \in Nat /\ aborts \in Nat
    BY DEF OneAtATime, TypeOK
  <1>d. /\ Len(alarms) \in Nat
        /\ \A k \in 1 .. Len(alarms) : alarms[k].at \in Nat
        /\ alarms # <<>> => Len(alarms) \in 1 .. Len(alarms)
    <2>1. alarms \in Seq(AlarmRow)
      BY DEF TypeOK
    <2>2. \A k \in 1 .. Len(alarms) : alarms[k] \in AlarmRow
      BY <2>1
    <2>3. \A r \in AlarmRow : r.at \in Nat
      BY DEF AlarmRow
    <2> HIDE DEF AlarmRow
    <2>4. Len(alarms) \in Nat /\ (alarms # <<>> => Len(alarms) \in 1 .. Len(alarms))
      BY <2>1
    <2> QED BY <2>2, <2>3, <2>4
  \* A write that keeps the state it has read keeps the last alarm with it.
  <1>c. ASSUME NEW h, Write(h), h.state = Stored.state, h.lastAlarm = Stored.lastAlarm
        PROVE  hash'.state # "normal" =>
                 hash'.state = hash.state /\ hash'.lastAlarm = hash.lastAlarm
    BY <1>b, <1>c DEF Write, Stored, EmptyHash
  <1>1. ASSUME Tick PROVE SpacingInv'
    <2>1. clock \in Nat /\ clock' = clock + 1
      BY <1>1 DEF Tick, TypeOK
    <2>2. UNCHANGED <<hash, pc, local, alarms>>
      BY <1>1 DEF Tick
    <2>3. alarms # <<>> => alarms[Len(alarms)].at \in Nat
      BY <1>d
    <2>4. \A e \in Evaluators : local[e].now \in Nat
      BY DEF TypeOK, LocalType
    <2> QED BY <2>1, <2>2, <2>3, <2>4
            DEF SpacingInv, ReAlarmSpacing, NoneSince, ShouldAlarm, Confirms, OngoingDue, Accumulate
  <1>2. ASSUME NEW e \in Evaluators, NEW s \in Status, Begin(e, s) PROVE SpacingInv'
    <2>1. PICK l \in LocalType, label \in {"reset", "clear", "count"} :
            /\ local' = [local EXCEPT ![e] = l]
            /\ l.now = clock
            /\ l.snap \in {Stored, EmptyHash}
            /\ pc' = [pc EXCEPT ![e] = label]
      BY <1>2, BeginLocal
    <2>2. UNCHANGED <<clock, hash, alarms>> /\ pc[e] = "idle"
      BY <1>2 DEF Begin
    <2>3. local'[e] = l /\ pc'[e] = label
      BY <2>1 DEF TypeOK
    <2>4. l.snap.state # "normal" => l.snap = hash
      BY <2>1 DEF Stored, EmptyHash
    <2>5. NoneSince(clock)' /\ ReAlarmSpacing'
      BY <2>2 DEF SpacingInv, NoneSince, ReAlarmSpacing
    <2>6. hash.state # "normal" => NoneSince(hash.lastAlarm)
      BY <2>2, <1>a DEF SpacingInv
    <2> QED BY <1>a, <2>1, <2>2, <2>3, <2>4, <2>5, <2>6 DEF SpacingInv, NoneSince, TypeOK
  <1>3. ASSUME NEW e \in Evaluators, ResetSafer(e) PROVE SpacingInv'
    <2>1. PICK s \in local[e].todo :
            /\ Write([Stored EXCEPT !.window[s] = NoCount])
            /\ local' = [local EXCEPT ![e].todo = @ \ {s}]
      BY <1>3 DEF ResetSafer
    <2>2. UNCHANGED <<clock, pc, alarms>> /\ pc[e] = "reset"
      BY <1>3 DEF ResetSafer
    <2>3. Stored \in HashType
      BY StoredType
    <2>4. [Stored EXCEPT !.window[s] = NoCount].state = Stored.state
          /\ [Stored EXCEPT !.window[s] = NoCount].lastAlarm = Stored.lastAlarm
      BY <2>3 DEF HashType
    <2>5. local'[e].snap = local[e].snap /\ local'[e].now = local[e].now
      BY <2>1 DEF TypeOK, LocalType
    <2>6. hash'.state # "normal" => hash'.state = hash.state /\ hash'.lastAlarm = hash.lastAlarm
      BY <1>c, <2>1, <2>4
    <2>7. ReAlarmSpacing' /\ NoneSince(clock)'
      BY <2>2 DEF SpacingInv, ReAlarmSpacing, NoneSince
    <2> QED BY <1>a, <2>2, <2>5, <2>6, <2>7 DEF SpacingInv, NoneSince
  <1>4. ASSUME NEW e \in Evaluators, ResetDone(e) PROVE SpacingInv'
    BY <1>4, CountersSpacing DEF ResetDone
  <1>5. ASSUME NEW e \in Evaluators, Count(e) PROVE SpacingInv'
    <2>1. [Stored EXCEPT !.window[local[e].observed] = Accumulate(local[e])].state = Stored.state
          /\ [Stored EXCEPT !.window[local[e].observed] = Accumulate(local[e])].lastAlarm
               = Stored.lastAlarm
      BY StoredType DEF HashType
    <2> QED BY <1>5, <1>c, <2>1, CountersSpacing DEF Count
  <1>6. ASSUME NEW e \in Evaluators, Clear(e) PROVE SpacingInv'
    <2>1. [Stored EXCEPT !.window = [s \in Status |-> NoCount]].state = Stored.state
          /\ [Stored EXCEPT !.window = [s \in Status |-> NoCount]].lastAlarm = Stored.lastAlarm
      BY StoredType DEF HashType
    <2> QED BY <1>6, <1>c, <2>1, CountersSpacing DEF Clear
  <1>7. ASSUME NEW e \in Evaluators, RaiseAlarm(e) PROVE SpacingInv'
    <2>1. PICK a : /\ alarms' = Append(alarms, a)
                   /\ a.at = clock
                   /\ a.reason = IF Confirms(local[e]) THEN "transition" ELSE "ongoing"
      BY <1>7 DEF RaiseAlarm
    <2>2. UNCHANGED <<clock, hash, local>> /\ pc[e] = "alarm" /\ pc'[e] = "commit"
      BY <1>7 DEF RaiseAlarm, Goto, TypeOK
    <2>3. /\ Len(alarms') = Len(alarms) + 1 /\ Len(alarms) \in Nat
          /\ alarms'[Len(alarms) + 1] = a
          /\ \A k \in 1 .. Len(alarms) : alarms'[k] = alarms[k] /\ alarms[k].at \in Nat
      BY <1>d, <2>1 DEF TypeOK
    <2>4. clock \in Nat /\ local[e].now \in Nat /\ local[e].snap.lastAlarm \in Nat
          /\ ReAlarmInterval \in Nat
      BY ConstantsAssumption DEF TypeOK, LocalType, HashType, ConstantsAssumption
    <2>5. a.reason = "ongoing" /\ alarms # <<>> =>
            a.at - alarms[Len(alarms)].at >= ReAlarmInterval
      <3> SUFFICES ASSUME a.reason = "ongoing", alarms # <<>>
                   PROVE  a.at - alarms[Len(alarms)].at >= ReAlarmInterval
        OBVIOUS
      <3>1. OngoingDue(local[e])
        BY <2>1, <2>2 DEF SpacingInv, ShouldAlarm
      <3>2. alarms[Len(alarms)].at <= local[e].snap.lastAlarm
        BY <2>2, <3>1 DEF SpacingInv, OngoingDue, NoneSince
      <3>3. local[e].now <= clock /\ alarms[Len(alarms)].at \in Nat
        BY <1>d DEF SpacingInv
      <3> QED BY <2>1, <2>4, <3>1, <3>2, <3>3 DEF OngoingDue
    <2>6. ReAlarmSpacing'
      <3> SUFFICES ASSUME NEW k \in 2 .. Len(alarms'), alarms'[k].reason = "ongoing"
                   PROVE  alarms'[k].at - alarms'[k - 1].at >= ReAlarmInterval
        BY DEF ReAlarmSpacing
      <3>1. CASE k = Len(alarms) + 1
        <4>1. alarms # <<>> /\ k - 1 = Len(alarms) /\ k - 1 \in 1 .. Len(alarms)
          BY <2>3, <3>1
        <4> QED BY <2>3, <2>5, <3>1, <4>1
      <3>2. CASE k # Len(alarms) + 1
        <4>1. k \in 2 .. Len(alarms) /\ k - 1 \in 1 .. Len(alarms) /\ k \in 1 .. Len(alarms)
          BY <2>3, <3>2
        <4> QED BY <2>3, <4>1 DEF SpacingInv, ReAlarmSpacing
      <3> QED BY <3>1, <3>2
    <2>7. NoneSince(clock)'
      BY <2>1, <2>2, <2>3, <2>4 DEF NoneSince
    <2> QED BY <1>a, <2>2, <2>6, <2>7 DEF SpacingInv
  <1>8. ASSUME NEW e \in Evaluators, Commit(e) PROVE SpacingInv'
    <2> DEFINE h == [Stored EXCEPT !.state = TargetState(local[e]), !.lastAlarm = clock]
    <2>1. Write(h) /\ Return(e) /\ UNCHANGED <<clock, alarms>> /\ pc[e] = "commit"
      BY <1>8 DEF Commit
    <2>2. h.lastAlarm = clock
      BY StoredType DEF HashType
    <2>3. hash' = h
      BY <1>b, <2>1 DEF Write
    <2> HIDE DEF h
    <2>4. NoneSince(clock)' /\ ReAlarmSpacing' /\ NoneSince(hash.lastAlarm)'
      BY <2>1, <2>2, <2>3 DEF SpacingInv, NoneSince, ReAlarmSpacing
    <2>5. local'[e] = NotRunning /\ pc'[e] = "idle" /\ NotRunning.now <= clock
      BY <2>1 DEF Return, Goto, NotRunning, TypeOK
    <2> QED BY <1>a, <2>1, <2>4, <2>5 DEF SpacingInv
  <1>9. ASSUME NEW e \in Evaluators, Abort(e) PROVE SpacingInv'
    BY <1>b, <1>9 DEF Abort
  <1>10. CASE UNCHANGED vars
    BY <1>10 DEF vars, SpacingInv, ReAlarmSpacing, NoneSince, ShouldAlarm, Confirms, OngoingDue,
                 Accumulate
  <1> QED
    BY <1>1, <1>2, <1>3, <1>4, <1>5, <1>6, <1>7, <1>8, <1>9, <1>10 DEF Next

\* While the evaluations of a sensor neither overlap nor fail, an alarm is repeated
\* only when the re-alarm interval has passed since the last row, however long each
\* of them takes between its reads and its writes (sensor_evaluator.py:94-101).
THEOREM ReAlarmSpacingHolds ==
  ASSUME OneAtATime
  PROVE  Spec => []ReAlarmSpacing
  <1>1. SpacingInv => ReAlarmSpacing
    BY DEF SpacingInv
  <1>2. TypeOK /\ SpacingInv /\ [Next]_vars => SpacingInv'
    BY SpacingStep
  <1> QED BY <1>1, <1>2, TypeInit, TypeStep, SpacingInit, PTL DEF Spec

-----------------------------------------------------------------------------
(* No transition alarm without its evidence.                               *)

Observation == [status : Status, at : Nat]

\* A counter counts no more than its evidence: distinct observations of its
\* status among the first n, made since the window began (the first of them began
\* it).
Backed(c, s, n, obs) ==
    /\ IsFiniteSet(c.evidence)
    /\ Cardinality(c.evidence) >= c.count
    /\ c.evidence \subseteq 1 .. n
    /\ c.evidence = {} => c.first = 0
    /\ \A i \in c.evidence : obs[i].status = s /\ c.first <= obs[i].at

\* A running evaluation knows its own observation and holds counters that are
\* backed by earlier ones.
Informed(l, obs) ==
    /\ l.id \in 1 .. Len(obs)
    /\ obs[l.id].status = l.observed
    /\ obs[l.id].at = l.now
    /\ \A i \in 1 .. l.id : obs[i].at <= l.now
    /\ \A s \in Status : Backed(l.snap.window[s], s, l.id - 1, obs)

\* The inductive invariant: what is counted in the hash and in every snapshot is
\* backed, since a stale snapshot that is written back was backed when it was read.
EvidenceInv ==
    /\ \A i \in 1 .. Len(seen) : seen[i].at <= clock
    /\ \A s \in Status : Backed(hash.window[s], s, Len(seen), seen)
    /\ \A e \in Evaluators : pc[e] # "idle" => Informed(local[e], seen)
    /\ EvidenceSound

-----------------------------------------------------------------------------
\* A counter at zero needs no evidence.
LEMMA NothingBacked ==
  ASSUME NEW s \in Status, NEW n \in Nat, NEW obs
  PROVE  Backed(NoCount, s, n, obs)
  BY FS_EmptySet DEF Backed, NoCount

\* Evidence is not lost when more observations come in.
LEMMA BackedGrow ==
  ASSUME NEW c, NEW s, NEW n \in Nat, NEW m \in Nat, n <= m, NEW obs, NEW more,
         \A i \in 1 .. n : more[i] = obs[i],
         Backed(c, s, n, obs)
  PROVE  Backed(c, s, m, more)
  <1>1. 1 .. n \subseteq 1 .. m
    OBVIOUS
  <1> QED BY <1>1 DEF Backed

LEMMA InformedGrow ==
  ASSUME NEW l \in LocalType, NEW obs, NEW more, Len(obs) \in Nat, Len(more) \in Nat,
         Len(obs) <= Len(more),
         \A i \in 1 .. Len(obs) : more[i] = obs[i],
         Informed(l, obs)
  PROVE  Informed(l, more)
  <1>1. l.id \in 1 .. Len(obs) /\ l.id - 1 \in Nat
    BY DEF Informed, LocalType
  <1>2. \A s \in Status : Backed(l.snap.window[s], s, l.id - 1, more)
    BY <1>1, BackedGrow DEF Informed
  <1> QED BY <1>1, <1>2 DEF Informed

\* One more observation: the counter is backed by it and, unless the window
\* starts again, by all that it had, and the window is not exceeded.
LEMMA AccumulateBacked ==
  ASSUME NEW l \in LocalType, NEW obs \in Seq(Observation), Informed(l, obs)
  PROVE  /\ Backed(Accumulate(l), l.observed, l.id, obs)
         /\ \A i \in Accumulate(l).evidence :
              /\ obs[i].at <= l.now
              /\ l.now - obs[i].at <= Window(l.snap.state, l.observed)
  <1> DEFINE w == l.snap.window[l.observed]
             width == Window(l.snap.state, l.observed)
  <1>1. w \in Counter /\ l.now \in Nat /\ l.id \in Nat /\ l.observed \in Status
    BY DEF LocalType, HashType
  <1>2. width \in Nat
    BY ConstantsAssumption DEF ConstantsAssumption, Window
  <1>3. Backed(w, l.observed, l.id - 1, obs)
    BY <1>1 DEF Informed
  <1>4. l.id \in 1 .. Len(obs) /\ Len(obs) \in Nat
    BY DEF Informed
  <1>5. \A i \in 1 .. l.id : obs[i].at \in Nat /\ obs[i].at <= l.now
    <2>1. \A i \in 1 .. l.id : obs[i] \in Observation
      BY <1>4
    <2> QED BY <2>1 DEF Informed, Observation
  <1>6. obs[l.id].status = l.observed /\ obs[l.id].at = l.now
    BY DEF Informed
  <1> HIDE DEF w, width
  <1>7. CASE w.first = 0 \/ l.now - w.first > width
    <2>1. Accumulate(l) = [count |-> 1, first |-> l.now, evidence |-> {l.id}]
      BY <1>7 DEF Accumulate, w, width
    <2>2. IsFiniteSet({l.id}) /\ Cardinality({l.id}) = 1
      BY FS_Singleton
    <2>3. Backed(Accumulate(l), l.observed, l.id, obs)
      BY <1>1, <1>4, <1>6, <2>1, <2>2 DEF Backed
    <2>4. \A i \in Accumulate(l).evidence : obs[i].at <= l.now /\ l.now - obs[i].at <= width
      BY <1>1, <1>2, <1>6, <2>1
    <2> QED BY <2>3, <2>4 DEF width
  <1>8. CASE ~(w.first = 0 \/ l.now - w.first > width)
    <2>1. Accumulate(l) = [count |-> w.count + 1, first |-> w.first,
                           evidence |-> w.evidence \cup {l.id}]
      BY <1>8 DEF Accumulate, w, width
    <2>2. l.id \notin w.evidence /\ w.evidence \subseteq 1 .. (l.id - 1)
      BY <1>1, <1>3 DEF Backed
    <2>3. /\ IsFiniteSet(w.evidence \cup {l.id})
          /\ Cardinality(w.evidence \cup {l.id}) = Cardinality(w.evidence) + 1
      BY <1>3, <2>2, FS_AddElement DEF Backed
    <2>4. Cardinality(w.evidence) \in Nat /\ Cardinality(w.evidence) >= w.count
      BY <1>3, FS_CardinalityType DEF Backed
    <2>5. w.count \in Nat /\ w.first \in Nat /\ l.now - w.first <= width
      BY <1>1, <1>2, <1>8 DEF Counter
    <2>6. w.evidence \cup {l.id} \subseteq 1 .. l.id
      BY <1>4, <2>2
    <2>7. w.first <= l.now
      <3>1. CASE w.evidence = {}
        BY <1>3, <1>8, <3>1 DEF Backed
      <3>2. CASE w.evidence # {}
        BY <1>1, <1>3, <1>5, <2>5, <2>6, <3>2 DEF Backed
      <3> QED BY <3>1, <3>2
    <2>8. \A i \in w.evidence \cup {l.id} :
            obs[i].status = l.observed /\ w.first <= obs[i].at
      BY <1>3, <1>6, <2>7 DEF Backed
    <2>9. \A i \in w.evidence \cup {l.id} : obs[i].at <= l.now /\ l.now - obs[i].at <= width
      BY SMTT(30), <1>1, <1>2, <1>5, <2>5, <2>6, <2>8
    <2>10. Backed(Accumulate(l), l.observed, l.id, obs)
      BY <2>1, <2>3, <2>4, <2>5, <2>6, <2>8 DEF Backed
    <2> QED BY <2>1, <2>9, <2>10 DEF width
  <1> QED BY <1>7, <1>8

-----------------------------------------------------------------------------
\* Evidence that justified an alarm goes on to justify it.
LEMMA JustifiesKept ==
  ASSUME NEW evidence, NEW from, NEW to, NEW now,
         Len(seen) \in Nat, Len(seen') \in Nat, Len(seen) <= Len(seen'),
         \A i \in 1 .. Len(seen) : seen'[i] = seen[i],
         Justifies(evidence, from, to, now)
  PROVE  Justifies(evidence, from, to, now)'
  <1>1. Threshold(from, to)' = Threshold(from, to) /\ Window(from, to)' = Window(from, to)
    BY DEF Threshold, Window, IsEscalation
  <1>2. \A i \in evidence : i \in 1 .. Len(seen') /\ seen'[i] = seen[i]
    BY DEF Justifies
  <1> QED BY <1>1, <1>2 DEF Justifies

\* What is read from the hash is backed.
LEMMA StoredBacked ==
  ASSUME TypeOK, EvidenceInv
  PROVE  \A s \in Status : /\ Backed(Stored.window[s], s, Len(seen), seen)
                          /\ Backed(EmptyHash.window[s], s, Len(seen), seen)
  <1>1. \A s \in Status : EmptyHash.window[s] = NoCount
    BY DEF EmptyHash
  <1>2. Len(seen) \in Nat
    BY DEF TypeOK
  <1> QED BY <1>1, <1>2, NothingBacked DEF EvidenceInv, Stored

\* A write of backed counters keeps the counters in the hash backed.
LEMMA WriteBacked ==
  ASSUME EvidenceInv, NEW h, Write(h), seen' = seen,
         \A s \in Status : Backed(h.window[s], s, Len(seen), seen)
  PROVE  \A s \in Status : Backed(hash'.window[s], s, Len(seen'), seen')
  BY DEF Write, EvidenceInv

\* An evaluation that goes on or is reset remains informed.
LEMMA FrameInformed ==
  ASSUME EvidenceInv, seen' = seen,
         \A x \in Evaluators :
            pc'[x] # "idle" => pc[x] # "idle" /\ local'[x] = local[x]
  PROVE  \A x \in Evaluators : pc'[x] # "idle" => Informed(local'[x], seen')
  BY DEF EvidenceInv

\* Nothing changes for the alarms that exist.
LEMMA EvidenceSoundKept ==
  ASSUME EvidenceSound, alarms' = alarms,
         Len(seen) \in Nat, Len(seen') \in Nat, Len(seen) <= Len(seen'),
         \A i \in 1 .. Len(seen) : seen'[i] = seen[i]
  PROVE  EvidenceSound'
  <1> SUFFICES ASSUME NEW k \in 1 .. Len(alarms'), alarms'[k].reason = "transition"
               PROVE  Justifies(alarms[k].evidence, alarms[k].from, alarms[k].to,
                                alarms[k].now)'
    BY DEF EvidenceSound
  <1>1. Justifies(alarms[k].evidence, alarms[k].from, alarms[k].to, alarms[k].now)
    BY DEF EvidenceSound
  <1> DEFINE a == alarms[k]
  <1>2. a' = a
    OBVIOUS
  <1> HIDE DEF a
  <1>3. Justifies(a.evidence, a.from, a.to, a.now)
    BY <1>1 DEF a
  <1>4. \A evidence, from, to, now :
          Justifies(evidence, from, to, now) => Justifies(evidence, from, to, now)'
    BY JustifiesKept
  <1>5. Justifies(a.evidence, a.from, a.to, a.now)'
    BY <1>2, <1>3, <1>4 DEF Justifies, Threshold, Window, IsEscalation
  <1> QED BY <1>5 DEF a

LEMMA EvidenceInit == Init => EvidenceInv
  <1> SUFFICES ASSUME Init PROVE EvidenceInv
    OBVIOUS
  <1>1. Len(seen) = 0 /\ Len(alarms) = 0
    BY DEF Init
  <1>2. \A s \in Status : Backed(hash.window[s], s, Len(seen), seen)
    BY <1>1, NothingBacked DEF Init, EmptyHash
  <1> QED BY <1>1, <1>2 DEF Init, EvidenceInv, EvidenceSound

LEMMA EvidenceStep == TypeOK /\ EvidenceInv /\ [Next]_vars => EvidenceInv'
  <1> SUFFICES ASSUME TypeOK, EvidenceInv, [Next]_vars PROVE EvidenceInv'
    OBVIOUS
  <1> DEFINE Times == \A i \in 1 .. Len(seen) : seen[i].at <= clock
             Counters == \A s \in Status : Backed(hash.window[s], s, Len(seen), seen)
             Locals == \A e \in Evaluators : pc[e] # "idle" => Informed(local[e], seen)
  <1>a. Len(seen) \in Nat /\ seen \in Seq(Observation) /\ clock \in Nat
    BY DEF TypeOK, Observation
  <1>b. TypeOK'
    BY TypeStep
  \* A step that makes no observation and raises no alarm.
  <1>c. ASSUME seen' = seen, clock' = clock, alarms' = alarms PROVE Times' /\ EvidenceSound'
    <2>1. Times'
      BY <1>c DEF EvidenceInv
    <2>2. EvidenceSound'
      BY <1>a, <1>c, EvidenceSoundKept DEF EvidenceInv
    <2> QED BY <2>1, <2>2
  <1>d. ASSUME NEW e \in Evaluators, seen' = seen, pc[e] # "idle",
               Return(e) \/ AfterCounters(e)
        PROVE  Locals'
    <2>1. \A x \in Evaluators :
            pc'[x] # "idle" => pc[x] # "idle" /\ local'[x] = local[x]
      BY <1>d, ReturnFrame, AfterCountersFrame
    <2> QED BY <1>d, <2>1, FrameInformed
  <1>1. CASE Tick
    <2>1. /\ seen' = seen /\ alarms' = alarms /\ hash' = hash /\ clock' = clock + 1
          /\ pc' = pc /\ local' = local
      BY <1>1 DEF Tick
    <2>2. Times'
      <3>1. \A i \in 1 .. Len(seen) : seen[i] \in Observation
        BY <1>a
      <3>2. \A i \in 1 .. Len(seen) : seen[i].at \in Nat
        BY <3>1 DEF Observation
      <3> QED BY <1>a, <2>1, <3>2 DEF EvidenceInv
    <2>3. Counters' /\ Locals'
      BY <2>1 DEF EvidenceInv
    <2>4. EvidenceSound'
      BY <1>a, <2>1, EvidenceSoundKept DEF EvidenceInv
    <2> QED BY <2>2, <2>3, <2>4 DEF EvidenceInv
  <1>2. ASSUME NEW e \in Evaluators, NEW s \in Status, Begin(e, s) PROVE EvidenceInv'
    <2>1. PICK l \in LocalType :
            /\ local' = [local EXCEPT ![e] = l]
            /\ l.id = Len(seen) + 1
            /\ l.observed = s
            /\ l.now = clock
            /\ l.snap \in {Stored, EmptyHash}
            /\ \E label \in {"reset", "clear", "count"} : pc' = [pc EXCEPT ![e] = label]
      BY <1>2, BeginLocal
    <2>2. /\ seen' = Append(seen, [status |-> s, at |-> clock])
          /\ alarms' = alarms /\ hash' = hash /\ clock' = clock
      BY <1>2 DEF Begin
    <2>3. /\ Len(seen') = Len(seen) + 1
          /\ \A i \in 1 .. Len(seen) : seen'[i] = seen[i]
          /\ seen'[Len(seen) + 1] = [status |-> s, at |-> clock]
      BY <1>a, <2>2
    <2>4. Times'
      BY <1>a, <2>2, <2>3 DEF EvidenceInv
    <2>5. Counters'
      <3> SUFFICES ASSUME NEW t \in Status
                   PROVE  Backed(hash.window[t], t, Len(seen'), seen')
        BY <2>2
      <3>1. Backed(hash.window[t], t, Len(seen), seen)
        BY DEF EvidenceInv
      <3> QED BY <1>a, <2>3, <3>1, BackedGrow
    <2>6. Informed(l, seen')
      <3>1. \A t \in Status : Backed(l.snap.window[t], t, Len(seen), seen)
        BY <2>1, StoredBacked
      <3>2. \A t \in Status : Backed(l.snap.window[t], t, l.id - 1, seen')
        BY <1>a, <2>1, <2>3, <3>1, BackedGrow
      <3>3. \A i \in 1 .. l.id : seen'[i].at <= l.now
        BY <1>a, <2>1, <2>2, <2>3, <2>4
      <3> QED BY <1>a, <2>1, <2>3, <3>2, <3>3 DEF Informed
    <2>7. \A x \in Evaluators : \/ local'[x] = local[x] /\ pc'[x] = pc[x]
                                \/ local'[x] = l
      BY <2>1 DEF TypeOK
    <2>8. Locals'
      <3> SUFFICES ASSUME NEW x \in Evaluators, pc'[x] # "idle"
                   PROVE  Informed(local'[x], seen')
        OBVIOUS
      <3>1. CASE local'[x] = l
        BY <2>6, <3>1
      <3>2. CASE local'[x] = local[x] /\ pc'[x] = pc[x]
        <4>1. Informed(local[x], seen) /\ local[x] \in LocalType
          BY <3>2 DEF EvidenceInv, TypeOK
        <4>2. Informed(local[x], seen')
          BY <1>a, <2>3, <4>1, InformedGrow
        <4> QED BY <3>2, <4>2
      <3> QED BY <2>7, <3>1, <3>2
    <2>9. EvidenceSound'
      BY <1>a, <2>2, <2>3, EvidenceSoundKept DEF EvidenceInv
    <2> QED BY <2>4, <2>5, <2>8, <2>9 DEF EvidenceInv
  <1>3. ASSUME NEW e \in Evaluators, ResetSafer(e) PROVE EvidenceInv'
    <2>1. PICK s \in local[e].todo :
            /\ Write([Stored EXCEPT !.window[s] = NoCount])
            /\ local' = [local EXCEPT ![e].todo = @ \ {s}]
      BY <1>3 DEF ResetSafer
    <2>2. s \in Status /\ NoCount \in Counter
      BY <2>1 DEF TypeOK, LocalType, NoCount, Counter
    <2>3. seen' = seen /\ alarms' = alarms /\ clock' = clock /\ pc' = pc
      BY <1>3 DEF ResetSafer
    <2> DEFINE h == [Stored EXCEPT !.window[s] = NoCount]
    <2>4. h.window = [Stored.window EXCEPT ![s] = NoCount] /\ Stored.window \in [Status -> Counter]
      BY <2>2, StoredType, SetCounterType DEF HashType
    <2>5. Write(h)
      BY <2>1
    <2> HIDE DEF h
    <2>6. \A t \in Status : Backed(h.window[t], t, Len(seen), seen)
      BY <1>a, <2>4, NothingBacked, StoredBacked
    <2>7. Counters'
      BY <2>3, <2>5, <2>6, WriteBacked
    <2>8. ASSUME NEW x \in Evaluators, pc'[x] # "idle" PROVE Informed(local'[x], seen')
      <3>1. /\ local'[x].snap = local[x].snap /\ local'[x].id = local[x].id
            /\ local'[x].now = local[x].now /\ local'[x].observed = local[x].observed
        BY <2>1 DEF TypeOK, LocalType
      <3>2. Informed(local[x], seen)
        BY <2>3, <2>8 DEF EvidenceInv
      <3> QED BY <2>3, <3>1, <3>2 DEF Informed
    <2>9. Times' /\ EvidenceSound'
      BY <1>c, <2>3
    <2> QED BY <2>7, <2>8, <2>9 DEF EvidenceInv
  <1>4. ASSUME NEW e \in Evaluators, ResetDone(e) PROVE EvidenceInv'
    <2>1. /\ seen' = seen /\ alarms' = alarms /\ clock' = clock /\ hash' = hash
          /\ pc[e] # "idle" /\ AfterCounters(e)
      BY <1>4 DEF ResetDone
    <2>2. Locals' /\ Times' /\ EvidenceSound'
      BY <1>c, <1>d, <2>1
    <2> QED BY <2>1, <2>2 DEF EvidenceInv
  <1>5. ASSUME NEW e \in Evaluators, Count(e) PROVE EvidenceInv'
    <2> DEFINE l == local[e]
               h == [Stored EXCEPT !.window[l.observed] = Accumulate(l)]
    <2>1. /\ seen' = seen /\ alarms' = alarms /\ clock' = clock
          /\ pc[e] # "idle" /\ AfterCounters(e) /\ Write(h)
      BY <1>5 DEF Count
    <2>2. l \in LocalType /\ l.observed \in Status /\ l.id \in Nat
      BY DEF TypeOK, LocalType
    <2>3. /\ h.window = [Stored.window EXCEPT ![l.observed] = Accumulate(l)]
          /\ Stored.window \in [Status -> Counter]
      BY <2>2, StoredType, AccumulateType, SetCounterType DEF HashType
    <2>4. Backed(Accumulate(l), l.observed, Len(seen), seen)
      <3>1. Informed(l, seen)
        BY <2>1 DEF EvidenceInv
      <3>2. Backed(Accumulate(l), l.observed, l.id, seen) /\ l.id <= Len(seen)
        BY <1>a, <2>2, <3>1, AccumulateBacked DEF Informed
      <3> HIDE DEF l
      <3> QED BY <1>a, <2>2, <3>2, BackedGrow
    <2> HIDE DEF h, l
    <2>5. \A t \in Status : Backed(h.window[t], t, Len(seen), seen)
      BY <2>2, <2>3, <2>4, StoredBacked
    <2>6. Counters'
      BY <2>1, <2>5, WriteBacked
    <2>7. Locals' /\ Times' /\ EvidenceSound'
      BY <1>c, <1>d, <2>1
    <2> QED BY <2>6, <2>7 DEF EvidenceInv
  <1>6. ASSUME NEW e \in Evaluators, Clear(e) PROVE EvidenceInv'
    <2> DEFINE h == [Stored EXCEPT !.window = [s \in Status |-> NoCount]]
    <2>1. /\ seen' = seen /\ alarms' = alarms /\ clock' = clock
          /\ pc[e] # "idle" /\ AfterCounters(e) /\ Write(h)
      BY <1>6 DEF Clear
    <2>2. h.window = [s \in Status |-> NoCount]
      BY StoredType, ClearCountersType
    <2> HIDE DEF h
    <2>3. \A t \in Status : Backed(h.window[t], t, Len(seen), seen)
      BY <1>a, <2>2, NothingBacked
    <2>4. Counters'
      BY <2>1, <2>3, WriteBacked
    <2>5. Locals' /\ Times' /\ EvidenceSound'
      BY <1>c, <1>d, <2>1
    <2> QED BY <2>4, <2>5 DEF EvidenceInv
  <1>7. ASSUME NEW e \in Evaluators, RaiseAlarm(e) PROVE EvidenceInv'
    <2> DEFINE l == local[e]
               row == [reason |-> IF Confirms(l) THEN "transition" ELSE "ongoing",
                       from |-> l.snap.state, to |-> TargetState(l), now |-> l.now,
                       at |-> clock,
                       evidence |-> IF Confirms(l) THEN Accumulate(l).evidence ELSE {}]
    <2>1. /\ seen' = seen /\ clock' = clock /\ hash' = hash /\ local' = local
          /\ pc[e] # "idle" /\ alarms' = Append(alarms, row)
          /\ \A x \in Evaluators : x # e => pc'[x] = pc[x]
      BY <1>7 DEF RaiseAlarm, Goto, TypeOK
    <2>2. Times' /\ Counters' /\ Locals'
      BY <2>1 DEF EvidenceInv
    <2>3. /\ Len(alarms) \in Nat /\ Len(alarms') = Len(alarms) + 1
          /\ \A k \in 1 .. Len(alarms) : alarms'[k] = alarms[k]
          /\ alarms'[Len(alarms) + 1] = row
      <3> HIDE DEF row
      <3> QED BY <2>1 DEF TypeOK
    <2>4. row.reason = "transition" => Justifies(row.evidence, row.from, row.to, row.now)
      <3> SUFFICES ASSUME Confirms(l)
                   PROVE  Justifies(Accumulate(l).evidence, l.snap.state, l.observed, l.now)
        BY DEF TargetState
      <3>1. l \in LocalType /\ Informed(l, seen) /\ l.id \in 1 .. Len(seen)
        BY <2>1 DEF TypeOK, EvidenceInv, Informed
      <3>2. /\ Backed(Accumulate(l), l.observed, l.id, seen)
            /\ \A i \in Accumulate(l).evidence :
                 /\ seen[i].at <= l.now
                 /\ l.now - seen[i].at <= Window(l.snap.state, l.observed)
        BY <1>a, <3>1, AccumulateBacked
      <3>3. Accumulate(l).count >= Threshold(l.snap.state, l.observed)
        BY DEF Confirms
      <3>4. Accumulate(l).count \in Nat
        BY <3>1, AccumulateType DEF Counter
      <3>5. Threshold(l.snap.state, l.observed) \in Nat
        BY ConstantsAssumption DEF ConstantsAssumption, Threshold
      <3>6. Cardinality(Accumulate(l).evidence) >= Threshold(l.snap.state, l.observed)
        <4>1. Cardinality(Accumulate(l).evidence) \in Nat
          BY <3>2, FS_CardinalityType DEF Backed
        <4> QED BY <3>2, <3>3, <3>4, <3>5, <4>1 DEF Backed
      <3>7. \A i \in Accumulate(l).evidence : i \in 1 .. Len(seen) /\ seen[i].status = l.observed
        BY <1>a, <3>1, <3>2 DEF Backed
      <3> HIDE DEF l
      <3> QED BY <3>2, <3>6, <3>7 DEF Justifies
    <2> HIDE DEF row
    <2>5. ASSUME NEW evidence, NEW from, NEW to, NEW now, Justifies(evidence, from, to, now)
          PROVE  Justifies(evidence, from, to, now)'
      BY <2>1, <2>5 DEF Justifies, Threshold, Window, IsEscalation
    <2>6. ASSUME NEW k \in 1 .. Len(alarms'), alarms'[k].reason = "transition"
          PROVE  Justifies(alarms[k].evidence, alarms[k].from, alarms[k].to, alarms[k].now)'
      <3>1. CASE k = Len(alarms) + 1
        BY <2>1, <2>3, <2>4, <2>6, <3>1 DEF Justifies, Threshold, Window, IsEscalation
      <3>2. CASE k # Len(alarms) + 1
        <4>1. k \in 1 .. Len(alarms) /\ alarms'[k] = alarms[k]
          BY <2>3, <3>2
        <4>2. Justifies(alarms[k].evidence, alarms[k].from, alarms[k].to, alarms[k].now)
          BY <2>6, <4>1 DEF EvidenceInv, EvidenceSound
        <4> QED BY <2>1, <4>1, <4>2 DEF Justifies, Threshold, Window, IsEscalation
      <3> QED BY <3>1, <3>2
    <2> QED BY <2>2, <2>6 DEF EvidenceInv, EvidenceSound
  <1>8. ASSUME NEW e \in Evaluators, Commit(e) PROVE EvidenceInv'
    <2> DEFINE h == [Stored EXCEPT !.state = TargetState(local[e]), !.lastAlarm = clock]
    <2>1. /\ seen' = seen /\ alarms' = alarms /\ clock' = clock
          /\ pc[e] # "idle" /\ Return(e) /\ Write(h)
      BY <1>8 DEF Commit
    <2>2. TargetState(local[e]) \in Status
      BY TargetStateType DEF TypeOK
    <2>3. h.window = Stored.window
      BY ZenonT(30), <1>a, <2>2, StoredType, CommitType
    <2> HIDE DEF h
    <2>4. Counters'
      BY <2>1, <2>3, StoredBacked, WriteBacked
    <2>5. Locals' /\ Times' /\ EvidenceSound'
      BY <1>c, <1>d, <2>1
    <2> QED BY <2>4, <2>5 DEF EvidenceInv
  <1>9. ASSUME NEW e \in Evaluators, Abort(e) PROVE EvidenceInv'
    <2>1. /\ seen' = seen /\ alarms' = alarms /\ clock' = clock /\ hash' = hash
          /\ \A x \in Evaluators :
               pc'[x] # "idle" => pc[x] # "idle" /\ local'[x] = local[x]
      BY <1>9 DEF Abort, Goto, TypeOK
    <2>2. Locals' /\ Times' /\ EvidenceSound'
      BY <1>c, <2>1, FrameInformed
    <2> QED BY <2>1, <2>2 DEF EvidenceInv
  <1>10. CASE UNCHANGED vars
    <2>1. /\ seen' = seen /\ alarms' = alarms /\ clock' = clock /\ hash' = hash
          /\ pc' = pc /\ local' = local
      BY <1>10 DEF vars
    <2>2. Times' /\ EvidenceSound'
      BY <1>c, <2>1
    <2> QED BY <2>1, <2>2 DEF EvidenceInv
  <1> QED
    BY <1>1, <1>2, <1>3, <1>4, <1>5, <1>6, <1>7, <1>8, <1>9, <1>10 DEF Next

\* Races between evaluations, lost writes and crashes never fabricate a
\* transition: each one has its threshold of distinct observations in its window.
THEOREM EvidenceSoundHolds == Spec => []EvidenceSound
  <1>1. EvidenceInv => EvidenceSound
    BY DEF EvidenceInv
  <1> QED BY <1>1, TypeInit, TypeStep, EvidenceInit, EvidenceStep, PTL DEF Spec

-----------------------------------------------------------------------------
(* The state of a sensor that keeps reporting does not lapse.              *)

\* The hash outlives the observation of evaluation e by the whole TTL.
Covered(e) == expireAt >= local[e].now + TTL

\* An evaluation that may yet return without writing is covered by a write made
\* since its observation: its own resets, or, if it saw "normal", whatever has
\* made the state abnormal in the meantime.
Renewed(e) ==
    /\ local[e].snap.state = "normal" /\ Stored.state # "normal" => Covered(e)
    /\ pc[e] = "reset" /\ local[e].todo = {} /\ local[e].snap.state # "normal" => Covered(e)

\* The inductive invariant.
LapseInv ==
    /\ lastDone <= clock
    /\ expireAt <= clock + TTL
    /\ \A e \in Evaluators : local[e].now <= clock
    /\ outages = 0 => \A e \in Evaluators : pc[e] # "idle" => Renewed(e)
    /\ LapseOnlyIfUnobserved

\* The times that are compared are numbers.
LEMMA Times ==
  ASSUME TypeOK
  PROVE  /\ clock \in Nat /\ expireAt \in Nat /\ lastDone \in Nat /\ outages \in Nat
         /\ TTL \in Nat
         /\ \A e \in Evaluators : local[e].now \in Nat
  BY ConstantsAssumption DEF TypeOK, LocalType, ConstantsAssumption

\* After a step that writes, every evaluation is covered, or Redis has failed.
LEMMA WriteLapse ==
  ASSUME TypeOK, TypeOK', LapseInv, NEW h, Write(h), clock' = clock, lastDone' <= clock,
         \A x \in Evaluators : local'[x].now <= clock
  PROVE  LapseInv'
  <1>1. outages' = 0 => expireAt' = clock + TTL
    BY Times DEF Write
  <1>2. expireAt' <= clock' + TTL
    BY Times DEF Write, LapseInv
  <1>3. \A x \in Evaluators : local'[x].now \in Nat
    BY DEF TypeOK, LocalType
  <1>4. outages' = 0 => \A x \in Evaluators : Covered(x)'
    BY <1>1, <1>3, Times DEF Covered
  <1>5. LapseOnlyIfUnobserved'
    BY <1>1, Times DEF LapseOnlyIfUnobserved, TypeOK
  <1>6. outages' = 0 => \A x \in Evaluators : pc'[x] # "idle" => Renewed(x)'
    BY <1>4 DEF Renewed
  <1> QED BY <1>2, <1>5, <1>6 DEF LapseInv

\* A return takes the time of the evaluation that returns into lastDone.
LEMMA ReturnTimes ==
  ASSUME TypeOK, LapseInv, NEW e \in Evaluators, Return(e) \/ AfterCounters(e)
  PROVE  /\ lastDone' <= clock
         /\ \A x \in Evaluators : local'[x].now <= clock
  <1>1. lastDone' <= clock
    BY Times DEF LapseInv, Return, AfterCounters
  <1>2. ASSUME NEW x \in Evaluators PROVE local'[x].now <= clock
    <2>1. local'[x] = local[x] \/ local'[x] = NotRunning
      BY ReturnFrame, AfterCountersFrame
    <2> QED BY <2>1, Times DEF LapseInv, NotRunning
  <1> QED BY <1>1, <1>2

LEMMA LapseInit == Init => LapseInv
  <1> SUFFICES ASSUME Init PROVE LapseInv
    OBVIOUS
  <1> QED
    BY ConstantsAssumption
    DEF Init, LapseInv, LapseOnlyIfUnobserved, NotRunning, Stored, EmptyHash,
        ConstantsAssumption

LEMMA LapseStep == TypeOK /\ LapseInv /\ [Next]_vars => LapseInv'
  <1> SUFFICES ASSUME TypeOK, LapseInv, [Next]_vars PROVE LapseInv'
    OBVIOUS
  <1>a. TypeOK'
    BY TypeStep
  <1>1. CASE Tick
    <2>1. /\ clock' = clock + 1
          /\ UNCHANGED <<hash, expireAt, pc, local, lastDone, outages>>
      BY <1>1 DEF Tick
    <2>2. Stored'.state # "normal" => Stored'.state = Stored.state
      BY <2>1, Times DEF Stored, EmptyHash
    <2>3. lastDone' <= clock' /\ expireAt' <= clock' + TTL
          /\ \A x \in Evaluators : local'[x].now <= clock'
      BY <2>1, Times DEF LapseInv
    <2>4. \A x \in Evaluators : Covered(x)' = Covered(x)
      BY <2>1 DEF Covered
    <2>5. ASSUME NEW x \in Evaluators, Renewed(x) PROVE Renewed(x)'
      BY <2>1, <2>2, <2>4, <2>5 DEF Renewed
    <2>6. LapseOnlyIfUnobserved'
      BY <2>1, <2>2 DEF LapseInv, LapseOnlyIfUnobserved
    <2> QED BY <2>1, <2>3, <2>5, <2>6 DEF LapseInv
  <1>2. ASSUME NEW e \in Evaluators, NEW s \in Status, Begin(e, s) PROVE LapseInv'
    <2>1. PICK l \in LocalType :
            /\ local' = [local EXCEPT ![e] = l]
            /\ l.now = clock
            /\ outages' = 0 => l.snap = Stored
            /\ l.todo = IF s = l.snap.state THEN SaferThan(l.snap.state) ELSE {}
            /\ \E label \in {"reset", "clear", "count"} :
                  pc' = [pc EXCEPT ![e] = label] /\ (s # l.snap.state => label # "reset")
            /\ outages' \in Nat
            /\ outages' >= outages
      BY <1>2, BeginLocal
    <2>2. UNCHANGED <<clock, hash, expireAt, lastDone>>
      BY <1>2 DEF Begin
    <2>3. outages' = 0 => outages = 0
      BY <2>1, Times
    <2>4. Stored' = Stored
      BY <2>2 DEF Stored
    <2>5. local'[e] = l /\ (pc'[e] = "reset" => s = l.snap.state)
          /\ \A x \in Evaluators : x # e => local'[x] = local[x] /\ pc'[x] = pc[x]
      BY <2>1 DEF TypeOK
    <2>6. ASSUME outages' = 0, pc'[e] = "reset", l.snap.state # "normal"
          PROVE  l.todo # {}
      <3>1. s = l.snap.state
        BY <2>5, <2>6
      <3>2. l.todo = SaferThan(s)
        BY <2>1, <3>1
      <3>3. "normal" \in SaferThan(s)
        BY <2>6, <3>1 DEF SaferThan, Rank, Status
      <3> QED BY <3>2, <3>3
    <2>7. outages' = 0 => Renewed(e)'
      BY <2>1, <2>4, <2>5, <2>6 DEF Renewed
    <2>8. ASSUME NEW x \in Evaluators, x # e, Renewed(x) PROVE Renewed(x)'
      BY <2>2, <2>4, <2>5, <2>8 DEF Renewed, Covered
    <2>9. \A x \in Evaluators : local'[x].now <= clock'
      BY <2>1, <2>2, <2>5, Times DEF LapseInv
    <2>10. LapseOnlyIfUnobserved'
      BY <2>2, <2>3, <2>4 DEF LapseInv, LapseOnlyIfUnobserved
    <2>11. outages' = 0 => \A x \in Evaluators : pc'[x] # "idle" => Renewed(x)'
      BY <2>3, <2>5, <2>7, <2>8 DEF LapseInv
    <2> QED BY <2>2, <2>9, <2>10, <2>11 DEF LapseInv
  <1>3. ASSUME NEW e \in Evaluators, ResetSafer(e) PROVE LapseInv'
    <2>1. PICK s \in local[e].todo :
            /\ Write([Stored EXCEPT !.window[s] = NoCount])
            /\ local' = [local EXCEPT ![e].todo = @ \ {s}]
      BY <1>3 DEF ResetSafer
    <2>2. clock' = clock /\ lastDone' = lastDone
      BY <1>3 DEF ResetSafer
    <2>3. \A x \in Evaluators : local'[x].now = local[x].now
      BY <2>1 DEF TypeOK, LocalType
    <2> QED BY <1>a, <2>1, <2>2, <2>3, WriteLapse DEF LapseInv
  <1>4. ASSUME NEW e \in Evaluators, ResetDone(e) PROVE LapseInv'
    <2>1. /\ UNCHANGED <<clock, hash, expireAt, outages>>
          /\ pc[e] = "reset" /\ local[e].todo = {} /\ AfterCounters(e)
      BY <1>4 DEF ResetDone
    <2>2. Stored' = Stored
      BY <2>1 DEF Stored
    <2>3. lastDone' <= clock /\ \A x \in Evaluators : local'[x].now <= clock
      BY <2>1, ReturnTimes
    <2>4. ASSUME NEW x \in Evaluators, pc'[x] # "idle", pc[x] # "idle" => Renewed(x)
          PROVE  Renewed(x)'
      <3>1. /\ local'[x] = local[x] /\ pc[x] # "idle"
            /\ pc'[x] = pc[x] \/ pc'[x] = "alarm"
        BY <2>1, <2>4, AfterCountersFrame
      <3> QED BY <2>1, <2>2, <2>4, <3>1 DEF Renewed, Covered
    <2>5. lastDone' = lastDone \/ lastDone' = local[e].now
      BY <2>1 DEF AfterCounters, Return
    <2>6. ASSUME outages = 0, Stored.state # "normal" PROVE expireAt >= lastDone' + TTL
      <3>1. Covered(e)
        BY <2>1, <2>6 DEF LapseInv, Renewed
      <3> QED BY <2>5, <2>6, <3>1 DEF Covered, LapseInv, LapseOnlyIfUnobserved
    <2>7. LapseOnlyIfUnobserved'
      BY <2>1, <2>2, <2>6 DEF LapseOnlyIfUnobserved
    <2> QED BY <2>1, <2>3, <2>4, <2>7 DEF LapseInv
  <1>5. ASSUME NEW e \in Evaluators, Count(e) \/ Clear(e) \/ Commit(e) PROVE LapseInv'
    <2>1. PICK h : Write(h)
      BY <1>5 DEF Count, Clear, Commit
    <2>2. clock' = clock /\ (Return(e) \/ AfterCounters(e))
      BY <1>5 DEF Count, Clear, Commit
    <2> QED BY <1>a, <2>1, <2>2, ReturnTimes, WriteLapse
  <1>6. ASSUME NEW e \in Evaluators, RaiseAlarm(e) PROVE LapseInv'
    <2>1. /\ UNCHANGED <<clock, hash, expireAt, outages, local, lastDone>>
          /\ pc[e] = "alarm"
          /\ pc'[e] = "commit" \/ pc'[e] = "idle"
          /\ \A x \in Evaluators : x # e => pc'[x] = pc[x]
      BY <1>6 DEF RaiseAlarm, Goto, TypeOK
    <2>2. Stored' = Stored
      BY <2>1 DEF Stored
    <2>3. \A x \in Evaluators : Renewed(x) => Renewed(x)'
      BY <2>1, <2>2 DEF Renewed, Covered
    <2>4. LapseOnlyIfUnobserved'
      BY <2>1, <2>2 DEF LapseInv, LapseOnlyIfUnobserved
    <2> QED BY <2>1, <2>3, <2>4 DEF LapseInv
  <1>7. ASSUME NEW e \in Evaluators, Abort(e) PROVE LapseInv'
    <2>1. /\ UNCHANGED <<clock, hash, expireAt, outages, lastDone>>
          /\ \A x \in Evaluators :
               \/ local'[x] = local[x] /\ pc'[x] = pc[x]
               \/ local'[x] = NotRunning /\ pc'[x] = "idle"
      BY <1>7 DEF Abort, Goto, TypeOK
    <2>2. Stored' = Stored
      BY <2>1 DEF Stored
    <2>3. \A x \in Evaluators : local'[x].now <= clock'
      BY <2>1, Times DEF LapseInv, NotRunning
    <2>4. \A x \in Evaluators : pc'[x] # "idle" /\ Renewed(x) => Renewed(x)'
      BY <2>1, <2>2 DEF Renewed, Covered
    <2>5. LapseOnlyIfUnobserved'
      BY <2>1, <2>2 DEF LapseInv, LapseOnlyIfUnobserved
    <2> QED BY <2>1, <2>3, <2>4, <2>5 DEF LapseInv
  <1>8. CASE UNCHANGED vars
    BY <1>8 DEF vars, LapseInv, LapseOnlyIfUnobserved, Renewed, Covered, Stored
  <1> QED
    BY <1>1, <1>2, <1>3, <1>4, <1>5, <1>6, <1>7, <1>8 DEF Next

\* As long as Redis answers, every finished evaluation leaves an abnormal state
\* with at least the whole TTL to live, counted from its observation.
THEOREM LapseOnlyIfUnobservedHolds == Spec => []LapseOnlyIfUnobserved
  <1>1. LapseInv => LapseOnlyIfUnobserved
    BY DEF LapseInv
  <1> QED BY <1>1, TypeInit, TypeStep, LapseInit, LapseStep, PTL DEF Spec

=============================================================================

-------------------------- MODULE WorkerAlarmProofs --------------------------
(***************************************************************************)
(* Theorems about WorkerAlarm, for any set of evaluators and situations,   *)
(* any intervals, and any number of observations, outages and crashes, and *)
(* about the evaluations of MCWorkerAlarm that run one after the other.    *)
(***************************************************************************)
EXTENDS MCWorkerAlarm, TLAPS

Labels == {"idle", "judge", "alarm", "notify", "commit"}

-----------------------------------------------------------------------------
(* What the operators return.                                              *)

\* The empty hash, and so the locals of an evaluation that does not run, are typed.
LEMMA EmptyHashType == EmptyHash \in HashType /\ NotRunning \in LocalType
  BY DEF EmptyHash, HashType, NotRunning, LocalType, State, NoPending

\* What a read of the hash returns is typed.
LEMMA StoredType == TypeOK => Stored \in HashType
  BY EmptyHashType DEF TypeOK, Stored

\* A worker is always in one of the four states.
LEMMA ClassifyType ==
  ASSUME NEW fences, NEW nearby
  PROVE  Classify(fences, nearby) \in State
  BY DEF Classify, State

\* Recording or dropping a recovery candidate leaves the state and the time of
\* the last alarm alone.
LEMMA PendingWrite ==
  ASSUME NEW h \in HashType, NEW p \in State \cup {NoPending}, NEW n \in Nat
  PROVE  /\ [h EXCEPT !.pending = p, !.count = n] \in HashType
         /\ [h EXCEPT !.pending = p, !.count = n].state = h.state
         /\ [h EXCEPT !.pending = p, !.count = n].lastAlarm = h.lastAlarm
  BY DEF HashType

\* The state that an evaluation commits is one of the four.
LEMMA TargetStateType ==
  ASSUME NEW l \in LocalType
  PROVE  TargetState(l) \in State
  BY DEF TargetState, LocalType, HashType

-----------------------------------------------------------------------------
(* What a step does to the evaluations.                                    *)

\* A return resets one evaluation.
LEMMA ReturnFrame ==
  ASSUME TypeOK, NEW e \in Evaluators, Return(e)
  PROVE  /\ \A x \in Evaluators :
              \/ local'[x] = local[x] /\ pc'[x] = pc[x]
              \/ local'[x] = NotRunning /\ pc'[x] = "idle"
         /\ local' \in [Evaluators -> LocalType]
         /\ pc' \in [Evaluators -> Labels]
         /\ lastDone' = lastDone \/ lastDone' = local[e].now
         /\ lastDone' \in Nat
  <1>1. local[e].now \in Nat
    BY DEF TypeOK, LocalType
  <1> QED BY <1>1, EmptyHashType DEF TypeOK, Return, Goto, Labels

\* After the recovery count an evaluation goes on to the alarm or returns.
LEMMA AfterPendingFrame ==
  ASSUME TypeOK, NEW e \in Evaluators, AfterPending(e)
  PROVE  /\ \A x \in Evaluators :
              \/ local'[x] = local[x] /\ pc'[x] = pc[x]
              \/ x = e /\ local'[x] = local[x] /\ pc'[x] = "alarm"
              \/ local'[x] = NotRunning /\ pc'[x] = "idle"
         /\ local' \in [Evaluators -> LocalType]
         /\ pc' \in [Evaluators -> Labels]
         /\ lastDone' = lastDone \/ lastDone' = local[e].now
         /\ lastDone' \in Nat
  <1>1. CASE Confirms(local[e]) \/ OngoingDue(local[e])
    BY <1>1 DEF AfterPending, Goto, TypeOK, Labels
  <1>2. CASE ~(Confirms(local[e]) \/ OngoingDue(local[e]))
    BY <1>2, ReturnFrame DEF AfterPending
  <1> QED BY <1>1, <1>2

\* What Begin puts into the locals.
LEMMA BeginLocal ==
  ASSUME TypeOK, NEW e \in Evaluators, NEW where \in Situations, Begin(e, where)
  PROVE  \E l \in LocalType :
            /\ l.now = clock
            /\ l.snap \in {Stored, EmptyHash}
            /\ outages' = 0 => outages = 0 /\ l.snap = Stored
            /\ local' \in [Evaluators -> LocalType]
            /\ pc' \in [Evaluators -> Labels]
            /\ \A x \in Evaluators :
                 \/ local'[x] = local[x] /\ pc'[x] = pc[x]
                 \/ x = e /\ local'[x] = l /\ pc'[x] = "judge"
            /\ seen' \in Seq([state : State, at : Nat])
            /\ outages' \in Nat
  <1> DEFINE observed == Classify(where.fences, where.nearby)
  <1>1. PICK reached \in BOOLEAN :
          /\ outages' = IF reached THEN outages ELSE outages + 1
          /\ seen' = Append(seen, [state |-> observed, at |-> clock])
          /\ local' = [local EXCEPT ![e] =
               [observed |-> observed, now |-> clock,
                snap |-> IF reached THEN Stored ELSE EmptyHash]]
    BY DEF Begin
  <1> DEFINE l == [observed |-> observed, now |-> clock,
                   snap |-> IF reached THEN Stored ELSE EmptyHash]
  <1>2. observed \in State /\ clock \in Nat
    BY ClassifyType DEF TypeOK
  <1> HIDE DEF observed
  <1>3. l \in LocalType
    BY <1>2, StoredType, EmptyHashType DEF LocalType
  <1>4. seen' \in Seq([state : State, at : Nat])
    BY <1>1, <1>2 DEF TypeOK
  <1>5. /\ l.now = clock
        /\ l.snap \in {Stored, EmptyHash}
        /\ outages' \in Nat
        /\ outages' = 0 => outages = 0 /\ l.snap = Stored
    BY <1>1 DEF TypeOK
  <1>6. local' = [local EXCEPT ![e] = l] /\ pc' = [pc EXCEPT ![e] = "judge"]
    BY <1>1 DEF Begin, Goto
  <1> HIDE DEF l
  <1>7. /\ local' \in [Evaluators -> LocalType]
        /\ pc' \in [Evaluators -> Labels]
        /\ \A x \in Evaluators :
             \/ local'[x] = local[x] /\ pc'[x] = pc[x]
             \/ x = e /\ local'[x] = l /\ pc'[x] = "judge"
    BY <1>3, <1>6 DEF TypeOK, Labels
  <1> QED BY <1>3, <1>4, <1>5, <1>7

\* What the two writes of the recovery count store.
LEMMA PendingStep ==
  ASSUME TypeOK, NEW e \in Evaluators, ClearPending(e) \/ SetPending(e)
  PROVE  \E h \in HashType :
            /\ h.state = Stored.state
            /\ h.lastAlarm = Stored.lastAlarm
            /\ Write(h)
            /\ AfterPending(e)
            /\ UNCHANGED <<clock, alarms, external, seen, aborts>>
  <1>1. CASE ClearPending(e)
    <2>1. Stored \in HashType /\ 0 \in Nat /\ NoPending \in State \cup {NoPending}
      BY StoredType
    <2>2. /\ [Stored EXCEPT !.pending = NoPending, !.count = 0] \in HashType
          /\ [Stored EXCEPT !.pending = NoPending, !.count = 0].state = Stored.state
          /\ [Stored EXCEPT !.pending = NoPending, !.count = 0].lastAlarm = Stored.lastAlarm
      BY <2>1, PendingWrite
    <2> QED BY <1>1, <2>2 DEF ClearPending
  <1>2. CASE SetPending(e)
    <2>1. local[e].observed \in State /\ local[e].snap.count \in Nat
      BY DEF TypeOK, LocalType, HashType
    <2>2. PendingCount(local[e]) \in Nat
      BY <2>1 DEF PendingCount
    <2> QED BY ZenonT(30), <1>2, <2>1, <2>2, StoredType, PendingWrite DEF SetPending
  <1> QED BY <1>1, <1>2

\* The row that an alarm adds.
LEMMA RaiseRow ==
  ASSUME TypeOK, NEW e \in Evaluators, RaiseAlarm(e)
  PROVE  \E row \in AlarmRow :
            alarms' = Append(alarms, row) /\ row.to = TargetState(local[e])
  <1> DEFINE reason == IF Confirms(local[e]) THEN "transition" ELSE "ongoing"
             row == [reason |-> reason, from |-> local[e].snap.state,
                     to |-> TargetState(local[e]), at |-> clock, seen |-> Len(seen)]
  <1>1. /\ reason \in {"transition", "ongoing"}
        /\ local[e].snap.state \in State
        /\ TargetState(local[e]) \in State
        /\ clock \in Nat /\ Len(seen) \in Nat
    BY TargetStateType DEF TypeOK, LocalType, HashType
  <1>2. alarms' = Append(alarms, row)
    BY DEF RaiseAlarm
  <1> HIDE DEF reason
  <1>3. row \in AlarmRow /\ row.to = TargetState(local[e])
    BY <1>1 DEF AlarmRow
  <1> QED BY <1>2, <1>3

\* What Commit stores.
LEMMA CommitStep ==
  ASSUME TypeOK, NEW e \in Evaluators, Commit(e)
  PROVE  \E h \in HashType :
            /\ h.state = TargetState(local[e])
            /\ h.lastAlarm = clock
            /\ Write(h)
  <1> DEFINE h == [state |-> TargetState(local[e]), lastAlarm |-> clock,
                   pending |-> NoPending, count |-> 0]
  <1>1. TargetState(local[e]) \in State /\ clock \in Nat
    BY TargetStateType DEF TypeOK
  <1>2. h \in HashType
    BY <1>1 DEF HashType
  <1> QED BY <1>2 DEF Commit

-----------------------------------------------------------------------------
(* Type correctness.                                                       *)

\* A write leaves the hash and its expiry typed.
LEMMA WriteType ==
  ASSUME TypeOK, NEW h \in HashType, Write(h)
  PROVE  hash' \in HashType /\ expireAt' \in Nat /\ outages' \in Nat
  BY WorkerConstantsAssumption DEF TypeOK, Write, WorkerConstantsAssumption

LEMMA TypeInit == Init => TypeOK
  <1> SUFFICES ASSUME Init PROVE TypeOK
    OBVIOUS
  <1>1. clock \in Nat /\ expireAt \in Nat
    BY WorkerConstantsAssumption DEF Init, WorkerConstantsAssumption
  <1> QED BY <1>1, EmptyHashType DEF Init, TypeOK

LEMMA TypeStep == TypeOK /\ [Next]_vars => TypeOK'
  <1> SUFFICES ASSUME TypeOK, [Next]_vars PROVE TypeOK'
    OBVIOUS
  <1> USE DEF Labels
  <1>1. CASE Tick
    BY <1>1 DEF Tick, TypeOK
  <1>2. ASSUME NEW e \in Evaluators, NEW where \in Situations, Begin(e, where)
        PROVE  TypeOK'
    <2>1. /\ local' \in [Evaluators -> LocalType] /\ pc' \in [Evaluators -> Labels]
          /\ seen' \in Seq([state : State, at : Nat]) /\ outages' \in Nat
      BY <1>2, BeginLocal
    <2> QED BY <1>2, <2>1 DEF Begin, TypeOK
  <1>3. ASSUME NEW e \in Evaluators, ClearPending(e) \/ SetPending(e) PROVE TypeOK'
    <2>1. PICK h \in HashType :
            /\ Write(h) /\ AfterPending(e)
            /\ UNCHANGED <<clock, alarms, external, seen, aborts>>
      BY <1>3, PendingStep
    <2> QED BY <2>1, WriteType, AfterPendingFrame DEF TypeOK
  <1>4. ASSUME NEW e \in Evaluators, NoPendingWrite(e) PROVE TypeOK'
    BY <1>4, AfterPendingFrame DEF NoPendingWrite, TypeOK
  <1>5. ASSUME NEW e \in Evaluators, RaiseAlarm(e) PROVE TypeOK'
    <2>1. PICK row \in AlarmRow : alarms' = Append(alarms, row)
      BY <1>5, RaiseRow
    <2>2. alarms' \in Seq(AlarmRow)
      BY <2>1 DEF TypeOK
    <2> QED BY <1>5, <2>2 DEF RaiseAlarm, Goto, TypeOK
  <1>6. ASSUME NEW e \in Evaluators, NotifyOutside(e) PROVE TypeOK'
    <2>1. TargetState(local[e]) \in State /\ Len(seen) \in Nat
      BY TargetStateType DEF TypeOK
    <2> DEFINE row == [to |-> TargetState(local[e]), seen |-> Len(seen)]
    <2>2. row \in [to : State, seen : Nat]
      BY <2>1
    <2>3. external' = Append(external, row) \/ external' = external
      BY <1>6 DEF NotifyOutside
    <2> DEFINE Notes == [to : State, seen : Nat]
    <2>4. row \in Notes /\ external \in Seq(Notes)
      BY <2>2 DEF TypeOK
    <2> HIDE DEF row, Notes
    <2>5. external' \in Seq(Notes)
      BY <2>3, <2>4
    <2>6. external' \in Seq([to : State, seen : Nat])
      BY <2>5 DEF Notes
    <2> QED BY <1>6, <2>6 DEF NotifyOutside, Goto, TypeOK
  <1>7. ASSUME NEW e \in Evaluators, Commit(e) PROVE TypeOK'
    BY <1>7, CommitStep, WriteType, ReturnFrame DEF Commit, TypeOK
  <1>8. ASSUME NEW e \in Evaluators, Abort(e) PROVE TypeOK'
    BY <1>8, EmptyHashType DEF Abort, Goto, TypeOK
  <1>9. CASE UNCHANGED vars
    BY <1>9 DEF vars, TypeOK
  <1> QED BY <1>1, <1>2, <1>3, <1>4, <1>5, <1>6, <1>7, <1>8, <1>9 DEF Next

\* Every variable keeps its type whatever evaluations overlap, fail or crash.
THEOREM TypeCorrect == Spec => []TypeOK
  BY TypeInit, TypeStep, PTL DEF Spec

-----------------------------------------------------------------------------
(* No state worse than "safe" without its alarm.                           *)

\* The inductive invariant: NoSilentState, and the same of every snapshot, which
\* an ongoing alarm repeats, and of every state that is about to be committed.
AnnouncedInv ==
    /\ NoSilentState
    /\ \A e \in Evaluators :
         /\ local[e].snap.state # "safe" => HasAlarm(local[e].snap.state)
         /\ pc[e] \in {"notify", "commit"} => HasAlarm(TargetState(local[e]))

\* The operators that the invariant uses depend on the record they are given only,
\* and HasAlarm on the table only.
LEMMA AlarmsKept ==
  ASSUME TypeOK, NEW s, HasAlarm(s),
         \/ alarms' = alarms
         \/ \E row \in AlarmRow : alarms' = Append(alarms, row)
  PROVE  HasAlarm(s)'
  <1>1. PICK k \in 1 .. Len(alarms) : alarms[k].to = s
    BY DEF HasAlarm
  <1>2. alarms \in Seq(AlarmRow)
    BY DEF TypeOK
  <1>3. k \in 1 .. Len(alarms') /\ alarms'[k] = alarms[k]
    <2>1. CASE \E row \in AlarmRow : alarms' = Append(alarms, row)
      <3>1. PICK row \in AlarmRow : alarms' = Append(alarms, row)
        BY <2>1
      <3> QED BY <1>2, <3>1
    <2>2. CASE alarms' = alarms
      BY <2>2
    <2> QED BY <2>1, <2>2
  <1> QED BY <1>1, <1>3 DEF HasAlarm

\* The state that is read is the one last written, or "safe".
LEMMA StoredState == Stored.state = hash.state \/ Stored.state = "safe"
  BY DEF Stored, EmptyHash

\* Evaluations that stay as they are, go on to their alarm or are reset keep what
\* the invariant says of them.
LEMMA EvaluationsKept ==
  ASSUME AnnouncedInv, alarms' = alarms, NoSilentState',
         \A x \in Evaluators :
            \/ local'[x] = local[x] /\ (pc'[x] = pc[x] \/ pc'[x] = "alarm")
            \/ local'[x] = NotRunning /\ pc'[x] = "idle"
  PROVE  AnnouncedInv'
  BY DEF AnnouncedInv, HasAlarm, TargetState, Confirms, IsRecovery, PendingCount,
         NotRunning, EmptyHash

LEMMA AnnouncedInit == Init => AnnouncedInv
  BY DEF Init, AnnouncedInv, NoSilentState, EmptyHash, NotRunning

LEMMA AnnouncedStep == TypeOK /\ AnnouncedInv /\ [Next]_vars => AnnouncedInv'
  <1> SUFFICES ASSUME TypeOK, AnnouncedInv, [Next]_vars PROVE AnnouncedInv'
    OBVIOUS
  <1>1. CASE Tick \/ UNCHANGED vars
    <2>1. UNCHANGED <<hash, pc, local, alarms>>
      BY <1>1 DEF Tick, vars
    <2>2. NoSilentState'
      BY <2>1 DEF AnnouncedInv, NoSilentState, HasAlarm
    <2> QED BY <2>1, <2>2, EvaluationsKept
  <1>2. ASSUME NEW e \in Evaluators, NEW where \in Situations, Begin(e, where)
        PROVE  AnnouncedInv'
    <2>1. PICK l \in LocalType :
            /\ l.snap \in {Stored, EmptyHash}
            /\ \A x \in Evaluators :
                 \/ local'[x] = local[x] /\ pc'[x] = pc[x]
                 \/ x = e /\ local'[x] = l /\ pc'[x] = "judge"
      BY <1>2, BeginLocal
    <2>2. UNCHANGED <<hash, alarms>>
      BY <1>2 DEF Begin
    <2>3. l.snap.state # "safe" => HasAlarm(l.snap.state)
      BY <2>1, StoredState DEF AnnouncedInv, NoSilentState, EmptyHash
    <2> QED
      BY <2>1, <2>2, <2>3
      DEF AnnouncedInv, NoSilentState, HasAlarm, TargetState, Confirms, IsRecovery, PendingCount
  <1>3. ASSUME NEW e \in Evaluators, ClearPending(e) \/ SetPending(e) PROVE AnnouncedInv'
    <2>1. PICK h \in HashType :
            h.state = Stored.state /\ Write(h) /\ AfterPending(e) /\ alarms' = alarms
      BY <1>3, PendingStep
    <2>2. NoSilentState'
      BY <2>1, StoredState DEF Write, AnnouncedInv, NoSilentState, HasAlarm
    <2> QED BY <2>1, <2>2, AfterPendingFrame, EvaluationsKept
  <1>4. ASSUME NEW e \in Evaluators, NoPendingWrite(e) PROVE AnnouncedInv'
    <2>1. AfterPending(e) /\ UNCHANGED <<hash, alarms>>
      BY <1>4 DEF NoPendingWrite
    <2>2. NoSilentState'
      BY <2>1 DEF AnnouncedInv, NoSilentState, HasAlarm
    <2> QED BY <2>1, <2>2, AfterPendingFrame, EvaluationsKept
  <1>5. ASSUME NEW e \in Evaluators, RaiseAlarm(e) PROVE AnnouncedInv'
    <2>1. PICK row \in AlarmRow :
            alarms' = Append(alarms, row) /\ row.to = TargetState(local[e])
      BY <1>5, RaiseRow
    <2>2. local' = local /\ hash' = hash
          /\ \A x \in Evaluators : x # e => pc'[x] = pc[x]
      BY <1>5 DEF RaiseAlarm, Goto, TypeOK
    <2>3. \E k \in 1 .. Len(alarms') : alarms'[k].to = TargetState(local[e])
      <3>1. /\ Len(alarms) + 1 \in 1 .. Len(alarms')
            /\ alarms'[Len(alarms) + 1] = row
        BY <2>1 DEF TypeOK
      <3> QED BY <2>1, <3>1
    <2>4. ASSUME NEW s, HasAlarm(s) PROVE HasAlarm(s)'
      BY <2>1, <2>4, AlarmsKept
    <2>5. NoSilentState'
      BY <2>2, <2>4 DEF AnnouncedInv, NoSilentState
    <2>6. ASSUME NEW x \in Evaluators, local'[x].snap.state # "safe"
          PROVE  HasAlarm(local[x].snap.state)'
      <3>1. HasAlarm(local[x].snap.state)
        BY <2>2, <2>6 DEF AnnouncedInv
      <3> QED BY <2>2, <2>4, <3>1 DEF HasAlarm
    <2>7. ASSUME NEW x \in Evaluators, pc'[x] \in {"notify", "commit"}
          PROVE  HasAlarm(TargetState(local[x]))'
      <3> DEFINE target == TargetState(local[x])
      <3>1. \E k \in 1 .. Len(alarms') : alarms'[k].to = target
        <4>1. CASE x = e
          BY <2>3, <4>1
        <4>2. CASE x # e
          <5>1. HasAlarm(target)
            BY <2>2, <2>7, <4>2 DEF AnnouncedInv
          <5> HIDE DEF target
          <5> QED BY <2>4, <5>1 DEF HasAlarm
        <4> QED BY <4>1, <4>2
      <3>2. TargetState(local[x])' = target
        BY <2>2 DEF TargetState, Confirms, IsRecovery, PendingCount
      <3> HIDE DEF target
      <3> QED BY <3>1, <3>2 DEF HasAlarm
    <2> QED BY <2>5, <2>6, <2>7 DEF AnnouncedInv
  <1>6. ASSUME NEW e \in Evaluators, NotifyOutside(e) PROVE AnnouncedInv'
    <2>1. /\ UNCHANGED <<hash, alarms, local>>
          /\ pc[e] = "notify"
          /\ \A x \in Evaluators : pc'[x] = pc[x] \/ x = e
      BY <1>6 DEF NotifyOutside, Goto, TypeOK
    <2> QED
      BY <2>1
      DEF AnnouncedInv, NoSilentState, HasAlarm, TargetState, Confirms, IsRecovery, PendingCount
  <1>7. ASSUME NEW e \in Evaluators, Commit(e) PROVE AnnouncedInv'
    <2>1. PICK h \in HashType : h.state = TargetState(local[e]) /\ Write(h)
      BY <1>7, CommitStep
    <2>2. alarms' = alarms /\ Return(e) /\ pc[e] = "commit"
      BY <1>7 DEF Commit
    <2>3. NoSilentState'
      BY <2>1, <2>2 DEF Write, AnnouncedInv, NoSilentState, HasAlarm
    <2> QED BY <2>2, <2>3, ReturnFrame, EvaluationsKept
  <1>8. ASSUME NEW e \in Evaluators, Abort(e) PROVE AnnouncedInv'
    <2>1. /\ UNCHANGED <<hash, alarms>>
          /\ \A x \in Evaluators :
               \/ local'[x] = local[x] /\ pc'[x] = pc[x]
               \/ local'[x] = NotRunning /\ pc'[x] = "idle"
      BY <1>8 DEF Abort, Goto, TypeOK
    <2>2. NoSilentState'
      BY <2>1 DEF AnnouncedInv, NoSilentState, HasAlarm
    <2> QED BY <2>1, <2>2, EvaluationsKept
  <1> QED BY <1>1, <1>2, <1>3, <1>4, <1>5, <1>6, <1>7, <1>8 DEF Next

\* No interleaving, outage or crash leaves a worker's hash in a state that no
\* alarm in the database has announced: evaluate_worker inserts the alarm before
\* it commits.
THEOREM NoSilentStateHolds == Spec => []NoSilentState
  <1>1. AnnouncedInv => NoSilentState
    BY DEF AnnouncedInv
  <1> QED BY <1>1, TypeInit, TypeStep, AnnouncedInit, AnnouncedStep, PTL DEF Spec

-----------------------------------------------------------------------------
(* The evaluations implement the ledger of AlarmLedger.                    *)

\* The states that the alarms name are those that have an alarm.
LEMMA AnnouncedHasAlarm == \A s : s \in Announced <=> HasAlarm(s)
  BY DEF Announced, HasAlarm

\* A write puts the state it carries in force, or nothing.
LEMMA WriteShows ==
  ASSUME TypeOK, NEW h, Write(h), UNCHANGED clock
  PROVE  Stored' = h \/ Stored' = Stored
  BY WorkerConstantsAssumption DEF Write, Stored, TypeOK

\* What a write of the state read before, of the quiet state or of an announced one
\* does to the ledger.
LEMMA WriteAdopts ==
  ASSUME TypeOK, NEW h, Write(h), UNCHANGED <<clock, alarms>>,
         h.state \in State, h.state = Stored.state \/ HasAlarm(h.state)
  PROVE  [Ledger!Next]_(Ledger!vars)
  <1>1. Announced' = Announced
    BY DEF Announced
  <1>2. CASE Stored'.state = Stored.state
    BY <1>1, <1>2 DEF Ledger!vars
  <1>3. CASE Stored'.state # Stored.state
    <2>1. Stored' = h /\ HasAlarm(h.state)
      BY <1>3, WriteShows
    <2>2. Ledger!Adopt(h.state)
      BY <1>1, <2>1, AnnouncedHasAlarm DEF Ledger!Adopt
    <2> QED BY <2>2 DEF Ledger!Next
  <1> QED BY <1>2, <1>3

LEMMA LedgerInit == Init => Ledger!Init
  <1> SUFFICES ASSUME Init PROVE Ledger!Init
    OBVIOUS
  <1>1. Stored.state = "safe"
    BY DEF Init, Stored, EmptyHash
  <1>2. Announced = {}
    BY DEF Init, Announced
  <1> QED BY <1>1, <1>2 DEF Ledger!Init

LEMMA LedgerStep == TypeOK /\ AnnouncedInv /\ [Next]_vars => [Ledger!Next]_(Ledger!vars)
  <1> SUFFICES ASSUME TypeOK, AnnouncedInv, [Next]_vars PROVE [Ledger!Next]_(Ledger!vars)
    OBVIOUS
  \* A step that leaves the hash and the alarms alone can only lapse.
  <1>a. ASSUME UNCHANGED <<hash, expireAt, alarms>> PROVE [Ledger!Next]_(Ledger!vars)
    <2>1. Announced' = Announced
      BY <1>a DEF Announced
    <2>2. Stored'.state \in {Stored.state, "safe", hash.state}
      BY <1>a DEF Stored, EmptyHash
    <2>3. hash.state \in State /\ (hash.state # "safe" => hash.state \in Announced)
      BY AnnouncedHasAlarm DEF TypeOK, HashType, AnnouncedInv, NoSilentState
    <2>4. CASE Stored'.state = Stored.state
      BY <2>1, <2>4 DEF Ledger!vars
    <2>5. CASE Stored'.state # Stored.state
      <3>1. Stored'.state \in State
        BY <2>2, <2>3, <2>5 DEF State
      <3>2. Ledger!Adopt(Stored'.state)
        BY <2>1, <2>2, <2>3, <2>5 DEF Ledger!Adopt
      <3> QED BY <3>1, <3>2 DEF Ledger!Next
    <2> QED BY <2>4, <2>5
  <1>1. CASE Tick
    BY <1>1, <1>a DEF Tick
  <1>2. ASSUME NEW e \in Evaluators, NEW where \in Situations, Begin(e, where)
        PROVE  [Ledger!Next]_(Ledger!vars)
    BY <1>2, <1>a DEF Begin
  <1>3. ASSUME NEW e \in Evaluators, ClearPending(e) \/ SetPending(e)
        PROVE  [Ledger!Next]_(Ledger!vars)
    <2>1. PICK h \in HashType :
            h.state = Stored.state /\ Write(h) /\ UNCHANGED <<clock, alarms>>
      BY <1>3, PendingStep
    <2>2. h.state \in State
      BY DEF HashType
    <2> QED BY <2>1, <2>2, WriteAdopts
  <1>4. ASSUME NEW e \in Evaluators, NoPendingWrite(e) PROVE [Ledger!Next]_(Ledger!vars)
    BY <1>4, <1>a DEF NoPendingWrite
  <1>5. ASSUME NEW e \in Evaluators, RaiseAlarm(e) PROVE [Ledger!Next]_(Ledger!vars)
    <2>1. PICK row \in AlarmRow :
            alarms' = Append(alarms, row) /\ row.to = TargetState(local[e])
      BY <1>5, RaiseRow
    <2>2. TargetState(local[e]) \in State /\ Stored' = Stored
      BY <1>5, TargetStateType DEF RaiseAlarm, TypeOK, Stored
    <2>3. Announced' = Announced \cup {TargetState(local[e])}
      <3>1. /\ Len(alarms) \in Nat /\ Len(alarms') = Len(alarms) + 1
            /\ alarms'[Len(alarms) + 1] = row
            /\ \A k \in 1 .. Len(alarms) : alarms'[k] = alarms[k]
        BY <2>1 DEF TypeOK
      <3> QED BY <2>1, <3>1 DEF Announced
    <2>4. Ledger!Announce(TargetState(local[e]))
      BY <2>2, <2>3 DEF Ledger!Announce
    <2> QED BY <2>2, <2>4 DEF Ledger!Next
  <1>6. ASSUME NEW e \in Evaluators, NotifyOutside(e) PROVE [Ledger!Next]_(Ledger!vars)
    BY <1>6, <1>a DEF NotifyOutside
  <1>7. ASSUME NEW e \in Evaluators, Commit(e) PROVE [Ledger!Next]_(Ledger!vars)
    <2>1. PICK h \in HashType : h.state = TargetState(local[e]) /\ Write(h)
      BY <1>7, CommitStep
    <2>2. UNCHANGED <<clock, alarms>> /\ pc[e] = "commit" /\ h.state \in State
      BY <1>7 DEF Commit, HashType
    <2>3. HasAlarm(h.state)
      BY <2>1, <2>2 DEF AnnouncedInv
    <2> QED BY <2>1, <2>2, <2>3, WriteAdopts
  <1>8. ASSUME NEW e \in Evaluators, Abort(e) PROVE [Ledger!Next]_(Ledger!vars)
    BY <1>8, <1>a DEF Abort
  <1>9. CASE UNCHANGED vars
    BY <1>9, <1>a DEF vars
  <1> QED BY <1>1, <1>2, <1>3, <1>4, <1>5, <1>6, <1>7, <1>8, <1>9 DEF Next

\* WorkerAlarm implements AlarmLedger: whoever reads the official state, whatever
\* evaluations overlap, stop and fail, is given a state that has been announced.
THEOREM AnnouncedFirstHolds == Spec => AnnouncedFirst
  <1> QED
    BY TypeInit, TypeStep, AnnouncedInit, AnnouncedStep, LedgerInit, LedgerStep, PTL
    DEF Spec, AnnouncedFirst, Ledger!Spec

-----------------------------------------------------------------------------
(* The state of a worker who keeps being evaluated does not lapse.         *)

\* An evaluation that saw "safe" while the state is a worse one now: whoever made
\* it so has renewed the TTL since.
Renewed(e) ==
    local[e].snap.state = "safe" /\ Stored.state # "safe" => expireAt >= local[e].now + TTL

\* The hash outlives an alarm by the TTL: a hash h in a state other than "safe"
\* carries the time of an alarm whose commit renewed it.
Outlives(h) == h.state # "safe" => expireAt >= h.lastAlarm + TTL

\* The inductive invariant.
LapseInv ==
    /\ lastDone <= clock
    /\ expireAt <= clock + TTL
    /\ hash.lastAlarm <= clock
    /\ Outlives(hash)
    /\ \A e \in Evaluators : local[e].now <= clock /\ Outlives(local[e].snap)
    /\ outages = 0 => \A e \in Evaluators : pc[e] # "idle" => Renewed(e)
    /\ LapseOnlyIfUnobserved

\* The times that are compared are numbers.
LEMMA Times ==
  ASSUME TypeOK
  PROVE  /\ clock \in Nat /\ expireAt \in Nat /\ lastDone \in Nat /\ outages \in Nat
         /\ hash.lastAlarm \in Nat
         /\ TTL \in Nat /\ ReAlarmInterval \in Nat /\ ReAlarmInterval > 0
         /\ \A e \in Evaluators : local[e].now \in Nat /\ local[e].snap.lastAlarm \in Nat
  BY WorkerConstantsAssumption
  DEF TypeOK, LocalType, HashType, WorkerConstantsAssumption

\* The evaluations of a step that starts none.
EvaluationsGoOn ==
    \A x \in Evaluators :
        \/ local'[x] = local[x] /\ (pc[x] # "idle" \/ pc'[x] = "idle")
        \/ local'[x] = NotRunning /\ pc'[x] = "idle"

\* What no step disturbs that starts no evaluation and moves the expiry forward
\* only.
LEMMA SnapshotsKept ==
  ASSUME TypeOK, LapseInv, EvaluationsGoOn, expireAt' \in Nat, expireAt' >= expireAt,
         clock' \in Nat, clock' >= clock
  PROVE  \A x \in Evaluators : local'[x].now <= clock' /\ Outlives(local[x].snap)'
  <1> SUFFICES ASSUME NEW x \in Evaluators
               PROVE  local'[x].now <= clock' /\ Outlives(local[x].snap)'
    OBVIOUS
  <1>1. CASE local'[x] = local[x]
    BY <1>1, Times DEF LapseInv, Outlives
  <1>2. CASE local'[x] = NotRunning
    BY <1>2 DEF Outlives, NotRunning, EmptyHash
  <1> QED BY <1>1, <1>2 DEF EvaluationsGoOn

\* After a step that writes, the hash has the whole TTL to live, or Redis has
\* failed.
LEMMA WriteLapse ==
  ASSUME TypeOK, TypeOK', LapseInv, EvaluationsGoOn, clock' = clock,
         NEW h \in HashType, Write(h), h.lastAlarm <= clock,
         NEW e \in Evaluators, lastDone' = lastDone \/ lastDone' = local[e].now
  PROVE  LapseInv'
  <1>1. expireAt' = clock + TTL \/ (expireAt' = expireAt /\ outages' # 0)
    BY Times DEF Write
  <1>2. expireAt' \in Nat /\ expireAt' >= expireAt /\ expireAt' <= clock' + TTL
    BY <1>1, Times DEF LapseInv
  <1>3. hash'.lastAlarm <= clock' /\ Outlives(hash)'
    BY Times DEF Write, LapseInv, Outlives, HashType
  <1>4. lastDone' <= clock'
    BY DEF LapseInv
  <1>5. \A x \in Evaluators : local'[x].now <= clock' /\ Outlives(local[x].snap)'
    BY <1>2, SnapshotsKept, Times
  <1>6. outages' = 0 => \A x \in Evaluators : Renewed(x)'
    <2>1. \A x \in Evaluators : local'[x].now \in Nat
      BY DEF TypeOK, LocalType
    <2> QED BY <1>1, <1>5, <2>1, Times DEF Renewed
  <1>7. LapseOnlyIfUnobserved'
    <2>1. lastDone' \in Nat
      BY DEF TypeOK
    <2> QED BY <1>1, <1>4, <2>1, Times DEF LapseOnlyIfUnobserved
  <1> QED BY <1>2, <1>3, <1>4, <1>5, <1>6, <1>7 DEF LapseInv

\* A step that leaves the hash, its expiry and the clock alone.
LEMMA QuietLapse ==
  ASSUME TypeOK, LapseInv, EvaluationsGoOn,
         UNCHANGED <<clock, hash, expireAt, outages>>,
         lastDone' <= clock,
         outages = 0 /\ Stored.state # "safe" => expireAt + ReAlarmInterval > lastDone' + TTL
  PROVE  LapseInv'
  <1>1. Stored' = Stored
    BY DEF Stored
  <1>2. \A x \in Evaluators : local'[x].now <= clock' /\ Outlives(local[x].snap)'
    BY SnapshotsKept, Times
  <1>3. \A x \in Evaluators : pc'[x] # "idle" => pc[x] # "idle" /\ local'[x] = local[x]
    BY DEF EvaluationsGoOn
  <1>4. outages' = 0 => \A x \in Evaluators : pc'[x] # "idle" => Renewed(x)'
    BY <1>1, <1>3 DEF LapseInv, Renewed
  <1>5. LapseOnlyIfUnobserved' /\ Outlives(hash)'
    BY <1>1 DEF LapseOnlyIfUnobserved, LapseInv, Outlives
  <1> QED BY <1>2, <1>4, <1>5 DEF LapseInv

LEMMA LapseInit == Init => LapseInv
  <1> SUFFICES ASSUME Init PROVE LapseInv
    OBVIOUS
  <1> QED
    BY WorkerConstantsAssumption
    DEF Init, LapseInv, LapseOnlyIfUnobserved, Renewed, Outlives, NotRunning, Stored,
        EmptyHash, WorkerConstantsAssumption

LEMMA LapseStep == TypeOK /\ LapseInv /\ [Next]_vars => LapseInv'
  <1> SUFFICES ASSUME TypeOK, LapseInv, [Next]_vars PROVE LapseInv'
    OBVIOUS
  <1>a. TypeOK'
    BY TypeStep
  <1>1. CASE Tick
    <2>1. /\ clock' = clock + 1
          /\ UNCHANGED <<hash, expireAt, pc, local, lastDone, outages>>
      BY <1>1 DEF Tick
    <2>2. Stored'.state # "safe" => Stored'.state = Stored.state
      BY <2>1, Times DEF Stored, EmptyHash
    <2>3. EvaluationsGoOn
      BY <2>1 DEF EvaluationsGoOn
    <2>4. \A x \in Evaluators : local'[x].now <= clock' /\ Outlives(local[x].snap)'
      BY <2>1, <2>3, SnapshotsKept, Times
    <2>5. \A x \in Evaluators : Renewed(x) => Renewed(x)'
      BY <2>1, <2>2 DEF Renewed
    <2>6. LapseOnlyIfUnobserved' /\ Outlives(hash)'
      BY <2>1, <2>2 DEF LapseInv, LapseOnlyIfUnobserved, Outlives
    <2>7. lastDone' <= clock' /\ expireAt' <= clock' + TTL /\ hash'.lastAlarm <= clock'
      BY <2>1, Times DEF LapseInv
    <2> QED BY <2>1, <2>4, <2>5, <2>6, <2>7 DEF LapseInv
  <1>2. ASSUME NEW e \in Evaluators, NEW where \in Situations, Begin(e, where)
        PROVE  LapseInv'
    <2>1. PICK l \in LocalType :
            /\ l.now = clock
            /\ l.snap \in {Stored, EmptyHash}
            /\ outages' = 0 => outages = 0 /\ l.snap = Stored
            /\ \A x \in Evaluators :
                 \/ local'[x] = local[x] /\ pc'[x] = pc[x]
                 \/ x = e /\ local'[x] = l /\ pc'[x] = "judge"
      BY <1>2, BeginLocal
    <2>2. UNCHANGED <<clock, hash, expireAt, lastDone>>
      BY <1>2 DEF Begin
    <2>3. Stored' = Stored
      BY <2>2 DEF Stored
    <2>4. l.snap = hash \/ l.snap = EmptyHash
      BY <2>1 DEF Stored
    <2>5. Outlives(l.snap)
      BY <2>4 DEF LapseInv, Outlives, EmptyHash
    <2>6. \A x \in Evaluators : local'[x].now <= clock' /\ Outlives(local[x].snap)'
      BY <2>1, <2>2, <2>5, Times DEF LapseInv, Outlives
    <2>7. outages' = 0 => \A x \in Evaluators : pc'[x] # "idle" => Renewed(x)'
      BY <2>1, <2>2, <2>3 DEF LapseInv, Renewed
    <2>8. LapseOnlyIfUnobserved' /\ Outlives(hash)'
      BY <2>1, <2>2, <2>3 DEF LapseInv, LapseOnlyIfUnobserved, Outlives
    <2> QED BY <2>2, <2>6, <2>7, <2>8 DEF LapseInv
  <1>3. ASSUME NEW e \in Evaluators, ClearPending(e) \/ SetPending(e) PROVE LapseInv'
    <2>1. PICK h \in HashType :
            h.lastAlarm = Stored.lastAlarm /\ Write(h) /\ AfterPending(e) /\ clock' = clock
      BY <1>3, PendingStep
    <2>2. h.lastAlarm <= clock
      BY <2>1, Times DEF Stored, EmptyHash, LapseInv
    <2>3. pc[e] = "judge"
      BY <1>3 DEF ClearPending, SetPending
    <2>4. EvaluationsGoOn /\ (lastDone' = lastDone \/ lastDone' = local[e].now)
      BY <2>1, <2>3, AfterPendingFrame DEF EvaluationsGoOn
    <2> QED BY <1>a, <2>1, <2>2, <2>4, WriteLapse
  <1>4. ASSUME NEW e \in Evaluators, NoPendingWrite(e) PROVE LapseInv'
    <2>1. /\ UNCHANGED <<clock, hash, expireAt, outages>>
          /\ AfterPending(e) /\ pc[e] = "judge"
      BY <1>4 DEF NoPendingWrite
    <2>2. EvaluationsGoOn /\ (lastDone' = lastDone \/ lastDone' = local[e].now)
      BY <2>1, AfterPendingFrame DEF EvaluationsGoOn
    <2>3. lastDone' <= clock
      BY <2>2 DEF LapseInv
    \* The evaluation that returns saw "safe", or an alarm less than one re-alarm
    \* interval old.
    <2>4. ASSUME outages = 0, Stored.state # "safe", lastDone' # lastDone
          PROVE  expireAt + ReAlarmInterval > lastDone' + TTL
      <3>1. ~OngoingDue(local[e]) /\ lastDone' = local[e].now
        BY <2>1, <2>2, <2>4 DEF AfterPending
      <3>2. CASE local[e].snap.state = "safe"
        BY <2>1, <2>4, <3>1, <3>2, Times DEF LapseInv, Renewed
      <3>3. CASE local[e].snap.state # "safe"
        <4>1. local[e].now - local[e].snap.lastAlarm < ReAlarmInterval
          BY <3>1, <3>3, Times DEF OngoingDue
        <4>2. expireAt >= local[e].snap.lastAlarm + TTL
          BY <3>3 DEF LapseInv, Outlives
        <4> QED BY <3>1, <4>1, <4>2, Times
      <3> QED BY <3>2, <3>3
    <2>5. outages = 0 /\ Stored.state # "safe" => expireAt + ReAlarmInterval > lastDone' + TTL
      BY <2>4 DEF LapseInv, LapseOnlyIfUnobserved
    <2> QED BY <2>1, <2>2, <2>3, <2>5, QuietLapse
  <1>5. ASSUME NEW e \in Evaluators, RaiseAlarm(e) \/ NotifyOutside(e) PROVE LapseInv'
    <2>1. /\ UNCHANGED <<clock, hash, expireAt, outages, local, lastDone>>
          /\ pc[e] # "idle"
          /\ \A x \in Evaluators : x # e => pc'[x] = pc[x]
      BY <1>5 DEF RaiseAlarm, NotifyOutside, Goto, TypeOK
    <2>2. EvaluationsGoOn
      BY <2>1 DEF EvaluationsGoOn
    <2>3. outages = 0 /\ Stored.state # "safe" => expireAt + ReAlarmInterval > lastDone' + TTL
      BY <2>1 DEF LapseInv, LapseOnlyIfUnobserved
    <2> QED BY <2>1, <2>2, <2>3, QuietLapse DEF LapseInv
  <1>6. ASSUME NEW e \in Evaluators, Commit(e) PROVE LapseInv'
    <2>1. PICK h \in HashType : h.lastAlarm = clock /\ Write(h)
      BY <1>6, CommitStep
    <2>2. clock' = clock /\ Return(e) /\ pc[e] = "commit"
      BY <1>6 DEF Commit
    <2>3. EvaluationsGoOn /\ (lastDone' = lastDone \/ lastDone' = local[e].now)
      BY <2>2, ReturnFrame DEF EvaluationsGoOn
    <2>4. h.lastAlarm <= clock
      BY <2>1, Times
    <2> QED BY <1>a, <2>1, <2>2, <2>3, <2>4, WriteLapse
  <1>7. ASSUME NEW e \in Evaluators, Abort(e) PROVE LapseInv'
    <2>1. /\ UNCHANGED <<clock, hash, expireAt, outages, lastDone>>
          /\ \A x \in Evaluators :
               \/ local'[x] = local[x] /\ pc'[x] = pc[x]
               \/ local'[x] = NotRunning /\ pc'[x] = "idle"
      BY <1>7 DEF Abort, Goto, TypeOK
    <2>2. EvaluationsGoOn
      BY <2>1 DEF EvaluationsGoOn
    <2>3. outages = 0 /\ Stored.state # "safe" => expireAt + ReAlarmInterval > lastDone' + TTL
      BY <2>1 DEF LapseInv, LapseOnlyIfUnobserved
    <2> QED BY <2>1, <2>2, <2>3, QuietLapse DEF LapseInv
  <1>8. CASE UNCHANGED vars
    BY <1>8 DEF vars, LapseInv, LapseOnlyIfUnobserved, Renewed, Outlives, Stored
  <1> QED BY <1>1, <1>2, <1>3, <1>4, <1>5, <1>6, <1>7, <1>8 DEF Next

\* As long as Redis answers, every finished evaluation leaves a state other than
\* "safe" more than the TTL less one re-alarm interval to live, counted from its
\* observation: with 300 and 60 seconds a state lapses only after four minutes
\* without an evaluation.
THEOREM LapseOnlyIfUnobservedHolds == Spec => []LapseOnlyIfUnobserved
  <1>1. LapseInv => LapseOnlyIfUnobserved
    BY DEF LapseInv
  <1> QED BY <1>1, TypeInit, TypeStep, LapseInit, LapseStep, PTL DEF Spec

-----------------------------------------------------------------------------
(* Evaluations that run one after the other without failures (the behaviours *)
(* of MCWorkerAlarm whose "single" is TRUE).                                 *)


Raises(l) == Confirms(l) \/ OngoingDue(l)

\* The recovery candidate and its count once an observation has been judged.
JudgedPending(l) ==
    IF l.observed = l.snap.state THEN NoPending
    ELSE IF Confirms(l) THEN l.snap.pending ELSE l.observed

JudgedCount(l) ==
    IF l.observed = l.snap.state THEN (IF l.snap.pending = NoPending THEN l.snap.count ELSE 0)
    ELSE IF Confirms(l) THEN l.snap.count ELSE PendingCount(l)

\* An evaluation that runs alone is about the latest observation, and what is stored
\* is what it has read with its own writes applied.
InStep(e) ==
    /\ seen # <<>>
    /\ seen[Len(seen)] = [state |-> local[e].observed, at |-> local[e].now]
    /\ local[e].now <= clock
    /\ pc[e] = "judge" => Stored = local[e].snap
    /\ pc[e] # "judge" => Raises(local[e])
    /\ pc[e] = "notify" => NotifiesOutside(local[e])

SerialInv ==
    /\ AtMostOneRunning
    /\ \A e \in Evaluators : pc[e] # "idle" => InStep(e)

-----------------------------------------------------------------------------
(* The kinds of steps.                                                     *)

\* Time passes; the hash may run out when no evaluation runs.
Waits ==
    /\ UNCHANGED <<hash, expireAt, pc, local, alarms, external, seen>>
    /\ clock' = clock + 1
    /\ Stored' \in {Stored, EmptyHash}

\* An evaluation starts.
Opens(e, s) ==
    /\ AllIdle
    /\ pc'[e] = "judge"
    /\ seen' = Append(seen, [state |-> s, at |-> clock])
    /\ local'[e] \in LocalType
    /\ local'[e].observed = s
    /\ local'[e].now = clock
    /\ local'[e].snap = Stored
    /\ UNCHANGED <<clock, hash, expireAt, alarms, external>>

\* It is about to raise an alarm.
Continues(e) ==
    /\ pc[e] = "judge" /\ pc'[e] = "alarm"
    /\ UNCHANGED <<clock, local, alarms, external, seen>>

\* The alarm row that it inserts.
Row(l) ==
    [reason |-> IF Confirms(l) THEN "transition" ELSE "ongoing",
     from |-> l.snap.state,
     to |-> TargetState(l),
     at |-> clock,
     seen |-> Len(seen)]

Announces(e) ==
    /\ pc[e] = "alarm" /\ pc'[e] = IF NotifiesOutside(local[e]) THEN "notify" ELSE "commit"
    /\ alarms' = Append(alarms, Row(local[e]))
    /\ UNCHANGED <<clock, hash, expireAt, local, external, seen>>

Tells(e) ==
    /\ pc[e] = "notify" /\ pc'[e] = "commit"
    /\ \/ external' = Append(external, [to |-> TargetState(local[e]), seen |-> Len(seen)])
       \/ UNCHANGED external
    /\ UNCHANGED <<clock, hash, expireAt, local, alarms, seen>>

\* It ends with its commit ...
Commits(e) ==
    /\ pc[e] = "commit"
    /\ AllIdle'
    /\ UNCHANGED <<clock, alarms, external, seen>>
    /\ hash' = [state |-> TargetState(local[e]), lastAlarm |-> clock,
                pending |-> NoPending, count |-> 0]
    /\ Stored' = hash'
    /\ clock < expireAt' /\ expireAt' = clock + TTL

\* ... or without an alarm.
Closes(e) ==
    /\ pc[e] = "judge"
    /\ AllIdle'
    /\ ~Raises(local[e])
    /\ UNCHANGED <<clock, alarms, external, seen>>
    /\ Stored'.state = local[e].snap.state
    /\ Stored'.lastAlarm = local[e].snap.lastAlarm
    /\ Stored'.pending = JudgedPending(local[e])
    /\ Stored'.count = JudgedCount(local[e])
    /\ \/ Stored' = hash' /\ expireAt' = clock + TTL
       \/ UNCHANGED <<hash, expireAt>> /\ local[e].observed = local[e].snap.state

StepKinds ==
    \/ Waits
    \/ UNCHANGED <<clock, hash, expireAt, pc, local, alarms, external, seen>>
    \/ \E e \in Evaluators :
         \/ \E s \in State : Opens(e, s)
         \/ Continues(e)
         \/ Announces(e)
         \/ Tells(e)
         \/ Commits(e)
         \/ Closes(e)

-----------------------------------------------------------------------------

\* One more element at the end of a sequence.
LEMMA OneMore ==
  ASSUME NEW S, NEW q \in Seq(S), NEW r, NEW longer, longer = Append(q, r)
  PROVE  /\ Len(longer) = Len(q) + 1 /\ Len(q) \in Nat /\ longer # <<>>
         /\ longer[Len(q) + 1] = r
         /\ \A i \in 1 .. Len(q) : longer[i] = q[i]
  OBVIOUS

LEMMA SerialInit == Init => SerialInv
  BY DEF Init, SerialInv, AtMostOneRunning

\* What is written is read back: the TTL has just been renewed.
LEMMA WriteSerial ==
  ASSUME TypeOK, NEW h \in HashType, Write(h), outages' = outages, clock' = clock
  PROVE  /\ hash' = h /\ expireAt' = clock + TTL
         /\ clock' < expireAt'
         /\ Stored' = h
  <1>1. TTL \in Nat \ {0} /\ clock \in Nat /\ outages \in Nat
    BY WorkerConstantsAssumption DEF WorkerConstantsAssumption, TypeOK
  <1> QED BY <1>1 DEF Write, Stored

\* While one evaluation runs, no other does, and it alone moves.
LEMMA OneMoves ==
  ASSUME TypeOK, SerialInv, NEW e \in Evaluators, pc[e] # "idle",
         \A x \in Evaluators : x # e => pc'[x] = pc[x]
  PROVE  /\ \A x \in Evaluators : x # e => pc[x] = "idle" /\ pc'[x] = "idle"
         /\ AtMostOneRunning'
         /\ AllIdle' <=> pc'[e] = "idle"
  BY DEF SerialInv, AtMostOneRunning, AllIdle

\* What an evaluation has decided stays decided.
LEMMA DecisionKept ==
  ASSUME NEW e \in Evaluators, local' = local
  PROVE  /\ Raises(local[e])' = Raises(local[e])
         /\ NotifiesOutside(local[e])' = NotifiesOutside(local[e])
         /\ TargetState(local[e])' = TargetState(local[e])
  BY DEF Raises, NotifiesOutside, TargetState, Confirms, OngoingDue, IsRecovery, PendingCount

\* The end of a judgement.
LEMMA AfterPendingSerial ==
  ASSUME TypeOK, SerialInv, NEW e \in Evaluators, AfterPending(e), pc[e] = "judge",
         UNCHANGED <<clock, alarms, external, seen>>,
         Stored'.state = local[e].snap.state,
         Stored'.lastAlarm = local[e].snap.lastAlarm,
         ~Raises(local[e]) => /\ Stored'.pending = JudgedPending(local[e])
                              /\ Stored'.count = JudgedCount(local[e]),
         \/ Stored' = hash' /\ expireAt' = clock + TTL
         \/ /\ UNCHANGED <<hash, expireAt>>
            /\ ~Raises(local[e]) => local[e].observed = local[e].snap.state
  PROVE  SerialInv' /\ StepKinds
  <1>1. InStep(e)
    BY DEF SerialInv
  <1>2. CASE Raises(local[e])
    <2>1. local' = local /\ pc' = [pc EXCEPT ![e] = "alarm"]
      BY <1>2 DEF AfterPending, Raises, Goto
    <2>2. pc'[e] = "alarm" /\ \A x \in Evaluators : x # e => pc'[x] = pc[x]
      BY <2>1 DEF TypeOK
    <2>3. Continues(e)
      BY <2>1, <2>2 DEF Continues
    <2>4. InStep(e)'
      BY <1>1, <1>2, <2>1, <2>2, DecisionKept DEF InStep
    <2> QED BY <2>2, <2>3, <2>4, OneMoves DEF SerialInv, StepKinds
  <1>3. CASE ~Raises(local[e])
    <2>1. pc' = [pc EXCEPT ![e] = "idle"]
      BY <1>3 DEF AfterPending, Raises, Return, Goto
    <2>2. pc'[e] = "idle" /\ \A x \in Evaluators : x # e => pc'[x] = pc[x]
      BY <2>1 DEF TypeOK
    <2>3. AllIdle' /\ AtMostOneRunning'
      BY <2>2, OneMoves
    <2>4. Closes(e)
      BY <1>3, <2>3 DEF Closes
    <2> QED BY <2>3, <2>4 DEF SerialInv, StepKinds, AllIdle
  <1> QED BY <1>2, <1>3

LEMMA SerialStep ==
  ASSUME TypeOK, SerialInv, Next, InOrder
  PROVE  SerialInv' /\ StepKinds
  <1> USE DEF Labels
  <1>a. outages' = outages /\ aborts' = aborts
    BY DEF InOrder
  <1>b. TTL \in Nat \ {0} /\ clock \in Nat /\ outages \in Nat /\ aborts \in Nat
    BY WorkerConstantsAssumption DEF WorkerConstantsAssumption, TypeOK
  <1>c. \A e \in Evaluators : /\ local[e] \in LocalType /\ local[e].snap \in HashType
                              /\ local[e].now \in Nat /\ local[e].observed \in State
                              /\ local[e].snap.state \in State /\ local[e].snap.count \in Nat
    BY DEF TypeOK, LocalType, HashType
  <1>1. CASE Tick
    <2>1. /\ UNCHANGED <<hash, expireAt, pc, local, alarms, external, seen>>
          /\ clock' = clock + 1
      BY <1>1 DEF Tick
    <2>2. /\ ~AllIdle => Stored' = Stored
          /\ Stored' \in {Stored, EmptyHash}
      BY <1>b, <2>1 DEF InOrder, Stored, TypeOK
    <2>3. ASSUME NEW e \in Evaluators, pc[e] # "idle" PROVE InStep(e)'
      <3>1. InStep(e) /\ ~AllIdle
        BY <2>3 DEF SerialInv, AllIdle
      <3>2. local[e].now <= clock'
        BY <1>b, <1>c, <2>1, <3>1 DEF InStep
      <3> QED BY <2>1, <2>2, <3>1, <3>2, DecisionKept DEF InStep
    <2> QED BY <2>1, <2>2, <2>3 DEF SerialInv, StepKinds, Waits, InOrder
  <1>2. ASSUME NEW e \in Evaluators, NEW where \in Situations, Begin(e, where)
        PROVE  SerialInv' /\ StepKinds
    <2> DEFINE s == Classify(where.fences, where.nearby)
               l == [observed |-> s, now |-> clock, snap |-> Stored]
    <2>1. /\ local' = [local EXCEPT ![e] = l]
          /\ pc' = [pc EXCEPT ![e] = "judge"]
          /\ pc[e] = "idle"
          /\ seen' = Append(seen, [state |-> s, at |-> clock])
          /\ UNCHANGED <<clock, hash, expireAt, alarms, external>>
      <3>1. PICK reached \in BOOLEAN :
          /\ outages' = IF reached THEN outages ELSE outages + 1
          /\ LET observed == Classify(where.fences, where.nearby) IN
             /\ seen' = Append(seen, [state |-> observed, at |-> clock])
             /\ local' = [local EXCEPT ![e] =
                  [observed |-> observed, now |-> clock,
                   snap |-> IF reached THEN Stored ELSE EmptyHash]]
        BY <1>2 DEF Begin
      <3>2. reached = TRUE
        BY <1>a, <1>b, <3>1
      <3> QED BY <1>2, <3>1, <3>2 DEF Begin, Goto
    <2>2. s \in State /\ Stored \in HashType
      BY ClassifyType, StoredType
    <2> HIDE DEF s
    <2>3. l.observed = s /\ l.now = clock /\ l.snap = Stored /\ l \in LocalType
      BY <1>b, <2>2 DEF LocalType
    <2> HIDE DEF l
    <2>4. local'[e] = l /\ pc'[e] = "judge" /\ \A x \in Evaluators : x # e => pc'[x] = pc[x]
      BY <2>1 DEF TypeOK
    <2>5. \A x \in Evaluators : x # e => pc[x] = "idle" /\ pc'[x] = "idle"
      BY <2>4 DEF InOrder, AtMostOneRunning
    <2>6. AllIdle /\ AtMostOneRunning' /\ Stored' = Stored
      BY <2>1, <2>5 DEF AllIdle, InOrder, Stored
    <2>7. Opens(e, s)
      BY <2>1, <2>3, <2>4, <2>6 DEF Opens
    <2>8. /\ Len(seen') = Len(seen) + 1 /\ seen' # <<>>
          /\ seen'[Len(seen')] = [state |-> s, at |-> clock]
      <3> DEFINE r == [state |-> s, at |-> clock]
      <3>1. seen' = Append(seen, r)
        BY <2>1
      <3> HIDE DEF r
      <3>2. /\ Len(seen') = Len(seen) + 1 /\ seen' # <<>>
            /\ seen'[Len(seen')] = r
        BY <3>1, OneMore DEF TypeOK
      <3> QED BY <3>2 DEF r
    <2>9. InStep(e)'
      BY <1>b, <2>1, <2>3, <2>4, <2>6, <2>8 DEF InStep
    <2> QED BY <2>2, <2>5, <2>6, <2>7, <2>9 DEF SerialInv, StepKinds
  <1>3. ASSUME NEW e \in Evaluators, ClearPending(e) PROVE SerialInv' /\ StepKinds
    <2> DEFINE h == [Stored EXCEPT !.pending = NoPending, !.count = 0]
    <2>1. /\ Write(h) /\ AfterPending(e) /\ pc[e] = "judge"
          /\ local[e].observed = local[e].snap.state
          /\ local[e].snap.pending # NoPending
          /\ UNCHANGED <<clock, alarms, external, seen>>
      BY <1>3 DEF ClearPending
    <2>2. /\ h \in HashType /\ h.state = Stored.state /\ h.lastAlarm = Stored.lastAlarm
          /\ h.pending = NoPending /\ h.count = 0
      BY StoredType DEF HashType
    <2> HIDE DEF h
    <2>3. hash' = h /\ expireAt' = clock + TTL /\ Stored' = h
      BY <1>a, <2>1, <2>2, WriteSerial
    <2>4. Stored = local[e].snap
      BY <2>1 DEF SerialInv, InStep
    <2>5. JudgedPending(local[e]) = NoPending /\ JudgedCount(local[e]) = 0
      BY <2>1 DEF JudgedPending, JudgedCount
    <2> QED BY <2>1, <2>2, <2>3, <2>4, <2>5, AfterPendingSerial
  <1>4. ASSUME NEW e \in Evaluators, SetPending(e) PROVE SerialInv' /\ StepKinds
    <2> DEFINE h == [Stored EXCEPT !.pending = local[e].observed, !.count = PendingCount(local[e])]
    <2>1. /\ Write(h) /\ AfterPending(e) /\ pc[e] = "judge"
          /\ IsRecovery(local[e]) /\ ~Confirms(local[e])
          /\ UNCHANGED <<clock, alarms, external, seen>>
      BY <1>4 DEF SetPending
    <2>2. /\ h \in HashType /\ h.state = Stored.state /\ h.lastAlarm = Stored.lastAlarm
          /\ h.pending = local[e].observed /\ h.count = PendingCount(local[e])
      <3>1. PendingCount(local[e]) \in Nat
        BY <1>c DEF PendingCount
      <3> QED BY <1>c, <3>1, StoredType DEF HashType
    <2> HIDE DEF h
    <2>3. hash' = h /\ expireAt' = clock + TTL /\ Stored' = h
      BY <1>a, <2>1, <2>2, WriteSerial
    <2>4. Stored = local[e].snap
      BY <2>1 DEF SerialInv, InStep
    <2>5. local[e].observed # local[e].snap.state
      BY <1>c, <2>1 DEF IsRecovery, Rank, State
    <2>6. /\ JudgedPending(local[e]) = local[e].observed
          /\ JudgedCount(local[e]) = PendingCount(local[e])
      BY <2>1, <2>5 DEF JudgedPending, JudgedCount
    <2> QED BY <2>1, <2>2, <2>3, <2>4, <2>6, AfterPendingSerial
  <1>5. ASSUME NEW e \in Evaluators, NoPendingWrite(e) PROVE SerialInv' /\ StepKinds
    <2>1. /\ AfterPending(e) /\ pc[e] = "judge"
          /\ \/ local[e].observed = local[e].snap.state /\ local[e].snap.pending = NoPending
             \/ Confirms(local[e])
          /\ UNCHANGED <<clock, hash, expireAt, alarms, external, seen>>
      BY <1>5 DEF NoPendingWrite
    <2>2. Stored = local[e].snap /\ Stored' = Stored
      BY <2>1 DEF SerialInv, InStep, Stored
    <2>3. ~Raises(local[e]) => /\ local[e].observed = local[e].snap.state
                               /\ JudgedPending(local[e]) = local[e].snap.pending
                               /\ JudgedCount(local[e]) = local[e].snap.count
      BY <2>1 DEF Raises, JudgedPending, JudgedCount
    <2> QED BY <2>1, <2>2, <2>3, AfterPendingSerial
  <1>6. ASSUME NEW e \in Evaluators, RaiseAlarm(e) PROVE SerialInv' /\ StepKinds
    <2>1. /\ alarms' = Append(alarms, Row(local[e]))
          /\ UNCHANGED <<clock, hash, expireAt, local, external, seen>>
          /\ pc[e] = "alarm"
          /\ pc' = [pc EXCEPT ![e] = IF NotifiesOutside(local[e]) THEN "notify" ELSE "commit"]
      BY <1>6 DEF RaiseAlarm, Goto, Row
    <2>2. /\ pc'[e] = IF NotifiesOutside(local[e]) THEN "notify" ELSE "commit"
          /\ \A x \in Evaluators : x # e => pc'[x] = pc[x]
      BY <2>1 DEF TypeOK
    <2>3. Announces(e)
      BY <2>1, <2>2 DEF Announces
    <2>4. InStep(e)'
      BY <2>1, <2>2, DecisionKept DEF SerialInv, InStep
    <2> QED BY <2>1, <2>2, <2>3, <2>4, OneMoves DEF SerialInv, StepKinds
  <1>7. ASSUME NEW e \in Evaluators, NotifyOutside(e) PROVE SerialInv' /\ StepKinds
    <2>1. /\ \/ external' = Append(external, [to |-> TargetState(local[e]), seen |-> Len(seen)])
             \/ UNCHANGED external
          /\ UNCHANGED <<clock, hash, expireAt, local, alarms, seen>>
          /\ pc[e] = "notify"
          /\ pc' = [pc EXCEPT ![e] = "commit"]
      BY <1>7 DEF NotifyOutside, Goto
    <2>2. pc'[e] = "commit" /\ \A x \in Evaluators : x # e => pc'[x] = pc[x]
      BY <2>1 DEF TypeOK
    <2>3. Tells(e)
      BY <2>1, <2>2 DEF Tells
    <2>4. InStep(e)'
      BY <2>1, <2>2, DecisionKept DEF SerialInv, InStep
    <2> QED BY <2>1, <2>2, <2>3, <2>4, OneMoves DEF SerialInv, StepKinds
  <1>8. ASSUME NEW e \in Evaluators, Commit(e) PROVE SerialInv' /\ StepKinds
    <2> DEFINE h == [state |-> TargetState(local[e]), lastAlarm |-> clock,
                     pending |-> NoPending, count |-> 0]
    <2>1. /\ Write(h) /\ Return(e) /\ pc[e] = "commit"
          /\ UNCHANGED <<clock, alarms, external, seen>>
      BY <1>8 DEF Commit
    <2>2. TargetState(local[e]) \in State
      BY <1>c, TargetStateType
    <2>3. h \in HashType
      BY <1>b, <2>2 DEF HashType
    <2>4. hash' = h /\ expireAt' = clock + TTL /\ Stored' = h /\ clock' < expireAt'
      <3> HIDE DEF h
      <3> QED BY <1>a, <2>1, <2>3, WriteSerial
    <2>5. pc'[e] = "idle" /\ \A x \in Evaluators : x # e => pc'[x] = pc[x]
      BY <2>1 DEF Return, Goto, TypeOK
    <2>6. AtMostOneRunning' /\ AllIdle'
      BY <2>1, <2>5, OneMoves
    <2>7. Commits(e)
      BY <2>1, <2>4, <2>6 DEF Commits
    <2> QED BY <2>6, <2>7 DEF SerialInv, StepKinds, AllIdle
  <1>9. ASSUME NEW e \in Evaluators, Abort(e) PROVE SerialInv' /\ StepKinds
    BY <1>a, <1>b, <1>9 DEF Abort
  <1> QED
    BY <1>1, <1>2, <1>3, <1>4, <1>5, <1>6, <1>7, <1>8, <1>9 DEF Next

-----------------------------------------------------------------------------
(* A worsening is taken over at once.                                      *)

\* Observations have a state and a time.
LEMMA SeenType ==
  ASSUME TypeOK
  PROVE  /\ Len(seen) \in Nat
         /\ \A i \in 1 .. Len(seen) : seen[i].state \in State /\ seen[i].at \in Nat
         /\ seen # <<>> <=> Len(seen) >= 1
  <1> DEFINE Observation == [state : State, at : Nat]
  <1>1. seen \in Seq(Observation)
    BY DEF TypeOK
  <1>2. \A r \in Observation : r.state \in State /\ r.at \in Nat
    OBVIOUS
  <1> HIDE DEF Observation
  <1>3. /\ Len(seen) \in Nat /\ (seen # <<>> <=> Len(seen) >= 1)
        /\ \A i \in 1 .. Len(seen) : seen[i] \in Observation
    BY <1>1
  <1> QED BY <1>2, <1>3

\* What is known of the evaluation that runs.
LEMMA RunningFacts ==
  ASSUME TypeOK, SerialInv, NEW e \in Evaluators, pc[e] # "idle"
  PROVE  LET l == local[e] IN
         /\ Len(seen) \in Nat /\ Len(seen) >= 1
         /\ seen[Len(seen)].state = l.observed /\ seen[Len(seen)].at = l.now
         /\ l.now <= clock /\ l.now \in Nat /\ clock \in Nat
         /\ l \in LocalType /\ l.observed \in State /\ l.snap \in HashType
         /\ l.snap.state \in State /\ l.snap.count \in Nat /\ l.snap.lastAlarm \in Nat
         /\ TargetState(l) \in State
         /\ pc[e] # "judge" => Raises(l)
  <1>1. /\ seen # <<>>
        /\ seen[Len(seen)] = [state |-> local[e].observed, at |-> local[e].now]
        /\ local[e].now <= clock
        /\ pc[e] # "judge" => Raises(local[e])
    BY DEF SerialInv, InStep
  <1>2. /\ local[e] \in LocalType /\ clock \in Nat
        /\ local[e].observed \in State /\ local[e].snap \in HashType /\ local[e].now \in Nat
        /\ local[e].snap.state \in State /\ local[e].snap.count \in Nat
        /\ local[e].snap.lastAlarm \in Nat
    BY DEF TypeOK, LocalType, HashType
  <1> QED BY <1>1, <1>2, SeenType, TargetStateType

\* What is committed, or kept, is at least as bad as what was observed.
LEMMA TargetRank ==
  ASSUME NEW l \in LocalType
  PROVE  /\ Rank[TargetState(l)] >= Rank[l.observed]
         /\ TargetState(l) \in {l.observed, l.snap.state}
         /\ ~Confirms(l) => TargetState(l) = l.snap.state
         /\ l.observed = l.snap.state => TargetState(l) = l.snap.state
  <1>1. l.observed \in State /\ l.snap.state \in State
    BY DEF LocalType, HashType
  <1>2. CASE Confirms(l)
    BY <1>1, <1>2 DEF TargetState, Rank, State
  <1>3. CASE ~Confirms(l)
    BY <1>1, <1>3 DEF TargetState, Confirms, IsEscalation, Rank, State
  <1> QED BY <1>2, <1>3

\* The state after an evaluation, however it ends.
LEMMA EndState ==
  ASSUME TypeOK, SerialInv, NEW e \in Evaluators, Commits(e) \/ Closes(e)
  PROVE  /\ AllIdle' /\ UNCHANGED <<clock, alarms, external, seen>> /\ pc[e] # "idle"
         /\ Stored'.state = TargetState(local[e])
  <1>1. CASE Commits(e)
    BY <1>1 DEF Commits
  <1>2. CASE Closes(e)
    BY <1>2 DEF Closes, Raises, TargetState
  <1> QED BY <1>1, <1>2

AtOnceInv == EscalatesAtOnce

LEMMA AtOnceInit == Init => AtOnceInv
  BY DEF Init, AtOnceInv, EscalatesAtOnce

LEMMA AtOnceStep ==
  ASSUME TypeOK, TypeOK', SerialInv, SerialInv', AtOnceInv, StepKinds
  PROVE  AtOnceInv'
  <1>1. CASE UNCHANGED <<hash, pc, seen>>
    BY <1>1 DEF AtOnceInv, EscalatesAtOnce, AllIdle
  <1>2. ASSUME NEW e \in Evaluators, pc'[e] # "idle" PROVE AtOnceInv'
    BY <1>2 DEF AtOnceInv, EscalatesAtOnce, AllIdle
  <1>3. ASSUME NEW e \in Evaluators, Commits(e) \/ Closes(e) PROVE AtOnceInv'
    <2> DEFINE l == local[e]
    <2>1. UNCHANGED seen /\ pc[e] # "idle" /\ Stored'.state = TargetState(l)
      BY <1>3, EndState
    <2>2. Len(seen) >= 1 /\ seen[Len(seen)].state = l.observed /\ l \in LocalType
          /\ l.observed \in State /\ TargetState(l) \in State
      BY <2>1, RunningFacts
    <2>3. Rank[Stored'.state] >= Rank[l.observed]
      BY <2>1, <2>2, TargetRank
    <2>4. Stored'.state = hash'.state \/ Stored'.state = "safe"
      BY DEF Stored, EmptyHash
    <2>5. hash'.state \in State
      BY DEF TypeOK, HashType
    <2>6. Rank[hash'.state] >= Rank[l.observed]
      BY <2>2, <2>3, <2>4, <2>5 DEF Rank, State
    <2> QED BY <2>1, <2>2, <2>6 DEF AtOnceInv, EscalatesAtOnce
  <1> QED BY <1>1, <1>2, <1>3 DEF StepKinds, Waits, Opens, Continues, Announces, Tells

-----------------------------------------------------------------------------
(* A recovery rests on observations in a row.                              *)

\* The candidate of h is what the last observations among the first n were, as many as
\* its count.
InARow(h, n) ==
    h.pending # NoPending =>
        /\ h.count \in 1 .. n
        /\ \A m \in n - h.count + 1 .. n : seen[m].state = h.pending

ConsecutiveInv ==
    /\ RecoveryIsConsecutive
    /\ \A k \in 1 .. Len(alarms) : alarms[k].seen <= Len(seen)
    /\ AllIdle => InARow(Stored, Len(seen))
    /\ \A e \in Evaluators : pc[e] # "idle" => InARow(local[e].snap, Len(seen) - 1)

LEMMA ConsecutiveInit == Init => ConsecutiveInv
  <1> SUFFICES ASSUME Init PROVE ConsecutiveInv
    OBVIOUS
  <1>1. Len(alarms) = 0 /\ Stored = EmptyHash /\ \A e \in Evaluators : pc[e] = "idle"
    BY DEF Init, Stored
  <1> QED BY <1>1 DEF ConsecutiveInv, RecoveryIsConsecutive, InARow, EmptyHash

LEMMA AlarmTypes ==
  ASSUME TypeOK
  PROVE  /\ Len(alarms) \in Nat
         /\ \A k \in 1 .. Len(alarms) : alarms[k].seen \in Nat
  <1>1. alarms \in Seq(AlarmRow)
    BY DEF TypeOK
  <1>2. \A r \in AlarmRow : r.seen \in Nat
    BY DEF AlarmRow
  <1> HIDE DEF AlarmRow
  <1> QED BY <1>1, <1>2

\* The candidate's count after one more observation of it.
LEMMA CountInARow ==
  ASSUME TypeOK, SerialInv, NEW e \in Evaluators, pc[e] # "idle",
         InARow(local[e].snap, Len(seen) - 1)
  PROVE  LET c == PendingCount(local[e]) IN
         /\ c \in 1 .. Len(seen)
         /\ \A m \in Len(seen) - c + 1 .. Len(seen) : seen[m].state = local[e].observed
  <1> DEFINE l == local[e]
             n == Len(seen)
             c == PendingCount(l)
  <1> SUFFICES c \in 1 .. n /\ \A m \in n - c + 1 .. n : seen[m].state = l.observed
    OBVIOUS
  <1>1. /\ n \in Nat /\ n >= 1 /\ seen[n].state = l.observed /\ l.observed \in State
        /\ l.snap.count \in Nat
    BY RunningFacts
  <1>2. CASE l.snap.pending = l.observed
    <2>1. c = l.snap.count + 1 /\ l.snap.pending # NoPending
      BY <1>1, <1>2 DEF PendingCount, State, NoPending
    <2>2. /\ l.snap.count \in 1 .. n - 1
          /\ \A m \in (n - 1) - l.snap.count + 1 .. n - 1 : seen[m].state = l.observed
      BY <1>2, <2>1 DEF InARow
    <2> HIDE DEF n, c
    <2> QED BY SMTT(30), <1>1, <2>1, <2>2
  <1>3. CASE l.snap.pending # l.observed
    BY <1>1, <1>3 DEF PendingCount
  <1> QED BY <1>2, <1>3

LEMMA ConsecutiveStep ==
  ASSUME TypeOK, SerialInv, SerialInv', ConsecutiveInv, StepKinds
  PROVE  ConsecutiveInv'
  <1>a. Len(seen) \in Nat
    BY DEF TypeOK
  <1>c. \A e, f \in Evaluators : pc'[e] # "idle" /\ pc'[f] # "idle" => e = f
    BY DEF SerialInv, AtMostOneRunning
  <1>1. CASE Waits
    BY <1>1 DEF Waits, ConsecutiveInv, InARow, EmptyHash, AllIdle, RecoveryIsConsecutive
  <1>2. CASE UNCHANGED <<clock, hash, expireAt, pc, local, alarms, external, seen>>
    BY <1>2 DEF ConsecutiveInv, InARow, AllIdle, RecoveryIsConsecutive, Stored
  <1>3. ASSUME NEW e \in Evaluators, NEW s \in State, Opens(e, s) PROVE ConsecutiveInv'
    <2> DEFINE n == Len(seen)
    <2>1. /\ AllIdle /\ pc'[e] # "idle" /\ local'[e].snap = Stored /\ alarms' = alarms
          /\ seen' = Append(seen, [state |-> s, at |-> clock])
      BY <1>3 DEF Opens
    <2>2. Len(seen') = n + 1 /\ \A i \in 1 .. n : seen'[i] = seen[i]
      BY <2>1, OneMore DEF TypeOK
    <2>3. InARow(local[e].snap, Len(seen) - 1)'
      <3>1. InARow(Stored, n) /\ Len(seen') - 1 = n
        BY <1>a, <2>1, <2>2 DEF ConsecutiveInv
      <3>2. ASSUME Stored.pending # NoPending, NEW m \in n - Stored.count + 1 .. n
            PROVE  seen'[m] = seen[m]
        BY <1>a, <2>2, <3>1, <3>2 DEF InARow
      <3> QED BY <2>1, <3>1, <3>2 DEF InARow
    <2>4. \A k \in 1 .. Len(alarms) : alarms[k].seen <= n /\ alarms[k].seen \in Nat
      BY AlarmTypes DEF ConsecutiveInv
    <2>5. RecoveryIsConsecutive'
      <3>1. ASSUME NEW k \in 1 .. Len(alarms),
                   NEW m \in alarms[k].seen - RecoveryTicks + 1 .. alarms[k].seen, m > 0
            PROVE  seen'[m] = seen[m]
        BY <1>a, <2>2, <2>4, <3>1
      <3> QED BY ZenonT(30), <2>1, <3>1 DEF ConsecutiveInv, RecoveryIsConsecutive
    <2>6. (\A k \in 1 .. Len(alarms) : alarms[k].seen <= Len(seen))'
      BY <1>a, <2>1, <2>2, <2>4
    <2> QED BY <1>c, <2>1, <2>3, <2>5, <2>6 DEF ConsecutiveInv, AllIdle
  <1>4. ASSUME NEW e \in Evaluators, Continues(e) \/ Tells(e) PROVE ConsecutiveInv'
    <2>1. pc[e] # "idle" /\ pc'[e] # "idle" /\ UNCHANGED <<local, alarms, seen>>
      BY <1>4 DEF Continues, Tells
    <2> QED BY <1>c, <2>1 DEF ConsecutiveInv, InARow, AllIdle, RecoveryIsConsecutive
  <1>5. ASSUME NEW e \in Evaluators, Announces(e) PROVE ConsecutiveInv'
    <2> DEFINE r == Row(local[e])
               l == local[e]
               n == Len(seen)
    <2>1. /\ alarms' = Append(alarms, r) /\ UNCHANGED <<local, seen>>
          /\ pc[e] # "idle" /\ pc'[e] # "idle"
      BY <1>5 DEF Announces
    <2>2. /\ r.from = l.snap.state /\ r.to = TargetState(l) /\ r.seen = n
          /\ r.reason = "transition" <=> Confirms(l)
      BY DEF Row
    <2> HIDE DEF r
    <2>3. /\ Len(alarms') = Len(alarms) + 1 /\ Len(alarms) \in Nat
          /\ alarms'[Len(alarms) + 1] = r
          /\ \A k \in 1 .. Len(alarms) : alarms'[k] = alarms[k]
      BY <2>1, OneMore DEF TypeOK
    <2>4. r.reason = "transition" /\ ~IsEscalation(r.from, r.to) =>
            \A m \in r.seen - RecoveryTicks + 1 .. r.seen : m > 0 /\ seen[m].state = r.to
      <3> SUFFICES ASSUME Confirms(l), ~IsEscalation(r.from, r.to),
                          NEW m \in n - RecoveryTicks + 1 .. n
                   PROVE  m > 0 /\ seen[m].state = r.to
        BY <2>2
      <3>1. r.to = l.observed /\ PendingCount(l) >= RecoveryTicks
        BY <2>2 DEF TargetState, Confirms
      <3>2. /\ PendingCount(l) \in 1 .. n
            /\ \A i \in n - PendingCount(l) + 1 .. n : seen[i].state = l.observed
        BY <2>1, CountInARow DEF ConsecutiveInv
      <3>3. RecoveryTicks \in Nat
        BY WorkerConstantsAssumption DEF WorkerConstantsAssumption
      <3>4. m > 0 /\ m \in n - PendingCount(l) + 1 .. n
        BY <1>a, <3>1, <3>2, <3>3
      <3> QED BY <3>1, <3>2, <3>4
    <2>5. RecoveryIsConsecutive'
      BY <2>1, <2>3, <2>4 DEF ConsecutiveInv, RecoveryIsConsecutive
    <2>6. (\A k \in 1 .. Len(alarms) : alarms[k].seen <= Len(seen))'
      BY <1>a, <2>1, <2>2, <2>3 DEF ConsecutiveInv
    <2> QED BY <1>c, <2>1, <2>5, <2>6 DEF ConsecutiveInv, InARow, AllIdle
  <1>6. ASSUME NEW e \in Evaluators, Commits(e) \/ Closes(e) PROVE ConsecutiveInv'
    <2> DEFINE l == local[e]
    <2>1. AllIdle' /\ UNCHANGED <<alarms, seen>> /\ pc[e] # "idle"
      BY <1>6, EndState
    <2>2. InARow(Stored', Len(seen))
      <3>1. CASE Commits(e)
        BY <3>1 DEF Commits, InARow
      <3>2. CASE Closes(e)
        <4>1. Stored'.pending = JudgedPending(l) /\ Stored'.count = JudgedCount(l) /\ ~Confirms(l)
          BY <3>2 DEF Closes, Raises
        <4>2. CASE l.observed = l.snap.state
          BY <4>1, <4>2 DEF JudgedPending, InARow
        <4>3. CASE l.observed # l.snap.state
          <5>1. Stored'.pending = l.observed /\ Stored'.count = PendingCount(l)
            BY <4>1, <4>3 DEF JudgedPending, JudgedCount
          <5> QED BY <2>1, <5>1, CountInARow DEF ConsecutiveInv, InARow
        <4> QED BY <4>2, <4>3
      <3> QED BY <1>6, <3>1, <3>2
    <2> QED BY <2>1, <2>2 DEF ConsecutiveInv, InARow, AllIdle, RecoveryIsConsecutive
  <1> QED BY <1>1, <1>2, <1>3, <1>4, <1>5, <1>6 DEF StepKinds

-----------------------------------------------------------------------------
(* One notification outside per entry.                                     *)

\* Since the last notification no observation among the first n was less dangerous than
\* y, and none followed so long a pause that the hash may have run out.
Undisturbed(n, y) ==
    \A m \in external[Len(external)].seen + 1 .. n :
        /\ Rank[seen[m].state] >= Rank[y]
        /\ seen[m].at - seen[m - 1].at <= TTL - ReAlarmInterval

OnceInv ==
    /\ NotifiedOncePerEntry
    /\ \A k \in 1 .. Len(external) :
         external[k].seen \in 1 .. Len(seen) /\ seen[external[k].seen].state = external[k].to
    /\ AllIdle /\ external # <<>> =>
         \A y \in State \ {"safe"} :
            Rank[y] <= Rank[external[Len(external)].to] /\ Undisturbed(Len(seen), y) =>
                Rank[hash.state] >= Rank[y]
    /\ AllIdle /\ seen # <<>> /\ seen[Len(seen)].state # "safe" =>
         expireAt > seen[Len(seen)].at + TTL - ReAlarmInterval
    /\ \A e \in Evaluators :
         /\ pc[e] \in {"judge", "alarm", "notify"} =>
              \A k \in 1 .. Len(external) : external[k].seen <= Len(seen) - 1
         /\ /\ pc[e] # "idle"
            /\ external # <<>>
            /\ external[Len(external)].seen <= Len(seen) - 1
            /\ seen[Len(seen)].at - seen[Len(seen) - 1].at <= TTL - ReAlarmInterval
            => \A y \in State \ {"safe"} :
                 Rank[y] <= Rank[external[Len(external)].to] /\ Undisturbed(Len(seen) - 1, y) =>
                    Rank[local[e].snap.state] >= Rank[y]

LEMMA OnceInit == Init => OnceInv
  BY DEF Init, OnceInv, NotifiedOncePerEntry

LEMMA ExternalTypes ==
  ASSUME TypeOK
  PROVE  /\ Len(external) \in Nat /\ (external # <<>> <=> Len(external) >= 1)
         /\ \A k \in 1 .. Len(external) : external[k].seen \in Nat /\ external[k].to \in State
  <1> DEFINE Note == [to : State, seen : Nat]
  <1>1. external \in Seq(Note)
    BY DEF TypeOK
  <1>2. \A r \in Note : r.seen \in Nat /\ r.to \in State
    OBVIOUS
  <1> HIDE DEF Note
  <1> QED BY <1>1, <1>2

LEMMA RankNat == \A s \in State : Rank[s] \in Nat /\ (Rank[s] = 0 <=> s = "safe")
  BY DEF Rank, State

LEMMA OnceOpens ==
  ASSUME TypeOK, SerialInv, SerialInv', OnceInv,
         NEW e \in Evaluators, NEW s \in State, Opens(e, s)
  PROVE  OnceInv'
  <1> DEFINE n == Len(seen)
             x == external[Len(external)]
  <1>a. /\ n \in Nat /\ clock \in Nat /\ expireAt \in Nat
        /\ TTL \in Nat /\ ReAlarmInterval \in Nat
        /\ \A i \in 1 .. n : seen[i].state \in State /\ seen[i].at \in Nat
    BY SeenType, WorkerConstantsAssumption DEF TypeOK, WorkerConstantsAssumption
  <1>b. \A f \in Evaluators : pc'[f] # "idle" => f = e
    BY DEF SerialInv, AtMostOneRunning, Opens
  <1>1. /\ AllIdle /\ pc'[e] = "judge" /\ local'[e].snap = Stored
        /\ UNCHANGED <<clock, hash, expireAt, external>>
    BY DEF Opens
  <1>2. /\ Len(seen') = n + 1 /\ seen'[n + 1].at = clock
        /\ \A i \in 1 .. n : seen'[i] = seen[i]
    <2> DEFINE r == [state |-> s, at |-> clock]
    <2>1. seen' = Append(seen, r) /\ r.at = clock
      BY DEF Opens
    <2> HIDE DEF r
    <2> QED BY <2>1, OneMore DEF TypeOK
  <1>3. \A k \in 1 .. Len(external) :
           external[k].seen \in 1 .. n /\ seen[external[k].seen].state = external[k].to
    BY DEF OnceInv
  <1>4. NotifiedOncePerEntry'
    <2>1. \A k \in 2 .. Len(external) : k - 1 \in 1 .. Len(external) /\ k \in 1 .. Len(external)
      BY ExternalTypes
    <2>2. \A k \in 2 .. Len(external) :
            \A m \in external[k - 1].seen + 1 .. external[k].seen :
               seen'[m] = seen[m] /\ seen'[m - 1] = seen[m - 1]
      <3> SUFFICES ASSUME NEW k \in 2 .. Len(external),
                          NEW m \in external[k - 1].seen + 1 .. external[k].seen
                   PROVE  seen'[m] = seen[m] /\ seen'[m - 1] = seen[m - 1]
        OBVIOUS
      <3>1. external[k - 1].seen \in 1 .. n /\ external[k].seen \in 1 .. n
        BY <1>3, <2>1
      <3>2. m \in 1 .. n /\ m - 1 \in 1 .. n
        BY <1>a, <3>1
      <3> QED BY <1>2, <3>2
    <2> QED BY <1>1, <2>2 DEF OnceInv, NotifiedOncePerEntry
  <1>5. (\A k \in 1 .. Len(external) :
           external[k].seen \in 1 .. Len(seen) /\ seen[external[k].seen].state = external[k].to)'
    BY <1>a, <1>1, <1>2, <1>3
  <1>6. (\A k \in 1 .. Len(external) : external[k].seen <= Len(seen) - 1)'
    BY <1>a, <1>1, <1>2, <1>3
  <1>7. ASSUME external # <<>>,
               clock - seen'[n].at <= TTL - ReAlarmInterval,
               NEW y \in State \ {"safe"}, Rank[y] <= Rank[x.to],
               Undisturbed(Len(seen) - 1, y)'
        PROVE  Rank[Stored.state] >= Rank[y]
    <2>1. Len(external) \in 1 .. Len(external) /\ x.seen \in 1 .. n /\ x.to \in State
          /\ seen[x.seen].state = x.to /\ seen'[n] = seen[n] /\ n >= 1
      BY <1>2, <1>3, <1>7, ExternalTypes
    <2>2. Len(seen') - 1 = n
      BY <1>a, <1>2
    <2>3. \A m \in x.seen + 1 .. n :
             /\ Rank[seen'[m].state] >= Rank[y]
             /\ seen'[m].at - seen'[m - 1].at <= TTL - ReAlarmInterval
      <3> HIDE DEF n
      <3> QED BY <1>1, <1>7, <2>2 DEF Undisturbed
    <2>4. Undisturbed(n, y)
      <3>1. \A m \in x.seen + 1 .. n : seen'[m] = seen[m] /\ seen'[m - 1] = seen[m - 1]
        BY <1>a, <1>2, <2>1
      <3> QED BY <2>3, <3>1 DEF Undisturbed
    <2>5. Rank[hash.state] >= Rank[y]
      BY <1>1, <1>7, <2>4 DEF OnceInv
    <2>6. seen[n].state # "safe"
      <3>1. CASE x.seen = n
        BY <1>7, <2>1, <3>1, RankNat
      <3>2. CASE x.seen # n
        <4>1. n \in x.seen + 1 .. n /\ seen[n].state \in State
          BY <1>a, <2>1, <3>2
        <4>2. Rank[seen[n].state] >= Rank[y]
          BY <2>4, <4>1 DEF Undisturbed
        <4> QED BY <1>7, <4>1, <4>2, RankNat
      <3> QED BY <3>1, <3>2
    <2>7. expireAt > seen[n].at + TTL - ReAlarmInterval
      BY <1>1, <1>a, <2>1, <2>6, SeenType DEF OnceInv
    <2>8. clock < expireAt
      BY <1>a, <1>7, <2>1, <2>7
    <2> QED BY <2>5, <2>8 DEF Stored
  <1>8. /\ seen'[Len(seen')].at = clock /\ Len(seen') - 1 = n
        /\ local'[e].snap.state = Stored.state
    BY <1>a, <1>1, <1>2
  <1>9. ~AllIdle'
    BY <1>1 DEF AllIdle
  <1>10. /\ pc'[e] # "idle"
         /\ external' # <<>>
         /\ external'[Len(external')].seen <= Len(seen') - 1
         /\ seen'[Len(seen')].at - seen'[Len(seen') - 1].at <= TTL - ReAlarmInterval
         => \A y \in State \ {"safe"} :
              Rank[y] <= Rank[external'[Len(external')].to] /\ Undisturbed(Len(seen) - 1, y)' =>
                 Rank[local'[e].snap.state] >= Rank[y]
    BY <1>1, <1>7, <1>8
  <1> QED BY <1>b, <1>4, <1>5, <1>6, <1>9, <1>10 DEF OnceInv

LEMMA OnceTells ==
  ASSUME TypeOK, SerialInv, SerialInv', OnceInv, NEW e \in Evaluators, Tells(e)
  PROVE  OnceInv'
  <1> DEFINE n == Len(seen)
             l == local[e]
             x == external[Len(external)]
             r == [to |-> TargetState(local[e]), seen |-> Len(seen)]
  <1>a. /\ n \in Nat /\ n >= 1 /\ seen[n].state = l.observed /\ l \in LocalType
        /\ TargetState(l) \in State /\ l.snap.state \in State
    BY RunningFacts DEF Tells
  <1>b. \A f \in Evaluators : pc'[f] # "idle" => f = e
    BY DEF SerialInv, AtMostOneRunning, Tells
  <1>1. /\ pc[e] = "notify" /\ pc'[e] = "commit"
        /\ UNCHANGED <<clock, hash, expireAt, local, alarms, seen>>
    BY DEF Tells
  <1>2. ~AllIdle'
    BY <1>1 DEF AllIdle
  <1>3. CASE UNCHANGED external
    BY <1>b, <1>1, <1>2, <1>3 DEF OnceInv, NotifiedOncePerEntry, Undisturbed
  <1>4. CASE external' = Append(external, r)
    <2>1. r.to = TargetState(l) /\ r.seen = n
      OBVIOUS
    <2> HIDE DEF r
    <2>2. /\ Len(external') = Len(external) + 1 /\ Len(external) \in Nat /\ external' # <<>>
          /\ external'[Len(external) + 1] = r
          /\ \A k \in 1 .. Len(external) : external'[k] = external[k]
      <3> DEFINE Note == [to : State, seen : Nat]
      <3>1. external \in Seq(Note)
        BY DEF TypeOK
      <3> HIDE DEF Note
      <3>2. /\ Len(external') = Len(external) + 1 /\ Len(external) \in Nat
            /\ external'[Len(external) + 1] = r
            /\ \A k \in 1 .. Len(external) : external'[k] = external[k]
        BY <1>4, <3>1, OneMore
      <3>3. external' # <<>>
        BY <3>1, <3>2
      <3> QED BY <3>2, <3>3
    <2>3. NotifiesOutside(l)
      BY <1>1 DEF SerialInv, InStep
    <2>4. TargetState(l) = l.observed
      BY <2>3 DEF NotifiesOutside, TargetState, IsEscalation, Rank
    <2>5. external # <<>> =>
            \/ IsEscalation(x.to, r.to)
            \/ \E m \in x.seen + 1 .. r.seen :
                 \/ Rank[seen[m].state] < Rank[r.to]
                 \/ seen[m].at - seen[m - 1].at > TTL - ReAlarmInterval
      <3> SUFFICES ASSUME external # <<>>, ~IsEscalation(x.to, r.to),
                          \A m \in x.seen + 1 .. n :
                             /\ ~(Rank[seen[m].state] < Rank[r.to])
                             /\ ~(seen[m].at - seen[m - 1].at > TTL - ReAlarmInterval)
                   PROVE  FALSE
        BY <2>1
      <3>1. Len(external) \in 1 .. Len(external) /\ x.to \in State /\ x.seen \in Nat
            /\ x.seen <= n - 1
        BY <1>1, ExternalTypes DEF OnceInv
      <3>2. /\ r.to \in State \ {"safe"} /\ Rank[r.to] <= Rank[x.to]
            /\ Rank[l.snap.state] < Rank[r.to]
        BY <1>a, <2>1, <2>3, <3>1, RankNat DEF NotifiesOutside, IsEscalation
      <3>3. \A m \in x.seen + 1 .. n :
               /\ Rank[seen[m].state] >= Rank[r.to]
               /\ seen[m].at - seen[m - 1].at <= TTL - ReAlarmInterval
        <4> SUFFICES ASSUME NEW m \in x.seen + 1 .. n
                     PROVE  /\ Rank[seen[m].state] >= Rank[r.to]
                            /\ seen[m].at - seen[m - 1].at <= TTL - ReAlarmInterval
          OBVIOUS
        <4>0. x.seen >= 1
          BY <3>1 DEF OnceInv
        <4>1. m \in 1 .. n /\ m - 1 \in 1 .. n
          BY <1>a, <3>1, <4>0
        <4>2. seen[m].state \in State /\ seen[m].at \in Nat /\ seen[m - 1].at \in Nat
              /\ TTL \in Nat /\ ReAlarmInterval \in Nat
          BY <4>1, SeenType, WorkerConstantsAssumption DEF WorkerConstantsAssumption
        <4>3. Rank[seen[m].state] \in Nat /\ Rank[r.to] \in Nat
          BY <3>2, <4>2, RankNat
        <4> QED BY SMTT(30), <4>2, <4>3
      <3>4. n \in x.seen + 1 .. n /\ \A m \in x.seen + 1 .. n - 1 : m \in x.seen + 1 .. n
        BY <1>a, <3>1
      <3>5. Undisturbed(n - 1, r.to) /\ seen[n].at - seen[n - 1].at <= TTL - ReAlarmInterval
        BY <3>3, <3>4 DEF Undisturbed
      <3>6. Rank[l.snap.state] >= Rank[r.to]
        BY <1>1, <3>1, <3>2, <3>5 DEF OnceInv
      <3> QED BY <1>a, <3>2, <3>6, RankNat
    <2>6. NotifiedOncePerEntry'
      <3> SUFFICES ASSUME NEW k \in 2 .. Len(external')
                   PROVE  \/ IsEscalation(external'[k - 1].to, external'[k].to)
                          \/ \E m \in external'[k - 1].seen + 1 .. external'[k].seen :
                               \/ Rank[seen[m].state] < Rank[external'[k].to]
                               \/ seen[m].at - seen[m - 1].at > TTL - ReAlarmInterval
        BY <1>1 DEF NotifiedOncePerEntry
      <3>1. CASE k = Len(external) + 1
        <4>1. k - 1 = Len(external) /\ k - 1 \in 1 .. Len(external) /\ external # <<>>
          BY <2>2, <3>1, ExternalTypes
        <4> QED BY <2>2, <2>5, <3>1, <4>1
      <3>2. CASE k # Len(external) + 1
        <4>1. k \in 2 .. Len(external) /\ k - 1 \in 1 .. Len(external) /\ k \in 1 .. Len(external)
          BY <2>2, <3>2
        <4> QED BY <2>2, <4>1 DEF OnceInv, NotifiedOncePerEntry
      <3> QED BY <3>1, <3>2
    <2>7. (\A k \in 1 .. Len(external) :
             external[k].seen \in 1 .. Len(seen) /\ seen[external[k].seen].state = external[k].to)'
      <3>1. r.seen \in 1 .. n /\ seen[r.seen].state = r.to
        BY <1>a, <2>1, <2>4
      <3> QED BY SMTT(30), <1>1, <2>2, <3>1 DEF OnceInv
    <2>8. ~(external'[Len(external')].seen <= Len(seen) - 1)
      BY <1>a, <2>1, <2>2
    <2> QED BY <1>b, <1>1, <1>2, <2>6, <2>7, <2>8 DEF OnceInv
  <1> QED BY <1>3, <1>4 DEF Tells

LEMMA OnceEnds ==
  ASSUME TypeOK, TypeOK', SerialInv, OnceInv, LapseInv,
         NEW e \in Evaluators, Commits(e) \/ Closes(e)
  PROVE  OnceInv'
  <1> DEFINE n == Len(seen)
             l == local[e]
             x == external[Len(external)]
  <1>1. /\ AllIdle' /\ UNCHANGED <<clock, alarms, external, seen>> /\ pc[e] # "idle"
        /\ Stored'.state = TargetState(l)
    BY EndState
  <1>2. /\ n \in Nat /\ n >= 1 /\ seen[n].state = l.observed /\ seen[n].at = l.now
        /\ l.now <= clock /\ l.now \in Nat /\ clock \in Nat
        /\ l \in LocalType /\ l.observed \in State /\ l.snap.state \in State
        /\ l.snap.lastAlarm \in Nat /\ TargetState(l) \in State /\ seen # <<>>
    BY <1>1, RunningFacts, SeenType
  <1>3. TTL \in Nat /\ ReAlarmInterval \in Nat /\ ReAlarmInterval > 0
    BY WorkerConstantsAssumption DEF WorkerConstantsAssumption
  <1>4. Stored'.state # "safe" => Stored' = hash'
    BY DEF Stored, EmptyHash
  <1>5. ASSUME l.observed # "safe"
        PROVE  expireAt' > l.now + TTL - ReAlarmInterval
    <2>1. CASE expireAt' = clock + TTL
      BY <1>2, <1>3, <2>1
    <2>2. CASE expireAt' # clock + TTL
      <3>1. /\ UNCHANGED <<hash, expireAt>> /\ l.observed = l.snap.state
            /\ ~OngoingDue(l)
            /\ Stored'.state = l.snap.state /\ Stored'.lastAlarm = l.snap.lastAlarm
        BY <2>2 DEF Commits, Closes, Raises
      <3>2. hash.state # "safe" /\ hash.lastAlarm = l.snap.lastAlarm
        BY <1>4, <1>5, <3>1
      <3>3. expireAt >= hash.lastAlarm + TTL
        BY <3>2 DEF LapseInv, Outlives
      <3>4. l.now - l.snap.lastAlarm < ReAlarmInterval
        BY <1>2, <1>3, <1>5, <3>1 DEF OngoingDue
      <3>5. expireAt \in Nat /\ expireAt' = expireAt
        BY <3>1 DEF TypeOK
      <3> QED BY <1>2, <1>3, <3>2, <3>3, <3>4, <3>5
    <2> QED BY <2>1, <2>2
  <1>6. ASSUME external # <<>>, NEW y \in State \ {"safe"}, Rank[y] <= Rank[x.to],
               Undisturbed(n, y)
        PROVE  Rank[hash'.state] >= Rank[y]
    <2>1. Len(external) \in 1 .. Len(external) /\ x.seen \in 1 .. n /\ x.to \in State
          /\ seen[x.seen].state = x.to
      BY <1>6, ExternalTypes DEF OnceInv
    <2>2. /\ Rank[y] \in Nat /\ Rank[x.to] \in Nat /\ Rank[l.observed] \in Nat
          /\ Rank[l.snap.state] \in Nat /\ Rank[TargetState(l)] \in Nat /\ Rank[y] > 0
      BY <1>2, <2>1, RankNat
    <2>3. CASE x.seen = n
      <3>1. Rank[TargetState(l)] >= Rank[y]
        BY <1>2, <1>6, <2>1, <2>2, <2>3, TargetRank
      <3> QED BY <1>1, <1>2, <1>4, <2>2, <3>1, RankNat
    <2>4. CASE x.seen # n
      <3>1. x.seen <= n - 1 /\ n \in x.seen + 1 .. n
            /\ \A m \in x.seen + 1 .. n - 1 : m \in x.seen + 1 .. n
        BY <1>2, <2>1, <2>4
      <3>2. /\ Undisturbed(n - 1, y) /\ Rank[seen[n].state] >= Rank[y]
            /\ seen[n].at - seen[n - 1].at <= TTL - ReAlarmInterval
        BY <1>6, <3>1 DEF Undisturbed
      <3>3. Rank[l.snap.state] >= Rank[y]
        BY <1>1, <1>6, <3>1, <3>2 DEF OnceInv
      <3>4. Rank[TargetState(l)] >= Rank[y]
        BY <1>2, <3>2, <3>3, TargetRank
      <3> QED BY <1>1, <1>2, <1>4, <2>2, <3>4, RankNat
    <2> QED BY <2>3, <2>4
  <1>7. NotifiedOncePerEntry'
    BY <1>1 DEF OnceInv, NotifiedOncePerEntry
  <1>8. \A f \in Evaluators : pc'[f] = "idle"
    BY <1>1 DEF AllIdle
  <1>9. (\A k \in 1 .. Len(external) :
           external[k].seen \in 1 .. Len(seen) /\ seen[external[k].seen].state = external[k].to)'
    BY <1>1 DEF OnceInv
  <1>10. (external # <<>> =>
            \A y \in State \ {"safe"} :
               Rank[y] <= Rank[external[Len(external)].to] /\ Undisturbed(Len(seen), y) =>
                  Rank[hash.state] >= Rank[y])'
    BY <1>1, <1>6 DEF Undisturbed
  <1>11. (seen[Len(seen)].state # "safe" =>
            expireAt > seen[Len(seen)].at + TTL - ReAlarmInterval)'
    BY <1>1, <1>2, <1>5
  <1> QED BY <1>7, <1>8, <1>9, <1>10, <1>11 DEF OnceInv

LEMMA OnceStep ==
  ASSUME TypeOK, TypeOK', SerialInv, SerialInv', OnceInv, LapseInv, StepKinds
  PROVE  OnceInv'
  <1>c. \A e, f \in Evaluators : pc'[e] # "idle" /\ pc'[f] # "idle" => e = f
    BY DEF SerialInv, AtMostOneRunning
  <1>1. CASE UNCHANGED <<hash, expireAt, pc, local, external, seen>>
    BY <1>1 DEF OnceInv, NotifiedOncePerEntry, Undisturbed, AllIdle
  <1>2. ASSUME NEW e \in Evaluators, Continues(e) \/ Announces(e) PROVE OnceInv'
    <2>1. /\ pc[e] \in {"judge", "alarm"} /\ pc'[e] # "idle"
          /\ UNCHANGED <<local, external, seen>>
      BY <1>2 DEF Continues, Announces
    <2>2. ~AllIdle' /\ \A f \in Evaluators : pc'[f] # "idle" => f = e
      BY <1>c, <2>1 DEF AllIdle
    <2> QED BY <2>1, <2>2 DEF OnceInv, NotifiedOncePerEntry, Undisturbed
  <1> QED BY <1>1, <1>2, OnceOpens, OnceTells, OnceEnds DEF StepKinds, Waits

-----------------------------------------------------------------------------
(* Observations in a row are a recovery in the end.                        *)

\* The last k of the first n observations are of state s and recent at time t.
RecentRun(n, s, k, t) ==
    /\ k <= n
    /\ \A i \in n - k + 1 .. n : seen[i].state = s
    /\ t - seen[n - k + 1].at < ReAlarmInterval

Counted(h, s) == IF h.pending = s THEN h.count ELSE 0

\* What k observations of state s in a row, the first at time from, have done to h: its
\* state is no worse, or all of them are counted, or an ongoing alarm has dropped those
\* before it, fewer than RecoveryTicks, and no other will be due for a while.
Progress(h, s, k, from) ==
    \/ Rank[h.state] <= Rank[s]
    \/ h.pending = s /\ h.count >= k /\ h.count < RecoveryTicks
    \/ /\ h.lastAlarm >= from
       /\ Counted(h, s) >= k - RecoveryTicks + 1
       /\ Counted(h, s) < RecoveryTicks

Advances(h, n, t) ==
    \A s \in State : \A k \in Nat \ {0} :
        RecentRun(n, s, k, t) => Progress(h, s, k, seen[n - k + 1].at)

InTime ==
    \A i, j \in 1 .. Len(seen) : i <= j => seen[i].at <= seen[j].at /\ seen[j].at <= clock

SteadyInv ==
    /\ InTime
    /\ AllIdle => Advances(Stored, Len(seen), seen[Len(seen)].at)
    /\ \A e \in Evaluators :
         pc[e] # "idle" => Advances(local[e].snap, Len(seen) - 1, local[e].now)

LEMMA SteadyInit == Init => SteadyInv
  BY DEF Init, SteadyInv, InTime, Advances, RecentRun

\* An empty hash is in no dangerous state.
LEMMA EmptyAdvances == \A n, t : Advances(EmptyHash, n, t)
  BY DEF Advances, Progress, EmptyHash, Rank, State

\* One more observation of the state s.
LEMMA ProgressOn ==
  ASSUME TypeOK, SerialInv, NEW e \in Evaluators, Commits(e) \/ Closes(e),
         NEW k \in Nat, NEW from \in Nat,
         from <= local[e].now,
         local[e].now - from < ReAlarmInterval,
         k > 0 => Progress(local[e].snap, local[e].observed, k, from)
  PROVE  Progress(Stored', local[e].observed, k + 1, from)
  <1> DEFINE l == local[e]
             obs == local[e].observed
             h == Stored'
  <1>a. /\ l \in LocalType /\ obs \in State /\ l.snap.state \in State
        /\ l.snap.count \in Nat /\ l.snap.lastAlarm \in Nat /\ l.now \in Nat
        /\ clock \in Nat /\ l.now <= clock
        /\ h.state = TargetState(l)
    BY EndState, RunningFacts
  <1>b. RecoveryTicks \in Nat /\ RecoveryTicks >= 2 /\ ReAlarmInterval \in Nat
    BY WorkerConstantsAssumption DEF WorkerConstantsAssumption
  <1>c. PendingCount(l) \in Nat /\ PendingCount(l) >= 1
        /\ PendingCount(l) = Counted(l.snap, obs) + 1 /\ Counted(l.snap, obs) \in Nat
    BY <1>a DEF PendingCount, Counted
  <1>1. CASE Rank[l.snap.state] <= Rank[obs]
    <2>1. Rank[TargetState(l)] <= Rank[obs]
      BY <1>a, <1>1 DEF TargetState, Rank, State
    <2> QED BY <1>a, <2>1 DEF Progress
  <1>2. CASE Confirms(l)
    <2>1. TargetState(l) = obs
      BY <1>2 DEF TargetState
    <2> QED BY <1>a, <2>1, RankNat DEF Progress
  <1>3. CASE ~(Rank[l.snap.state] <= Rank[obs]) /\ ~Confirms(l)
    <2>1. IsRecovery(l) /\ PendingCount(l) < RecoveryTicks
      <3>1. IsRecovery(l)
        BY <1>a, <1>3, RankNat DEF IsRecovery
      <3> QED BY <1>b, <1>c, <1>3, <3>1 DEF Confirms
    <2>2. obs # l.snap.state
      BY <1>3, <1>a, RankNat
    <2>3. k > 0 => \/ Counted(l.snap, obs) >= k
                   \/ /\ l.snap.lastAlarm >= from
                      /\ Counted(l.snap, obs) >= k - RecoveryTicks + 1
      BY <1>3 DEF Progress, Counted
    <2>4. CASE OngoingDue(l)
      <3>1. Commits(e)
        BY <2>4 DEF Closes, Raises
      <3>2. h.lastAlarm = clock /\ h.pending = NoPending /\ h.count = 0
        BY <3>1 DEF Commits
      <3>3. ~(l.snap.lastAlarm >= from)
        <4>1. l.now - l.snap.lastAlarm >= ReAlarmInterval
          BY <2>4 DEF OngoingDue
        <4> QED BY <1>a, <1>b, <4>1
      <3>4. k + 1 < RecoveryTicks \/ k = 0
        BY <1>b, <1>c, <2>1, <2>3, <3>3
      <3>5. Counted(h, obs) = 0
        BY <3>2 DEF Counted
      <3>6. h.lastAlarm >= from /\ 0 >= (k + 1) - RecoveryTicks + 1 /\ 0 < RecoveryTicks
        BY <1>a, <1>b, <3>2, <3>4
      <3> QED BY <3>5, <3>6 DEF Progress
    <2>5. CASE ~OngoingDue(l)
      <3>1. Closes(e)
        <4>1. ~Raises(l)
          BY <1>3, <2>5 DEF Raises
        <4>2. pc[e] # "idle"
          BY EndState
        <4>3. pc[e] = "judge"
          BY <4>1, <4>2, RunningFacts
        <4> QED BY <4>3 DEF Commits
      <3>2. /\ h.pending = obs /\ h.count = PendingCount(l) /\ h.lastAlarm = l.snap.lastAlarm
        BY <1>3, <2>2, <3>1 DEF Closes, JudgedPending, JudgedCount
      <3>3. Counted(h, obs) = PendingCount(l)
        BY <3>2 DEF Counted
      <3>4. \/ PendingCount(l) >= k + 1
            \/ /\ l.snap.lastAlarm >= from
               /\ PendingCount(l) >= (k + 1) - RecoveryTicks + 1
        <4> HIDE DEF h, l, obs
        <4> QED BY <1>b, <1>c, <2>3
      <3> QED BY <1>c, <2>1, <3>2, <3>3, <3>4 DEF Progress
    <2> QED BY <2>4, <2>5
  <1> QED BY <1>1, <1>2, <1>3

LEMMA SteadyStep ==
  ASSUME TypeOK, TypeOK', SerialInv, SerialInv', SteadyInv, StepKinds
  PROVE  SteadyInv'
  <1> DEFINE n == Len(seen)
  <1>a. /\ n \in Nat /\ clock \in Nat
        /\ \A i \in 1 .. n : seen[i].state \in State /\ seen[i].at \in Nat
        /\ seen # <<>> <=> n >= 1
        /\ RecoveryTicks \in Nat /\ ReAlarmInterval \in Nat
    BY SeenType, WorkerConstantsAssumption DEF TypeOK, WorkerConstantsAssumption
  <1>c. \A e, f \in Evaluators : pc'[e] # "idle" /\ pc'[f] # "idle" => e = f
    BY DEF SerialInv, AtMostOneRunning
  <1>1. CASE Waits
    <2>1. UNCHANGED <<hash, expireAt, pc, local, seen>> /\ clock' = clock + 1
          /\ Stored' \in {Stored, EmptyHash}
      BY <1>1 DEF Waits
    <2>2. InTime'
      BY <1>a, <2>1 DEF SteadyInv, InTime
    <2>3. AllIdle => Advances(Stored', Len(seen), seen[Len(seen)].at)
      BY <2>1, EmptyAdvances DEF SteadyInv
    <2>4. (AllIdle => Advances(Stored, Len(seen), seen[Len(seen)].at))'
      BY <2>1, <2>3 DEF Advances, RecentRun, Progress, Counted, AllIdle
    <2> QED BY <2>1, <2>2, <2>4 DEF SteadyInv, Advances, RecentRun
  <1>2. CASE UNCHANGED <<clock, hash, expireAt, pc, local, alarms, external, seen>>
    BY <1>2 DEF SteadyInv, InTime, Advances, RecentRun, Progress, Counted, AllIdle, Stored
  <1>3. ASSUME NEW e \in Evaluators, NEW s \in State, Opens(e, s) PROVE SteadyInv'
    <2>1. /\ AllIdle /\ pc'[e] # "idle" /\ local'[e].snap = Stored /\ local'[e].now = clock
          /\ clock' = clock
      BY <1>3 DEF Opens
    <2>2. /\ Len(seen') = n + 1 /\ \A i \in 1 .. n : seen'[i] = seen[i]
          /\ seen'[n + 1].at = clock
      <3> DEFINE r == [state |-> s, at |-> clock]
      <3>1. seen' = Append(seen, r) /\ r.at = clock
        BY <1>3 DEF Opens
      <3> HIDE DEF r
      <3> QED BY <3>1, OneMore DEF TypeOK
    <2>3. InTime'
      BY <1>a, <2>1, <2>2 DEF SteadyInv, InTime
    <2>4. Advances(local[e].snap, Len(seen) - 1, local[e].now)'
      <3> SUFFICES ASSUME NEW t \in State, NEW k \in Nat \ {0}, k <= n,
                          \A i \in n - k + 1 .. n : seen'[i].state = t,
                          clock - seen'[n - k + 1].at < ReAlarmInterval
                   PROVE  Progress(Stored, t, k, seen'[n - k + 1].at)
        <4>1. Len(seen') - 1 = n
          BY <1>a, <2>2
        <4> HIDE DEF n
        <4> QED BY <2>1, <4>1 DEF Advances, RecentRun, Progress, Counted
      <3>1. k \in Nat /\ k >= 1 /\ n \in Nat
        BY <1>a
      <3> HIDE DEF n
      <3>2. k <= n /\ n - k + 1 \in 1 .. n /\ \A i \in n - k + 1 .. n : i \in 1 .. n
        BY <3>1
      <3>3. /\ \A i \in n - k + 1 .. n : seen[i].state = t
            /\ clock - seen[n - k + 1].at < ReAlarmInterval
            /\ seen'[n - k + 1].at = seen[n - k + 1].at
        BY <2>2, <3>2
      <3>4. n \in 1 .. n /\ n - k + 1 <= n
        BY <3>2, <3>1
      <3>5. seen[n].at <= clock
        BY <3>4 DEF SteadyInv, InTime, n
      <3>6. seen[n].at \in Nat /\ seen[n - k + 1].at \in Nat
        BY <1>a, <3>2, <3>4
      <3>7. RecentRun(n, t, k, seen[n].at)
        BY <1>a, <3>2, <3>3, <3>5, <3>6 DEF RecentRun
      <3>8. Advances(Stored, n, seen[n].at)
        BY <2>1 DEF SteadyInv, n
      <3> QED BY <3>1, <3>3, <3>7, <3>8 DEF Advances
    <2>5. ~AllIdle'
      BY <2>1 DEF AllIdle
    <2> QED BY <1>c, <2>1, <2>3, <2>4, <2>5 DEF SteadyInv
  <1>4. ASSUME NEW e \in Evaluators, Continues(e) \/ Announces(e) \/ Tells(e)
        PROVE  SteadyInv'
    <2>1. /\ pc[e] # "idle" /\ pc'[e] # "idle" /\ UNCHANGED <<clock, local, seen>>
      BY <1>4 DEF Continues, Announces, Tells
    <2> QED BY <1>c, <2>1 DEF SteadyInv, InTime, Advances, RecentRun, AllIdle
  <1>5. ASSUME NEW e \in Evaluators, Commits(e) \/ Closes(e) PROVE SteadyInv'
    <2> DEFINE l == local[e]
    <2>1. AllIdle' /\ UNCHANGED <<clock, seen>> /\ pc[e] # "idle"
      BY <1>5, EndState
    <2>2. n >= 1 /\ seen[n].state = l.observed /\ seen[n].at = l.now /\ l.now \in Nat
      BY <2>1, RunningFacts
    <2>3. ASSUME NEW s \in State, NEW k \in Nat \ {0}, RecentRun(n, s, k, l.now)
          PROVE  Progress(Stored', s, k, seen[n - k + 1].at)
      <3>1. k <= n /\ n - k + 1 \in 1 .. n /\ n \in n - k + 1 .. n
        BY <1>a, <2>3 DEF RecentRun
      <3>2. s = l.observed
        BY <2>2, <2>3, <3>1 DEF RecentRun
      <3> DEFINE from == seen[n - k + 1].at
      <3>3. from \in Nat /\ from <= l.now /\ l.now - from < ReAlarmInterval
        BY <1>a, <2>2, <2>3, <3>1 DEF SteadyInv, InTime, RecentRun
      <3>4. k - 1 \in Nat /\ (n - 1) - (k - 1) + 1 = n - k + 1 /\ k = (k - 1) + 1
        BY <1>a
      <3>5. k - 1 > 0 => Progress(l.snap, s, k - 1, from)
        <4> SUFFICES ASSUME k - 1 > 0 PROVE Progress(l.snap, s, k - 1, from)
          OBVIOUS
        <4>1. RecentRun(n - 1, s, k - 1, l.now)
          BY <1>a, <2>3, <3>1, <3>4 DEF RecentRun
        <4>2. Advances(l.snap, n - 1, l.now)
          BY <2>1 DEF SteadyInv
        <4> QED BY <3>4, <4>1, <4>2 DEF Advances
      <3> HIDE DEF from
      <3>6. Progress(Stored', s, (k - 1) + 1, from)
        BY <1>5, <3>2, <3>3, <3>4, <3>5, ProgressOn
      <3> QED BY <3>4, <3>6 DEF from
    <2>4. Advances(Stored, Len(seen), seen[Len(seen)].at)'
      <3> HIDE DEF n
      <3>1. \A s \in State : \A k \in Nat \ {0} :
               RecentRun(n, s, k, seen[n].at) => Progress(Stored', s, k, seen[n - k + 1].at)
        BY <2>2, <2>3
      <3> QED BY <2>1, <3>1 DEF Advances, RecentRun, Progress, Counted, n
    <2>5. \A f \in Evaluators : pc'[f] = "idle"
      BY <2>1 DEF AllIdle
    <2> QED BY <2>1, <2>4, <2>5 DEF SteadyInv, InTime
  <1> QED BY <1>1, <1>2, <1>3, <1>4, <1>5 DEF StepKinds

LEMMA SteadyHolds == TypeOK /\ SteadyInv /\ AtOnceInv => SteadyRecovers
  <1> DEFINE n == 2 * RecoveryTicks - 1
             m == Len(seen)
             from == seen[m - n + 1].at
  <1> SUFFICES ASSUME TypeOK, SteadyInv, AtOnceInv, AllIdle, NEW s \in State,
                      Steady(n, s), seen[m].at - from < ReAlarmInterval, clock < expireAt
               PROVE  hash.state = s
    BY DEF SteadyRecovers
  <1>1. RecoveryTicks \in Nat /\ RecoveryTicks >= 2 /\ m \in Nat
    BY WorkerConstantsAssumption DEF WorkerConstantsAssumption, TypeOK
  <1>2. n \in Nat \ {0} /\ m >= 1 /\ m \in m - n + 1 .. m /\ m >= n
    BY <1>1 DEF Steady
  <1>3. RecentRun(m, s, n, seen[m].at)
    BY <1>2 DEF RecentRun, Steady
  <1>4. Progress(Stored, s, n, from)
    BY <1>2, <1>3 DEF SteadyInv, Advances
  <1>5. Stored = hash /\ hash.state \in State /\ hash.count \in Nat
    BY DEF Stored, TypeOK, HashType
  <1>6. Rank[hash.state] <= Rank[s]
    <2>1. ~(hash.count >= n /\ hash.count < RecoveryTicks)
      BY <1>1, <1>5
    <2>2. Counted(hash, s) \in Nat
      BY <1>5 DEF Counted
    <2>3. ~(Counted(hash, s) >= n - RecoveryTicks + 1 /\ Counted(hash, s) < RecoveryTicks)
      BY <1>1, <2>2
    <2> HIDE DEF n, from
    <2> QED BY <1>4, <1>5, <2>1, <2>3 DEF Progress
  <1>7. Rank[hash.state] >= Rank[s]
    <2>1. seen[m].state = s
      BY <1>2 DEF Steady
    <2> QED BY <1>2, <2>1 DEF AtOnceInv, EscalatesAtOnce
  <1> QED BY <1>5, <1>6, <1>7 DEF Rank, State

-----------------------------------------------------------------------------
(* The theorems.                                                           *)

OrderInv ==
    SerialInv /\ AtOnceInv /\ ConsecutiveInv /\ LapseInv /\ OnceInv /\ SteadyInv

LEMMA OrderInit == MCInit => TypeOK /\ OrderInv
  BY TypeInit, SerialInit, AtOnceInit, ConsecutiveInit, LapseInit, OnceInit, SteadyInit
  DEF MCInit, OrderInv

LEMMA OrderStep ==
  ASSUME TypeOK, OrderInv, single, [MCNext]_<<vars, single>>
  PROVE  TypeOK' /\ OrderInv' /\ single'
  <1>1. CASE Next /\ InOrder /\ single' = single
    <2>1. SerialInv' /\ StepKinds
      BY <1>1, SerialStep DEF OrderInv
    <2>2. TypeOK' /\ LapseInv'
      BY <1>1, TypeStep, LapseStep DEF OrderInv
    <2> QED BY <1>1, <2>1, <2>2, AtOnceStep, ConsecutiveStep, OnceStep, SteadyStep DEF OrderInv
  <1>2. CASE UNCHANGED <<vars, single>>
    <2>1. UNCHANGED <<clock, hash, expireAt, pc, local, alarms, external, seen>> /\ UNCHANGED vars
      BY <1>2 DEF vars
    <2>2. SerialInv'
      <3>1. Stored' = Stored
        BY <2>1 DEF Stored
      <3>2. ASSUME NEW e \in Evaluators, InStep(e) PROVE InStep(e)'
        BY <2>1, <3>1, <3>2, DecisionKept DEF InStep
      <3> QED BY <2>1, <3>2 DEF OrderInv, SerialInv, AtMostOneRunning
    <2>3. StepKinds
      BY <2>1 DEF StepKinds
    <2>4. TypeOK' /\ LapseInv'
      BY <2>1, TypeStep, LapseStep DEF OrderInv
    <2> QED BY <1>2, <2>2, <2>3, <2>4, AtOnceStep, ConsecutiveStep, OnceStep, SteadyStep DEF OrderInv
  <1> QED BY <1>1, <1>2 DEF MCNext

\* A step keeps the instance that was chosen, and every type.
LEMMA InstanceKept ==
  ASSUME TypeOK, [MCNext]_<<vars, single>>
  PROVE  TypeOK' /\ single' = single
  BY TypeStep DEF MCNext, vars

LEMMA OrderInvariant == MCSpec => [](TypeOK /\ (single => OrderInv))
  <1> DEFINE I == TypeOK /\ (single => OrderInv)
  <1>1. MCInit => I
    BY OrderInit
  <1>2. I /\ [MCNext]_<<vars, single>> => I'
    BY InstanceKept, OrderStep
  <1> QED BY <1>1, <1>2, PTL DEF MCSpec

\* A worsening is taken over by the evaluation that observes it, whatever recovery was
\* pending, while evaluations of the worker come one after the other
\* (worker_evaluator.py:268-284).
THEOREM EscalatesAtOnceInOrderHolds == MCSpec => []EscalatesAtOnceInOrder
  <1>1. TypeOK /\ (single => OrderInv) => EscalatesAtOnceInOrder
    BY DEF OrderInv, AtOnceInv, EscalatesAtOnceInOrder
  <1> QED BY <1>1, OrderInvariant, PTL

\* A recovery is announced only after RecoveryTicks observations in a row of the state
\* recovered to, while evaluations come one after the other (worker_evaluator.py:22).
THEOREM RecoveryIsConsecutiveInOrderHolds == MCSpec => []RecoveryIsConsecutiveInOrder
  <1>1. TypeOK /\ (single => OrderInv) => RecoveryIsConsecutiveInOrder
    BY DEF OrderInv, ConsecutiveInv, RecoveryIsConsecutiveInOrder
  <1> QED BY <1>1, OrderInvariant, PTL

\* Two notifications outside in a row are a worsening, or lie on both sides of an
\* observation of a less dangerous state or of a pause long enough for the hash to run
\* out, while evaluations come one after the other (worker_evaluator.py:344-354).
THEOREM NotifiedOncePerEntryInOrderHolds == MCSpec => []NotifiedOncePerEntryInOrder
  <1>1. TypeOK /\ (single => OrderInv) => NotifiedOncePerEntryInOrder
    BY DEF OrderInv, OnceInv, NotifiedOncePerEntryInOrder
  <1> QED BY <1>1, OrderInvariant, PTL

\* 2 * RecoveryTicks - 1 observations of one state in a row, within one re-alarm
\* interval, leave the worker in that state: an ongoing alarm drops the count at most
\* once among them (worker_evaluator.py:268-298, 357-364).
THEOREM SteadyRecoversInOrderHolds == MCSpec => []SteadyRecoversInOrder
  <1>1. TypeOK /\ (single => OrderInv) => SteadyRecoversInOrder
    BY SteadyHolds DEF OrderInv, SteadyRecoversInOrder
  <1> QED BY <1>1, OrderInvariant, PTL

=============================================================================

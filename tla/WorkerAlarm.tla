----------------------------- MODULE WorkerAlarm -----------------------------
(***************************************************************************)
(* The alarm decision of one worker: evaluate_worker                       *)
(* (alerts/services/worker_evaluator.py) over the Redis hash               *)
(* sensa:worker:<worker>:alarm (alerts/state_store.py).  A worsening is    *)
(* taken over at once, a recovery after RecoveryTicks consecutive          *)
(* observations.  As in SensorAlarm an evaluation reads the hash once and  *)
(* then issues separate writes; Evaluators are the threads of control that *)
(* may evaluate this worker at the same time (check-geofence requests on   *)
(* the web pods).                                                          *)
(***************************************************************************)
EXTENDS Integers, Sequences, FiniteSets

CONSTANTS
    Evaluators,      \* threads of control that may evaluate this worker
    Situations,      \* where the worker may be: [fences, nearby] records
    RecoveryTicks,   \* RECOVERY_CONFIRM_TICKS (3 in settings.py)
    ReAlarmInterval, \* RE_ALARM_INTERVAL_SEC (60)
    TTL,             \* TTL_SEC (300)
    Epoch,           \* time.time() when the model starts
    MaxTime,         \* bound: seconds the clock may advance
    MaxObs,          \* bound: evaluations started
    MaxOutages,      \* bound: Redis calls that fail
    MaxAborts        \* bound: evaluations that stop before their end

FenceKinds == {"restricted", "dynamicCritical", "danger", "caution"}
Nearby == {"normal", "caution", "danger"}

\* A recovery takes at least two observations, and a hash outlives the
\* re-alarm interval.
ASSUME WorkerConstantsAssumption ==
    /\ Situations \subseteq [fences : SUBSET FenceKinds, nearby : Nearby]
    /\ RecoveryTicks \in Nat \ {0, 1}
    /\ ReAlarmInterval \in Nat \ {0}
    /\ TTL \in Nat
    /\ TTL >= ReAlarmInterval
    /\ Epoch \in Nat
    /\ Epoch >= ReAlarmInterval
    /\ MaxTime \in Nat
    /\ MaxObs \in Nat
    /\ MaxOutages \in Nat
    /\ MaxAborts \in Nat

VARIABLES
    clock,    \* time.time(), in seconds
    hash,     \* fields of the Redis hash, as last written
    expireAt, \* when the hash's TTL runs out
    pc,       \* where each evaluation stands
    local,    \* what each evaluation holds in its local variables
    alarms,   \* Alarm rows of this worker, in the order they were inserted
    external, \* external notifications queued: the index of their alarm row
    seen,     \* history: observed states, in the order of their reads
    lastDone, \* history: latest observation time of an evaluation that returned
    outages,  \* Redis calls that failed so far
    aborts    \* evaluations that stopped before their end so far

vars == <<clock, hash, expireAt, pc, local, alarms, external, seen, lastDone,
          outages, aborts>>

-----------------------------------------------------------------------------
State == {"safe", "caution", "danger", "critical"}
Rank == [safe |-> 0, caution |-> 1, danger |-> 2, critical |-> 3]
IsEscalation(prev, curr) == Rank[curr] > Rank[prev]

\* _classify_state: the fences that contain the worker and the worst status of
\* the sensors around him.
Classify(fences, nearby) ==
    IF fences \cap {"restricted", "dynamicCritical"} # {} THEN "critical"
    ELSE IF "danger" \in fences \/ nearby = "danger" THEN "danger"
    ELSE IF "caution" \in fences \/ nearby = "caution" THEN "caution"
    ELSE "safe"

NoPending == "none"
EmptyHash == [state |-> "safe", lastAlarm |-> 0, pending |-> NoPending, count |-> 0]

\* What HGETALL returns: an expired key reads as an empty hash.
Stored == IF clock < expireAt THEN hash ELSE EmptyHash

IsRecovery(l) == Rank[l.observed] < Rank[l.snap.state]

\* Faulty variants of the definition that follows each of them, named
\* <definition>_<fault>, are used by no specification: they record which
\* mistake in the code each property would catch.
PendingCount_AnyState(l) == IF l.snap.pending # NoPending THEN l.snap.count + 1 ELSE 1

\* The recovery candidate's count after this observation: a different candidate
\* starts again at 1.
PendingCount(l) == IF l.snap.pending = l.observed THEN l.snap.count + 1 ELSE 1

Confirms_OffByOne(l) ==
    \/ IsEscalation(l.snap.state, l.observed)
    \/ IsRecovery(l) /\ PendingCount(l) > RecoveryTicks

Confirms(l) ==
    \/ IsEscalation(l.snap.state, l.observed)
    \/ IsRecovery(l) /\ PendingCount(l) >= RecoveryTicks

OngoingDue_Never(l) == FALSE

OngoingDue(l) ==
    /\ l.snap.state # "safe"
    /\ l.now - l.snap.lastAlarm >= ReAlarmInterval

TargetState_OngoingFirst(l) ==
    IF OngoingDue(l) \/ ~Confirms(l) THEN l.snap.state ELSE l.observed

TargetState(l) == IF Confirms(l) THEN l.observed ELSE l.snap.state

\* The entry into a dangerous place is announced outside the application too.
NotifiesOutside_EveryAlarm(l) == TargetState(l) \in {"danger", "critical"}

NotifiesOutside(l) ==
    /\ TargetState(l) \in {"danger", "critical"}
    /\ IsEscalation(l.snap.state, TargetState(l))

-----------------------------------------------------------------------------
NotRunning == [observed |-> "safe", now |-> 0, snap |-> EmptyHash]

Init ==
    /\ clock = Epoch
    /\ hash = EmptyHash
    /\ expireAt = Epoch
    /\ pc = [e \in Evaluators |-> "idle"]
    /\ local = [e \in Evaluators |-> NotRunning]
    /\ alarms = <<>>
    /\ external = <<>>
    /\ seen = <<>>
    /\ lastDone = 0
    /\ outages = 0
    /\ aborts = 0

\* A write of state_store: HSET on what is stored and EXPIRE, or, when Redis
\* cannot be reached, nothing at all.
Write(h) ==
    \/ /\ hash' = h
       /\ expireAt' = clock + TTL
       /\ UNCHANGED outages
    \/ /\ outages < MaxOutages
       /\ outages' = outages + 1
       /\ UNCHANGED <<hash, expireAt>>

Goto(e, label) == pc' = [pc EXCEPT ![e] = label]

Return(e) ==
    /\ Goto(e, "idle")
    /\ local' = [local EXCEPT ![e] = NotRunning]
    /\ lastDone' = IF local[e].now > lastDone THEN local[e].now ELSE lastDone

AfterPending(e) ==
    IF Confirms(local[e]) \/ OngoingDue(local[e])
    THEN Goto(e, "alarm") /\ UNCHANGED <<local, lastDone>>
    ELSE Return(e)

\* The fences are looked up, get_worker_snapshot, time.time().
Begin(e, where) ==
    /\ pc[e] = "idle"
    /\ Len(seen) < MaxObs
    /\ \E reached \in BOOLEAN :
         /\ ~reached => outages < MaxOutages
         /\ outages' = IF reached THEN outages ELSE outages + 1
         /\ LET observed == Classify(where.fences, where.nearby) IN
            /\ seen' = Append(seen, [state |-> observed, at |-> clock])
            /\ local' = [local EXCEPT ![e] =
                 [observed |-> observed, now |-> clock,
                  snap |-> IF reached THEN Stored ELSE EmptyHash]]
    /\ Goto(e, "judge")
    /\ UNCHANGED <<clock, hash, expireAt, alarms, external, lastDone, aborts>>

ClearPending_ClearsState(e) ==
    /\ pc[e] = "judge"
    /\ local[e].observed = local[e].snap.state
    /\ local[e].snap.pending # NoPending
    /\ Write([Stored EXCEPT !.state = NoPending, !.count = 0])
    /\ AfterPending(e)
    /\ UNCHANGED <<clock, alarms, external, seen, aborts>>

\* clear_pending: the official state is observed while a recovery is pending.
ClearPending(e) ==
    /\ pc[e] = "judge"
    /\ local[e].observed = local[e].snap.state
    /\ local[e].snap.pending # NoPending
    /\ Write([Stored EXCEPT !.pending = NoPending, !.count = 0])
    /\ AfterPending(e)
    /\ UNCHANGED <<clock, alarms, external, seen, aborts>>

\* set_pending: one more observation of a recovery that is not confirmed yet.
SetPending(e) ==
    /\ pc[e] = "judge"
    /\ IsRecovery(local[e])
    /\ ~Confirms(local[e])
    /\ Write([Stored EXCEPT !.pending = local[e].observed, !.count = PendingCount(local[e])])
    /\ AfterPending(e)
    /\ UNCHANGED <<clock, alarms, external, seen, aborts>>

\* Nothing to write before the alarm decision.
NoPendingWrite(e) ==
    /\ pc[e] = "judge"
    /\ \/ local[e].observed = local[e].snap.state /\ local[e].snap.pending = NoPending
       \/ Confirms(local[e])
    /\ AfterPending(e)
    /\ UNCHANGED <<clock, hash, expireAt, alarms, external, seen, outages, aborts>>

RaiseAlarm_AfterCommit(e) ==
    /\ pc[e] = "alarm"
    /\ Write([Stored EXCEPT !.state = TargetState(local[e]), !.lastAlarm = clock])
    /\ Goto(e, "commit")
    /\ UNCHANGED <<clock, local, alarms, external, seen, lastDone, aborts>>

\* Alarm.objects.create, then the push, which never fails the caller.
RaiseAlarm(e) ==
    /\ pc[e] = "alarm"
    /\ alarms' = Append(alarms,
         [reason |-> IF Confirms(local[e]) THEN "transition" ELSE "ongoing",
          from |-> local[e].snap.state,
          to |-> TargetState(local[e]),
          at |-> clock,
          seen |-> Len(seen)])
    /\ Goto(e, IF NotifiesOutside(local[e]) THEN "notify" ELSE "commit")
    /\ UNCHANGED <<clock, hash, expireAt, local, external, seen, lastDone, outages, aborts>>

\* _notify_worker_zone_entry: the task is queued, or queueing fails and the
\* failure is absorbed.
NotifyOutside(e) ==
    /\ pc[e] = "notify"
    /\ \/ external' = Append(external, [to |-> TargetState(local[e]), seen |-> Len(seen)])
       \/ UNCHANGED external
    /\ Goto(e, "commit")
    /\ UNCHANGED <<clock, hash, expireAt, local, alarms, seen, lastDone, outages, aborts>>

\* commit_state(..., mark_alarmed=True): also drops a pending recovery, even one
\* that this evaluation has just recorded.
Commit(e) ==
    /\ pc[e] = "commit"
    /\ Write([state |-> TargetState(local[e]), lastAlarm |-> clock,
              pending |-> NoPending, count |-> 0])
    /\ Return(e)
    /\ UNCHANGED <<clock, alarms, external, seen, aborts>>

\* The insert raises and the exception leaves evaluate_worker, or the process
\* that runs the evaluation dies.
Abort(e) ==
    /\ pc[e] # "idle"
    /\ aborts < MaxAborts
    /\ aborts' = aborts + 1
    /\ Goto(e, "idle")
    /\ local' = [local EXCEPT ![e] = NotRunning]
    /\ UNCHANGED <<clock, hash, expireAt, alarms, external, seen, lastDone, outages>>

Tick ==
    /\ clock < Epoch + MaxTime
    /\ clock' = clock + 1
    /\ UNCHANGED <<hash, expireAt, pc, local, alarms, external, seen, lastDone, outages, aborts>>

Next ==
    \/ Tick
    \/ \E e \in Evaluators :
         \/ \E where \in Situations : Begin(e, where)
         \/ ClearPending(e)
         \/ SetPending(e)
         \/ NoPendingWrite(e)
         \/ RaiseAlarm(e)
         \/ NotifyOutside(e)
         \/ Commit(e)
         \/ Abort(e)

Spec == Init /\ [][Next]_vars
-----------------------------------------------------------------------------
HashType == [state : State, lastAlarm : Nat, pending : State \cup {NoPending}, count : Nat]
LocalType == [observed : State, now : Nat, snap : HashType]
AlarmRow ==
    [reason : {"transition", "ongoing"}, from : State, to : State, at : Nat, seen : Nat]

\* Every variable has its type.
TypeOK ==
    /\ clock \in Nat
    /\ hash \in HashType
    /\ expireAt \in Nat
    /\ pc \in [Evaluators -> {"idle", "judge", "alarm", "notify", "commit"}]
    /\ local \in [Evaluators -> LocalType]
    /\ alarms \in Seq(AlarmRow)
    /\ external \in Seq([to : State, seen : Nat])
    /\ seen \in Seq([state : State, at : Nat])
    /\ lastDone \in Nat
    /\ outages \in Nat
    /\ aborts \in Nat

-----------------------------------------------------------------------------
(* Properties that hold whatever races, outages and crashes happen.        *)

HasAlarm(state) == \E k \in 1 .. Len(alarms) : alarms[k].to = state

\* The stored state is not "safe" only if an alarm that announced this very
\* state is in the database: evaluate_worker inserts the row before it commits
\* the state, so a crash between the two repeats an alarm and swallows none.
NoSilentState == hash.state # "safe" => HasAlarm(hash.state)

\* While Redis answers, the state of a worker who keeps being evaluated does not
\* lapse to "safe".  An evaluation that finds the state unchanged writes nothing,
\* so it is the ongoing alarm that renews the TTL, and what an evaluation leaves
\* is at least the TTL less one re-alarm interval.
LapseOnlyIfUnobserved ==
    outages = 0 /\ Stored.state # "safe" => expireAt + ReAlarmInterval > lastDone + TTL

-----------------------------------------------------------------------------
(* The abstract specification.                                             *)

\* The states that the alarms in the database name.
Announced == {alarms[k].to : k \in 1 .. Len(alarms)}

Ledger == INSTANCE AlarmLedger WITH
    States <- State, Quiet <- "safe", official <- Stored.state, announced <- Announced

\* Whoever reads the hash, at any moment between two writes, with the hash expired
\* or not, is given "safe" or a state whose alarm was inserted before, however
\* evaluations overlap, stop and fail (worker_evaluator.py:303-364).
AnnouncedFirst == Ledger!Spec

-----------------------------------------------------------------------------
(* Properties of evaluations that do not overlap and do not fail.          *)

AllIdle == \A e \in Evaluators : pc[e] = "idle"

AtMostOneRunning == \A e, f \in Evaluators : pc[e] # "idle" /\ pc[f] # "idle" => e = f

\* A step of evaluations one after the other: nothing fails or stops, and the hash
\* does not run out between the read of an evaluation and its last write.
InOrder ==
    /\ AtMostOneRunning'
    /\ outages' = outages /\ aborts' = aborts
    /\ ~AllIdle /\ clock < expireAt => clock' < expireAt'

\* The last k observations are all of state s.
Steady(k, s) ==
    /\ Len(seen) >= k
    /\ \A m \in Len(seen) - k + 1 .. Len(seen) : seen[m].state = s

\* A worsening is taken over by the evaluation that observes it, whatever
\* recovery was pending.
EscalatesAtOnce ==
    AllIdle /\ Len(seen) > 0 => Rank[hash.state] >= Rank[seen[Len(seen)].state]

\* A recovery is announced only after RecoveryTicks observations in a row of the
\* state recovered to: any other observation restarts the count.
RecoveryIsConsecutive ==
    \A k \in 1 .. Len(alarms) :
        LET a == alarms[k] IN
        a.reason = "transition" /\ ~IsEscalation(a.from, a.to) =>
            \A m \in a.seen - RecoveryTicks + 1 .. a.seen : m > 0 /\ seen[m].state = a.to

\* Outside notification goes out once per entry into danger
\* (worker_evaluator.py:344-347): a second one needs a worse state, an observation
\* of a less dangerous one in between, or so long a pause that the hash ran out.
NotifiedOncePerEntry ==
    \A k \in 2 .. Len(external) :
        \/ IsEscalation(external[k - 1].to, external[k].to)
        \/ \E m \in external[k - 1].seen + 1 .. external[k].seen :
             \/ Rank[seen[m].state] < Rank[external[k].to]
             \/ seen[m].at - seen[m - 1].at > TTL - ReAlarmInterval

\* What the module's docstring promises (worker_evaluator.py:22): a recovery is
\* taken over after RecoveryTicks observations in a row.
RecoveryPromise ==
    AllIdle => \A s \in State : Steady(RecoveryTicks, s) => hash.state = s

\* What the code does achieve: an ongoing alarm that falls due during the count
\* drops it, so a recovery takes up to 2 * RecoveryTicks - 1 observations in a
\* row, if these come within one re-alarm interval and the hash has not run out since.
SteadyRecovers ==
    LET n == 2 * RecoveryTicks - 1 IN
    AllIdle =>
        \A s \in State :
            /\ Steady(n, s)
            /\ seen[Len(seen)].at - seen[Len(seen) - n + 1].at < ReAlarmInterval
            /\ clock < expireAt
            => hash.state = s

=============================================================================

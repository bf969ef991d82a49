----------------------------- MODULE SensorAlarm -----------------------------
(***************************************************************************)
(* The alarm decision of one sensor: evaluate_sensor                       *)
(* (alerts/services/sensor_evaluator.py) over the Redis hash               *)
(* sensa:sensor:<device>:alarm (alerts/state_store.py).  A sensor's hash   *)
(* is read and written by no evaluation of another sensor, so one sensor   *)
(* is modelled.                                                            *)
(*                                                                         *)
(* An evaluation is not atomic: it reads the whole hash once, decides from *)
(* that snapshot, and then issues separate Redis writes and one database   *)
(* insert.  The web pods (sensor POST, check-geofence) and the Celery      *)
(* worker (sustain_spike_task) may be inside evaluations of the same       *)
(* sensor at once; Evaluators is the set of such threads of control.       *)
(* Every Redis call may fail with ConnectionError, which state_store turns *)
(* into "empty hash" for the read and "nothing written" for a write, and   *)
(* an evaluation may stop at any step (the insert raises, the process is   *)
(* killed).                                                                *)
(***************************************************************************)
EXTENDS Integers, Sequences, FiniteSets

CONSTANTS
    Evaluators,        \* threads of control that may evaluate this sensor
    CautionThreshold,  \* CAUTION_COUNT_THRESHOLD (5)
    DangerThreshold,   \* DANGER_COUNT_THRESHOLD (5)
    RecoveryThreshold, \* RECOVERY_COUNT_THRESHOLD (7)
    CautionWindow,     \* CAUTION_WINDOW_SEC (10), for both escalations
    RecoveryWindow,    \* RECOVERY_WINDOW_SEC (10)
    ReAlarmInterval,   \* RE_ALARM_INTERVAL_SEC (60)
    TTL,               \* TTL_SEC (300)
    Epoch,             \* time.time() when the model starts
    MaxTime,           \* bound: seconds the clock may advance
    MaxObs,            \* bound: observations handed to evaluate_sensor
    MaxOutages,        \* bound: Redis calls that fail
    MaxAborts          \* bound: evaluations that stop before their end

\* One observation alone never confirms a transition (the thresholds are 5 and
\* 7), and the wall clock is far from 0, the "never" of the stored times.
ASSUME ConstantsAssumption ==
    /\ CautionThreshold \in Nat \ {0, 1}
    /\ DangerThreshold \in Nat \ {0, 1}
    /\ RecoveryThreshold \in Nat \ {0, 1}
    /\ CautionWindow \in Nat
    /\ RecoveryWindow \in Nat
    /\ ReAlarmInterval \in Nat \ {0}
    /\ TTL \in Nat \ {0}
    /\ Epoch \in Nat
    /\ Epoch >= ReAlarmInterval
    /\ MaxTime \in Nat
    /\ MaxObs \in Nat
    /\ MaxOutages \in Nat
    /\ MaxAborts \in Nat

VARIABLES
    clock,    \* time.time(), in seconds
    hash,     \* fields of the Redis hash, as last written
    expireAt, \* when the hash's TTL runs out
    pc,       \* where each evaluation stands
    local,    \* what each evaluation holds in its local variables
    alarms,   \* Alarm rows of this sensor, in the order they were inserted
    seen,     \* history: the observations, numbered in the order of their reads
    lastDone, \* history: latest observation time of an evaluation that returned
    outages,  \* Redis calls that failed so far
    aborts    \* evaluations that stopped before their end so far

vars == <<clock, hash, expireAt, pc, local, alarms, seen, lastDone, outages, aborts>>

-----------------------------------------------------------------------------
Status == {"normal", "caution", "danger"}
Rank == [normal |-> 0, caution |-> 1, danger |-> 2]
IsEscalation(prev, curr) == Rank[curr] > Rank[prev]

\* A window counter.  "evidence" is history: the observations it stands for.
NoCount == [count |-> 0, first |-> 0, evidence |-> {}]

EmptyHash == [state |-> "normal", lastAlarm |-> 0, window |-> [s \in Status |-> NoCount]]

\* What HGETALL returns: an expired key reads as an empty hash.
Stored == IF clock < expireAt THEN hash ELSE EmptyHash

Threshold(from, to) ==
    IF ~IsEscalation(from, to) THEN RecoveryThreshold
    ELSE IF to = "danger" THEN DangerThreshold ELSE CautionThreshold

Window(from, to) == IF IsEscalation(from, to) THEN CautionWindow ELSE RecoveryWindow

\* Faulty variants of the definition that follows each of them, named
\* <definition>_<fault>, are used by no specification: they record which
\* mistake in the code each property would catch.
Accumulate_NeverRestarts(l) ==
    LET w == l.snap.window[l.observed] IN
    [count |-> w.count + 1, first |-> IF w.first = 0 THEN l.now ELSE w.first,
     evidence |-> w.evidence \cup {l.id}]

Accumulate_RestartsAtZero(l) ==
    LET w == l.snap.window[l.observed] IN
    IF w.first = 0 \/ l.now - w.first > Window(l.snap.state, l.observed)
    THEN [count |-> 0, first |-> l.now, evidence |-> {}]
    ELSE [count |-> w.count + 1, first |-> w.first, evidence |-> w.evidence \cup {l.id}]

Accumulate_CountsDown(l) ==
    LET w == l.snap.window[l.observed] IN
    [count |-> w.count - 1, first |-> l.now, evidence |-> {l.id}]

\* The counter of the observed status after one more observation: a window
\* that has run out starts again at 1.
Accumulate(l) ==
    LET w == l.snap.window[l.observed] IN
    IF w.first = 0 \/ l.now - w.first > Window(l.snap.state, l.observed)
    THEN [count |-> 1, first |-> l.now, evidence |-> {l.id}]
    ELSE [count |-> w.count + 1, first |-> w.first, evidence |-> w.evidence \cup {l.id}]

\* An observation that differs from the official state and completes its window.
Confirms(l) ==
    /\ l.observed # l.snap.state
    /\ Accumulate(l).count >= Threshold(l.snap.state, l.observed)

OngoingDue(l) ==
    /\ l.snap.state # "normal"
    /\ l.now - l.snap.lastAlarm >= ReAlarmInterval

ShouldAlarm(l) == Confirms(l) \/ OngoingDue(l)

TargetState(l) == IF Confirms(l) THEN l.observed ELSE l.snap.state

SaferThan_NormalOnly(state) == {"normal"} \ {state}

\* Counters that an observation of the official state itself sets to zero: those
\* of the safer states (the guard against readings that swing to and fro).
SaferThan(state) == {s \in Status : Rank[s] < Rank[state]}

-----------------------------------------------------------------------------
NotRunning ==
    [id |-> 0, observed |-> "normal", now |-> 0, snap |-> EmptyHash, todo |-> {}]

Init ==
    /\ clock = Epoch
    /\ hash = EmptyHash
    /\ expireAt = Epoch
    /\ pc = [e \in Evaluators |-> "idle"]
    /\ local = [e \in Evaluators |-> NotRunning]
    /\ alarms = <<>>
    /\ seen = <<>>
    /\ lastDone = 0
    /\ outages = 0
    /\ aborts = 0

\* A write of state_store: HSET on what is stored and EXPIRE, or, when Redis
\* cannot be reached, nothing at all.
Write(h) ==
    \/ /\ hash' = h
       /\ expireAt' = clock + TTL
       /\ UNCHANGED outages
    \/ /\ outages < MaxOutages
       /\ outages' = outages + 1
       /\ UNCHANGED <<hash, expireAt>>

Goto(e, label) == pc' = [pc EXCEPT ![e] = label]

Return(e) ==
    /\ Goto(e, "idle")
    /\ local' = [local EXCEPT ![e] = NotRunning]
    /\ lastDone' = IF local[e].now > lastDone THEN local[e].now ELSE lastDone

\* After the counters are written: insert an alarm row, or return.
AfterCounters(e) ==
    IF ShouldAlarm(local[e])
    THEN Goto(e, "alarm") /\ UNCHANGED <<local, lastDone>>
    ELSE Return(e)

\* get_sensor_snapshot, time.time(), and the branch that the observation takes.
Begin(e, s) ==
    /\ pc[e] = "idle"
    /\ Len(seen) < MaxObs
    /\ seen' = Append(seen, [status |-> s, at |-> clock])
    /\ \E reached \in BOOLEAN :
         /\ ~reached => outages < MaxOutages
         /\ outages' = IF reached THEN outages ELSE outages + 1
         /\ LET snap == IF reached THEN Stored ELSE EmptyHash
                l == [id |-> Len(seen) + 1, observed |-> s, now |-> clock, snap |-> snap,
                      todo |-> IF s = snap.state THEN SaferThan(snap.state) ELSE {}]
            IN /\ local' = [local EXCEPT ![e] = l]
               /\ Goto(e, IF s = snap.state THEN "reset"
                          ELSE IF Confirms(l) THEN "clear" ELSE "count")
    /\ UNCHANGED <<clock, hash, expireAt, alarms, lastDone, aborts>>

\* set_sensor_window_counter(device, s, 0, 0), once for each safer state.
ResetSafer(e) ==
    /\ pc[e] = "reset"
    /\ \E s \in local[e].todo :
         /\ \A other \in local[e].todo : Rank[s] <= Rank[other]
         /\ Write([Stored EXCEPT !.window[s] = NoCount])
         /\ local' = [local EXCEPT ![e].todo = @ \ {s}]
    /\ UNCHANGED <<clock, pc, alarms, seen, lastDone, aborts>>

\* No safer state is left to reset ("normal" has none).
ResetDone(e) ==
    /\ pc[e] = "reset"
    /\ local[e].todo = {}
    /\ AfterCounters(e)
    /\ UNCHANGED <<clock, hash, expireAt, alarms, seen, outages, aborts>>

Count_ExpireOnlyIfNew(e) ==
    /\ pc[e] = "count"
    /\ hash' = [Stored EXCEPT !.window[local[e].observed] = Accumulate(local[e])]
    /\ expireAt' = IF clock < expireAt THEN expireAt ELSE clock + TTL
    /\ AfterCounters(e)
    /\ UNCHANGED <<clock, alarms, seen, outages, aborts>>

\* set_sensor_window_counter with the new count: not enough yet.
Count(e) ==
    /\ pc[e] = "count"
    /\ Write([Stored EXCEPT !.window[local[e].observed] = Accumulate(local[e])])
    /\ AfterCounters(e)
    /\ UNCHANGED <<clock, alarms, seen, aborts>>

Clear_CommitsEarly(e) ==
    /\ pc[e] = "clear"
    /\ Write([Stored EXCEPT !.window = [s \in Status |-> NoCount],
                            !.state = TargetState(local[e])])
    /\ AfterCounters(e)
    /\ UNCHANGED <<clock, alarms, seen, aborts>>

\* clear_sensor_window_counters: the transition is confirmed.
Clear(e) ==
    /\ pc[e] = "clear"
    /\ Write([Stored EXCEPT !.window = [s \in Status |-> NoCount]])
    /\ AfterCounters(e)
    /\ UNCHANGED <<clock, alarms, seen, aborts>>

\* Alarm.objects.create, then the push, which never fails the caller.
RaiseAlarm(e) ==
    /\ pc[e] = "alarm"
    /\ alarms' = Append(alarms,
         [reason |-> IF Confirms(local[e]) THEN "transition" ELSE "ongoing",
          from |-> local[e].snap.state,
          to |-> TargetState(local[e]),
          now |-> local[e].now,
          at |-> clock,
          evidence |-> IF Confirms(local[e]) THEN Accumulate(local[e]).evidence ELSE {}])
    /\ Goto(e, "commit")
    /\ UNCHANGED <<clock, hash, expireAt, local, seen, lastDone, outages, aborts>>

Commit_NotMarked(e) ==
    /\ pc[e] = "commit"
    /\ Write([Stored EXCEPT !.state = TargetState(local[e])])
    /\ Return(e)
    /\ UNCHANGED <<clock, alarms, seen, aborts>>

Commit_Observed(e) ==
    /\ pc[e] = "commit"
    /\ Write([Stored EXCEPT !.state = local[e].observed, !.lastAlarm = clock])
    /\ Return(e)
    /\ UNCHANGED <<clock, alarms, seen, aborts>>

\* commit_sensor_state(..., mark_alarmed=True): the last write.
Commit(e) ==
    /\ pc[e] = "commit"
    /\ Write([Stored EXCEPT !.state = TargetState(local[e]), !.lastAlarm = clock])
    /\ Return(e)
    /\ UNCHANGED <<clock, alarms, seen, aborts>>

\* The insert raises and the exception leaves evaluate_sensor, or the process
\* that runs the evaluation dies.
Abort(e) ==
    /\ pc[e] # "idle"
    /\ aborts < MaxAborts
    /\ aborts' = aborts + 1
    /\ Goto(e, "idle")
    /\ local' = [local EXCEPT ![e] = NotRunning]
    /\ UNCHANGED <<clock, hash, expireAt, alarms, seen, lastDone, outages>>

Tick ==
    /\ clock < Epoch + MaxTime
    /\ clock' = clock + 1
    /\ UNCHANGED <<hash, expireAt, pc, local, alarms, seen, lastDone, outages, aborts>>

Next ==
    \/ Tick
    \/ \E e \in Evaluators :
         \/ \E s \in Status : Begin(e, s)
         \/ ResetSafer(e)
         \/ ResetDone(e)
         \/ Count(e)
         \/ Clear(e)
         \/ RaiseAlarm(e)
         \/ Commit(e)
         \/ Abort(e)

Spec == Init /\ [][Next]_vars

-----------------------------------------------------------------------------
(* Types.                                                                  *)

Counter == [count : Nat, first : Nat, evidence : SUBSET Nat]
HashType == [state : Status, lastAlarm : Nat, window : [Status -> Counter]]
LocalType ==
    [id : Nat, observed : Status, now : Nat, snap : HashType, todo : SUBSET Status]
AlarmRow ==
    [reason : {"transition", "ongoing"}, from : Status, to : Status, now : Nat, at : Nat,
     evidence : SUBSET Nat]

\* Every variable has its type.
TypeOK ==
    /\ clock \in Nat
    /\ hash \in HashType
    /\ expireAt \in Nat
    /\ pc \in [Evaluators -> {"idle", "reset", "count", "clear", "alarm", "commit"}]
    /\ local \in [Evaluators -> LocalType]
    /\ alarms \in Seq(AlarmRow)
    /\ seen \in Seq([status : Status, at : Nat])
    /\ lastDone \in Nat
    /\ outages \in Nat
    /\ aborts \in Nat

-----------------------------------------------------------------------------
(* Properties that hold whatever races, outages and crashes happen.        *)

\* A set of observations that justifies moving from one state to another at
\* time "now": enough of them, all of the new status, none older than the window.
Justifies(evidence, from, to, now) ==
    /\ Cardinality(evidence) >= Threshold(from, to)
    /\ \A i \in evidence :
         /\ i \in 1 .. Len(seen)
         /\ seen[i].status = to
         /\ seen[i].at <= now
         /\ now - seen[i].at <= Window(from, to)

\* Every transition alarm rests on at least the threshold's number of distinct
\* observations of the new status inside one window, also when evaluations of
\* the same sensor overlap, counters are written back from stale snapshots and
\* Redis calls are lost: races may delay a confirmation, never fabricate one.
EvidenceSound ==
    \A k \in 1 .. Len(alarms) :
        alarms[k].reason = "transition" =>
            Justifies(alarms[k].evidence, alarms[k].from, alarms[k].to, alarms[k].now)

HasAlarm(state) == \E k \in 1 .. Len(alarms) : alarms[k].to = state

\* The stored official state is abnormal only if an alarm that announced this
\* very state is in the database: the row is inserted before the state is
\* committed, so a crash or a failed insert between the two repeats an alarm
\* and never swallows one.
NoSilentState == hash.state # "normal" => HasAlarm(hash.state)

\* While Redis answers, an abnormal state outlives every finished evaluation by
\* the whole TTL: each evaluation that saw it has written to the hash on every path, so
\* the alarm of a sensor that keeps reporting never silently lapses to normal.
LapseOnlyIfUnobserved ==
    outages = 0 /\ Stored.state # "normal" => expireAt >= lastDone + TTL

-----------------------------------------------------------------------------
(* The abstract specification.                                             *)

\* The states that the alarms in the database name.
Announced == {alarms[k].to : k \in 1 .. Len(alarms)}

Ledger == INSTANCE AlarmLedger WITH
    States <- Status, Quiet <- "normal", official <- Stored.state, announced <- Announced

\* Whoever reads the hash, at any moment between two writes, with the hash expired
\* or not, is given "normal" or a state whose alarm was inserted before, however
\* evaluations overlap, stop and fail (sensor_evaluator.py:115-179).
AnnouncedFirst == Ledger!Spec

-----------------------------------------------------------------------------
(* Properties of evaluations that do not overlap and do not fail.          *)

AllIdle == \A e \in Evaluators : pc[e] = "idle"

AtMostOneRunning == \A e, f \in Evaluators : pc[e] # "idle" /\ pc[f] # "idle" => e = f

\* A step of evaluations one after the other: nothing fails or stops, and the hash
\* does not run out between the read of an evaluation and its last write.
InOrder ==
    /\ AtMostOneRunning'
    /\ outages' = outages /\ aborts' = aborts
    /\ ~AllIdle /\ clock < expireAt => clock' < expireAt'

\* An "ongoing" alarm is never raised within the re-alarm interval of the alarm
\* before it (README.md:92: the same alarm is re-issued only every 60 seconds).
ReAlarmSpacing ==
    \A k \in 2 .. Len(alarms) :
        alarms[k].reason = "ongoing" =>
            alarms[k].at - alarms[k - 1].at >= ReAlarmInterval

\* A recovery is never confirmed across an observation of the state it leaves:
\* that observation has reset the counters of the safer states (the guard
\* against readings that swing to and fro, sensor_evaluator.py:61-65).
UninterruptedRecovery ==
    \A k \in 1 .. Len(alarms) :
        LET a == alarms[k] IN
        a.reason = "transition" /\ ~IsEscalation(a.from, a.to) =>
            \A i, j \in a.evidence :
                \A m \in i .. j : seen[m].status # a.from

\* The last k observations are all of status s and lie within one window.
Sustained(k, s) ==
    LET n == Len(seen) IN
    /\ n >= k
    /\ \A i \in n - k + 1 .. n : seen[i].status = s
    /\ seen[n].at - seen[n - k + 1].at <= CautionWindow

\* Sustained danger or caution is confirmed.  The docstring of _accumulate_window
\* (sensor_evaluator.py:187) names threshold observations within one window, but
\* the window starts at its first observation and does not slide: up to threshold - 1 observations are forgotten when it
\* runs out, and 2 * threshold - 1 within one window always confirm.
SustainedEscalates ==
    AllIdle =>
        /\ Sustained(2 * DangerThreshold - 1, "danger") => hash.state = "danger"
        /\ Sustained(2 * CautionThreshold - 1, "caution") => hash.state # "normal"

\* The official state moves only along the transition announced by the latest
\* alarm: no evaluation writes back a state that another one has left.
FollowsAlarm ==
    hash'.state # Stored.state =>
        /\ Len(alarms) > 0
        /\ alarms[Len(alarms)].from = Stored.state
        /\ alarms[Len(alarms)].to = hash'.state

StateFollowsAlarm == [][FollowsAlarm]_hash

=============================================================================

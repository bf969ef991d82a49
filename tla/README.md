# SenSa: a verification project

SenSa watches an industrial site: gas and power sensors and workers' positions come in over HTTP,
alarms are raised with hysteresis, dangerous gas becomes a geofence that grows, is promoted and
expires, and people are told on dashboards, in the application and outside it. This directory holds
TLA+ models of the parts whose behaviour depends on time, ordering and failure, TLC runs that check
them on small instances, and TLAPS proofs of the main safety properties for every instance.
`PROJECT.json` is the index: components, runs, the faulty variant that each property catches, the
source lines of every definition, findings, hazards, theorems.

## The system

Three Django replicas (daphne), one Celery worker that also runs beat (`worker -B`), PostgreSQL,
one Redis (alarm state, cache, channel layer, broker), and a FastAPI generator that posts readings.
No request described here runs in a transaction; the dispatch of an alarm does.

| component | state it keeps | operations | who it interacts with | what makes it correct |
|---|---|---|---|---|
| Sensor alarm evaluation (`alerts/services/sensor_evaluator.py`) | Redis hash per sensor: official state, last alarm, a window counter per status; TTL 300 s | `evaluate_sensor` | called by sensor POSTs and by `sustain_spike_task`; inserts `Alarm`, pushes it | enough evidence for each transition, no swinging, no silent state, no lapse, 60 s between repeats |
| Worker alarm evaluation (`worker_evaluator.py`) | Redis hash per worker: state, last alarm, pending recovery and its count | `evaluate_worker` | called by `check-geofence`; queues outside notifications | worsening at once, recovery after N observations in a row, one outside notification per entry |
| Dynamic zone lifecycle (`geofence/zone_lifecycle.py`) | `GeoFence` rows, `confirmed_devices` | `tick`: expire, expire recovered, grow, promote; create; delete | beat every 30 s, scenarios, commands; reads the neighbours' readings | tiers backed by confirmations, expired zones stay expired, every zone ends, a zone loses no ground |
| Sensor ingestion (`devices/views.py`, `geofence/auto_trigger.py`) | `Device.status`, `SensorData`, two Redis gates | POST of a reading | calls classifiers, detectors and `evaluate_sensor`, creates zones | status is current, no duplicate zones |
| Classifiers (`alerts/services/classifiers.py`, `generators.py`) | the last day's samples | thresholds; the cause of a danger | ingestion, generator | the worst value decides, the cause that is named is one |
| AI detectors (`anomaly_detector.py`, `trend_predictor.py`) | a model per process and value, a throttle | fit thread, infer, predict, verify | ingestion | a consistent model is used; predictions are spaced and settled once |
| Scenarios, spike task (`operational_base.py`, `tasks_scenario.py`) | zones, cache flag, Celery chain | run, inject, join, end | ingestion, lifecycle | one chain per sensor, the generator is kept out, the curve comes down |
| External notification (`alerts/tasks.py`, `notifiers.py`) | Celery task | report, queue, post to Slack and Discord | zones, workers | at most one message, one channel's failure does not stop the other |
| Back office notification (`notification_queue.py`, `notification_dispatcher.py`) | in-memory queue, logs, policies | enqueue, dispatch, notices | alarms, people | each person once per channel, none left out |
| Retention and backup (`backoffice/tasks.py`, `cleanup_data.py`, `utils/backup.py`) | rows, files, policy | clean up, back up, initialise | all tables | nothing is deleted that is not backed up |
| Realtime push (`realtime/`) | groups, gauge, cache | connect, publish, disconnect | browsers | who is connected hears everything |
| Data generator (`fastapi_generator/`) | switches, phases, tables it loaded | toggle, load, tick, post | ingestion, `check-geofence` | phases last their time, each sensor has its own status |
| Back office pages (`backoffice/`) | people, departments, codes, thresholds, fences, devices, images | forms, bulk actions, mapping, import | everything reads them | no duplicate names, no lost member, limits in order, current status |
| Dashboard, accounts | map image, accounts | upload, sign up | back office | an active image remains |
| Safety, VR training (`vr_training/`, `safety/`) | checklist and video log per day | submit, save position, complete | workers | completion means the end was reached that day |

What is hard about it: evaluations of one sensor overlap (pods and the Celery worker) and work on
snapshots; every Redis call may fail and is turned into a default or a no-op; a process may die
between an insert and a commit; state expires; ticks overlap and save objects they loaded earlier;
forms are validated on one read and save a whole row on the strength of it; what one component judges
by (stored rows) lags behind what another has seen (every POST). The hazards that matter most, with
their lines, are listed in `PROJECT.json`; others that were considered follow below.

## The modules

All names follow the code. Each module carries its faulty variants (`<definition>_<fault>`), which no
specification uses: they document which mistake each property would catch.

### Alarms, zones and ingestion

**`SensorAlarm`** models one sensor's hash; no evaluation touches another sensor's. An evaluation is a
program counter and a record `local` of what the Python function holds: the snapshot, the time, the
observation. Its steps are the code's separate accesses: `Begin` (read of the hash and the clock),
`ResetSafer` once per safer status, `Count` or `Clear` (counter writes), `RaiseAlarm` (the insert),
`Commit`. `Write` is the decorator of `state_store`: the write and its EXPIRE happen, or nothing does.
`Abort` ends an evaluation anywhere (the insert raises, the process dies). The field `evidence` of a
counter, `seen` and `lastDone` are history variables.

**`WorkerAlarm`** is built the same way: `Begin` includes `_classify_state`; then one of
`ClearPending`, `SetPending`, `NoPendingWrite`; `RaiseAlarm`; `NotifyOutside`; `Commit`.

**`AlarmLedger`** is what both promise, without hashes, windows, counts or evaluations: a state is
announced, and a reader is given the quiet state or one that was announced before. Both evaluators
implement it (`AnnouncedFirst == Ledger!Spec`) with `official <- Stored.state`, what a read returns
at that moment, expiry included, and `announced <-` the states named by the alarm rows.

**`ZoneLifecycle`** models the rows, the confirmations and any number of ticks. `LoadExpired`,
`LoadRecovered`, `LoadActive`, `LoadPromotable` are the queries at the start of the four phases;
`Expire`, `Grow`, `Confirm`/`Promote` treat one loaded zone each. `copy` is the in-memory object, so
that `Promote`, a `save()` without `update_fields`, writes what was loaded and not what is there.
`DeleteSource` deletes the device a zone began with (`SET_NULL`); `Raise` is the exception that ends
the tick when it asks such a zone for its neighbours, or would save a source that is gone.
Times are relative (`ttl` counts down in row and copy), so the state space is finite without a bound on
the clock. Geometry is reduced to distances and radii; the environment decides which sensors deviate.

**`ZoneGeometry`** is the geometry that `ZoneLifecycle` leaves out, for one zone on a grid of integers:
the circle, the hull of arcs around the source and the confirming sensors, a scenario's scaled
polygon, the ray test for a point inside, and the neighbour distances cached per process while
devices are moved.

**`SensorIngest`** models the POST handler step by step for one gas device, the two `SET NX EX` gates,
an unreachable cache, and the part of the tick that reads what the POST stored. It composes ingestion
with creation and expiry of zones; the alarm evaluation inside it is `SensorAlarm`'s subject and may
only raise here.

### Around them

| module | what is a step | what is abstracted |
|---|---|---|
| `Classification` | pure operators, and a power device's samples of the last day | values are integers around each limit; four of the nine gases, one with limits on both sides |
| `EarlyWarning` | the unlocked writes of the fit thread (model, then deviation), a judgement, the throttle's check and mark, predict, record, verify | a model is the number of its fit; verdicts and trends are choices |
| `SpikeInjection` | running a scenario, starting each sensor's chain, one reading of a chain, the tick that widens the zone and lets sensors join, the generator's blocked reading | a reading is how far the curve is from base to spike, without noise |
| `ScenarioSwitch` | toggle, a question for the phase (which moves it), clear, restart | clocks are ages |
| `GeneratorLoop` | load, reload, tick (readings, worker, summary), the tick that raises, changed rows in Django | a reading is the ticks its event still lasts |
| `Realtime` | joining each group, accept, a publication and then its cache entry, leaving, a broken connection | a message is its number |
| `ExternalNotify` | recording, pushing and queueing a report; a task's start, each post, its failure, a lost worker | wording |
| `AlarmDelivery` | insert, enqueue, the transaction of a dispatch policy by policy and token by token, its failure, restart, edits of policies, read marks, purges | texts; one dispatch at a time |
| `Notices` | create, update, toggle, delete, send again, opening and closing each log, a broken request | texts |
| `Retention` | arrival, clean-up as read and save, the two kinds of jobs (open file, close file, delete a chunk), deletion of files, replacement of the container | rows are numbers, ages are days |
| `Directory`, `Masters`, `SiteMap` | the load-and-validate step and the save step of each form; bulk actions; mapping device by device, import line by line | fields that no rule reads |
| `Training` | reading the row and saving it for position and completion, midnight, checklist | one worker |

**`Delivery`**, **`BackOffice`** and **`Platform`** put together modules that share no variable: their
state is that of all parts, and a step is a step of one of them. They state what is assumed of the
constants, and the properties, which are grouped by component; the definition of a group names its
parts, and the parts are stated and commented in the component's module. The theorems are about these
modules, for all constants.

| composed module | parts |
|---|---|
| `Delivery` | `AlarmDelivery`, `Notices`, `ExternalNotify`, `Retention` |
| `BackOffice` | `Directory`, `Masters`, `SiteMap`, `Training` |
| `Platform` | `ScenarioSwitch`, `GeneratorLoop`, `Classification`, `EarlyWarning`, `SpikeInjection`, `Realtime`, `ZoneGeometry` |

`MC*` modules give TLC its instances. `MCSensorAlarm`, `MCWorkerAlarm` and `MCSensorIngest` hold two
instances each, told apart by `single`: evaluations (requests) that overlap and fail, with fewer
observations and less time (`Few...`, `ShortTime`), and evaluations one at a time with the full bounds.
A property named `...InOrder` is claimed of the second only. `MCDelivery`, `MCBackOffice` and
`MCPlatform` add `focus`, which chooses the part that a behaviour moves, so that the state space is the
sum of the parts' and not their product. `MCPlatform` also states `ZoneHasItsShape`, whose geometry is
evaluated only while the zone is what moves.

## How the components are tied together

The models meet where the code does. `SensorIngest` contains creation and expiry of zones as
`ZoneLifecycle` defines them; `SpikeInjection` contains the flag that `SensorIngest`'s handler obeys
and the growth that `ZoneLifecycle` and `ZoneGeometry` describe; `WorkerAlarm!NotifyOutside` hands over
what `ExternalNotify!Enter` takes; the insert of `RaiseAlarm` is `AlarmDelivery!Raise`, whose rows
`Retention` deletes (`AlarmDelivery!Purge`); `Masters!Reload` is the generator's load of the limits that
`Classification` compares with Django's; `GeneratorLoop`'s summary is what `check-geofence` judges a worker by
(`WorkerAlarm`).

## The runs

Thresholds, windows and intervals are scaled down and keep their order. Runs that are bounded by
counts of observations, requests or edits, or by the clock, end: `CHECK_DEADLOCK FALSE`. The zone
runs have no end and check deadlock.

| run | instance | shows |
|---|---|---|
| `SensorAlarm` | overlapping: 2 evaluators, thresholds 2/3/2, window 2, TTL 3, 4 observations, 1 outage, 1 abort, 3 s; in order: 6 observations, 4 s | types; transitions have their evidence; announced before adopted (refinement); no lapse while Redis answers; in order: repeats are spaced, a recovery is not confirmed across the official state, 2·threshold−1 observations in a window always escalate, the state follows the latest alarm |
| `WorkerAlarm` | overlapping: 2 evaluators, 2 states, 3 observations, 1 outage, 1 abort, 2 s; in order: 5 situations (all states), 5 observations, 4 s | types; announced before adopted (refinement); no lapse; in order: worsening at once, recovery counted consecutively, one outside notification per entry, 2·ticks−1 steady observations recover |
| `ZoneLifecycleSeq` | 2 zones, one of which may lose its source, 2 sensors, 1 tick at a time, fairness | types; each promotion to critical and each expiry announced once; a zone's life only runs down; every zone ends, although one may lose its source and make every tick raise |
| `ZoneLifecyclePar` | 1 zone, 2 overlapping ticks, 1 deletion of the zone, 1 of its source | tier backed by confirmations; scenario zones stay tentative; only a promotion's save can revive a zone |
| `SensorIngest` | overlapping: 2 pods, 3 POSTs, 1 failing request, 1 cache outage, 4 s; in order: 5 POSTs, all kinds of readings, 5 s | types; until the cache fails at most one active zone per device and gas; the zone gate refuses nobody in vain; in order: status is what the last POST past the cache carried |
| `Delivery` | 1 alarm inserted twice, 2 policies, 2 users, 1 edit, 1 failure; 1 notice, 2 dispatches, 1 break; 2 reports, 2 outages, 1 lost task; 2 rows up to 2 days old, 2 jobs, 1 edit of the policy | `EveryoneIsToldOnce`, `DispatchesAreAnswered`, `ChannelsAreApart`, `DeletionIsBackedUp` |
| `BackOffice` | 2 further departments, 2 people, 2 overlapping edits; 2 groups, 2 items, 2 codes, 3 edits; 2 fences, 2 devices, 2 images, 2 edits (3 of images alone), a mapping and an import; 2 requests over 2 days | `DirectoryHolds`, `TablesHold`, `SiteHolds`, `TrainingHolds` |
| `Platform` | 2 devices and their switches; a generator with 2 devices, 1 worker, 2 changes; readings at each limit; 7 power samples; 4 values, 3 fits, 2 requests; 2 scenarios with 2 sensors, 4 intervals, tasks up to 1 interval late under a flag of 3; 2 clients, 2 groups, 2 messages, 1 fault; 3 sensors, 3 places, radius up to 4, 1 move | `GeneratorIsFaithful`, `ReadingsAreClassified`, `LearnersInOrder`, `SpikesAreApart`, `DashboardsAreCurrent`, `ZoneHasItsShape` |

The parts of the grouped properties:

| group | parts |
|---|---|
| `ZonesRunDown` | the expiry phase deactivates only due zones; what is deactivated stays so; time is renewed only by a promotion to a higher tier; a zone becomes smaller only while younger than its first radius supposes |
| `EveryoneIsToldOnce` | one message per user, channel, policy and insertion; once dispatches are over nobody is left out unless something failed or was edited |
| `DispatchesAreAnswered` | a log that stays pending belongs to a dispatch that broke off; an answered dispatch has a log for everyone |
| `ChannelsAreApart` | at most one message per channel; a channel that did not fail itself has its message |
| `DeletionIsBackedUp` | what an initialisation deletes is in a complete file or arrived later; the clean-up's save takes back no edit |
| `DirectoryHolds` | no dangling reference; sibling departments differ in name; members of a deleted department are moved |
| `TablesHold` | seeded rows stay; limits in use are in order; limits that were never active are not used |
| `SiteHolds` | a mapped device has the most dangerous fence around it; its status is the last reading's; an active image remains |
| `TrainingHolds` | completion only with the end recorded on that day; savings that do not overlap never go back |
| `GeneratorIsFaithful` | phases last their time; each sensor's own status is reported; a moved worker is on the map |
| `ReadingsAreClassified` | the worst value decides; the cause named is as bad as the alarm; spikes do not change what is normal |
| `LearnersInOrder` | model and deviation are of one fit or the deviation of an earlier one; predictions are spaced and judged once |
| `SpikesAreApart` | one chain per sensor; no generator reading within a chain; a curve that ends has come down |
| `DashboardsAreCurrent` | an open connection hears everything; the gauge counts; the cache is the last publication |
| `ZoneHasItsShape` | the ray test agrees with the polygon; confirming sensors are inside and were near; no ground is lost |

A part says in its comment when it does not hold (an edit in between, an overlapping request), and
the model keeps a history variable (`excused`, `stale`, `spoilt`, `raced`, `disturbed`, `overlapped`,
`moved`) for exactly those cases. Each part has a faulty variant of the code that breaks the property
it belongs to; for a group `PROJECT.json` lists several, one per part.

**Bounds.** Two evaluators, pods, requests or editors make every two-party race. Four observations let
both evaluators confirm a transition with threshold 2 and one more race with it; the clock passes the
window, the re-alarm interval and the TTL within each run; the distances put one sensor inside the
first radius and one that only growth reaches. One zone of two may lose its source (`Orphans`): it stands
for the zone that makes a tick raise, the other for the zones that come after it. Two zones whose sources are each other's neighbours let
chains meet; the queue runs each task up to one interval late (`MaxLate`), which a flag of three
intervals outlasts and one of two would not. `Retention` has room for two jobs with files of one name.
`AlarmDelivery` runs one dispatch at a time, since dispatches only add logs.

`SensorIngest` assumes that a request takes less time (`MaxLatency`) than the gate holds (60 s in
the code). daphne sets no request timeout, so this is an assumption about the deployment; the theorem
about it states it as a hypothesis.

**Fairness** (`ZoneLifecycle!FairSpec`): time passes, and each ticker's next step is taken: beat starts
a tick every 30 s and the worker runs it to its end. Nothing is assumed of readings, creations or
deletions. No other component has a promise that needs fairness and that the code keeps: a message, a
task or a connection may be lost at any step without being tried again.

### Disagreements between the code and its descriptions

Each of these is a run that must end in a violation; `PROJECT.json` quotes the text it contradicts.

| run | what happens |
|---|---|
| `SensorAlarmSwingRace` | a stale write-back undoes the reset that should stop swinging readings |
| `WorkerAlarmRecovery` | an ongoing alarm drops the recovery count |
| `ZoneLifecycleOverlap` | a promotion's whole-row save revives an expired zone |
| `SensorIngestRecovery` | a zone may be expired as recovered while its source is in danger |

Met while modelling, and without a run of their own:

- `alerts/tasks.py:11` promises retries with back-off for a transient failure of a webhook; the
  notifier absorbs every exception, so no task is ever retried (`ExternalNotify!FailedIsRetried`
  states the promise; the module's steps refute it);
- `generators.py:63` says that the generator's limits must match Django's; the former are reference
  data that can be edited, the latter constants (`CauseIsNamed` assumes the seeded values), and
  with oxygen at exactly a limit the two differ even so;
- `vr_training/views.py:117` says that the position never decreases; two overlapping savings can
  leave the smaller one (`ForwardAlone` excepts them);
- `neighbor_graph.py:60-63` names `invalidate` for moved devices, which nothing calls, so each process
  keeps the distances it loaded (`ConfirmedNear` excepts moved devices);
- comments in `devices/views.py` speak of a throttle of 60 s, the constant is 180;
- two overlapping evaluations repeat an alarm within the interval (`ReAlarmSpacing`);
- a failed read announces a worker who has not moved as entering danger again
  (`NotifiedOncePerEntry`);
- a counter's window tumbles: threshold observations within one window may confirm nothing when they
  straddle its restart, which is why `SustainedEscalates` asks for 2·threshold−1;
- while the cache is unreachable nobody is kept out of the lookup, and two requests may both create a
  zone (`NoDuplicateZones` is claimed until the first outage);
- of two overlapping requests the later may save nothing and leave the earlier one's status
  (`StatusIsLatest`, one at a time);
- a tick within ten seconds of a zone's creation computes a smaller radius than the initial one
  (`KeepsRadius` excepts zones of that age);
- a zone without its source makes each tick raise until it expires, and the zones after it on the list
  are not promoted; what was expired and grown before stays done (`EveryZoneEnds`).

## What is proved

Each theorem rests on the named assumptions about the constants of its module
(`ConstantsAssumption`, `WorkerConstantsAssumption`, `ZoneConstantsAssumption`,
`IngestConstantsAssumption`; `AlarmAssumption`, `NoticeAssumption`, `ReportAssumption`, `RowAssumption`;
`DirectoryAssumption`, `TablesAssumption`, `SiteAssumption`, `TrainingAssumption`; `SwitchAssumption`,
`GeneratorAssumption`, `ReadingAssumption`, `PowerAssumption`, `WarningAssumption`, `SpikeAssumption`,
`SocketAssumption`, `LeakAssumption`), which TLC evaluates
in every run, and on the hypotheses it names itself. The assumptions say that bounds and times are
numbers, that sets which are counted are finite, that a missing row is none of the rows, and what the
code's own constants satisfy: the limit for caution comes before the one for danger, and the generator's
table agrees with Django's. No theorem bounds how many steps, requests or failures there are: the
bounds of the models are constants and stand for any number.

Every property of a passing run is a theorem's, but for two (see the end of this section).

### Alarms

About `SensorAlarm`, for any evaluators, thresholds, windows and numbers of observations, outages and
crashes (`SensorAlarmProofs`):

- `TypeCorrect`: `Spec => []TypeOK`. `TypeOK` is inductive; `BeginLocal`, `AccumulateType` and the
  lemmas on writes carry it.
- `NoSilentStateHolds`. The property alone is not inductive, as an evaluation may commit a state from
  its locals. `AnnouncedInv` adds that every abnormal snapshot has its alarm, and that the state an
  evaluation is about to commit has it.
- `AnnouncedFirstHolds`: the refinement of `AlarmLedger`. `LedgerStep` maps each step, under `TypeOK`
  and `AnnouncedInv`: an insert is an announcement; a write, or the end of the TTL, adopts an announced
  state or the quiet one, or changes nothing that the ledger shows.
- `EvidenceSoundHolds`. `EvidenceInv` says that each counter, in the hash and in every snapshot, is
  `Backed`: its count does not exceed the number of distinct observations it stands for, all of its
  status, none before the window began. A stale snapshot that is written back was backed when it was
  read and stays so, since observations are only added. An evaluation's own observation is newer than
  all evidence in its snapshot, so counting it adds a distinct one (`AccumulateBacked`).
- `LapseOnlyIfUnobservedHolds`. `LapseInv` adds that an evaluation which may return without writing is
  covered: if it saw an abnormal state its own resets renewed the TTL, and if it saw "normal" while the
  state is abnormal now, whoever made it so renewed the TTL later.
- `ReAlarmSpacingHolds`, for evaluations that neither overlap nor fail. `SpacingInv` says that an
  abnormal hash and an abnormal snapshot carry a last-alarm time that is not before the last row's;
  between insert and commit the hash lags behind, and the next evaluation cannot have begun.

About the evaluations that run one after the other, for any evaluators (`SensorAlarmOrderProofs`; what
the run checks under `single`). All of it rests on `SerialInv`: one evaluation runs at most, and what is
stored is its snapshot with exactly its own writes so far (`InStep`), and a hash that it has renewed does
not run out under it (`Renewing`). `StepKinds` turns a step into one of six kinds (waiting, opening,
going on, announcing, committing, closing), and every invariant below is kept kind by kind.

- `ReAlarmSpacingInOrderHolds` (`SpacedInv`) and `StateFollowsAlarmInOrderHolds`, an action property
  (`FollowInv`: what is about to be committed is what the last row says).
- `UninterruptedRecoveryInOrderHolds`. `RecoveryInv` says that the stored counters are `Clean`: since
  any observation that a safer status' counter stands for, the official state has not been observed.
- `SustainedEscalatesInOrderHolds`, if a hash outlives the caution window (300 s and 10 s in the code).
  `SustainedInv` says of the last k observations of a status within a window that the state is as bad
  already, or the counter holds all k of them, or its window restarted during them and it holds all but
  threshold − 1 (`Carried`). With k = 2·threshold − 1 the last two exceed the threshold.

About `WorkerAlarm`, for any evaluators, situations and numbers of observations, outages and crashes
(`WorkerAlarmProofs`):

- `TypeCorrect`, `NoSilentStateHolds` and `AnnouncedFirstHolds`, along the lines of those above; here
  a state waits to be committed during the outside notification too.
- `LapseOnlyIfUnobservedHolds`. Unlike a sensor's, a worker's evaluation that finds nothing new writes
  nothing, so the TTL is renewed by ongoing alarms only. `LapseInv` says that a hash and every snapshot
  of it in a state other than "safe" carry the time of an alarm whose commit renewed the TTL
  (`Outlives`); an evaluation returns without a write only if that alarm is less than one re-alarm
  interval old, or if it saw "safe", and then whoever has changed the state since has renewed the TTL.
- One after the other, with the same `SerialInv` and kinds of steps:
  `EscalatesAtOnceInOrderHolds` (`AtOnceInv`);
  `RecoveryIsConsecutiveInOrderHolds` (`ConsecutiveInv`: a pending count of n stands for the last n
  observations, all of the candidate state);
  `NotifiedOncePerEntryInOrderHolds` (`OnceInv`: while nothing less dangerous than a state has been observed
  since the last notification, and no pause was long enough for the hash to run out, the worker is in that
  state or a worse one);
  `SteadyRecoversInOrderHolds` (`SteadyInv`: the count follows a run of observations within one re-alarm
  interval, but for one ongoing alarm, after which it starts again).

### Zones and ingestion

About `ZoneLifecycle`, for any zones, sensors, distances, TTLs, thresholds and overlapping ticks:

- `TypeCorrect`.
- `TierIsBackedHolds` and `ScenarioStaysTentativeHolds`. `TierInv` asks the same of every in-memory
  copy, since a promotion may write it over the row long after it was loaded; that a copy stays
  justified rests on the table of confirmations only growing.
- `OnlyPromotionRevivesHolds`, an action property, step by step from `TypeOK`.
- `AnnouncedOnceHolds` and `ExpiredWhenDueHolds`, for one tick at a time
  and no deletions, any number of zones. `OrderInv` says that what the tick has loaded is still as it
  was: listed zones are active in the row and in the copy, those of the expiry phase are due, those of
  the promotion phase are not critical, and an active zone has no recorded expiry. Without the
  hypothesis both are false, which is what `ZoneLifecycleOverlap` shows.
- `ZonesRunDownHolds`, under the same hypothesis: the safety half of `EveryZoneEnds`. Each step keeps an
  active zone's tier and lets its time run down, or raises the tier, of which there are three, or ends
  it for good. `RunInv` adds to `OrderInv` that a loaded zone has the tier and the radius of its row and
  what is about to be saved is of a higher tier (`Kept`), and that a radius is the first one or at most
  what the zone's age explains (`Grown`), so that growth at a later age cannot shrink it. One of its
  parts, `NoResurrection`, is what `ZoneLifecycleOverlap` refutes of ticks that overlap.

About `SensorIngest`, for any pods, budgets and outages:

- `TypeCorrect`.
- `NoDuplicateZonesHolds`, if `MaxLatency < GateSec`. `GateInv` says, while the cache has not failed,
  that a request which has passed the gate and not yet decided holds it (`Deciding`), that no other
  request is there, and that when it comes to its insert there is no active zone; no request is older
  than `MaxLatency`, so by the hypothesis the gate does not run out under it.
- `GateMeansZoneHolds`, however requests overlap. `ShutInv` adds to the property that the gate was shut
  at most `GateSec` ago, which tells a zone that has ended since from one that ended before. Overlapping
  requests and outages do no harm, so the property is claimed of all behaviours.
- `StatusIsLatestInOrderHolds`, one request at a time. `LatestInv` says that the copy of the row which a
  request holds until it saves is still the row.

### Messages and backups (`DeliveryProofs`)

For any alarms, users, policies, notices, reports, rows, and any number of edits, failures, outages and
lost workers:

- `ChannelsStayApart`. `ExternalInv`: a report has one task at most, and none while it waits in the
  queue; nothing was posted to a channel its task has not come to (`NotYetPosted`), and every channel it
  has passed was told or has failed itself (`PassedAreTold`).
- `DispatchesAreAnsweredInFull`. `NoticeInv`: the logs of a running dispatch are those of the pairs it
  has left behind, pending for the one it is at (`LogsAgree`); one that is over has all its logs unless
  one broke off (`OverIsOver`). The number of logs is counted by an injection into users times channels
  (`OneForEach`).
- `EveryoneIsToldExactlyOnce`. For "at most once", `EachInsertionOnce` sums up what is done, under way
  and waiting: copies + occurrences in the queue + the running job never exceed the insertions; within a
  job, `WrittenOnce` says that nothing is drafted for a policy or order still to come. For "nobody left
  out", `EachIsPromised`: while nothing has failed and no policy was edited since the insertion, each
  recipient has a copy or is still promised one by what the job has left, by the current policy's
  tokens, by its orders or by its drafts.
- `DeletionsAreBackedUp`. `RetentionInv` follows each job: until a job was spoilt, every row of the table
  is in its file or came after the file's query, the file is complete once it deletes, and what it has deleted
  stays in the file; page and clean-up write different columns of the policy (`ColumnsApart`).

### Back office and training (`BackOfficeProofs`)

For any people, departments, tables, devices, fences, images and any number of requests under way:

- `DirectoryIsSound`. `DirectoryInv` adds to the property what forms under way may rest on: no
  form makes a bucket (`BucketsApart`), and who is found in a department whose members were moved is
  excused (`LeftoversExcused`). `Below` is the least set that contains the department and is closed
  under children, so the proof needs no recursion.
- `TablesAreSound`. `TableInv` asks the same of what is about to be saved: a seeded group's edit keeps
  it seeded, and limits that were validated are in order (`LimitsChecked`); limits in use were active
  when they were loaded (`ReleasedKnown`).
- `SiteIsSound`. `SiteInv`: a mapping settles each device once and what is settled agrees
  (`MappingSound`); whoever may take an active image away has seen another one, or one that was not
  active (`ImagesKept`).
- `TrainingIsEarned`. `TrainingInv`: a request that will mark a day has seen that day's end recorded
  (`RequestsKnow`); on a day without overlap one request at most is about to save, and not less than
  the furthest position (`OneAtATime`).

### Around the alarms (`PlatformProofs`)

For any devices, tables, values, zones, connections and any number of faults:

- `GeneratorStaysFaithful`, with the action property `FullPhases`. `SwitchInv`: a switch's own clock is
  never ahead of the time the phase has lasted, however often it was pressed. `LoopInv`: the tables that
  were loaded name each device once, which is what makes the answers of a tick belong to their sensors.
- `LearnersStayInOrder`, with the action property `JudgedOnce`. `WarningInv`: one fit thread at most is
  between its two writes, and what it has still to write is of the model's fit (`OneFit`); requests that have passed
  the throttle and predictions are apart (`PredictedInOrder`); predictions are numbered (`Numbered`).
- `SpikesStayApart`, if `MaxLate + 1 < FlagTime`: the queue is never so late that the flag of a chain's
  last reading has run out. `NotedOnce`: unless a tick came between, a zone has noted each sensor with a
  chain, has one chain for it, and will start none that it has noted. `FlagHolds`: the flag runs down
  no faster than the next task comes. `CurvesComeDown` is about the arithmetic of the curve, for every
  length of its three parts.
- `DashboardsStayCurrent`. `SocketInv`: a connection is in the groups it has joined in their order
  (`JoinedInOrder`); the gauge lies between the connections and these less the faults (`GaugeDrifts`);
  the one publication of a group that is under way is its last (`CachedIsPublished`).
- `ReadingsStayClassified`, for any gases in any order, limits, readings and samples. Both classifiers
  are loops over the gases. `IsRun` says that a function is the run of a loop, `Iteration` that every loop
  has one, and a property of all rounds is shown for the set of the rounds that have it: the set holds
  the first round and with each round the next, so it holds all, since a least number outside would be
  the successor of one inside (`Smallest`, `Prefixes`). For Django's loop the rounds keep that the
  status is that of the worst value so far (`ClassifyGasIsWorst`), for the generator's that no gas so far
  has gone farther from caution to danger than the cause (`WorstGasIsFarthest`). A score is 1 or more
  exactly when the value is dangerous (`ScoresTell`), which connects the two (`CauseIsNamedHolds`). The
  median is defined by ranks: while fewer than half of the samples are spikes the two middle ranks are
  the rated power (`LowRanksAreRated`, `SpikesHold`).
- `NeighboursConfirm`, the part of `ZoneHasItsShape` that is about state: `CacheInv` says that a process's
  cache, once loaded, holds the current places of all sensors that have not been moved since.

### What proving changed

- `ImageRemains` did not follow: a deletion or toggle that found its image inactive, and so did not ask
  for another active one, takes the image away after it has become the only one (three overlapping
  requests). The model keeps what the request was shown (`shown`), and the property excuses that case
  by name.
- The lifecycle knew no zone without a source. Deleting one is now a step, and the tick that raises over
  it another; a copy may then differ from its row, and `RunInv` asks only for tier and radius.
- `GateMeansZone` was claimed of one request at a time; its invariant needs no such restriction.
- `SpikesAreApart` was checked with a queue that is always on time. Its invariant shows what lateness
  the flag allows, which the run now has.
- `Below` and the counting of messages were recursive and by bags; both are now definitions by sets and
  functions that mean the same and can be reasoned about.
- The classifiers were folds that sorted and took maxima. They are now loops, gas by gas as in the code,
  and the median is what has its rank. `SpikesChangeNothing` spoke of the powers of the instance; it
  now speaks of every power beyond 2.25 times the rated one.

### What is only model-checked

- `EveryZoneEnds`: liveness under fairness is out of the prover's reach, and so is `ENABLED`. What the
  descent consists of is proved (`ZonesRunDownHolds`); that ticks and the clock go on is assumed.
- `ZoneHasItsShape`, but for `ConfirmedNear`: the ray test folds over a polygon's sides, and its agreement
  with the polygon, like what a hull covers, is geometry on a grid. The library's induction theorems
  take an operator as a parameter, which the provers cannot instantiate; the induction over sets that
  carries `ReadingsStayClassified` would do for the fold, but not for the geometry.
- The runs that expect a violation.

## Hazards beyond the list

`PROJECT.json` lists the forty hazards that matter most. Also considered, most of them within a modelled
definition:

- zones: the first tick's smaller radius (`zone_lifecycle.py:118`), a scenario's polygon scaled or made
  a circle (`:150`), the second copy of the spike parameters (`:204`), creation failing after the
  gate was taken (`auto_trigger.py:100`), a leak that sets in during another danger (`:74`), the ray at
  the height of a corner (`services.py:10`);
- ingestion and learning: the throttle that is kept per process (`devices/views.py:384`), a missing
  model of the other detector (`trend_predictor.py:181`), the order of judgements (`:209`), many gases
  with some missing (`classifiers.py:41`), long overloads that become the norm (`:119`);
- generator: a changed sensor type that breaks each tick (`scheduler.py:113`), a failed first load
  (`:333`), a switch pressed while a phase is entered (`scenario.py:199`), labels that say danger over
  values in the caution range (`:58`), a worker at the edge of the map (`generators.py:531`), the flag
  taken away under another chain (`tasks_scenario.py:123`);
- messages: sending fails and caching does not (`publishers.py:109`), a user named by several policies
  and tokens (`notification_dispatcher.py:141`), the first channel's failure (`notifiers.py:120`), the
  clean-up's save (`cleanup_data.py:76`);
- pages: deactivation of the last image in the edit form (`maps.py:172`), an upload that stops half-way
  (`dashboard/views.py:113`), equal limits (`forms/masters.py:411`), a bulk deletion with seeded rows
  (`views/masters.py:362`), a form loaded before a reading (`forms/devices.py:120`), joining a
  department while it is deleted (`views/organizations.py:138`), a video that ends at midnight
  (`vr_training/views.py:178`).

## What is not modelled

- Values of readings beyond their relation to the limits, texts, templates, metrics, layout, and the
  statistics inside the detectors: what they answer is a choice.
- The constants of the diffusion model, and the AI trigger of `zone_anomaly`.
- Power readings in `SensorIngest` (the same path, without a zone). A scenario with one affected sensor
  chooses its own first radius; the model uses the diffusion radius of the others.
- The older leak scenarios, which only write rows, and the views that start them.
- Workers and positions: plain rows behind the same five-second gate as a sensor's.
- Of the back office: audit, logs, events, menus and permissions, which list rows or decide from one;
  of accounts: login and profile pages over Django's authentication; of the dashboard: presentation.
- Deployment, observability and the notebooks: configuration and analysis, read for the number of
  replicas and workers.
- The deletion of a confirming sensor, whose confirmations go with it (`TierIsBacked` is about those that
  stay).
- Redis keeps its data over an outage. The database does not fail except where a request, an evaluation
  or a job may stop.

## Plan

Done, in this order: alarms and zones, ingestion, their proofs; classification, generator, learners,
spikes, push, geometry; delivery, notices, external messages, retention; back office and training; the
alarm ledger and its refinement; the proofs about ingestion, ordered ticks and spaced repeats; the
proofs about evaluations one after the other, and about `Delivery`, `BackOffice` and `Platform`; those
about the classifiers, the neighbours' distances and how zones run down.

Next:

- of `ZoneHasItsShape`, `GainsGround` for a radius that only grows;
- what connects components: that the notices `WorkerAlarm!NotifyOutside` hands over are those
  `ExternalNotify` tells, as a refinement of both by one abstract specification.

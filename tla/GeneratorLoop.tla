--------------------------- MODULE GeneratorLoop ---------------------------
(***************************************************************************)
(* The loop of the data generator: it loads devices and workers from        *)
(* Django, reloads them every few ticks, and in a tick posts one reading of *)
(* every sensor and one position of every worker, and then reports to       *)
(* check-geofence what Django made of the readings.  A reading is           *)
(* abstracted to the ticks its event still lasts.                           *)
(***************************************************************************)
EXTENDS Integers, Sequences, FiniteSets

CONSTANTS
    None,
    Devices,     \* device ids
    Mapped,      \* SCENARIO_DEVICE_MAP: device -> type of sensor, for some
    EventTicks,  \* the duration of an event
    Margin, Width, MaxSpeed,  \* of the map, and the largest dx of a worker
    MaxChanges   \* bound: changes by administrators and restarts

VARIABLES
    rows,      \* what Django lists: a sequence of [id, type]
    employed,  \* whether there is a worker
    loop,      \* run_simulation_loop: "loading", "running" or "ended"
    mode,      \* app.state.scenario
    known,     \* the loop's devices in order: [id, type, events]
    worker,    \* the loop's worker: None or [x, dx, moved]
    answers,   \* what Django answered in the last tick: device -> status, or None
    summary,   \* the sensors of the last check-geofence: [device, status]
    changes

loopVars == <<rows, employed, loop, mode, known, worker, answers, summary, changes>>

Types == {"gas", "power", "other"}

Statuses == {"normal", "danger"}

Init ==
    /\ rows \in {s \in UNION {[1 .. n -> [id : Devices, type : Types]] : n \in 0 .. 2} :
                   \A i, j \in DOMAIN s : s[i].id = s[j].id => i = j}
    /\ employed \in BOOLEAN
    /\ loop = "loading"
    /\ mode = "mixed"
    /\ known = <<>>
    /\ worker = None
    /\ answers = [d \in Devices |-> None]
    /\ summary = {}
    /\ changes = 0

\* load_workers: the last position that Django has, wherever it is.
FreshWorkers ==
    IF employed THEN {[x |-> x, dx |-> 0, moved |-> FALSE] : x \in 0 .. Width} ELSE {None}

\* load_devices.
Fresh(row) == [id |-> row.id, type |-> row.type, events |-> 0]

\* The first load; without an answer the loop is over until the process is
\* started again.
Load ==
    /\ loop = "loading"
    /\ \/ /\ loop' = "running"
          /\ known' = [i \in DOMAIN rows |-> Fresh(rows[i])]
          /\ worker' \in FreshWorkers
       \/ loop' = "ended" /\ UNCHANGED <<known, worker>>
    /\ UNCHANGED <<rows, employed, mode, answers, summary, changes>>

\* _reload_devices_and_workers: Django's list and its order, in which whoever was
\* known keeps the simulated state; a load that fails changes nothing.
Reload ==
    /\ loop = "running"
    /\ known' = [i \in DOMAIN rows |->
                   IF \E j \in DOMAIN known : known[j].id = rows[i].id
                   THEN [(CHOOSE k \in {known[j] : j \in DOMAIN known} : k.id = rows[i].id)
                         EXCEPT !.type = rows[i].type]
                   ELSE Fresh(rows[i])]
    /\ IF employed /\ worker # None THEN worker' = worker ELSE worker' \in FreshWorkers
    /\ UNCHANGED <<rows, employed, loop, mode, answers, summary, changes>>

IsSensor(k) == k.type \in {"gas", "power"}

\* A device of the scenarios whose type is not the scenario's: nothing is
\* generated for it, and the search for its worst value raises.
Misfit(k) == IsSensor(k) /\ k.id \in DOMAIN Mapped /\ k.type # Mapped[k.id]

\* generate_gas and generate_power, of devices without a scenario: danger ends the
\* events, normal leaves them for later, mixed consumes and begins them.
Generated(k) ==
    IF k.id \in DOMAIN Mapped \/ ~IsSensor(k) THEN {k}
    ELSE CASE mode = "danger" -> {[k EXCEPT !.events = 0]}
           [] mode = "normal" -> {k}
           [] mode = "mixed" ->
                LET left == IF k.events > 0 THEN k.events - 1 ELSE 0 IN
                {[k EXCEPT !.events = n] : n \in IF left > 0 THEN {left} ELSE {0, EventTicks}}

Advanced(upTo) ==
    {s \in [DOMAIN known -> UNION {{known[i]} \cup Generated(known[i]) : i \in DOMAIN known}] :
       \A i \in DOMAIN known : IF i <= upTo THEN s[i] \in Generated(known[i]) ELSE s[i] = known[i]}

Clamp(n, low, high) == IF n < low THEN low ELSE IF n > high THEN high ELSE n

\* Faulty variants of the definition that follows each of them, named
\* <definition>_<fault>, are used by no specification: they record which
\* mistake in the code each property would catch.
MoveWorker_NoClamp(w) ==
    {[x |-> w.x + dx, dx |-> IF w.x + dx \in Margin .. Width - Margin THEN dx ELSE -dx,
      moved |-> TRUE] :
       dx \in {Clamp(w.dx + push, -MaxSpeed, MaxSpeed) : push \in {-1, 0, 1}}}

\* move_worker, in one direction: a push, and back from the edge.
MoveWorker(w) ==
    {[x |-> Clamp(w.x + dx, Margin, Width - Margin),
      dx |-> IF w.x + dx \in Margin .. Width - Margin THEN dx ELSE -dx,
      moved |-> TRUE] :
       dx \in {Clamp(w.dx + push, -MaxSpeed, MaxSpeed) : push \in {-1, 0, 1}}}

\* The POSTs of a tick, in the order in which the tasks are made ...
Posts == SelectSeq(known, IsSensor)

\* ... and what comes back for each of them: a status, or nothing.
Results == {[d \in Devices |-> None]} \cup [Devices -> Statuses \cup {None}]

Report_AllDevices(result) ==
    {[device |-> known[i].id, status |-> result[Posts[i].id]] :
       i \in {j \in DOMAIN known \cap DOMAIN Posts : result[Posts[j].id] # None}}

\* The sensors of check-geofence: sensor_refs zipped with the results, without the
\* failed ones.
Report(result) ==
    {[device |-> Posts[i].id, status |-> result[Posts[i].id]] :
       i \in {j \in DOMAIN Posts : result[Posts[j].id] # None}}

\* _tick_once.
Tick ==
    /\ loop = "running"
    /\ \A i \in DOMAIN known : ~Misfit(known[i])
    /\ known' \in Advanced(Len(known))
    /\ IF worker = None THEN worker' = None ELSE worker' \in MoveWorker(worker)
    /\ \E result \in Results :
         /\ \A d \in Devices : result[d] # None => \E i \in DOMAIN Posts : Posts[i].id = d
         /\ answers' = result
         /\ summary' = IF worker = None THEN {} ELSE Report(result)
    /\ UNCHANGED <<rows, employed, loop, mode, changes>>

\* _tick_once raises at the first misfit: the devices before it have moved on, and
\* nothing is posted, by this tick or by the next ones.
BrokenTick ==
    /\ loop = "running"
    /\ \E i \in DOMAIN known :
         /\ Misfit(known[i])
         /\ \A j \in 1 .. i - 1 : ~Misfit(known[j])
         /\ known' \in Advanced(i - 1)
    /\ answers' = [d \in Devices |-> None]
    /\ summary' = {}
    /\ UNCHANGED <<rows, employed, loop, mode, worker, changes>>

Change ==
    /\ changes < MaxChanges
    /\ changes' = changes + 1

\* POST /api/scenario.
SetMode(m) ==
    /\ Change
    /\ m # mode
    /\ mode' = m
    /\ UNCHANGED <<rows, employed, loop, known, worker, answers, summary>>

\* An administrator changes the type of a device, deletes one, or hires and fires.
Administrate ==
    /\ Change
    /\ \/ \E i \in DOMAIN rows, t \in Types : rows' = [rows EXCEPT ![i].type = t] /\ UNCHANGED employed
       \/ rows # <<>> /\ rows' = Tail(rows) /\ UNCHANGED employed
       \/ employed' = ~employed /\ UNCHANGED rows
    /\ UNCHANGED <<loop, mode, known, worker, answers, summary>>

\* lifespan: the process ends and starts again; all it has in memory is lost.
Restart ==
    /\ Change
    /\ loop' = "loading"
    /\ mode' = "mixed"
    /\ known' = <<>>
    /\ worker' = None
    /\ answers' = [d \in Devices |-> None]
    /\ summary' = {}
    /\ UNCHANGED <<rows, employed>>

Next ==
    \/ Load \/ Reload \/ Tick \/ BrokenTick
    \/ \E m \in {"normal", "mixed", "danger"} : SetMode(m)
    \/ Administrate \/ Restart

Spec == Init /\ [][Next]_loopVars

-----------------------------------------------------------------------------
\* Every variable has its type.
TypeOK ==
    /\ loop \in {"loading", "running", "ended"}
    /\ mode \in {"normal", "mixed", "danger"}
    /\ \A i \in DOMAIN known : known[i].type \in Types /\ known[i].events \in 0 .. EventTicks
    /\ \A i, j \in DOMAIN known : known[i].id = known[j].id => i = j
    /\ worker # None => worker.dx \in -MaxSpeed .. MaxSpeed
    /\ changes \in 0 .. MaxChanges

\* check-geofence is told of each sensor the status that Django answered for its
\* own reading, however devices of other kinds and failed POSTs lie between
\* (scheduler.py:93-157, :202-215).
OwnStatus == \A e \in summary : answers[e.device] = e.status

\* After its first move a worker is on the map, wherever the last position that
\* Django had was (generators.py:531-548).
OnTheMap == worker # None /\ worker.moved => worker.x \in Margin .. Width - Margin

=============================================================================

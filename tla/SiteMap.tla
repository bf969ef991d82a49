------------------------------ MODULE SiteMap ------------------------------
(***************************************************************************)
(* The plan of the site as administrators edit it: fences, the devices that *)
(* are mapped to them, and the images of the plan.  A form loads a row and  *)
(* saves every column later; the automatic mapping and the import of a file *)
(* load all rows first and save device by device.  Readings of the sensors  *)
(* write the status of the same rows meanwhile.                             *)
(***************************************************************************)
EXTENDS Integers, Sequences, FiniteSets

CONSTANTS
    None,
    Fences,    \* ids of geofences
    Kinds,     \* set of [type, covers]: zone types and the places inside the polygon
    Devices,   \* device_id
    Places,    \* where a device can be
    Images,    \* ids of images
    Files,     \* CSV files: sequences of [device, place, valid]
    MaxEdits   \* bound: requests

VARIABLES
    fences,    \* None or [kind, active], by id
    devices,   \* None or [place, fence, active, status], by device_id
    latest,    \* the status of the last reading, by device_id
    images,    \* MapImage.is_active by id, or None
    editing,   \* requests between two steps
    job,       \* None, or the mapping or import that is under way
    settled,   \* history: devices not edited since a mapping went over them
    stale,     \* history: devices whose row was saved with an older status
    excused,   \* history: how the last active image went, if not by one request
    requests

mapVars == <<fences, devices, latest, images, editing, job, settled, stale, excused, requests>>

Row(table) == {x \in DOMAIN table : table[x] # None}

Active(table) == {x \in Row(table) : table[x].active}

Statuses == {"normal", "danger"}

\* PRIORITY of find_containing_geofence.
Priority(type) ==
    CASE type = "danger" -> 0 [] type = "restricted" -> 1 [] type = "caution" -> 2 [] OTHER -> 99

\* find_containing_geofence among the loaded fences: the most dangerous of those
\* around the place; of equals, the first loaded.
Matches(place, loaded) ==
    LET around == {f \in Active(loaded) : place \in loaded[f].kind.covers} IN
    IF around = {} THEN {None}
    ELSE {f \in around : \A g \in around :
            Priority(loaded[f].kind.type) <= Priority(loaded[g].kind.type)}

Init ==
    /\ fences \in [Fences -> {None} \cup [kind : Kinds, active : {TRUE}]]
    /\ devices \in [Devices -> {None} \cup [place : Places, fence : Row(fences) \cup {None},
                                           active : {TRUE}, status : {"normal"}]]
    /\ latest = [d \in Devices |-> "normal"]
    /\ images \in [Images -> {None, TRUE}]
    /\ editing = {}
    /\ job = None
    /\ settled = {}
    /\ stale = {}
    /\ excused = (\A m \in Images : images[m] = None)
    /\ requests = 0

Request ==
    /\ requests < MaxEdits
    /\ requests' = requests + 1

\* A row is saved as it was loaded, with changes; what a reading wrote meanwhile
\* is lost, unless the save is limited to some fields.
Overwrite(d, row) ==
    /\ devices' = [devices EXCEPT ![d] = row]
    /\ stale' = IF row.status # latest[d] THEN stale \cup {d} ELSE stale

-----------------------------------------------------------------------------
(* Devices.                                                                 *)

\* device_create_api and device_update_api: the row is loaded or made and the
\* form validated, with a fence that exists or none ...
OpenDevice(d, place, fence, isActive) ==
    /\ Request
    /\ fence \in Row(fences) \cup {None}
    /\ editing' = editing \cup
           {[kind |-> "device", no |-> requests, id |-> d, isNew |-> devices[d] = None,
             chosen |-> fence,
             row |-> IF devices[d] = None
                     THEN [place |-> place, fence |-> None, active |-> isActive, status |-> "normal"]
                     ELSE [devices[d] EXCEPT !.place = place, !.active = isActive]]}
    /\ UNCHANGED <<fences, devices, latest, images, job, settled, stale, excused>>

\* DeviceForm.save: a chosen fence, else the one the row had, else one around the
\* place.  The id may have been taken and the fence deleted.
SaveDevice(q) ==
    /\ \E f \in IF q.chosen # None THEN {q.chosen}
                ELSE IF q.row.fence # None THEN {q.row.fence} ELSE Matches(q.row.place, fences) :
         IF f \in Row(fences) \cup {None} /\ (q.isNew => devices[q.id] = None)
         THEN Overwrite(q.id, [q.row EXCEPT !.fence = f]) /\ settled' = settled \ {q.id}
         ELSE UNCHANGED <<devices, stale, settled>>
    /\ editing' = editing \ {q}
    /\ UNCHANGED <<fences, latest, images, job, excused, requests>>

\* device_bulk_delete_api.
DeleteDevices(ds) ==
    /\ Request
    /\ ds \cap Row(devices) # {}
    /\ devices' = [d \in Devices |-> IF d \in ds THEN None ELSE devices[d]]
    /\ settled' = settled \ ds
    /\ stale' = stale \ ds
    /\ latest' = [d \in Devices |-> IF d \in ds THEN "normal" ELSE latest[d]]
    /\ UNCHANGED <<fences, images, editing, job, excused>>

\* device_bulk_toggle_api: one UPDATE.
ToggleDevices(ds, isActive) ==
    /\ Request
    /\ ds \cap Row(devices) # {}
    /\ devices' = [d \in Devices |-> IF d \in ds \cap Row(devices)
                                     THEN [devices[d] EXCEPT !.active = isActive] ELSE devices[d]]
    /\ UNCHANGED <<fences, latest, images, editing, job, settled, stale, excused>>

\* A reading, which saves the status only.
Reading(d, status) ==
    /\ devices[d] # None
    /\ status # latest[d] \/ d \in stale
    /\ latest' = [latest EXCEPT ![d] = status]
    /\ devices' = [devices EXCEPT ![d].status = status]
    /\ stale' = stale \ {d}
    /\ UNCHANGED <<fences, images, editing, job, settled, excused, requests>>

-----------------------------------------------------------------------------
(* Jobs.                                                                    *)

\* device_auto_map_geofence_api loads the active fences and every device ...
StartMapping ==
    /\ Request
    /\ job = None
    /\ Row(devices) # {}
    /\ job' = [kind |-> "map", fences |-> fences, rows |-> devices, left |-> Row(devices)]
    /\ settled' = {}
    /\ UNCHANGED <<fences, devices, latest, images, editing, stale, excused>>

\* Faulty variants of the definition that follows each of them, named
\* <definition>_<fault>, are used by no specification: they record which
\* mistake in the code each property would catch.
MapDevice_OnlyUnmapped(d) ==
    /\ job # None
    /\ job.kind = "map"
    /\ d \in job.left
    /\ \E f \in Matches(job.rows[d].place, job.fences) :
         /\ devices' = IF job.rows[d].fence = None /\ devices[d] # None /\ f \in Row(fences)
                       THEN [devices EXCEPT ![d].fence = f] ELSE devices
         /\ settled' = IF fences = job.fences /\ devices[d] = job.rows[d]
                       THEN settled \cup {d} ELSE settled
    /\ job' = IF job.left = {d} THEN None ELSE [job EXCEPT !.left = @ \ {d}]
    /\ UNCHANGED <<fences, latest, images, editing, stale, excused, requests>>

MapDevice_SavesRow(d) ==
    /\ job # None
    /\ job.kind = "map"
    /\ d \in job.left
    /\ \E f \in Matches(job.rows[d].place, job.fences) :
         /\ devices' = IF f \in Row(fences) \cup {None} /\ job.rows[d].fence # f
                       THEN [devices EXCEPT ![d] = [job.rows[d] EXCEPT !.fence = f]] ELSE devices
         /\ settled' = settled
    /\ job' = IF job.left = {d} THEN None ELSE [job EXCEPT !.left = @ \ {d}]
    /\ UNCHANGED <<fences, latest, images, editing, stale, excused, requests>>

\* ... and saves the fence of each one for which it changes.  A device or a fence
\* that is gone ends the job there.
MapDevice(d) ==
    /\ job # None
    /\ job.kind = "map"
    /\ d \in job.left
    /\ \E f \in Matches(job.rows[d].place, job.fences) :
         LET saves == f # job.rows[d].fence
             fails == saves /\ (devices[d] = None \/ f \notin Row(fences) \cup {None})
         IN  /\ devices' = IF saves /\ ~fails THEN [devices EXCEPT ![d].fence = f] ELSE devices
             /\ settled' = IF fences = job.fences /\ devices[d] = job.rows[d]
                           THEN settled \cup {d} ELSE settled
             /\ job' = IF fails \/ job.left = {d} THEN None ELSE [job EXCEPT !.left = @ \ {d}]
    /\ UNCHANGED <<fences, latest, images, editing, stale, excused, requests>>

\* device_csv_upload_api loads every device and the active fences ...
StartImport(mode, file) ==
    /\ Request
    /\ job = None
    /\ job' = [kind |-> "csv", mode |-> mode, fences |-> fences, rows |-> devices, left |-> file]
    /\ UNCHANGED <<fences, devices, latest, images, editing, settled, stale, excused>>

\* ... and takes the file line by line: a bad line is reported, a known device
\* skipped or saved as it was loaded with what the line changes, an unknown one
\* created.  A save that fails ends the import there.
ImportLine ==
    /\ job # None
    /\ job.kind = "csv"
    /\ LET line  == Head(job.left)
           d     == line.device
           known == job.rows[d]
           rest  == IF Len(job.left) = 1 THEN None ELSE [job EXCEPT !.left = Tail(@)]
           skip  == job' = rest /\ UNCHANGED <<devices, settled, stale>>
       IN  IF ~line.valid \/ (known # None /\ job.mode = "create") THEN skip
           ELSE \E f \in Matches(line.place, job.fences) :
                  LET row == IF known = None
                             THEN [place |-> line.place, fence |-> f, active |-> TRUE, status |-> "normal"]
                             ELSE [known EXCEPT !.place = line.place, !.active = TRUE,
                                                !.fence = IF f = None THEN @ ELSE f]
                  IN  IF row = known THEN skip
                      ELSE IF row.fence \in Row(fences) \cup {None}
                              /\ (known = None => devices[d] = None)
                      THEN /\ Overwrite(d, row)
                           /\ settled' = settled \ {d}
                           /\ job' = IF rest = None THEN None ELSE [rest EXCEPT !.rows[d] = row]
                      ELSE job' = None /\ UNCHANGED <<devices, settled, stale>>
    /\ UNCHANGED <<fences, latest, images, editing, excused, requests>>

-----------------------------------------------------------------------------
(* Fences.                                                                  *)

\* geofence_create_api, geofence_update_api, and GeoFenceViewSet.destroy, which
\* deactivates: every column is written anew, whatever was loaded, and the mapping
\* of devices stays as it is.
SaveFence(f, kind, isActive) ==
    /\ Request
    /\ fences' = [fences EXCEPT ![f] = [kind |-> kind, active |-> isActive]]
    /\ settled' = {}
    /\ UNCHANGED <<devices, latest, images, editing, job, stale, excused>>

\* geofence_delete_api: the key of its devices is SET_NULL.
DeleteFence(f) ==
    /\ Request
    /\ fences[f] # None
    /\ fences' = [fences EXCEPT ![f] = None]
    /\ devices' = [d \in Devices |-> IF devices[d] # None /\ devices[d].fence = f
                                     THEN [devices[d] EXCEPT !.fence = None] ELSE devices[d]]
    /\ settled' = {}
    /\ UNCHANGED <<latest, images, editing, job, stale, excused>>

-----------------------------------------------------------------------------
(* Images.                                                                  *)

Shown == {m \in Images : images[m] = TRUE}

\* map_image_create_api and map_image_update_api: MapImageForm writes every column,
\* and is_active freely.
SaveImage(m, isActive) ==
    /\ Request
    /\ images' = [images EXCEPT ![m] = isActive]
    /\ excused' = \/ excused /\ ~isActive
                  \/ ~isActive /\ Shown \subseteq {m}
    /\ UNCHANGED <<fences, devices, latest, editing, job, settled, stale>>

\* MapImageViewSet.perform_create of the dashboard: all images are deactivated ...
StartUpload(m) ==
    /\ Request
    /\ images[m] = None
    /\ \A q \in editing : q.id # m
    /\ images' = [x \in Images |-> IF images[x] = None THEN None ELSE FALSE]
    /\ excused' = TRUE
    /\ editing' = editing \cup {[kind |-> "upload", no |-> requests, id |-> m]}
    /\ UNCHANGED <<fences, devices, latest, job, settled, stale>>

\* ... and the new one is saved as the active one, or cannot be saved.
FinishUpload(q) ==
    /\ \/ images' = [images EXCEPT ![q.id] = TRUE] /\ excused' = FALSE
       \/ UNCHANGED <<images, excused>>
    /\ editing' = editing \ {q}
    /\ UNCHANGED <<fences, devices, latest, job, settled, stale, requests>>

CheckImage_Below(m, to) ==
    /\ Request
    /\ images[m] # None
    /\ ~(images[m] /\ Cardinality(Shown) < 1)
    /\ to # images[m]
    /\ editing' = editing \cup {[kind |-> "image", no |-> requests, id |-> m, to |-> to,
                                 shown |-> images[m], others |-> Shown \ {m}]}
    /\ UNCHANGED <<fences, devices, latest, images, job, settled, stale, excused>>

\* map_image_delete_api (to None) and map_image_toggle_active_api refuse to take
\* away the last active image; nothing counts as a use of an image ...
CheckImage(m, to) ==
    /\ Request
    /\ images[m] # None
    /\ ~(images[m] /\ Cardinality(Shown) <= 1)
    /\ to # images[m]
    /\ editing' = editing \cup {[kind |-> "image", no |-> requests, id |-> m, to |-> to,
                                 shown |-> images[m], others |-> Shown \ {m}]}
    /\ UNCHANGED <<fences, devices, latest, images, job, settled, stale, excused>>

\* ... and take it away; a toggle of a row that is gone fails.
ChangeImage(q) ==
    /\ images' = IF images[q.id] = None THEN images ELSE [images EXCEPT ![q.id] = q.to]
    /\ LET others == {m \in Shown : m # q.id}
       IN  excused' = \/ excused /\ ~(q.to = TRUE /\ images[q.id] # None)
                      \/ q.to # TRUE /\ others = {} /\ (q.others # {} \/ ~q.shown)
    /\ editing' = editing \ {q}
    /\ UNCHANGED <<fences, devices, latest, job, settled, stale, requests>>

Next ==
    \/ \E d \in Devices, place \in Places, f \in Fences \cup {None}, b \in BOOLEAN :
         OpenDevice(d, place, f, b)
    \/ \E ds \in SUBSET Devices : DeleteDevices(ds) \/ \E b \in BOOLEAN : ToggleDevices(ds, b)
    \/ \E d \in Devices, s \in Statuses : Reading(d, s)
    \/ StartMapping
    \/ \E d \in Devices : MapDevice(d)
    \/ \E mode \in {"create", "upsert"}, file \in Files : StartImport(mode, file)
    \/ ImportLine
    \/ \E f \in Fences, kind \in Kinds, b \in BOOLEAN : SaveFence(f, kind, b)
    \/ \E f \in Fences : DeleteFence(f)
    \/ \E m \in Images, b \in BOOLEAN : SaveImage(m, b)
    \/ \E m \in Images, to \in {None, TRUE, FALSE} : CheckImage(m, to)
    \/ \E m \in Images : StartUpload(m)
    \/ \E q \in editing : \/ q.kind = "device" /\ SaveDevice(q)
                          \/ q.kind = "image" /\ ChangeImage(q)
                          \/ q.kind = "upload" /\ FinishUpload(q)

Spec == Init /\ [][Next]_mapVars

-----------------------------------------------------------------------------
\* Every variable has its type, and no device refers to a fence that is gone.
TypeOK ==
    /\ \A f \in Row(fences) : fences[f].kind \in Kinds /\ fences[f].active \in BOOLEAN
    /\ \A d \in Row(devices) : /\ devices[d].place \in Places
                               /\ devices[d].fence \in Row(fences) \cup {None}
                               /\ devices[d].status \in Statuses
    /\ \A m \in Row(images) : images[m] \in BOOLEAN
    /\ \A q \in editing : q.kind \in {"device", "image", "upload"}
    /\ requests \in 0 .. MaxEdits

\* The automatic mapping recomputes: the fence of every device it went over is the
\* most dangerous active one around it, whatever it was mapped to before, as long
\* as nobody edits device or fences (views/devices.py:141-161).
MappingAgrees ==
    \A d \in settled : devices[d].fence \in Matches(devices[d].place, fences)

\* The status of a device is that of its last reading, also while a mapping goes
\* over the rows it loaded before; only a form or an import saves an older one
\* (views/devices.py:141-161, forms/devices.py:87-120, views/devices.py:256-257).
StatusIsLatest == \A d \in Row(devices) \ stale : devices[d].status = latest[d]

\* An active image remains, except that a form deactivated the last one, that two
\* requests each saw the image which the other took away, that a request deletes an
\* image which was inactive when it looked and has become the last active one, or
\* that an upload has deactivated all and did not save its own
\* (views/maps.py:197-217, dashboard/views.py:112-114).
ImageRemains == excused \/ Shown # {}

=============================================================================

----------------------------- MODULE BackOffice -----------------------------
(***************************************************************************)
(* The pages on which several people work at once: the directory of people, *)
(* the master tables, the site's map and the safety pages of one worker.     *)
(* Each keeps its own rows: a step of the system is a step of one of them.   *)
(***************************************************************************)
EXTENDS Integers, Sequences, FiniteSets

CONSTANTS
    NoRow,
    Root, Bucket, Others, Accounts, Positions, Names, MaxPeopleEdits,   \* of Directory
    Gas, Groups, Seeded, Entries, Codes, Limits, Fallback, MaxTableEdits, \* of Masters
    Fences, Kinds, Devices, Places, Images, Files, MaxMapEdits,         \* of SiteMap
    Duration, Requests, MaxDay                                          \* of Training

VARIABLES
    orgs, people, active, editing, excused, requests,
    family, groups, items, masterEdits, inUse, released, masterRequests,
    fences, devices, latest, images, mapEdits, job, settled, stale, mapExcused, mapRequests,
    today, checked, logs, asking, furthest, overlapped, page

People == INSTANCE Directory WITH
    None <- NoRow, People <- Accounts, MaxEdits <- MaxPeopleEdits

Tables == INSTANCE Masters WITH
    None <- NoRow, Items <- Entries, MaxEdits <- MaxTableEdits,
    editing <- masterEdits, requests <- masterRequests

Site == INSTANCE SiteMap WITH
    None <- NoRow, MaxEdits <- MaxMapEdits,
    editing <- mapEdits, excused <- mapExcused, requests <- mapRequests

Safety == INSTANCE Training WITH None <- NoRow

-----------------------------------------------------------------------------
(* The rows, the requests under way and what is assumed of the constants: a *)
(* missing row is none of the rows.                                         *)

OrgRow ==
    [name : Names \cup {Root, Bucket}, parent : People!Orgs \cup {NoRow},
     leader : Accounts \cup {NoRow}, bucket : BOOLEAN]

UserRow ==
    [org : People!Orgs \cup {NoRow}, position : Positions \cup {NoRow}, status : People!Statuses]

OrgEdit == [kind : {"org"}, no : Nat, id : People!Orgs, row : OrgRow]

UserEdit == [kind : {"user"}, no : Nat, id : Accounts, row : UserRow]

Deletion ==
    [kind : {"delete"}, no : Nat, id : People!Orgs, company : People!Orgs \cup {NoRow},
     moved : BOOLEAN]

ASSUME DirectoryAssumption ==
    /\ MaxPeopleEdits \in Nat
    /\ NoRow \notin OrgRow /\ NoRow \notin UserRow /\ NoRow \notin BOOLEAN
    /\ NoRow \notin People!Orgs

GroupRow == [code : Codes, active : BOOLEAN, system : BOOLEAN]

EntryRow == [group : Groups, code : Codes, active : BOOLEAN, limits : Limits \cup {NoRow}]

GroupEdit == [kind : {"group"}, no : Nat, id : Groups, row : GroupRow]

EntryEdit == [kind : {"item"}, no : Nat, id : Entries, row : EntryRow]

\* The code of a group is unique, so that at most one of the system's groups has
\* the code of the gases; what the source of the generator falls back on is in order.
ASSUME TablesAssumption ==
    /\ MaxTableEdits \in Nat
    /\ Seeded \subseteq Groups /\ \A g, h \in Seeded : g = h
    /\ Gas \in Codes
    /\ \A c \in Codes : Fallback[c] # NoRow => Tables!Ordered(Fallback[c])
    /\ NoRow \notin GroupRow \cup EntryRow

FenceRow == [kind : Kinds, active : BOOLEAN]

DeviceRow ==
    [place : Places, fence : Fences \cup {NoRow}, active : BOOLEAN, status : Site!Statuses]

DeviceEdit ==
    [kind : {"device"}, no : Nat, id : Devices, isNew : BOOLEAN, chosen : Fences \cup {NoRow},
     row : DeviceRow]

ImageEdit ==
    [kind : {"image"}, no : Nat, id : Images, to : {NoRow, TRUE, FALSE}, shown : BOOLEAN,
     others : SUBSET Images]

Upload == [kind : {"upload"}, no : Nat, id : Images]

FenceTable == [Fences -> {NoRow} \cup FenceRow]

DeviceTable == [Devices -> {NoRow} \cup DeviceRow]

Lines == [device : Devices, place : Places, valid : BOOLEAN]

MapJob == [kind : {"map"}, fences : FenceTable, rows : DeviceTable, left : SUBSET Devices]

ImportJob ==
    [kind : {"csv"}, mode : {"create", "upsert"}, fences : FenceTable, rows : DeviceTable,
     left : Seq(Lines) \ {<<>>}]

ASSUME SiteAssumption ==
    /\ MaxMapEdits \in Nat
    /\ Files \subseteq Seq(Lines) \ {<<>>}
    /\ NoRow \notin FenceRow /\ NoRow \notin DeviceRow /\ NoRow \notin BOOLEAN

Log == [position : 0 .. Duration, completed : BOOLEAN]

Asked == [kind : {"progress", "complete"}, day : Safety!Days, position : 0 .. Duration]

ASSUME TrainingAssumption ==
    /\ Duration \in Nat /\ MaxDay \in Nat
    /\ NoRow \notin Log \cup Asked

-----------------------------------------------------------------------------
peopleVars == <<orgs, people, active, editing, excused, requests>>
tableVars == <<family, groups, items, masterEdits, inUse, released, masterRequests>>
siteVars == <<fences, devices, latest, images, mapEdits, job, settled, stale, mapExcused,
              mapRequests>>
safetyVars == <<today, checked, logs, asking, furthest, overlapped, page>>
backOfficeVars == <<peopleVars, tableVars, siteVars, safetyVars>>

Init == People!Init /\ Tables!Init /\ Site!Init /\ Safety!Init

EditPeople == People!Next /\ UNCHANGED <<tableVars, siteVars, safetyVars>>

EditTables == Tables!Next /\ UNCHANGED <<peopleVars, siteVars, safetyVars>>

EditSite == Site!Next /\ UNCHANGED <<peopleVars, tableVars, safetyVars>>

Train == Safety!Next /\ UNCHANGED <<peopleVars, tableVars, siteVars>>

Next == EditPeople \/ EditTables \/ EditSite \/ Train

Spec == Init /\ [][Next]_backOfficeVars

-----------------------------------------------------------------------------
\* Directory: two forms validated side by side give no two departments one name
\* under one parent, and who belonged to a deleted department is moved, not lost
\* (backoffice/models.py:93-98, views/organizations.py:122).
DirectoryHolds == People!TypeOK /\ People!SiblingsDiffer /\ People!MembersAreMoved

\* Masters: what the system came with stays, the limits in use lie in the order of
\* their operator, and limits that were never active are not in use
\* (views/masters.py:143-155, :515-533, forms/masters.py:403-416).
TablesHold ==
    Tables!TypeOK /\ Tables!SeededStay /\ Tables!LimitsInOrder /\ Tables!DraftsStayDrafts

\* SiteMap: a mapped device has the most dangerous fence around it and the status of
\* its last reading, and an active image remains (views/devices.py:141-161,
\* views/maps.py:197-217).
SiteHolds == Site!TypeOK /\ Site!MappingAgrees /\ Site!StatusIsLatest /\ Site!ImageRemains

\* Training: a day counts as trained only if the end of the video was recorded on
\* it, and savings of the position that do not overlap never take it back
\* (vr_training/views.py:134-142, :177-210).
TrainingHolds == Safety!TypeOK /\ Safety!CompletedAtTheEnd /\ Safety!ForwardAlone

=============================================================================

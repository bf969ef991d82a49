-------------------------- MODULE BackOfficeProofs --------------------------
EXTENDS BackOffice, FiniteSetTheorems, TLAPS

TrainingTypes ==
    /\ today \in Safety!Days
    /\ checked \subseteq Safety!Days
    /\ logs \in [Safety!Days -> {NoRow} \cup Log]
    /\ asking \in [Requests -> {NoRow} \cup Asked]
    /\ furthest \in [Safety!Days -> 0 .. Duration]
    /\ overlapped \subseteq Safety!Days

\* What a request holds: a log of its day exists, and who will mark a day has seen
\* the end of it.
RequestsKnow ==
    \A r \in Requests : asking[r] # NoRow =>
        /\ logs[asking[r].day] # NoRow
        /\ asking[r].kind = "complete" => furthest[asking[r].day] = Duration

NeverBeyond ==
    \A d \in Safety!Days : IF logs[d] = NoRow THEN furthest[d] = 0
                           ELSE logs[d].position <= furthest[d]

\* On a day without overlap one request at most is about to save the position, and
\* what it saves is not behind.
OneAtATime ==
    \A d \in Safety!Days \ overlapped : \A r \in Safety!Saving(d) :
        /\ asking[r].position >= furthest[d]
        /\ \A other \in Safety!Saving(d) : other = r

TrainingInv ==
    /\ TrainingTypes /\ RequestsKnow /\ NeverBeyond /\ OneAtATime
    /\ Safety!CompletedAtTheEnd /\ Safety!ForwardAlone

LEMMA TrainingInit == Safety!Init => TrainingInv
<1> USE TrainingAssumption
<1> SUFFICES ASSUME Safety!Init PROVE TrainingInv
    OBVIOUS
<1>1. TrainingTypes
    BY DEF Safety!Init, TrainingTypes, Safety!Days
<1>2. RequestsKnow /\ NeverBeyond /\ OneAtATime
    BY DEF Safety!Init, RequestsKnow, NeverBeyond, OneAtATime, Safety!Saving
<1>3. Safety!CompletedAtTheEnd /\ Safety!ForwardAlone
    BY DEF Safety!Init, Safety!CompletedAtTheEnd, Safety!ForwardAlone
<1> QED BY <1>1, <1>2, <1>3 DEF TrainingInv

LEMMA ReadProgressKeeps ==
    ASSUME TrainingInv, NEW r \in Requests, NEW position \in 0 .. Duration,
           Safety!ReadProgress(r, position)
    PROVE  TrainingInv'
<1> USE TrainingAssumption
<1> DEFINE log == IF logs[today] = NoRow THEN [position |-> 0, completed |-> FALSE]
                  ELSE logs[today]
           at == Safety!Later(position, log.position)
           new == [kind |-> "progress", day |-> today, position |-> at]
<1>1. /\ log \in Log /\ log # NoRow
      /\ log.position <= furthest[today]
      /\ logs[today] # NoRow => log = logs[today]
      /\ logs[today] = NoRow => ~log.completed /\ furthest[today] = 0
  <2>1. CASE logs[today] = NoRow
    <3>1. log = [position |-> 0, completed |-> FALSE]
        BY <2>1
    <3>2. log \in Log
        BY <2>1 DEF Log
    <3>3. log \in Log /\ log # NoRow
        BY <3>2
    <3>4. log.position = 0 /\ log.completed = FALSE
        BY <2>1
    <3>5. furthest[today] = 0
        BY <2>1 DEF TrainingInv, TrainingTypes, NeverBeyond
    <3> QED BY <2>1, <3>3, <3>4, <3>5
  <2>2. CASE logs[today] # NoRow
    BY <2>2 DEF TrainingInv, TrainingTypes, NeverBeyond
  <2> QED BY <2>1, <2>2
<1>2. at \in 0 .. Duration /\ at >= log.position
    BY <1>1 DEF Safety!Later, Log
<1>3. new \in Asked /\ new # NoRow /\ new.kind = "progress" /\ new.day = today
      /\ new.position = at
    BY <1>2 DEF Asked, TrainingInv, TrainingTypes
<1>4. /\ asking[r] = NoRow
      /\ logs' = [logs EXCEPT ![today] = log]
      /\ asking' = [asking EXCEPT ![r] = new]
      /\ overlapped' = IF Safety!Saving(today) = {} THEN overlapped
                       ELSE overlapped \cup {today}
      /\ today' = today /\ checked' = checked /\ furthest' = furthest
    BY DEF Safety!ReadProgress
<1> HIDE DEF log, at, new
<1>5. TrainingTypes'
    BY <1>1, <1>3, <1>4 DEF TrainingInv, TrainingTypes
<1>6. RequestsKnow'
    BY <1>1, <1>3, <1>4 DEF TrainingInv, TrainingTypes, RequestsKnow, Asked
<1>7. NeverBeyond'
    BY <1>1, <1>4 DEF TrainingInv, TrainingTypes, NeverBeyond
<1>8. OneAtATime'
    BY <1>1, <1>2, <1>3, <1>4
    DEF TrainingInv, TrainingTypes, OneAtATime, Safety!Saving, Safety!ForwardAlone
<1>9. Safety!CompletedAtTheEnd' /\ Safety!ForwardAlone'
    BY <1>1, <1>4
    DEF TrainingInv, TrainingTypes, NeverBeyond, Log, Safety!CompletedAtTheEnd, Safety!ForwardAlone
<1> QED BY <1>5, <1>6, <1>7, <1>8, <1>9 DEF TrainingInv

LEMMA SaveProgressKeeps ==
    ASSUME TrainingInv, NEW r \in Requests, Safety!SaveProgress(r)
    PROVE  TrainingInv'
<1> USE TrainingAssumption
<1> DEFINE d == asking[r].day
           at == asking[r].position
           log == [logs[d] EXCEPT !.position = at]
<1>1. /\ asking[r] # NoRow /\ d \in Safety!Days /\ at \in 0 .. Duration
      /\ logs[d] # NoRow /\ logs[d] \in Log
    BY DEF Safety!SaveProgress, TrainingInv, TrainingTypes, RequestsKnow, Asked
<1>2. log \in Log /\ log # NoRow /\ log.position = at /\ log.completed = logs[d].completed
    BY <1>1 DEF Log
<1>3. /\ furthest[d] \in 0 .. Duration
      /\ Safety!Later(at, furthest[d]) \in 0 .. Duration
      /\ Safety!Later(at, furthest[d]) >= at
      /\ Safety!Later(at, furthest[d]) >= furthest[d]
      /\ at >= furthest[d] => Safety!Later(at, furthest[d]) = at
    BY <1>1 DEF Safety!Later, TrainingInv, TrainingTypes
<1>4. /\ logs' = [logs EXCEPT ![d] = log]
      /\ furthest' = [furthest EXCEPT ![d] = Safety!Later(at, @)]
      /\ asking' = [asking EXCEPT ![r] = NoRow]
      /\ asking[r].kind = "progress"
      /\ UNCHANGED <<today, checked, overlapped>>
    BY DEF Safety!SaveProgress
<1>5. d \notin overlapped => at >= furthest[d]
    BY <1>1, <1>4 DEF TrainingInv, OneAtATime, Safety!Saving
<1> HIDE DEF log, at
<1>6. TrainingTypes'
    BY <1>1, <1>2, <1>3, <1>4 DEF TrainingInv, TrainingTypes
<1>7. RequestsKnow'
    BY <1>1, <1>2, <1>3, <1>4 DEF TrainingInv, TrainingTypes, RequestsKnow, Asked
<1>8. NeverBeyond'
    BY <1>1, <1>2, <1>3, <1>4 DEF TrainingInv, TrainingTypes, NeverBeyond
<1>9. OneAtATime'
  <2> SUFFICES ASSUME NEW e \in Safety!Days \ overlapped, NEW q \in Safety!Saving(e)'
               PROVE  /\ asking'[q].position >= furthest'[e]
                      /\ \A other \in Safety!Saving(e)' : other = q
    BY <1>4 DEF OneAtATime
  <2>1. q # r /\ q \in Safety!Saving(e) /\ asking'[q] = asking[q]
        /\ \A other \in Safety!Saving(e)' : other \in Safety!Saving(e)
    BY <1>4 DEF Safety!Saving, TrainingInv, TrainingTypes
  <2>2. e # d
    BY <1>1, <1>4, <2>1 DEF Safety!Saving, TrainingInv, OneAtATime
  <2> QED BY <1>4, <2>1, <2>2 DEF TrainingInv, OneAtATime, TrainingTypes
<1>10. Safety!CompletedAtTheEnd' /\ Safety!ForwardAlone'
  <2>1. Safety!CompletedAtTheEnd'
    BY <1>1, <1>2, <1>3, <1>4 DEF TrainingInv, TrainingTypes, Safety!CompletedAtTheEnd
  <2>2. Safety!ForwardAlone'
    BY <1>1, <1>2, <1>3, <1>4, <1>5 DEF TrainingInv, TrainingTypes, Safety!ForwardAlone
  <2> QED BY <2>1, <2>2
<1> QED BY <1>6, <1>7, <1>8, <1>9, <1>10 DEF TrainingInv

LEMMA ReadCompleteKeeps ==
    ASSUME TrainingInv, NEW r \in Requests, Safety!ReadComplete(r)
    PROVE  TrainingInv'
<1> USE TrainingAssumption
<1> DEFINE new == [kind |-> "complete", day |-> today, position |-> Duration]
<1>1. new \in Asked /\ new # NoRow /\ new.kind = "complete" /\ new.day = today
    BY DEF Asked, TrainingInv, TrainingTypes
<1>2. /\ asking[r] = NoRow /\ logs[today] # NoRow /\ logs[today].position >= Duration
      /\ asking' = [asking EXCEPT ![r] = new]
      /\ UNCHANGED <<today, checked, logs, furthest, overlapped>>
    BY DEF Safety!ReadComplete
<1>3. furthest[today] = Duration
    BY <1>2 DEF TrainingInv, TrainingTypes, NeverBeyond, Log
<1> HIDE DEF new
<1>4. TrainingTypes' /\ RequestsKnow'
    BY <1>1, <1>2, <1>3 DEF TrainingInv, TrainingTypes, RequestsKnow
<1>5. NeverBeyond' /\ Safety!CompletedAtTheEnd' /\ Safety!ForwardAlone'
    BY <1>2 DEF TrainingInv, NeverBeyond, Safety!CompletedAtTheEnd, Safety!ForwardAlone
<1>6. OneAtATime'
    BY <1>1, <1>2 DEF TrainingInv, TrainingTypes, OneAtATime, Safety!Saving
<1> QED BY <1>4, <1>5, <1>6 DEF TrainingInv

LEMMA SaveCompleteKeeps ==
    ASSUME TrainingInv, NEW r \in Requests, Safety!SaveComplete(r)
    PROVE  TrainingInv'
<1> USE TrainingAssumption
<1> DEFINE d == asking[r].day
           log == [logs[d] EXCEPT !.completed = TRUE]
<1>1. /\ asking[r] # NoRow /\ d \in Safety!Days /\ furthest[d] = Duration
      /\ logs[d] # NoRow /\ logs[d] \in Log
    BY DEF Safety!SaveComplete, TrainingInv, TrainingTypes, RequestsKnow, Asked
<1>2. log \in Log /\ log # NoRow /\ log.position = logs[d].position
    BY <1>1 DEF Log
<1>3. /\ logs' = [logs EXCEPT ![d] = log]
      /\ asking' = [asking EXCEPT ![r] = NoRow]
      /\ UNCHANGED <<today, checked, furthest, overlapped>>
    BY DEF Safety!SaveComplete
<1> HIDE DEF log
<1>4. TrainingTypes' /\ RequestsKnow'
    BY <1>1, <1>2, <1>3 DEF TrainingInv, TrainingTypes, RequestsKnow, Asked
<1>5. NeverBeyond' /\ Safety!CompletedAtTheEnd' /\ Safety!ForwardAlone'
    BY <1>1, <1>2, <1>3
    DEF TrainingInv, TrainingTypes, NeverBeyond, Safety!CompletedAtTheEnd, Safety!ForwardAlone
<1>6. OneAtATime'
    BY <1>1, <1>3 DEF TrainingInv, TrainingTypes, OneAtATime, Safety!Saving
<1> QED BY <1>4, <1>5, <1>6 DEF TrainingInv

LEMMA TrainingStep == TrainingInv /\ [Safety!Next]_safetyVars => TrainingInv'
<1> SUFFICES ASSUME TrainingInv, [Safety!Next]_safetyVars PROVE TrainingInv'
    OBVIOUS
<1> USE TrainingAssumption
<1>1. CASE Safety!Submit \/ Safety!Visit \/ UNCHANGED safetyVars
    BY <1>1
    DEF Safety!Submit, Safety!Visit, safetyVars, TrainingInv, TrainingTypes, RequestsKnow,
        NeverBeyond, OneAtATime, Safety!Saving, Safety!CompletedAtTheEnd, Safety!ForwardAlone
<1>2. CASE Safety!Midnight
    BY <1>2
    DEF Safety!Midnight, Safety!Days, TrainingInv, TrainingTypes, RequestsKnow, NeverBeyond,
        OneAtATime, Safety!Saving, Safety!CompletedAtTheEnd, Safety!ForwardAlone
<1>3. ASSUME NEW r \in Requests,
             \/ \E position \in 0 .. Duration : Safety!ReadProgress(r, position)
             \/ Safety!SaveProgress(r) \/ Safety!ReadComplete(r) \/ Safety!SaveComplete(r)
      PROVE  TrainingInv'
    BY <1>3, ReadProgressKeeps, SaveProgressKeeps, ReadCompleteKeeps, SaveCompleteKeeps
<1> QED BY <1>1, <1>2, <1>3 DEF Safety!Next

\* A day counts as trained only if the end of the video was recorded on that day,
\* also across midnight, and savings of the position that do not overlap never take
\* it back, for every length of the video and any number of windows
\* (vr_training/views.py:134-142, :177-210).
THEOREM TrainingIsEarned == Spec => []TrainingHolds
<1>1. Init => TrainingInv
    BY TrainingInit DEF Init
<1>2. TrainingInv /\ [Next]_backOfficeVars => TrainingInv'
    BY TrainingStep
    DEF Next, EditPeople, EditTables, EditSite, Train, backOfficeVars, safetyVars
<1>3. TrainingInv => TrainingHolds
    BY TrainingAssumption
    DEF TrainingInv, TrainingTypes, TrainingHolds, Safety!TypeOK, Log
<1> QED BY <1>1, <1>2, <1>3, PTL DEF Spec

-----------------------------------------------------------------------------
(* Masters.                                                                 *)

TableTypes ==
    /\ groups \in [Groups -> {NoRow} \cup GroupRow]
    /\ items \in [Entries -> {NoRow} \cup EntryRow]
    /\ masterEdits \subseteq GroupEdit \cup EntryEdit
    /\ masterRequests \in 0 .. MaxTableEdits

KeysHold ==
    /\ Tables!UniqueGroups(groups) /\ Tables!UniqueItems(items)
    /\ \A i \in Tables!Row(items) : groups[items[i].group] # NoRow

\* The system's groups exist, and no edit under way would make one of them
\* an ordinary group.
SystemKept ==
    /\ Tables!SeededStay
    /\ \A q \in masterEdits : q.kind = "group" /\ q.id \in Seeded => q.row.system

\* On the page of the thresholds every limit, saved or about to be, is in order.
LimitsChecked ==
    family = "thresholds" =>
        /\ \A i \in Tables!Row(items) : Tables!Ordered(items[i].limits)
        /\ \A q \in masterEdits : q.kind = "item" => Tables!Ordered(q.row.limits)

ReleasedKnown == Tables!Released(groups, items) \subseteq released

TableInv ==
    /\ TableTypes /\ KeysHold /\ SystemKept /\ LimitsChecked /\ ReleasedKnown
    /\ Tables!LimitsInOrder /\ Tables!DraftsStayDrafts

LEMMA TableInit == Tables!Init => TableInv
<1> USE TablesAssumption
<1> SUFFICES ASSUME Tables!Init PROVE TableInv
    OBVIOUS
<1> DEFINE seed == [code |-> Gas, active |-> TRUE, system |-> TRUE]
<1>1. seed \in GroupRow /\ seed # NoRow /\ seed.system
  <2>1. seed \in GroupRow
    BY DEF GroupRow
  <2>2. seed.system
    OBVIOUS
  <2> HIDE DEF seed
  <2> QED BY <2>1, <2>2
<1>2. /\ groups = [g \in Groups |-> IF g \in Seeded THEN seed ELSE NoRow]
      /\ items = [i \in Entries |-> NoRow] /\ masterEdits = {} /\ masterRequests = 0
      /\ inUse = Fallback
    BY DEF Tables!Init
<1> HIDE DEF seed
<1>3. TableTypes /\ SystemKept
    BY <1>1, <1>2 DEF TableTypes, SystemKept, Tables!SeededStay
<1>4. KeysHold
    BY <1>1, <1>2 DEF KeysHold, Tables!UniqueGroups, Tables!UniqueItems, Tables!Row
<1>5. LimitsChecked /\ ReleasedKnown
    BY <1>2 DEF LimitsChecked, ReleasedKnown, Tables!Released, Tables!Row
<1>6. Tables!LimitsInOrder /\ Tables!DraftsStayDrafts
    BY <1>2 DEF Tables!LimitsInOrder, Tables!DraftsStayDrafts
<1> QED BY <1>3, <1>4, <1>5, <1>6 DEF TableInv

\* Opening a form changes nothing but the requests under way.
LEMMA OpenKeeps ==
    ASSUME TableInv, NEW edit \in GroupEdit \cup EntryEdit,
           masterEdits' = masterEdits \cup {edit},
           masterRequests' \in 0 .. MaxTableEdits,
           edit.kind = "group" /\ edit.id \in Seeded => edit.row.system,
           family = "thresholds" /\ edit.kind = "item" => Tables!Ordered(edit.row.limits),
           UNCHANGED <<family, groups, items, inUse, released>>
    PROVE  TableInv'
<1>1. TableTypes'
    BY DEF TableInv, TableTypes
<1>2. SystemKept'
    BY DEF TableInv, SystemKept, Tables!SeededStay
<1>3. LimitsChecked'
    BY DEF TableInv, LimitsChecked, Tables!Row
<1>4. /\ KeysHold' /\ ReleasedKnown' /\ Tables!LimitsInOrder' /\ Tables!DraftsStayDrafts'
    BY DEF TableInv, KeysHold, ReleasedKnown, Tables!LimitsInOrder, Tables!DraftsStayDrafts,
           Tables!Row, Tables!UniqueGroups, Tables!UniqueItems, Tables!Released
<1> QED BY <1>1, <1>2, <1>3, <1>4 DEF TableInv

LEMMA RequestCounts ==
    ASSUME TableInv, Tables!Request
    PROVE  masterRequests \in Nat /\ masterRequests' \in 0 .. MaxTableEdits
BY TablesAssumption DEF TableInv, TableTypes, Tables!Request

LEMMA OpenGroupKeeps ==
    ASSUME TableInv, NEW g \in Groups, NEW row \in Tables!GroupForms, Tables!OpenGroup(g, row)
    PROVE  TableInv'
<1> USE TablesAssumption
<1> DEFINE system == IF groups[g] = NoRow THEN FALSE ELSE groups[g].system
           saved == [code |-> row.code, active |-> row.active, system |-> system]
           edit == [kind |-> "group", no |-> masterRequests, id |-> g, row |-> saved]
<1>1. masterRequests \in Nat /\ masterRequests' \in 0 .. MaxTableEdits
    BY RequestCounts DEF Tables!OpenGroup
<1>2. system \in BOOLEAN /\ (g \in Seeded => system)
    BY DEF TableInv, TableTypes, GroupRow, SystemKept, Tables!SeededStay
<1>3. masterEdits' = masterEdits \cup {edit}
      /\ UNCHANGED <<family, groups, items, inUse, released>>
    BY DEF Tables!OpenGroup
<1> HIDE DEF system
<1>4. saved \in GroupRow /\ saved.system = system
    BY <1>2 DEF GroupRow, Tables!GroupForms
<1> HIDE DEF saved
<1>5. edit \in GroupEdit /\ edit.kind = "group" /\ edit.id = g /\ edit.row = saved
    BY <1>1, <1>4 DEF GroupEdit
<1> HIDE DEF edit
<1> QED BY <1>1, <1>2, <1>3, <1>4, <1>5, OpenKeeps

LEMMA OpenItemKeeps ==
    ASSUME TableInv, NEW i \in Entries, NEW row \in EntryRow, Tables!OpenItem(i, row),
           family = "thresholds" => Tables!Ordered(row.limits)
    PROVE  TableInv'
<1> DEFINE edit == [kind |-> "item", no |-> masterRequests, id |-> i, row |-> row]
<1>1. masterRequests \in Nat /\ masterRequests' \in 0 .. MaxTableEdits
    BY RequestCounts DEF Tables!OpenItem
<1>2. masterEdits' = masterEdits \cup {edit}
      /\ UNCHANGED <<family, groups, items, inUse, released>>
    BY DEF Tables!OpenItem
<1>3. edit \in EntryEdit /\ edit.kind = "item" /\ edit.row = row
    BY <1>1 DEF EntryEdit
<1> HIDE DEF edit
<1> QED BY <1>1, <1>2, <1>3, OpenKeeps

LEMMA SaveRowKeeps ==
    ASSUME TableInv, NEW q \in masterEdits, Tables!SaveRow(q)
    PROVE  TableInv'
<1> USE TablesAssumption
<1> DEFINE gs == IF q.kind = "group" THEN [groups EXCEPT ![q.id] = q.row] ELSE groups
           is == IF q.kind = "item" THEN [items EXCEPT ![q.id] = q.row] ELSE items
<1>1. CASE UNCHANGED <<groups, items, released>>
  <2>1. masterEdits' \subseteq masterEdits /\ UNCHANGED <<family, inUse, masterRequests>>
    BY DEF Tables!SaveRow
  <2> QED
    BY <1>1, <2>1
    DEF TableInv, TableTypes, SystemKept, LimitsChecked, KeysHold, ReleasedKnown,
        Tables!LimitsInOrder, Tables!DraftsStayDrafts, Tables!SeededStay, Tables!Row,
        Tables!UniqueGroups, Tables!UniqueItems, Tables!Released
<1>2. CASE /\ q.kind = "item" => groups[q.row.group] # NoRow
           /\ Tables!UniqueGroups(gs) /\ Tables!UniqueItems(is)
           /\ groups' = gs /\ items' = is
           /\ released' = released \cup Tables!Released(gs, is)
  <2>1. masterEdits' \subseteq masterEdits /\ UNCHANGED <<family, inUse, masterRequests>>
    BY DEF Tables!SaveRow
  <2>2. \/ q.kind = "group" /\ q.id \in Groups /\ q.row \in GroupRow
        \/ q.kind = "item" /\ q.id \in Entries /\ q.row \in EntryRow
    BY DEF TableInv, TableTypes, GroupEdit, EntryEdit
  <2>3. TableTypes'
    BY <1>2, <2>1, <2>2 DEF TableInv, TableTypes
  <2>4. KeysHold'
    <3>1. \A i \in Tables!Row(is) : gs[is[i].group] # NoRow
      BY <1>2, <2>2 DEF TableInv, TableTypes, KeysHold, Tables!Row, EntryRow
    <3> QED BY <1>2, <3>1 DEF KeysHold
  <2>5. SystemKept'
    BY <1>2, <2>1, <2>2 DEF TableInv, TableTypes, SystemKept, Tables!SeededStay
  <2>6. LimitsChecked'
    BY <1>2, <2>1, <2>2 DEF TableInv, TableTypes, LimitsChecked, Tables!Row
  <2>7. ReleasedKnown'
    BY <1>2 DEF ReleasedKnown
  <2>8. Tables!LimitsInOrder' /\ Tables!DraftsStayDrafts'
    BY <1>2, <2>1 DEF TableInv, Tables!LimitsInOrder, Tables!DraftsStayDrafts
  <2> QED BY <2>3, <2>4, <2>5, <2>6, <2>7, <2>8 DEF TableInv
<1> QED BY <1>1, <1>2 DEF Tables!SaveRow

\* Rows that go take nothing with them that another one needs.
LEMMA RemovalKeeps ==
    ASSUME TableInv, NEW gs, NEW is, gs \cap Seeded = {},
           groups' = [g \in Groups |-> IF g \in gs THEN NoRow ELSE groups[g]],
           items' = [i \in Entries |-> IF i \in is THEN NoRow ELSE items[i]],
           \A i \in Tables!Row(items) : items[i].group \in gs => i \in is,
           masterRequests' \in 0 .. MaxTableEdits,
           UNCHANGED <<family, masterEdits, inUse, released>>
    PROVE  TableInv'
<1> USE TablesAssumption
<1>1. TableTypes'
    BY DEF TableInv, TableTypes
<1>2. KeysHold'
    BY DEF TableInv, TableTypes, KeysHold, Tables!Row, EntryRow, Tables!UniqueGroups, Tables!UniqueItems
<1>3. SystemKept'
    BY DEF TableInv, TableTypes, SystemKept, Tables!SeededStay
<1>4. LimitsChecked'
    BY DEF TableInv, TableTypes, LimitsChecked, Tables!Row
<1>5. ReleasedKnown'
  <2>1. \A i \in Tables!Row(items)' : /\ i \in Tables!Row(items) /\ items'[i] = items[i]
                                      /\ groups'[items[i].group] = groups[items[i].group]
    BY DEF TableInv, TableTypes, Tables!Row, EntryRow
  <2> QED BY <2>1 DEF TableInv, ReleasedKnown, Tables!Released
<1>6. Tables!LimitsInOrder' /\ Tables!DraftsStayDrafts'
    BY DEF TableInv, Tables!LimitsInOrder, Tables!DraftsStayDrafts
<1> QED BY <1>1, <1>2, <1>3, <1>4, <1>5, <1>6 DEF TableInv

LEMMA DeleteGroupsKeeps ==
    ASSUME TableInv, NEW gs \in SUBSET Groups, Tables!DeleteGroups(gs)
    PROVE  TableInv'
<1> DEFINE is == {i \in Entries : items[i] # NoRow /\ items[i].group \in gs}
<1>1. gs \cap Seeded = {}
    BY DEF Tables!DeleteGroups, TableInv, SystemKept, Tables!SeededStay
<1>2. masterRequests' \in 0 .. MaxTableEdits
    BY RequestCounts DEF Tables!DeleteGroups
<1>3. /\ groups' = [g \in Groups |-> IF g \in gs THEN NoRow ELSE groups[g]]
      /\ items' = [i \in Entries |-> IF i \in is THEN NoRow ELSE items[i]]
      /\ UNCHANGED <<family, masterEdits, inUse, released>>
    BY DEF Tables!DeleteGroups
<1>4. \A i \in Tables!Row(items) : items[i].group \in gs => i \in is
    BY DEF Tables!Row, TableInv, TableTypes
<1> HIDE DEF is
<1> QED BY <1>1, <1>2, <1>3, <1>4, RemovalKeeps

LEMMA DeleteItemsKeeps ==
    ASSUME TableInv, NEW is \in SUBSET Entries, Tables!DeleteItems(is)
    PROVE  TableInv'
<1>1. masterRequests' \in 0 .. MaxTableEdits
    BY RequestCounts DEF Tables!DeleteItems
<1>2. groups' = [g \in Groups |-> IF g \in {} THEN NoRow ELSE groups[g]]
    BY DEF Tables!DeleteItems, TableInv, TableTypes
<1>3. items' = [i \in Entries |-> IF i \in is THEN NoRow ELSE items[i]]
      /\ UNCHANGED <<family, masterEdits, inUse, released>>
    BY DEF Tables!DeleteItems
<1> DEFINE gs == {}
<1>4. /\ gs \cap Seeded = {} /\ groups' = [g \in Groups |-> IF g \in gs THEN NoRow ELSE groups[g]]
      /\ \A i \in Tables!Row(items) : items[i].group \in gs => i \in is
    BY <1>2
<1> HIDE DEF gs
<1> QED BY <1>1, <1>3, <1>4, RemovalKeeps

LEMMA ToggleItemsKeeps ==
    ASSUME TableInv, NEW is \in SUBSET Entries, NEW isActive \in BOOLEAN,
           Tables!ToggleItems(is, isActive)
    PROVE  TableInv'
<1> USE TablesAssumption
<1>1. masterRequests' \in 0 .. MaxTableEdits
    BY RequestCounts DEF Tables!ToggleItems
<1>2. /\ items' = [i \in Entries |-> IF i \in is \cap Tables!Row(items)
                                     THEN [items[i] EXCEPT !.active = isActive] ELSE items[i]]
      /\ released' = released \cup Tables!Released(groups, items')
      /\ UNCHANGED <<family, groups, masterEdits, inUse>>
    BY DEF Tables!ToggleItems
<1>3. items' \in [Entries -> {NoRow} \cup EntryRow]
    BY <1>2 DEF TableInv, TableTypes, EntryRow, Tables!Row
<1>4. \A i \in Tables!Row(items)' :
          /\ i \in Tables!Row(items) /\ items'[i].group = items[i].group
          /\ items'[i].code = items[i].code /\ items'[i].limits = items[i].limits
    BY <1>2 DEF TableInv, TableTypes, EntryRow, Tables!Row
<1>5. TableTypes' /\ SystemKept'
    BY <1>1, <1>2, <1>3 DEF TableInv, TableTypes, SystemKept, Tables!SeededStay
<1>6. KeysHold' /\ LimitsChecked'
    BY <1>2, <1>4
    DEF TableInv, KeysHold, LimitsChecked, Tables!UniqueGroups, Tables!UniqueItems, Tables!Row
<1>7. ReleasedKnown' /\ Tables!LimitsInOrder' /\ Tables!DraftsStayDrafts'
    BY <1>2 DEF TableInv, ReleasedKnown, Tables!LimitsInOrder, Tables!DraftsStayDrafts
<1> QED BY <1>5, <1>6, <1>7 DEF TableInv

LEMMA ReloadKeeps ==
    ASSUME TableInv, Tables!Reload
    PROVE  TableInv'
<1> USE TablesAssumption
<1>1. /\ family = "thresholds" /\ inUse' = Tables!Apply(Tables!Published)
      /\ UNCHANGED <<family, groups, items, masterEdits, released, masterRequests>>
    BY DEF Tables!Reload
<1>2. ASSUME NEW e \in Tables!Published, e.category = Gas
      PROVE  Tables!Ordered(e.limits) /\ [code |-> e.code, limits |-> e.limits] \in released
    BY <1>1, <1>2
    DEF Tables!Published, TableInv, LimitsChecked, ReleasedKnown, Tables!Released, Tables!Row
<1>3. ASSUME NEW c \in Codes
      PROVE  \/ inUse'[c] = inUse[c]
             \/ /\ Tables!Ordered(inUse'[c])
                /\ [code |-> c, limits |-> inUse'[c]] \in released
    BY <1>1, <1>2 DEF Tables!Apply
<1>4. Tables!LimitsInOrder' /\ Tables!DraftsStayDrafts'
    BY <1>1, <1>3 DEF TableInv, Tables!LimitsInOrder, Tables!DraftsStayDrafts
<1>5. TableTypes' /\ KeysHold' /\ SystemKept' /\ LimitsChecked' /\ ReleasedKnown'
    BY <1>1
    DEF TableInv, TableTypes, KeysHold, SystemKept, LimitsChecked, ReleasedKnown,
        Tables!SeededStay, Tables!Row, Tables!UniqueGroups, Tables!UniqueItems, Tables!Released
<1> QED BY <1>4, <1>5 DEF TableInv

LEMMA TableStep == TableInv /\ [Tables!Next]_tableVars => TableInv'
<1> SUFFICES ASSUME TableInv, [Tables!Next]_tableVars PROVE TableInv'
    OBVIOUS
<1>1. CASE UNCHANGED tableVars
    BY <1>1
    DEF tableVars, TableInv, TableTypes, KeysHold, SystemKept, LimitsChecked, ReleasedKnown,
        Tables!LimitsInOrder, Tables!DraftsStayDrafts,
        Tables!SeededStay, Tables!Row, Tables!UniqueGroups, Tables!UniqueItems, Tables!Released
<1>2. ASSUME NEW i \in Entries, NEW row \in Tables!ItemForms({NoRow}),
             family # "thresholds", Tables!OpenItem(i, row)
      PROVE  TableInv'
  <2>1. row \in EntryRow
    BY DEF Tables!ItemForms, EntryRow
  <2> QED BY <1>2, <2>1, OpenItemKeeps
<1>3. ASSUME NEW i \in Entries, NEW row \in Tables!ItemForms(Limits),
             Tables!ValidThreshold(i, row), Tables!OpenItem(i, row)
      PROVE  TableInv'
  <2>1. row \in EntryRow /\ Tables!Ordered(row.limits)
    BY <1>3 DEF Tables!ItemForms, EntryRow, Tables!ValidThreshold
  <2> QED BY <1>3, <2>1, OpenItemKeeps
<1>4. CASE Tables!EditCodes
    BY <1>2, <1>4, OpenGroupKeeps, DeleteGroupsKeeps, DeleteItemsKeeps, ToggleItemsKeeps
    DEF Tables!EditCodes
<1>5. CASE Tables!EditRisks
    BY <1>2, <1>5, OpenGroupKeeps, DeleteGroupsKeeps, DeleteItemsKeeps DEF Tables!EditRisks
<1>6. CASE Tables!EditLevels
    BY <1>6, OpenGroupKeeps, DeleteGroupsKeeps DEF Tables!EditLevels
<1>7. CASE Tables!EditThresholds
    BY <1>3, <1>7, OpenGroupKeeps, DeleteGroupsKeeps, DeleteItemsKeeps, ToggleItemsKeeps
    DEF Tables!EditThresholds
<1>8. CASE (\E q \in masterEdits : Tables!SaveRow(q)) \/ Tables!Reload
    BY <1>8, SaveRowKeeps, ReloadKeeps
<1> QED BY <1>1, <1>4, <1>5, <1>6, <1>7, <1>8 DEF Tables!Next

\* What the system came with stays, and the generator compares with limits in the
\* order of their operator that were active at some time, however the edits of any
\* number of administrators overlap (views/masters.py:143-155, :515-533,
\* forms/masters.py:403-416).
THEOREM TablesAreSound == Spec => []TablesHold
<1>1. Init => TableInv
    BY TableInit DEF Init
<1>2. TableInv /\ [Next]_backOfficeVars => TableInv'
    BY TableStep DEF Next, EditPeople, EditTables, EditSite, Train, backOfficeVars, tableVars
<1>3. TableInv => TablesHold
    BY TablesAssumption
    DEF TableInv, TableTypes, KeysHold, SystemKept, TablesHold, Tables!TypeOK, Tables!Row,
        GroupRow, EntryRow, GroupEdit, EntryEdit
<1> QED BY <1>1, <1>2, <1>3, PTL DEF Spec

-----------------------------------------------------------------------------
(* SiteMap.                                                                 *)

SiteTypes ==
    /\ fences \in FenceTable
    /\ devices \in DeviceTable
    /\ latest \in [Devices -> Site!Statuses]
    /\ images \in [Images -> {NoRow} \cup BOOLEAN]
    /\ mapEdits \subseteq DeviceEdit \cup ImageEdit \cup Upload
    /\ job \in {NoRow} \cup MapJob \cup ImportJob
    /\ mapExcused \in BOOLEAN
    /\ mapRequests \in 0 .. MaxMapEdits

FencesExist == \A d \in Site!Row(devices) : devices[d].fence \in Site!Row(fences) \cup {NoRow}

\* What is settled exists and agrees; a mapping settles each device once.
MappingSound ==
    /\ settled \subseteq Site!Row(devices)
    /\ Site!MappingAgrees
    /\ job # NoRow /\ job.kind = "map" =>
         job.left \cap settled = {} /\ \A d \in job.left : job.rows[d] # NoRow

\* Whoever may take an active image away has seen another one, or one that was not
\* active.
ImagesKept ==
    /\ Site!ImageRemains
    /\ \A q \in mapEdits : q.kind = "image" => q.others # {} \/ ~q.shown

DevicesKept == FencesExist /\ MappingSound /\ Site!StatusIsLatest

SiteInv == SiteTypes /\ DevicesKept /\ ImagesKept

LEMMA SiteInit == Site!Init => SiteInv
<1> USE SiteAssumption
<1> SUFFICES ASSUME Site!Init PROVE SiteInv
    OBVIOUS
<1>1. fences \in FenceTable
    BY DEF Site!Init, FenceTable, FenceRow
<1>2. devices \in DeviceTable
    BY DEF Site!Init, DeviceTable, DeviceRow, Site!Row, Site!Statuses
<1>3. SiteTypes
  <2>1. images \in [Images -> {NoRow} \cup BOOLEAN] /\ mapExcused \in BOOLEAN
    BY DEF Site!Init
  <2>2. latest \in [Devices -> Site!Statuses] /\ mapEdits = {} /\ job = NoRow /\ mapRequests = 0
    BY DEF Site!Init, Site!Statuses
  <2> QED BY <1>1, <1>2, <2>1, <2>2 DEF SiteTypes
<1>4. ASSUME NEW d \in Site!Row(devices)
      PROVE  devices[d].fence \in Site!Row(fences) \cup {NoRow} /\ devices[d].status = "normal"
    BY <1>4 DEF Site!Init, Site!Row
<1>5. FencesExist /\ MappingSound /\ Site!StatusIsLatest
    BY <1>4
    DEF Site!Init, FencesExist, MappingSound, Site!MappingAgrees, Site!StatusIsLatest, Site!Row
<1>6. ImagesKept
    BY DEF Site!Init, ImagesKept, Site!ImageRemains, Site!Shown
<1> QED BY <1>3, <1>5, <1>6 DEF SiteInv, DevicesKept

LEMMA MatchIsFence ==
    ASSUME NEW place, NEW loaded, NEW f \in Site!Matches(place, loaded)
    PROVE  f \in Site!Row(loaded) \cup {NoRow}
BY DEF Site!Matches, Site!Active

LEMMA SiteRequest ==
    ASSUME SiteInv, Site!Request
    PROVE  mapRequests \in Nat /\ mapRequests' \in 0 .. MaxMapEdits
BY SiteAssumption DEF SiteInv, SiteTypes, Site!Request

\* The images do not hear of the devices and fences, nor these of the images.
LEMMA ImagesApart ==
    ASSUME SiteInv, UNCHANGED <<images, mapExcused>>,
           \A q \in mapEdits' \ mapEdits : q.kind = "image" => q.others # {} \/ ~q.shown
    PROVE  ImagesKept'
BY DEF SiteInv, ImagesKept, Site!ImageRemains, Site!Shown

LEMMA DevicesApart ==
    ASSUME SiteInv, UNCHANGED <<fences, devices, latest, job, settled, stale>>
    PROVE  DevicesKept'
BY DEF SiteInv, DevicesKept, FencesExist, MappingSound, Site!MappingAgrees, Site!StatusIsLatest,
       Site!Row

LEMMA OpenDeviceKeeps ==
    ASSUME SiteInv, NEW d \in Devices, NEW place \in Places, NEW f \in Fences \cup {NoRow},
           NEW isActive \in BOOLEAN, Site!OpenDevice(d, place, f, isActive)
    PROVE  SiteInv'
<1> USE SiteAssumption
<1> DEFINE row == IF devices[d] = NoRow
                  THEN [place |-> place, fence |-> NoRow, active |-> isActive, status |-> "normal"]
                  ELSE [devices[d] EXCEPT !.place = place, !.active = isActive]
           edit == [kind |-> "device", no |-> mapRequests, id |-> d, isNew |-> devices[d] = NoRow,
                    chosen |-> f, row |-> row]
<1>1. row \in DeviceRow
    BY DEF SiteInv, SiteTypes, DeviceTable, DeviceRow, Site!Statuses
<1>2. mapRequests \in Nat /\ mapRequests' \in 0 .. MaxMapEdits
    BY SiteRequest DEF Site!OpenDevice
<1>3. mapEdits' = mapEdits \cup {edit}
      /\ UNCHANGED <<fences, devices, latest, images, job, settled, stale, mapExcused>>
    BY DEF Site!OpenDevice
<1> HIDE DEF row
<1>4. edit \in DeviceEdit /\ edit.kind = "device"
    BY <1>1, <1>2 DEF DeviceEdit
<1> HIDE DEF edit
<1>5. SiteTypes'
    BY <1>2, <1>3, <1>4 DEF SiteInv, SiteTypes
<1> QED BY <1>3, <1>4, <1>5, ImagesApart, DevicesApart DEF SiteInv

\* A row may be replaced by any other with a fence that exists.
LEMMA OverwriteKeeps ==
    ASSUME SiteInv, NEW d \in Devices, NEW row \in DeviceRow, Site!Overwrite(d, row),
           row.fence \in Site!Row(fences) \cup {NoRow}, settled' = settled \ {d},
           UNCHANGED <<fences, latest>>,
           job' = job \/ ~(job' # NoRow /\ job'.kind = "map")
    PROVE  devices' \in DeviceTable /\ DevicesKept'
<1> USE SiteAssumption
<1>1. devices' = [devices EXCEPT ![d] = row]
      /\ stale' = IF row.status # latest[d] THEN stale \cup {d} ELSE stale
    BY DEF Site!Overwrite
<1>2. devices' \in DeviceTable
    BY <1>1 DEF SiteInv, SiteTypes, DeviceTable
<1>3. FencesExist' /\ Site!StatusIsLatest'
    BY <1>1
    DEF SiteInv, SiteTypes, DeviceTable, DevicesKept, FencesExist, Site!StatusIsLatest, Site!Row
<1>4. MappingSound'
    BY <1>1 DEF SiteInv, SiteTypes, DeviceTable, DevicesKept, MappingSound, Site!MappingAgrees, Site!Row
<1> QED BY <1>2, <1>3, <1>4 DEF DevicesKept

LEMMA SaveDeviceKeeps ==
    ASSUME SiteInv, NEW q \in mapEdits, q.kind = "device", Site!SaveDevice(q)
    PROVE  SiteInv'
<1> USE SiteAssumption
<1>1. q.id \in Devices /\ q.row \in DeviceRow
    BY DEF SiteInv, SiteTypes, DeviceEdit, ImageEdit, Upload
<1>2. /\ mapEdits' \subseteq mapEdits
      /\ UNCHANGED <<fences, latest, images, job, mapExcused, mapRequests>>
    BY DEF Site!SaveDevice
<1>3. CASE UNCHANGED <<devices, stale, settled>>
  <2>1. SiteTypes'
    BY <1>2, <1>3 DEF SiteInv, SiteTypes
  <2> QED BY <1>2, <1>3, <2>1, ImagesApart, DevicesApart DEF SiteInv
<1>4. ASSUME NEW f \in Site!Row(fences) \cup {NoRow},
             Site!Overwrite(q.id, [q.row EXCEPT !.fence = f]), settled' = settled \ {q.id}
      PROVE  SiteInv'
  <2> DEFINE row == [q.row EXCEPT !.fence = f]
  <2>1. row \in DeviceRow /\ row.fence = f
    BY <1>1 DEF DeviceRow, Site!Row, SiteInv, SiteTypes, FenceTable
  <2>2. Site!Overwrite(q.id, row)
    BY <1>4
  <2> HIDE DEF row
  <2>3. devices' \in DeviceTable /\ DevicesKept'
    BY <1>1, <1>2, <1>4, <2>1, <2>2, OverwriteKeeps
  <2>4. SiteTypes'
    BY <1>2, <2>3 DEF SiteInv, SiteTypes
  <2> QED BY <1>2, <2>3, <2>4, ImagesApart DEF SiteInv
<1> QED BY <1>3, <1>4 DEF Site!SaveDevice

LEMMA DeleteDevicesKeeps ==
    ASSUME SiteInv, NEW ds \in SUBSET Devices, Site!DeleteDevices(ds)
    PROVE  SiteInv'
<1> USE SiteAssumption
<1>1. mapRequests' \in 0 .. MaxMapEdits
    BY SiteRequest DEF Site!DeleteDevices
<1>2. /\ devices' = [d \in Devices |-> IF d \in ds THEN NoRow ELSE devices[d]]
      /\ settled' = settled \ ds /\ stale' = stale \ ds
      /\ latest' = [d \in Devices |-> IF d \in ds THEN "normal" ELSE latest[d]]
      /\ UNCHANGED <<fences, images, mapEdits, job, mapExcused>>
    BY DEF Site!DeleteDevices
<1>3. SiteTypes'
    BY <1>1, <1>2 DEF SiteInv, SiteTypes, DeviceTable, Site!Statuses
<1>4. DevicesKept'
    BY <1>2
    DEF SiteInv, SiteTypes, DeviceTable, DevicesKept, FencesExist, MappingSound,
        Site!MappingAgrees, Site!StatusIsLatest, Site!Row
<1> QED BY <1>2, <1>3, <1>4, ImagesApart DEF SiteInv

\* A change of columns of the rows that are there.
LEMMA ColumnsKeep ==
    ASSUME SiteInv, devices' \in DeviceTable,
           \A d \in Devices : IF devices[d] = NoRow THEN devices'[d] = NoRow
                              ELSE /\ devices'[d] # NoRow
                                   /\ devices'[d].place = devices[d].place
                                   /\ devices'[d].fence = devices[d].fence,
           UNCHANGED <<fences, settled, job>>
    PROVE  FencesExist' /\ MappingSound'
BY DEF SiteInv, SiteTypes, DeviceTable, DevicesKept, FencesExist, MappingSound,
       Site!MappingAgrees, Site!Row

LEMMA ToggleDevicesKeeps ==
    ASSUME SiteInv, NEW ds \in SUBSET Devices, NEW isActive \in BOOLEAN,
           Site!ToggleDevices(ds, isActive)
    PROVE  SiteInv'
<1> USE SiteAssumption
<1>1. mapRequests' \in 0 .. MaxMapEdits
    BY SiteRequest DEF Site!ToggleDevices
<1>2. /\ devices' = [d \in Devices |-> IF d \in ds \cap Site!Row(devices)
                                       THEN [devices[d] EXCEPT !.active = isActive] ELSE devices[d]]
      /\ UNCHANGED <<fences, latest, images, mapEdits, job, settled, stale, mapExcused>>
    BY DEF Site!ToggleDevices
<1>3. devices' \in DeviceTable
      /\ \A d \in Devices : IF devices[d] = NoRow THEN devices'[d] = NoRow
                            ELSE /\ devices'[d] # NoRow
                                 /\ devices'[d].place = devices[d].place
                                 /\ devices'[d].fence = devices[d].fence
                                 /\ devices'[d].status = devices[d].status
    BY <1>2 DEF SiteInv, SiteTypes, DeviceTable, DeviceRow, Site!Row
<1>4. SiteTypes'
    BY <1>1, <1>2, <1>3 DEF SiteInv, SiteTypes
<1>5. Site!StatusIsLatest'
    BY <1>2, <1>3 DEF SiteInv, SiteTypes, DeviceTable, DevicesKept, Site!StatusIsLatest, Site!Row
<1> QED BY <1>2, <1>3, <1>4, <1>5, ImagesApart, ColumnsKeep DEF SiteInv, DevicesKept

LEMMA ReadingKeeps ==
    ASSUME SiteInv, NEW d \in Devices, NEW status \in Site!Statuses, Site!Reading(d, status)
    PROVE  SiteInv'
<1> USE SiteAssumption
<1>1. /\ devices[d] # NoRow
      /\ latest' = [latest EXCEPT ![d] = status]
      /\ devices' = [devices EXCEPT ![d].status = status]
      /\ stale' = stale \ {d}
      /\ UNCHANGED <<fences, images, mapEdits, job, settled, mapExcused, mapRequests>>
    BY DEF Site!Reading
<1>2. devices' \in DeviceTable
      /\ \A e \in Devices : IF devices[e] = NoRow THEN devices'[e] = NoRow
                            ELSE /\ devices'[e] # NoRow
                                 /\ devices'[e].place = devices[e].place
                                 /\ devices'[e].fence = devices[e].fence
                                 /\ devices'[e].status = IF e = d THEN status ELSE devices[e].status
    BY <1>1 DEF SiteInv, SiteTypes, DeviceTable, DeviceRow
<1>3. SiteTypes'
    BY <1>1, <1>2 DEF SiteInv, SiteTypes
<1>4. Site!StatusIsLatest'
    BY <1>1, <1>2 DEF SiteInv, SiteTypes, DeviceTable, DevicesKept, Site!StatusIsLatest, Site!Row
<1> QED BY <1>1, <1>2, <1>3, <1>4, ImagesApart, ColumnsKeep DEF SiteInv, DevicesKept

LEMMA StartMappingKeeps ==
    ASSUME SiteInv, Site!StartMapping
    PROVE  SiteInv'
<1> USE SiteAssumption
<1> DEFINE new == [kind |-> "map", fences |-> fences, rows |-> devices, left |-> Site!Row(devices)]
<1>1. mapRequests' \in 0 .. MaxMapEdits
    BY SiteRequest DEF Site!StartMapping
<1>2. /\ job' = new /\ settled' = {}
      /\ UNCHANGED <<fences, devices, latest, images, mapEdits, stale, mapExcused>>
    BY DEF Site!StartMapping
<1>3. new \in MapJob /\ \A d \in new.left : new.rows[d] # NoRow
    BY DEF MapJob, SiteInv, SiteTypes, Site!Row, DeviceTable
<1> HIDE DEF new
<1>4. SiteTypes'
    BY <1>1, <1>2, <1>3 DEF SiteInv, SiteTypes
<1>5. DevicesKept'
    BY <1>2, <1>3
    DEF SiteInv, DevicesKept, FencesExist, MappingSound, Site!MappingAgrees,
        Site!StatusIsLatest, Site!Row
<1> QED BY <1>2, <1>4, <1>5, ImagesApart DEF SiteInv

LEMMA MapDeviceKeeps ==
    ASSUME SiteInv, NEW d \in Devices, Site!MapDevice(d)
    PROVE  SiteInv'
<1> USE SiteAssumption
<1>1. PICK f \in Site!Matches(job.rows[d].place, job.fences) :
        LET saves == f # job.rows[d].fence
            fails == saves /\ (devices[d] = NoRow \/ f \notin Site!Row(fences) \cup {NoRow})
        IN  /\ devices' = IF saves /\ ~fails THEN [devices EXCEPT ![d].fence = f] ELSE devices
            /\ settled' = IF fences = job.fences /\ devices[d] = job.rows[d]
                          THEN settled \cup {d} ELSE settled
            /\ job' = IF fails \/ job.left = {d} THEN NoRow ELSE [job EXCEPT !.left = @ \ {d}]
    BY DEF Site!MapDevice
<1> DEFINE saves == f # job.rows[d].fence
           fails == saves /\ (devices[d] = NoRow \/ f \notin Site!Row(fences) \cup {NoRow})
<1>2. /\ job # NoRow /\ job.kind = "map" /\ d \in job.left
      /\ UNCHANGED <<fences, latest, images, mapEdits, stale, mapExcused, mapRequests>>
    BY DEF Site!MapDevice
<1>3. job \in MapJob /\ job.rows[d] # NoRow /\ d \notin settled
    BY <1>2 DEF SiteInv, SiteTypes, DevicesKept, MappingSound, ImportJob
<1>4. f \in Site!Row(job.fences) \cup {NoRow}
    BY MatchIsFence
<1>5. f \in Fences \cup {NoRow}
    BY <1>3, <1>4 DEF MapJob, FenceTable, Site!Row
<1>6. devices' = (IF saves /\ ~fails THEN [devices EXCEPT ![d].fence = f] ELSE devices)
      /\ settled' = (IF fences = job.fences /\ devices[d] = job.rows[d]
                     THEN settled \cup {d} ELSE settled)
      /\ job' = (IF fails \/ job.left = {d} THEN NoRow ELSE [job EXCEPT !.left = @ \ {d}])
    BY <1>1
<1>7. devices' \in DeviceTable
      /\ \A e \in Devices : IF devices[e] = NoRow THEN devices'[e] = NoRow
                            ELSE /\ devices'[e] # NoRow
                                 /\ devices'[e].place = devices[e].place
                                 /\ devices'[e].status = devices[e].status
                                 /\ devices'[e].fence = IF e = d /\ saves /\ ~fails THEN f
                                                        ELSE devices[e].fence
  <2>1. CASE saves /\ ~fails
    BY <1>5, <1>6, <2>1 DEF SiteInv, SiteTypes, DeviceTable, DeviceRow
  <2>2. CASE ~(saves /\ ~fails)
    BY <1>6, <2>2 DEF SiteInv, SiteTypes, DeviceTable
  <2> QED BY <2>1, <2>2
<1>8. \/ job' = NoRow
      \/ /\ job' \in MapJob /\ job'.kind = "map" /\ job'.rows = job.rows
         /\ job'.left = job.left \ {d}
    BY <1>3, <1>6 DEF MapJob
<1>9. SiteTypes'
    BY <1>2, <1>7, <1>8 DEF SiteInv, SiteTypes
<1>10. FencesExist'
    BY <1>2, <1>7 DEF SiteInv, SiteTypes, DeviceTable, DevicesKept, FencesExist, Site!Row
<1>11. Site!StatusIsLatest'
    BY <1>2, <1>7 DEF SiteInv, SiteTypes, DeviceTable, DevicesKept, Site!StatusIsLatest, Site!Row
<1>12. ASSUME fences = job.fences, devices[d] = job.rows[d]
       PROVE  devices'[d].fence = f /\ devices'[d].place = job.rows[d].place /\ devices'[d] # NoRow
    BY <1>3, <1>4, <1>7, <1>12
<1> HIDE DEF saves, fails
<1>13. MappingSound'
  <2>1. settled' \subseteq Site!Row(devices)'
    BY <1>3, <1>6, <1>7, <1>12 DEF SiteInv, SiteTypes, DeviceTable, DevicesKept, MappingSound, Site!Row
  <2>2. ASSUME NEW e \in settled'
        PROVE  devices'[e].fence \in Site!Matches(devices'[e].place, fences)
    <3>1. CASE e = d
      BY <1>3, <1>6, <1>12, <3>1
    <3>2. CASE e # d
      <4>1. e \in settled /\ e \in Devices /\ devices[e] # NoRow
        BY <1>6, <2>2, <3>2 DEF SiteInv, SiteTypes, DeviceTable, DevicesKept, MappingSound, Site!Row
      <4>2. devices'[e].fence = devices[e].fence /\ devices'[e].place = devices[e].place
        BY <1>7, <3>2, <4>1
      <4> QED BY <4>1, <4>2 DEF SiteInv, DevicesKept, MappingSound, Site!MappingAgrees
    <3> QED BY <3>1, <3>2
  <2>3. Site!MappingAgrees'
    BY <1>2, <2>2 DEF Site!MappingAgrees, Site!Matches, Site!Active, Site!Row
  <2>4. job' # NoRow /\ job'.kind = "map" =>
            job'.left \cap settled' = {} /\ \A e \in job'.left : job'.rows[e] # NoRow
    BY <1>2, <1>6, <1>8 DEF SiteInv, DevicesKept, MappingSound
  <2> QED BY <2>1, <2>3, <2>4 DEF MappingSound
<1> QED BY <1>2, <1>9, <1>10, <1>11, <1>13, ImagesApart DEF SiteInv, DevicesKept

LEMMA StartImportKeeps ==
    ASSUME SiteInv, NEW mode \in {"create", "upsert"}, NEW file \in Files,
           Site!StartImport(mode, file)
    PROVE  SiteInv'
<1> USE SiteAssumption
<1> DEFINE new == [kind |-> "csv", mode |-> mode, fences |-> fences, rows |-> devices, left |-> file]
<1>1. mapRequests' \in 0 .. MaxMapEdits
    BY SiteRequest DEF Site!StartImport
<1>2. /\ job' = new
      /\ UNCHANGED <<fences, devices, latest, images, mapEdits, settled, stale, mapExcused>>
    BY DEF Site!StartImport
<1>3. new \in ImportJob /\ new.kind = "csv"
    BY DEF ImportJob, SiteInv, SiteTypes
<1> HIDE DEF new
<1>4. SiteTypes'
    BY <1>1, <1>2, <1>3 DEF SiteInv, SiteTypes
<1>5. DevicesKept'
    BY <1>2, <1>3
    DEF SiteInv, DevicesKept, FencesExist, MappingSound, Site!MappingAgrees,
        Site!StatusIsLatest, Site!Row
<1> QED BY <1>2, <1>4, <1>5, ImagesApart DEF SiteInv

LEMMA ImportLineKeeps ==
    ASSUME SiteInv, Site!ImportLine
    PROVE  SiteInv'
<1> USE SiteAssumption
<1> DEFINE line == Head(job.left)
           d == line.device
           known == job.rows[d]
           rest == IF Len(job.left) = 1 THEN NoRow ELSE [job EXCEPT !.left = Tail(@)]
           Row(f) == IF known = NoRow
                     THEN [place |-> line.place, fence |-> f, active |-> TRUE, status |-> "normal"]
                     ELSE [known EXCEPT !.place = line.place, !.active = TRUE,
                                        !.fence = IF f = NoRow THEN @ ELSE f]
<1>1. /\ job # NoRow /\ job.kind = "csv"
      /\ UNCHANGED <<fences, latest, images, mapEdits, mapExcused, mapRequests>>
    BY DEF Site!ImportLine
<1>2. \/ job' = rest /\ UNCHANGED <<devices, settled, stale>>
      \/ job' = NoRow /\ UNCHANGED <<devices, settled, stale>>
      \/ \E f \in Site!Matches(line.place, job.fences) :
           /\ Row(f).fence \in Site!Row(fences) \cup {NoRow}
           /\ Site!Overwrite(d, Row(f)) /\ settled' = settled \ {d}
           /\ job' = IF rest = NoRow THEN NoRow ELSE [rest EXCEPT !.rows[d] = Row(f)]
    BY DEF Site!ImportLine
<1>3. job \in ImportJob
    BY <1>1 DEF SiteInv, SiteTypes, MapJob
<1>4. /\ job.left \in Seq(Lines) /\ job.left # <<>>
      /\ job.fences \in FenceTable /\ job.rows \in DeviceTable
    BY <1>3 DEF ImportJob
<1>5. /\ line \in Lines /\ Len(job.left) \in Nat /\ Len(job.left) # 0
      /\ Len(job.left) # 1 => Tail(job.left) \in Seq(Lines) \ {<<>>}
  <2> DEFINE left == job.left
  <2>1. left \in Seq(Lines) /\ left # <<>>
    BY <1>4
  <2> HIDE DEF left
  <2>2. /\ Head(left) \in Lines /\ Len(left) \in Nat /\ Len(left) # 0
        /\ Tail(left) \in Seq(Lines) /\ Len(Tail(left)) = Len(left) - 1
    BY <2>1
  <2>3. ASSUME Tail(left) = <<>> PROVE Len(left) = 1
    <3>1. Len(<<>>) = 0
      OBVIOUS
    <3>2. Len(left) - 1 = 0 /\ Len(left) \in Nat
      BY <2>2, <2>3, <3>1
    <3> QED BY <3>2
  <2> QED BY <2>2, <2>3 DEF left
<1>6. d \in Devices /\ line.place \in Places
    BY <1>5 DEF Lines
<1>7. rest = NoRow \/ rest \in ImportJob
    BY <1>3, <1>5 DEF ImportJob
<1>8. \A j \in ImportJob : j.kind = "csv"
    BY DEF ImportJob
<1> HIDE DEF rest
<1>9. CASE job' \in {rest, NoRow} /\ UNCHANGED <<devices, settled, stale>>
  <2>1. SiteTypes'
    BY <1>1, <1>7, <1>9 DEF SiteInv, SiteTypes
  <2>2. DevicesKept'
    BY <1>1, <1>7, <1>8, <1>9
    DEF SiteInv, DevicesKept, FencesExist, MappingSound, Site!MappingAgrees,
        Site!StatusIsLatest, Site!Row
  <2> QED BY <1>1, <2>1, <2>2, ImagesApart DEF SiteInv
<1>10. ASSUME NEW f \in Site!Matches(line.place, job.fences),
              Row(f).fence \in Site!Row(fences) \cup {NoRow},
              Site!Overwrite(d, Row(f)), settled' = settled \ {d},
              job' = IF rest = NoRow THEN NoRow ELSE [rest EXCEPT !.rows[d] = Row(f)]
       PROVE  SiteInv'
  <2>1. f \in Fences \cup {NoRow}
    BY <1>4, MatchIsFence DEF FenceTable, Site!Row
  <2>2. known \in {NoRow} \cup DeviceRow
    BY <1>4, <1>6 DEF DeviceTable
  <2>3. Row(f) \in DeviceRow
    BY <1>6, <2>1, <2>2 DEF DeviceRow, Site!Statuses
  <2> DEFINE row == Row(f)
  <2>4. /\ row \in DeviceRow /\ row.fence \in Site!Row(fences) \cup {NoRow}
        /\ Site!Overwrite(d, row)
        /\ job' = IF rest = NoRow THEN NoRow ELSE [rest EXCEPT !.rows[d] = row]
    BY <1>10, <2>3
  <2> HIDE DEF row, Row, d, known, line
  <2>5. job' = NoRow \/ job' \in ImportJob
    BY <1>6, <1>7, <2>4 DEF ImportJob, DeviceTable
  <2>6. devices' \in DeviceTable /\ DevicesKept'
    BY <1>1, <1>6, <1>8, <1>10, <2>4, <2>5, OverwriteKeeps
  <2>7. SiteTypes'
    BY <1>1, <2>5, <2>6 DEF SiteInv, SiteTypes
  <2> QED BY <1>1, <2>6, <2>7, ImagesApart DEF SiteInv
<1> QED BY <1>2, <1>9, <1>10

LEMMA SaveFenceKeeps ==
    ASSUME SiteInv, NEW f \in Fences, NEW kind \in Kinds, NEW isActive \in BOOLEAN,
           Site!SaveFence(f, kind, isActive)
    PROVE  SiteInv'
<1> USE SiteAssumption
<1> DEFINE row == [kind |-> kind, active |-> isActive]
<1>1. mapRequests' \in 0 .. MaxMapEdits
    BY SiteRequest DEF Site!SaveFence
<1>2. /\ fences' = [fences EXCEPT ![f] = row] /\ settled' = {}
      /\ UNCHANGED <<devices, latest, images, mapEdits, job, stale, mapExcused>>
    BY DEF Site!SaveFence
<1>3. row \in FenceRow
    BY DEF FenceRow
<1> HIDE DEF row
<1>4. fences' \in FenceTable /\ Site!Row(fences) \subseteq Site!Row(fences)'
    BY <1>2, <1>3 DEF SiteInv, SiteTypes, FenceTable, Site!Row
<1>5. SiteTypes'
    BY <1>1, <1>2, <1>4 DEF SiteInv, SiteTypes
<1>6. DevicesKept'
    BY <1>2, <1>4
    DEF SiteInv, DevicesKept, FencesExist, MappingSound, Site!MappingAgrees,
        Site!StatusIsLatest, Site!Row
<1> QED BY <1>2, <1>5, <1>6, ImagesApart DEF SiteInv

LEMMA DeleteFenceKeeps ==
    ASSUME SiteInv, NEW f \in Fences, Site!DeleteFence(f)
    PROVE  SiteInv'
<1> USE SiteAssumption
<1>1. mapRequests' \in 0 .. MaxMapEdits
    BY SiteRequest DEF Site!DeleteFence
<1>2. /\ fences[f] # NoRow /\ fences' = [fences EXCEPT ![f] = NoRow] /\ settled' = {}
      /\ devices' = [d \in Devices |-> IF devices[d] # NoRow /\ devices[d].fence = f
                                       THEN [devices[d] EXCEPT !.fence = NoRow] ELSE devices[d]]
      /\ UNCHANGED <<latest, images, mapEdits, job, stale, mapExcused>>
    BY DEF Site!DeleteFence
<1>3. devices' \in DeviceTable
      /\ \A d \in Devices : IF devices[d] = NoRow THEN devices'[d] = NoRow
                            ELSE /\ devices'[d] # NoRow
                                 /\ devices'[d].fence = IF devices[d].fence = f THEN NoRow
                                                        ELSE devices[d].fence
                                 /\ devices'[d].status = devices[d].status
    BY <1>2 DEF SiteInv, SiteTypes, DeviceTable, DeviceRow
<1>4. fences' \in FenceTable /\ Site!Row(fences)' = Site!Row(fences) \ {f}
    BY <1>2 DEF SiteInv, SiteTypes, FenceTable, Site!Row
<1>5. SiteTypes'
    BY <1>1, <1>2, <1>3, <1>4 DEF SiteInv, SiteTypes
<1>6. FencesExist'
    BY <1>3, <1>4 DEF SiteInv, SiteTypes, DeviceTable, DevicesKept, FencesExist, Site!Row
<1>7. MappingSound' /\ Site!StatusIsLatest'
    BY <1>2, <1>3
    DEF SiteInv, SiteTypes, DeviceTable, DevicesKept, MappingSound, Site!MappingAgrees,
        Site!StatusIsLatest, Site!Row
<1> QED BY <1>2, <1>5, <1>6, <1>7, ImagesApart DEF SiteInv, DevicesKept

LEMMA SaveImageKeeps ==
    ASSUME SiteInv, NEW m \in Images, NEW isActive \in BOOLEAN, Site!SaveImage(m, isActive)
    PROVE  SiteInv'
<1> USE SiteAssumption
<1>1. mapRequests' \in 0 .. MaxMapEdits
    BY SiteRequest DEF Site!SaveImage
<1>2. /\ images' = [images EXCEPT ![m] = isActive]
      /\ mapExcused' = \/ mapExcused /\ ~isActive
                       \/ ~isActive /\ Site!Shown \subseteq {m}
      /\ UNCHANGED <<fences, devices, latest, mapEdits, job, settled, stale>>
    BY DEF Site!SaveImage
<1>3. mapExcused' \in BOOLEAN
    BY <1>2
<1>4. SiteTypes'
    BY <1>1, <1>2, <1>3 DEF SiteInv, SiteTypes
<1>5. mapExcused' \/ Site!Shown' # {}
  <2>1. CASE isActive
    BY <1>2, <2>1 DEF SiteInv, SiteTypes, Site!Shown
  <2>2. CASE ~isActive /\ ~(Site!Shown \subseteq {m})
    BY <1>2, <2>2 DEF SiteInv, SiteTypes, Site!Shown
  <2> QED BY <1>2, <2>1, <2>2
<1> QED BY <1>2, <1>4, <1>5, DevicesApart DEF SiteInv, ImagesKept, Site!ImageRemains

LEMMA StartUploadKeeps ==
    ASSUME SiteInv, NEW m \in Images, Site!StartUpload(m)
    PROVE  SiteInv'
<1> USE SiteAssumption
<1> DEFINE edit == [kind |-> "upload", no |-> mapRequests, id |-> m]
<1>1. mapRequests \in Nat /\ mapRequests' \in 0 .. MaxMapEdits
    BY SiteRequest DEF Site!StartUpload
<1>2. /\ images' = [x \in Images |-> IF images[x] = NoRow THEN NoRow ELSE FALSE]
      /\ mapExcused' = TRUE /\ mapEdits' = mapEdits \cup {edit}
      /\ UNCHANGED <<fences, devices, latest, job, settled, stale>>
    BY DEF Site!StartUpload
<1>3. edit \in Upload /\ edit.kind = "upload"
    BY <1>1 DEF Upload
<1> HIDE DEF edit
<1>4. SiteTypes'
    BY <1>1, <1>2, <1>3 DEF SiteInv, SiteTypes
<1> QED BY <1>2, <1>3, <1>4, DevicesApart DEF SiteInv, ImagesKept, Site!ImageRemains

LEMMA FinishUploadKeeps ==
    ASSUME SiteInv, NEW q \in mapEdits, q.kind = "upload", Site!FinishUpload(q)
    PROVE  SiteInv'
<1> USE SiteAssumption
<1>1. q.id \in Images
    BY DEF SiteInv, SiteTypes, DeviceEdit, ImageEdit, Upload
<1>2. /\ \/ images' = [images EXCEPT ![q.id] = TRUE] /\ mapExcused' = FALSE
         \/ UNCHANGED <<images, mapExcused>>
      /\ mapEdits' \subseteq mapEdits
      /\ UNCHANGED <<fences, devices, latest, job, settled, stale, mapRequests>>
    BY DEF Site!FinishUpload
<1>3. SiteTypes'
    BY <1>1, <1>2 DEF SiteInv, SiteTypes
<1>4. ImagesKept'
    BY <1>1, <1>2 DEF SiteInv, SiteTypes, ImagesKept, Site!ImageRemains, Site!Shown
<1> QED BY <1>2, <1>3, <1>4, DevicesApart DEF SiteInv

\* The Cardinality that SiteMap takes from the library is the library's.
LEMMA SameCardinality == \A S : Site!Cardinality(S) = Cardinality(S)
BY DEF Site!Cardinality, Cardinality, Site!IsFiniteSet, IsFiniteSet

LEMMA CheckImageKeeps ==
    ASSUME SiteInv, NEW m \in Images, NEW to \in {NoRow, TRUE, FALSE}, Site!CheckImage(m, to)
    PROVE  SiteInv'
<1> USE SiteAssumption
<1> DEFINE edit == [kind |-> "image", no |-> mapRequests, id |-> m, to |-> to,
                    shown |-> images[m], others |-> Site!Shown \ {m}]
<1>1. mapRequests \in Nat /\ mapRequests' \in 0 .. MaxMapEdits
    BY SiteRequest DEF Site!CheckImage
<1>2. /\ images[m] # NoRow
      /\ mapEdits' = mapEdits \cup {edit}
      /\ UNCHANGED <<fences, devices, latest, images, job, settled, stale, mapExcused>>
    BY DEF Site!CheckImage
<1>7. images[m] => ~(Cardinality(Site!Shown) <= 1)
    BY SameCardinality, Zenon DEF Site!CheckImage
<1>3. images[m] \in BOOLEAN /\ Site!Shown \subseteq Images
    BY <1>2 DEF SiteInv, SiteTypes, Site!Shown
<1>4. edit \in ImageEdit /\ edit.kind = "image" /\ edit.shown = images[m]
      /\ edit.others = Site!Shown \ {m}
    BY <1>1, <1>3 DEF ImageEdit
<1>5. Site!Shown \ {m} # {} \/ ~images[m]
  <2> SUFFICES ASSUME images[m] = TRUE, Site!Shown \ {m} = {} PROVE FALSE
    BY <1>3
  <2>1. Site!Shown = {m}
    BY DEF Site!Shown
  <2>2. Cardinality(Site!Shown) = 1
    BY <2>1, FS_Singleton
  <2> QED BY <1>7, <2>2
<1> HIDE DEF edit
<1>6. SiteTypes'
    BY <1>1, <1>2, <1>4 DEF SiteInv, SiteTypes
<1> QED BY <1>2, <1>4, <1>5, <1>6, DevicesApart, ImagesApart DEF SiteInv

LEMMA ChangeImageKeeps ==
    ASSUME SiteInv, NEW q \in mapEdits, q.kind = "image", Site!ChangeImage(q)
    PROVE  SiteInv'
<1> USE SiteAssumption
<1>1. q.id \in Images /\ q.to \in {NoRow} \cup BOOLEAN /\ (q.others # {} \/ ~q.shown)
    BY DEF SiteInv, SiteTypes, ImagesKept, DeviceEdit, ImageEdit, Upload
<1>2. /\ images' = IF images[q.id] = NoRow THEN images ELSE [images EXCEPT ![q.id] = q.to]
      /\ mapExcused' = \/ mapExcused /\ ~(q.to = TRUE /\ images[q.id] # NoRow)
                       \/ /\ q.to # TRUE /\ {m \in Site!Shown : m # q.id} = {}
                          /\ q.others # {} \/ ~q.shown
      /\ mapEdits' \subseteq mapEdits
      /\ UNCHANGED <<fences, devices, latest, job, settled, stale, mapRequests>>
    BY DEF Site!ChangeImage
<1>3. mapExcused' \in BOOLEAN
    BY <1>2
<1>4. SiteTypes'
    BY <1>1, <1>2, <1>3 DEF SiteInv, SiteTypes
<1>5. mapExcused' \/ Site!Shown' # {}
  <2>1. CASE images[q.id] = NoRow
    BY <1>2, <2>1 DEF SiteInv, ImagesKept, Site!ImageRemains, Site!Shown
  <2>2. CASE images[q.id] # NoRow /\ q.to = TRUE
    BY <1>1, <1>2, <2>2 DEF SiteInv, SiteTypes, Site!Shown
  <2>3. CASE images[q.id] # NoRow /\ q.to # TRUE
    BY <1>1, <1>2, <2>3 DEF SiteInv, SiteTypes, Site!Shown
  <2> QED BY <2>1, <2>2, <2>3
<1> QED BY <1>2, <1>4, <1>5, DevicesApart DEF SiteInv, ImagesKept, Site!ImageRemains

LEMMA SiteStep == SiteInv /\ [Site!Next]_siteVars => SiteInv'
<1> SUFFICES ASSUME SiteInv, [Site!Next]_siteVars PROVE SiteInv'
    OBVIOUS
<1>1. CASE UNCHANGED siteVars
  <2>1. SiteTypes'
    BY <1>1 DEF siteVars, SiteInv, SiteTypes
  <2> QED BY <1>1, <2>1, DevicesApart, ImagesApart DEF siteVars, SiteInv
<1>2. CASE Site!Next
    BY <1>2, OpenDeviceKeeps, DeleteDevicesKeeps, ToggleDevicesKeeps, ReadingKeeps,
       StartMappingKeeps, MapDeviceKeeps, StartImportKeeps, ImportLineKeeps, SaveFenceKeeps,
       DeleteFenceKeeps, SaveImageKeeps, CheckImageKeeps, StartUploadKeeps, SaveDeviceKeeps,
       ChangeImageKeeps, FinishUploadKeeps
    DEF Site!Next
<1> QED BY <1>1, <1>2

\* A settled mapping agrees with the fences, a status is that of the last reading, and
\* an active image remains but for the ways the property names, however forms,
\* mappings, imports and readings of any number of devices overlap
\* (views/devices.py:141-161, views/maps.py:197-217).
THEOREM SiteIsSound == Spec => []SiteHolds
<1>1. Init => SiteInv
    BY SiteInit DEF Init
<1>2. SiteInv /\ [Next]_backOfficeVars => SiteInv'
    BY SiteStep DEF Next, EditPeople, EditTables, EditSite, Train, backOfficeVars, siteVars
<1>3. SiteInv => SiteHolds
  <2> SUFFICES ASSUME SiteInv PROVE SiteHolds
    OBVIOUS
  <2>1. \A f \in Site!Row(fences) : fences[f].kind \in Kinds /\ fences[f].active \in BOOLEAN
    BY DEF SiteInv, SiteTypes, FenceTable, FenceRow, Site!Row
  <2>2. \A d \in Site!Row(devices) : /\ devices[d].place \in Places
                                     /\ devices[d].fence \in Site!Row(fences) \cup {NoRow}
                                     /\ devices[d].status \in Site!Statuses
    BY DEF SiteInv, SiteTypes, DeviceTable, DeviceRow, Site!Row, DevicesKept, FencesExist
  <2>3. /\ \A m \in Site!Row(images) : images[m] \in BOOLEAN
        /\ \A q \in mapEdits : q.kind \in {"device", "image", "upload"}
        /\ mapRequests \in 0 .. MaxMapEdits
    BY DEF SiteInv, SiteTypes, DeviceEdit, ImageEdit, Upload, Site!Row
  <2> QED BY <2>1, <2>2, <2>3
          DEF SiteHolds, SiteInv, DevicesKept, MappingSound, ImagesKept, Site!TypeOK
<1> QED BY <1>1, <1>2, <1>3, PTL DEF Spec

-----------------------------------------------------------------------------
(* Directory.                                                               *)

DirectoryTypes ==
    /\ orgs \in [People!Orgs -> {NoRow} \cup OrgRow]
    /\ people \in [Accounts -> {NoRow} \cup UserRow]
    /\ active \in [Positions -> {NoRow} \cup BOOLEAN]
    /\ editing \subseteq OrgEdit \cup UserEdit \cup Deletion
    /\ excused \subseteq Accounts
    /\ requests \in 0 .. MaxPeopleEdits

ParentsExist == \A o \in People!Row(orgs) : orgs[o].parent \in People!Row(orgs) \cup {NoRow}

LeadersExist == \A o \in People!Row(orgs) : orgs[o].leader \in People!Row(people) \cup {NoRow}

OrgsExist == \A p \in People!Row(people) : people[p].org \in People!Row(orgs) \cup {NoRow}

PositionsExist ==
    \A p \in People!Row(people) : people[p].position \in People!Row(active) \cup {NoRow}

\* An unassigned department is not made by a form, and not deleted.
BucketsApart ==
    \A q \in editing :
        /\ q.kind = "org" => ~q.row.bucket
        /\ q.kind = "delete" => orgs[q.id] = NoRow \/ ~orgs[q.id].bucket

\* Whoever is in a department whose members have been moved joined since, or had
\* nowhere to go.
LeftoversExcused ==
    \A q \in editing : q.kind = "delete" /\ q.moved => People!Members(q.id) \subseteq excused

TreeKept == ParentsExist /\ People!SiblingsDiffer

DirectoryInv ==
    /\ DirectoryTypes /\ TreeKept /\ LeadersExist /\ OrgsExist /\ PositionsExist
    /\ BucketsApart /\ LeftoversExcused /\ People!MembersAreMoved

LEMMA DirectoryInit == People!Init => DirectoryInv
<1> USE DirectoryAssumption
<1> SUFFICES ASSUME People!Init PROVE DirectoryInv
    OBVIOUS
<1>1. {People!Company, People!Unassigned} \cup {People!Department(n) : n \in Names} \subseteq OrgRow
  <2>1. People!Company \in OrgRow
    BY DEF People!Company, OrgRow, People!Orgs
  <2>2. People!Unassigned \in OrgRow
    BY DEF People!Unassigned, OrgRow, People!Orgs
  <2>3. \A n \in Names : People!Department(n) \in OrgRow
    BY DEF People!Department, OrgRow, People!Orgs
  <2> QED BY <2>1, <2>2, <2>3
<1>2. /\ orgs \in [People!Orgs -> {NoRow} \cup OrgRow]
      /\ \A o \in People!Orgs : orgs[o] \in {NoRow, People!Company, People!Unassigned}
                                            \cup {People!Department(n) : n \in Names}
      /\ orgs[Root] = People!Company
      /\ \A o \in People!Orgs : orgs[o] # NoRow => People!NoDuplicate(orgs, o)
    BY <1>1 DEF People!Init
<1>3. \A o \in People!Row(orgs) : orgs[o].parent \in {Root, NoRow} /\ orgs[o].leader = NoRow
    BY <1>2 DEF People!Row, People!Company, People!Unassigned, People!Department
<1>4. Root \in People!Row(orgs)
    BY <1>1, <1>2 DEF People!Row, People!Orgs
<1>5. people \in [Accounts -> {NoRow} \cup UserRow]
    BY <1>2 DEF People!Init, People!Row, UserRow, People!Statuses
<1>6. \A p \in People!Row(people) : people[p].org \in People!Row(orgs) /\ people[p].position = NoRow
    BY DEF People!Init, People!Row
<1>7. DirectoryTypes
  <2>1. active \in [Positions -> {NoRow} \cup BOOLEAN]
    BY DEF People!Init
  <2> QED BY <1>2, <1>5, <2>1 DEF People!Init, DirectoryTypes
<1>8. TreeKept /\ LeadersExist
    BY <1>2, <1>3, <1>4 DEF TreeKept, ParentsExist, LeadersExist, People!SiblingsDiffer, People!Row
<1>9. OrgsExist /\ PositionsExist /\ BucketsApart /\ LeftoversExcused /\ People!MembersAreMoved
    BY <1>2, <1>6
    DEF People!Init, OrgsExist, PositionsExist, BucketsApart, LeftoversExcused,
        People!MembersAreMoved, People!Row
<1> QED BY <1>7, <1>8, <1>9 DEF DirectoryInv

LEMMA DirectoryRequest ==
    ASSUME DirectoryInv, People!Request
    PROVE  requests \in Nat /\ requests' \in 0 .. MaxPeopleEdits
BY DirectoryAssumption DEF DirectoryInv, DirectoryTypes, People!Request

\* A form that is opened changes nothing else.
LEMMA FormOpens ==
    ASSUME DirectoryInv, NEW edit \in OrgEdit \cup UserEdit \cup Deletion,
           editing' = editing \cup {edit}, requests' \in 0 .. MaxPeopleEdits,
           edit.kind = "org" => ~edit.row.bucket,
           edit.kind = "delete" => (orgs[edit.id] = NoRow \/ ~orgs[edit.id].bucket) /\ ~edit.moved,
           UNCHANGED <<orgs, people, active, excused>>
    PROVE  DirectoryInv'
<1>1. DirectoryTypes'
    BY DEF DirectoryInv, DirectoryTypes
<1>2. TreeKept' /\ LeadersExist' /\ OrgsExist' /\ PositionsExist' /\ People!MembersAreMoved'
    BY DEF DirectoryInv, TreeKept, ParentsExist, People!SiblingsDiffer, People!NoDuplicate,
           LeadersExist, OrgsExist, PositionsExist, People!MembersAreMoved, People!Row
<1>3. BucketsApart' /\ LeftoversExcused'
    BY DEF DirectoryInv, BucketsApart, LeftoversExcused, People!Members, People!Row
<1> QED BY <1>1, <1>2, <1>3 DEF DirectoryInv

LEMMA OpenOrgKeeps ==
    ASSUME DirectoryInv, NEW o \in Others \cup {Root}, NEW n \in Names,
           NEW parent \in People!Orgs \cup {NoRow}, People!OpenOrg(o, n, parent)
    PROVE  DirectoryInv'
<1> USE DirectoryAssumption
<1> DEFINE leader == IF orgs[o] = NoRow THEN NoRow ELSE orgs[o].leader
           row == [name |-> n, parent |-> parent, bucket |-> FALSE, leader |-> leader]
           edit == [kind |-> "org", no |-> requests, id |-> o, row |-> row]
<1>1. requests \in Nat /\ requests' \in 0 .. MaxPeopleEdits
    BY DirectoryRequest DEF People!OpenOrg
<1>2. editing' = editing \cup {edit} /\ UNCHANGED <<orgs, people, active, excused>>
    BY DEF People!OpenOrg
<1>3. o \in People!Orgs
    BY DEF People!Orgs
<1>4. leader \in Accounts \cup {NoRow}
    BY <1>3 DEF DirectoryInv, DirectoryTypes, OrgRow
<1> HIDE DEF leader
<1>5. row \in OrgRow /\ ~row.bucket
    BY <1>4 DEF OrgRow
<1> HIDE DEF row
<1>6. edit \in OrgEdit /\ edit.kind = "org" /\ edit.row = row
    BY <1>1, <1>3, <1>5 DEF OrgEdit
<1> HIDE DEF edit
<1> QED BY <1>1, <1>2, <1>5, <1>6, FormOpens

LEMMA OpenUserKeeps ==
    ASSUME DirectoryInv, NEW p \in Accounts, NEW row \in UserRow, People!OpenUser(p, row)
    PROVE  DirectoryInv'
<1> DEFINE edit == [kind |-> "user", no |-> requests, id |-> p, row |-> row]
<1>1. requests \in Nat /\ requests' \in 0 .. MaxPeopleEdits
    BY DirectoryRequest DEF People!OpenUser
<1>2. editing' = editing \cup {edit} /\ UNCHANGED <<orgs, people, active, excused>>
    BY DEF People!OpenUser
<1>3. edit \in UserEdit /\ edit.kind = "user"
    BY <1>1 DEF UserEdit
<1> HIDE DEF edit
<1> QED BY <1>1, <1>2, <1>3, FormOpens

LEMMA OpenDeleteKeeps ==
    ASSUME DirectoryInv, NEW o \in People!Orgs, People!OpenDelete(o)
    PROVE  DirectoryInv'
<1> DEFINE edit == [kind |-> "delete", no |-> requests, id |-> o, company |-> orgs[o].parent,
                    moved |-> FALSE]
<1>1. requests \in Nat /\ requests' \in 0 .. MaxPeopleEdits
    BY DirectoryRequest DEF People!OpenDelete
<1>2. editing' = editing \cup {edit} /\ UNCHANGED <<orgs, people, active, excused>>
      /\ orgs[o] # NoRow /\ ~orgs[o].bucket
    BY DEF People!OpenDelete
<1>3. orgs[o].parent \in People!Orgs \cup {NoRow}
    BY <1>2 DEF DirectoryInv, DirectoryTypes, OrgRow
<1>4. edit \in Deletion /\ edit.kind = "delete" /\ edit.id = o /\ ~edit.moved
    BY <1>1, <1>3 DEF Deletion
<1> HIDE DEF edit
<1> QED BY <1>1, <1>2, <1>4, FormOpens

\* Two rows are of one name or not, whichever is asked.
LEMMA SaveOrgKeeps ==
    ASSUME DirectoryInv, NEW q \in editing, q.kind = "org", People!SaveOrg(q)
    PROVE  DirectoryInv'
<1> USE DirectoryAssumption
<1> DEFINE saved == [orgs EXCEPT ![q.id] = q.row]
<1>1. q.id \in People!Orgs /\ q.row \in OrgRow /\ ~q.row.bucket
    BY DEF DirectoryInv, DirectoryTypes, OrgEdit, UserEdit, Deletion, BucketsApart
<1>2. /\ editing' = editing \ {q} /\ UNCHANGED <<people, active, excused, requests>>
      /\ \/ orgs' = orgs
         \/ /\ orgs' = saved
            /\ q.row.parent \in People!Row(saved) \cup {NoRow}
            /\ q.row.leader \in People!Row(people) \cup {NoRow}
            /\ People!NoDuplicate(saved, q.id)
    BY DEF People!SaveOrg
<1>3. orgs' \in [People!Orgs -> {NoRow} \cup OrgRow] /\ People!Row(orgs) \subseteq People!Row(orgs)'
    BY <1>1, <1>2 DEF DirectoryInv, DirectoryTypes, People!Row
<1>4. DirectoryTypes'
    BY <1>2, <1>3 DEF DirectoryInv, DirectoryTypes
<1>5. TreeKept' /\ LeadersExist'
  <2>1. CASE orgs' = orgs
    BY <1>2, <2>1
    DEF DirectoryInv, TreeKept, ParentsExist, People!SiblingsDiffer, People!NoDuplicate,
        LeadersExist, People!Row
  <2>2. CASE orgs' = saved /\ q.row.parent \in People!Row(saved) \cup {NoRow}
             /\ q.row.leader \in People!Row(people) \cup {NoRow}
             /\ People!NoDuplicate(saved, q.id)
    <3>1. ParentsExist' /\ LeadersExist'
      BY <1>1, <1>2, <1>3, <2>2
      DEF DirectoryInv, DirectoryTypes, TreeKept, ParentsExist, LeadersExist, People!Row
    <3>2. People!SiblingsDiffer'
      BY <1>1, <1>2, <1>3, <2>2
      DEF DirectoryInv, DirectoryTypes, TreeKept, People!SiblingsDiffer, People!NoDuplicate, People!Row
    <3> QED BY <3>1, <3>2 DEF TreeKept
  <2> QED BY <1>2, <2>1, <2>2
<1>6. OrgsExist' /\ PositionsExist' /\ People!MembersAreMoved'
    BY <1>2, <1>3 DEF DirectoryInv, OrgsExist, PositionsExist, People!MembersAreMoved, People!Row
<1>7. LeftoversExcused'
    BY <1>2 DEF DirectoryInv, LeftoversExcused, People!Members, People!Row
<1>8. BucketsApart'
  <2> SUFFICES ASSUME NEW x \in editing
               PROVE  /\ x.kind = "org" => ~x.row.bucket
                      /\ x.kind = "delete" => orgs'[x.id] = NoRow \/ ~orgs'[x.id].bucket
    BY <1>2 DEF BucketsApart
  <2>1. x.kind = "delete" => x.id \in People!Orgs
    BY DEF DirectoryInv, DirectoryTypes, OrgEdit, UserEdit, Deletion
  <2>2. CASE orgs' = orgs
    BY <2>2 DEF DirectoryInv, BucketsApart
  <2>3. CASE orgs' = saved
    <3>1. x.kind = "delete" => orgs'[x.id] = IF x.id = q.id THEN q.row ELSE orgs[x.id]
      BY <1>1, <2>1, <2>3 DEF DirectoryInv, DirectoryTypes
    <3> QED BY <1>1, <3>1 DEF DirectoryInv, BucketsApart
  <2> QED BY <1>2, <2>2, <2>3
<1> QED BY <1>4, <1>5, <1>6, <1>7, <1>8 DEF DirectoryInv

\* Users who stay, in organizations that exist, leave the references in order.
LEMMA MovesKeep ==
    ASSUME DirectoryInv, people' \in [Accounts -> {NoRow} \cup UserRow],
           \A p \in Accounts : IF people[p] = NoRow THEN people'[p] = NoRow
                               ELSE /\ people'[p] # NoRow
                                    /\ people'[p].position = people[p].position
                                    /\ people'[p].org \in People!Row(orgs) \cup {NoRow},
           UNCHANGED <<orgs, active>>
    PROVE  TreeKept' /\ LeadersExist' /\ OrgsExist' /\ PositionsExist'
<1>1. People!Row(people)' = People!Row(people)
    BY DEF DirectoryInv, DirectoryTypes, People!Row
<1>2. TreeKept' /\ LeadersExist'
    BY <1>1
    DEF DirectoryInv, TreeKept, ParentsExist, LeadersExist, People!SiblingsDiffer,
        People!NoDuplicate, People!Row
<1>3. OrgsExist' /\ PositionsExist'
    BY <1>1 DEF DirectoryInv, DirectoryTypes, OrgsExist, PositionsExist, People!Row
<1> QED BY <1>2, <1>3

LEMMA MemberFacts ==
    ASSUME DirectoryInv
    PROVE  /\ \A o : People!Members(o) \subseteq Accounts
           /\ \A o : \A p \in Accounts :
                p \in People!Members(o) <=> people[p] # NoRow /\ people[p].org = o
           /\ \A p \in Accounts : people[p] # NoRow => people[p] \in UserRow
           /\ People!Row(orgs) \subseteq People!Orgs
BY DEF DirectoryInv, DirectoryTypes, People!Members, People!Row, UserRow

LEMMA MovedRow ==
    ASSUME NEW row \in UserRow, NEW o \in People!Orgs \cup {NoRow}
    PROVE  /\ [row EXCEPT !.org = o] \in UserRow
           /\ [row EXCEPT !.org = o] # NoRow
           /\ [row EXCEPT !.org = o].org = o
           /\ [row EXCEPT !.org = o].position = row.position
<1>1. [row EXCEPT !.org = o] \in UserRow
    BY DEF UserRow
<1> QED BY <1>1, DirectoryAssumption DEF UserRow

LEMMA MoveMembersKeeps ==
    ASSUME DirectoryInv, NEW q \in editing, People!MoveMembers(q)
    PROVE  DirectoryInv'
<1> USE DirectoryAssumption
<1> DEFINE new == [q EXCEPT !.moved = TRUE]
           bucket == People!BucketsOf(q.company)
<1>1. /\ q.kind = "delete" /\ ~q.moved
      /\ editing' = (editing \ {q}) \cup {new}
      /\ UNCHANGED <<orgs, active, requests>>
      /\ \/ bucket = {} /\ people' = people /\ excused' = excused \cup People!Members(q.id)
         \/ /\ \E b \in bucket :
                 people' = [p \in Accounts |-> IF p \in People!Members(q.id)
                                               THEN [people[p] EXCEPT !.org = b] ELSE people[p]]
            /\ excused' = excused
    BY DEF People!MoveMembers
<1>2. q \in Deletion
    BY <1>1 DEF DirectoryInv, DirectoryTypes, OrgEdit, UserEdit
<1>3. new \in Deletion /\ new.kind = "delete" /\ new.id = q.id
    BY <1>2 DEF Deletion
<1>4. \A b \in bucket : b \in People!Row(orgs) /\ orgs[b].bucket
    BY DEF People!BucketsOf
<1> HIDE DEF new, bucket
<1>5. BucketsApart'
    BY <1>1, <1>3 DEF DirectoryInv, BucketsApart
<1>6. CASE people' = people /\ excused' = excused \cup People!Members(q.id)
  <2>1. DirectoryTypes'
    BY <1>1, <1>3, <1>6, MemberFacts DEF DirectoryInv, DirectoryTypes
  <2>2. TreeKept' /\ LeadersExist' /\ OrgsExist' /\ PositionsExist'
    BY <1>1, <1>6
    DEF DirectoryInv, TreeKept, ParentsExist, LeadersExist, OrgsExist, PositionsExist,
        People!SiblingsDiffer, People!NoDuplicate, People!Row
  <2>3. LeftoversExcused' /\ People!MembersAreMoved'
    BY <1>1, <1>3, <1>6
    DEF DirectoryInv, LeftoversExcused, People!MembersAreMoved, People!Members, People!Row
  <2> QED BY <1>5, <2>1, <2>2, <2>3 DEF DirectoryInv
<1>7. ASSUME NEW b \in bucket, excused' = excused,
             people' = [p \in Accounts |-> IF p \in People!Members(q.id)
                                           THEN [people[p] EXCEPT !.org = b] ELSE people[p]]
      PROVE  DirectoryInv'
  <2>1. b \in People!Row(orgs) /\ b \in People!Orgs /\ orgs[b].bucket
    BY <1>4, MemberFacts
  <2>2. \A p \in Accounts :
            people'[p] = IF p \in People!Members(q.id) THEN [people[p] EXCEPT !.org = b]
                         ELSE people[p]
    BY <1>7
  <2>3. \A p \in Accounts : IF people[p] = NoRow THEN people'[p] = NoRow
                            ELSE /\ people'[p] \in UserRow /\ people'[p] # NoRow
                                 /\ people'[p].position = people[p].position
                                 /\ people'[p].org = IF people[p].org = q.id THEN b
                                                     ELSE people[p].org
    <3> SUFFICES ASSUME NEW p \in Accounts
                 PROVE  IF people[p] = NoRow THEN people'[p] = NoRow
                        ELSE /\ people'[p] \in UserRow /\ people'[p] # NoRow
                             /\ people'[p].position = people[p].position
                             /\ people'[p].org = IF people[p].org = q.id THEN b
                                                 ELSE people[p].org
      OBVIOUS
    <3>1. CASE people[p] = NoRow \/ people[p].org # q.id
      BY <2>2, <3>1, MemberFacts
    <3>2. CASE people[p] # NoRow /\ people[p].org = q.id
      <4>1. people'[p] = [people[p] EXCEPT !.org = b] /\ people[p] \in UserRow
        BY <2>2, <3>2, MemberFacts
      <4> QED BY <2>1, <3>2, <4>1, MovedRow
    <3> QED BY <3>1, <3>2
  <2>4. people' \in [Accounts -> {NoRow} \cup UserRow]
    BY <1>7, <2>3
  <2>5. DirectoryTypes'
    BY <1>1, <1>3, <1>7, <2>4 DEF DirectoryInv, DirectoryTypes
  <2>6. \A p \in Accounts : people[p] # NoRow => people'[p].org \in People!Row(orgs) \cup {NoRow}
    BY <2>1, <2>3 DEF DirectoryInv, DirectoryTypes, OrgsExist, People!Row
  <2>7. TreeKept' /\ LeadersExist' /\ OrgsExist' /\ PositionsExist'
    BY <1>1, <2>3, <2>4, <2>6, MovesKeep
  <2>8. ASSUME NEW x \in editing', x.kind = "delete", x.moved
        PROVE  People!Members(x.id)' \subseteq excused
    <3>1. b # x.id
      <4>1. x.id = q.id \/ x \in editing
        BY <1>1, <1>3
      <4> QED BY <1>1, <2>1, <2>8, <4>1 DEF DirectoryInv, BucketsApart, People!Row
    <3>2. x.id = q.id => People!Members(x.id)' = {}
      <4> SUFFICES ASSUME x.id = q.id, NEW p \in People!Row(people)', people'[p].org = q.id
                   PROVE  FALSE
        BY DEF People!Members
      <4>1. p \in Accounts /\ people'[p] # NoRow
        BY <2>4 DEF People!Row
      <4> QED BY <2>3, <3>1, <4>1
    <3>3. People!Members(x.id)' \subseteq People!Members(x.id)
      BY <1>7, <2>3, <3>1 DEF People!Members, People!Row, DirectoryInv, DirectoryTypes
    <3>4. x.id = q.id \/ x \in editing
      BY <1>1, <1>3
    <3> QED BY <2>8, <3>2, <3>3, <3>4 DEF DirectoryInv, LeftoversExcused
  <2>9. LeftoversExcused'
    BY <1>7, <2>8 DEF LeftoversExcused
  <2>10. People!MembersAreMoved'
    BY <1>7, <2>1, <2>3
    DEF DirectoryInv, DirectoryTypes, People!MembersAreMoved, People!Row
  <2> QED BY <1>5, <2>5, <2>7, <2>9, <2>10 DEF DirectoryInv
<1> QED BY <1>1, <1>6, <1>7

\* The cascade is closed, and holds the department itself.
LEMMA BelowIsClosed ==
    ASSUME NEW o \in People!Orgs, DirectoryInv
    PROVE  /\ o \in People!Below(o) /\ People!Below(o) \subseteq People!Orgs
           /\ \A x \in People!Row(orgs) :
                orgs[x].parent \in People!Below(o) => x \in People!Below(o)
<1>1. o \in People!Below(o) /\ People!Below(o) \subseteq People!Orgs
    BY DEF People!Below
<1>2. ASSUME NEW x \in People!Row(orgs), orgs[x].parent \in People!Below(o)
      PROVE  x \in People!Below(o)
    BY <1>2, MemberFacts DEF People!Below
<1> QED BY <1>1, <1>2

LEMMA DeleteOrgKeeps ==
    ASSUME DirectoryInv, NEW q \in editing, People!DeleteOrg(q)
    PROVE  DirectoryInv'
<1> USE DirectoryAssumption
<1> DEFINE gone == People!Below(q.id)
           lost == UNION {People!Members(o) : o \in gone}
<1>1. /\ q.kind = "delete" /\ q.moved
      /\ orgs' = [o \in People!Orgs |-> IF o \in gone THEN NoRow ELSE orgs[o]]
      /\ people' = [p \in Accounts |-> IF p \in lost THEN [people[p] EXCEPT !.org = NoRow]
                                       ELSE people[p]]
      /\ excused' = excused \cup UNION {People!Members(o) : o \in gone \ {q.id}}
      /\ editing' = editing \ {q}
      /\ UNCHANGED <<active, requests>>
    BY DEF People!DeleteOrg
<1>2. q \in Deletion /\ q.id \in People!Orgs
    BY <1>1 DEF DirectoryInv, DirectoryTypes, OrgEdit, UserEdit, Deletion
<1>3. /\ q.id \in gone /\ gone \subseteq People!Orgs
      /\ \A x \in People!Row(orgs) : orgs[x].parent \in gone => x \in gone
    BY <1>2, BelowIsClosed
<1>4. \A p \in Accounts : p \in lost <=> people[p] # NoRow /\ people[p].org \in gone
    BY MemberFacts
<1>5. lost \subseteq excused'
  <2>1. People!Members(q.id) \subseteq excused
    BY <1>1 DEF DirectoryInv, LeftoversExcused
  <2> QED BY <1>1, <2>1
<1>6. excused \subseteq excused' /\ excused' \subseteq Accounts
    BY <1>1, MemberFacts DEF DirectoryInv, DirectoryTypes
<1> HIDE DEF gone, lost
<1>7. \A p \in Accounts : IF people[p] = NoRow THEN people'[p] = NoRow
                          ELSE /\ people'[p] \in UserRow /\ people'[p] # NoRow
                               /\ people'[p].position = people[p].position
                               /\ people'[p].org = IF p \in lost THEN NoRow ELSE people[p].org
  <2>1. \A p \in Accounts : people'[p] = IF p \in lost THEN [people[p] EXCEPT !.org = NoRow]
                                         ELSE people[p]
    BY <1>1
  <2> SUFFICES ASSUME NEW p \in Accounts
               PROVE  IF people[p] = NoRow THEN people'[p] = NoRow
                      ELSE /\ people'[p] \in UserRow /\ people'[p] # NoRow
                           /\ people'[p].position = people[p].position
                           /\ people'[p].org = IF p \in lost THEN NoRow ELSE people[p].org
    OBVIOUS
  <2>2. CASE p \notin lost
    BY <2>1, <2>2, MemberFacts
  <2>3. CASE p \in lost
    <3>1. people'[p] = [people[p] EXCEPT !.org = NoRow] /\ people[p] # NoRow /\ people[p] \in UserRow
      BY <1>4, <2>1, <2>3, MemberFacts
    <3> QED BY <2>3, <3>1, MovedRow
  <2> QED BY <2>2, <2>3
<1>8. people' \in [Accounts -> {NoRow} \cup UserRow]
    BY <1>1, <1>7
<1>9. People!Row(people)' = People!Row(people)
    BY <1>7, <1>8 DEF DirectoryInv, DirectoryTypes, People!Row
<1>10. orgs' \in [People!Orgs -> {NoRow} \cup OrgRow]
       /\ People!Row(orgs)' = People!Row(orgs) \ gone
       /\ \A o \in People!Row(orgs)' : orgs'[o] = orgs[o]
    BY <1>1 DEF DirectoryInv, DirectoryTypes, People!Row
<1>11. DirectoryTypes'
    BY <1>1, <1>6, <1>8, <1>10 DEF DirectoryInv, DirectoryTypes
<1>12. ParentsExist' /\ LeadersExist'
    BY <1>3, <1>9, <1>10 DEF DirectoryInv, TreeKept, ParentsExist, LeadersExist
<1>13. People!SiblingsDiffer'
    BY <1>10
    DEF DirectoryInv, DirectoryTypes, TreeKept, People!SiblingsDiffer, People!NoDuplicate, People!Row
<1>14. OrgsExist' /\ PositionsExist'
    BY <1>1, <1>4, <1>7, <1>9, <1>10
    DEF DirectoryInv, DirectoryTypes, OrgsExist, PositionsExist, People!Row
<1>15. BucketsApart'
    BY <1>1, <1>10
    DEF DirectoryInv, DirectoryTypes, BucketsApart, OrgEdit, UserEdit, Deletion
<1>16. LeftoversExcused'
  <2> SUFFICES ASSUME NEW x \in editing, x.kind = "delete", x.moved
               PROVE  People!Members(x.id)' \subseteq excused'
    BY <1>1 DEF LeftoversExcused
  <2>1. x.id # NoRow
    BY DEF DirectoryInv, DirectoryTypes, OrgEdit, UserEdit, Deletion
  <2>2. People!Members(x.id)' \subseteq People!Members(x.id)
    BY <1>7, <1>9, <2>1 DEF People!Members, DirectoryInv, DirectoryTypes, People!Row
  <2> QED BY <1>6, <2>2 DEF DirectoryInv, LeftoversExcused
<1>17. People!MembersAreMoved'
    BY <1>5, <1>6, <1>7, <1>9
    DEF DirectoryInv, DirectoryTypes, People!MembersAreMoved, People!Row
<1> QED BY <1>11, <1>12, <1>13, <1>14, <1>15, <1>16, <1>17 DEF DirectoryInv, TreeKept

\* Members who go to an organization that exists, and are excused there if its
\* members have already been moved.
LEMMA JoinKeeps ==
    ASSUME DirectoryInv, NEW o \in People!Row(orgs), NEW ps \in SUBSET People!Row(people),
           people' = [p \in Accounts |-> IF p \in ps THEN [people[p] EXCEPT !.org = o] ELSE people[p]],
           \/ People!Join(o, ps)
           \/ orgs[o].bucket /\ excused' = excused,
           requests' \in 0 .. MaxPeopleEdits,
           UNCHANGED <<orgs, active, editing>>
    PROVE  DirectoryInv'
<1> USE DirectoryAssumption
<1>1. o \in People!Orgs /\ orgs[o] # NoRow
    BY MemberFacts DEF People!Row
<1>2. ASSUME NEW p \in Accounts
      PROVE  IF people[p] = NoRow THEN people'[p] = NoRow
             ELSE /\ people'[p] \in UserRow /\ people'[p] # NoRow
                  /\ people'[p].position = people[p].position
                  /\ people'[p].org = IF p \in ps THEN o ELSE people[p].org
  <2>1. people'[p] = IF p \in ps THEN [people[p] EXCEPT !.org = o] ELSE people[p]
    OBVIOUS
  <2>2. p \in ps => people[p] # NoRow
    BY DEF People!Row
  <2>3. CASE p \notin ps
    BY <2>1, <2>3, MemberFacts
  <2>4. CASE p \in ps
    <3>1. people'[p] = [people[p] EXCEPT !.org = o] /\ people[p] \in UserRow
      BY <2>1, <2>2, <2>4, MemberFacts
    <3> QED BY ZenonT(30), <1>1, <2>2, <2>4, <3>1, MovedRow
  <2> QED BY <2>3, <2>4
<1>3. people' \in [Accounts -> {NoRow} \cup UserRow]
    BY <1>2
<1>4. ps \subseteq Accounts
    BY DEF People!Row, DirectoryInv, DirectoryTypes
<1>5. DirectoryTypes'
    BY <1>3, <1>4 DEF DirectoryInv, DirectoryTypes, People!Join
<1>6. \A p \in Accounts : people[p] # NoRow => people'[p].org \in People!Row(orgs) \cup {NoRow}
    BY <1>2 DEF DirectoryInv, DirectoryTypes, OrgsExist, People!Row
<1>7. TreeKept' /\ LeadersExist' /\ OrgsExist' /\ PositionsExist'
    BY <1>2, <1>3, <1>6, MovesKeep
<1>8. BucketsApart'
    BY DEF DirectoryInv, BucketsApart
<1>9. LeftoversExcused'
  <2> SUFFICES ASSUME NEW x \in editing, x.kind = "delete", x.moved,
                      NEW p \in People!Members(x.id)'
               PROVE  p \in excused'
    BY DEF LeftoversExcused
  <2>1. p \in Accounts /\ people[p] # NoRow /\ people'[p].org = x.id
    BY <1>2, <1>3 DEF People!Members, People!Row
  <2>2. CASE p \in ps
    <3>1. x.id = o
      BY <1>2, <2>1, <2>2
    <3>2. ~orgs[o].bucket
      BY <1>1, <3>1 DEF DirectoryInv, BucketsApart
    <3>3. People!UnderDeletion(o)
      BY <3>1 DEF People!UnderDeletion
    <3> QED BY <2>2, <3>2, <3>3 DEF People!Join
  <2>3. CASE p \notin ps
    <3>1. people[p].org = x.id
      BY <1>2, <2>1, <2>3
    <3>2. p \in excused
      BY <2>1, <3>1, MemberFacts DEF DirectoryInv, LeftoversExcused
    <3> QED BY <2>3, <3>2 DEF People!Join
  <2> QED BY <2>2, <2>3
<1>10. People!MembersAreMoved'
  <2> SUFFICES ASSUME NEW p \in People!Row(people)', people'[p].org = NoRow
               PROVE  p \in excused'
    BY DEF People!MembersAreMoved
  <2>1. p \in Accounts /\ people[p] # NoRow
    BY <1>2, <1>3 DEF People!Row
  <2>2. p \notin ps /\ people[p].org = NoRow
    BY <1>1, <1>2, <2>1
  <2>3. p \in excused
    BY <2>1, <2>2 DEF DirectoryInv, DirectoryTypes, People!MembersAreMoved, People!Row
  <2> QED BY <2>2, <2>3 DEF People!Join
<1> QED BY <1>5, <1>7, <1>8, <1>9, <1>10 DEF DirectoryInv

LEMMA AssignKeeps ==
    ASSUME DirectoryInv, NEW o \in People!Orgs, NEW ps \in SUBSET Accounts, People!Assign(o, ps)
    PROVE  DirectoryInv'
<1>1. requests' \in 0 .. MaxPeopleEdits
    BY DirectoryRequest DEF People!Assign
<1>2. o \in People!Row(orgs)
    BY DEF People!Assign, People!Row, DirectoryInv, DirectoryTypes
<1>3. /\ people' = [p \in Accounts |-> IF p \in ps \cap People!Row(people)
                                       THEN [people[p] EXCEPT !.org = o] ELSE people[p]]
      /\ People!Join(o, ps \cap People!Row(people))
      /\ UNCHANGED <<orgs, active, editing>>
    BY DEF People!Assign
<1> DEFINE joining == ps \cap People!Row(people)
<1>4. joining \in SUBSET People!Row(people)
    OBVIOUS
<1>5. /\ people' = [p \in Accounts |-> IF p \in joining
                                       THEN [people[p] EXCEPT !.org = o] ELSE people[p]]
      /\ People!Join(o, joining)
    BY <1>3
<1> HIDE DEF joining
<1> QED BY <1>1, <1>2, <1>3, <1>4, <1>5, JoinKeeps

LEMMA RemoveKeeps ==
    ASSUME DirectoryInv, NEW o \in People!Orgs, NEW ps \in SUBSET Accounts, People!Remove(o, ps)
    PROVE  DirectoryInv'
<1>1. requests' \in 0 .. MaxPeopleEdits
    BY DirectoryRequest DEF People!Remove
<1> DEFINE leaving == ps \cap People!Members(o)
           company == IF orgs[o].parent = NoRow THEN o ELSE orgs[o].parent
<1>2. PICK b \in People!BucketsOf(company) :
        people' = [p \in Accounts |-> IF p \in leaving
                                      THEN [people[p] EXCEPT !.org = b] ELSE people[p]]
    BY DEF People!Remove
<1>3. b \in People!Row(orgs) /\ orgs[b].bucket
    BY DEF People!BucketsOf
<1>4. leaving \in SUBSET People!Row(people)
    BY DEF People!Members
<1>5. UNCHANGED <<orgs, active, editing, excused>>
    BY DEF People!Remove
<1> HIDE DEF leaving
<1> QED BY <1>1, <1>2, <1>3, <1>4, <1>5, JoinKeeps

LEMMA SetLeaderKeeps ==
    ASSUME DirectoryInv, NEW o \in People!Orgs, NEW p \in Accounts, People!SetLeader(o, p)
    PROVE  DirectoryInv'
<1> USE DirectoryAssumption
<1> DEFINE row == [orgs[o] EXCEPT !.leader = p]
<1>1. requests' \in 0 .. MaxPeopleEdits
    BY DirectoryRequest DEF People!SetLeader
<1>2. /\ orgs[o] # NoRow /\ p \in People!Row(people)
      /\ orgs' = [orgs EXCEPT ![o] = row]
      /\ UNCHANGED <<people, active, editing, excused>>
    BY DEF People!SetLeader, People!Members
<1>3. orgs[o] \in OrgRow
    BY <1>2 DEF DirectoryInv, DirectoryTypes
<1>4. /\ row \in OrgRow /\ row # NoRow /\ row.leader = p /\ row.name = orgs[o].name
      /\ row.parent = orgs[o].parent /\ row.bucket = orgs[o].bucket
    BY <1>3 DEF OrgRow
<1> HIDE DEF row
<1>5. orgs' \in [People!Orgs -> {NoRow} \cup OrgRow]
      /\ People!Row(orgs)' = People!Row(orgs) /\ People!Row(orgs) \subseteq People!Orgs
    BY <1>2, <1>4 DEF DirectoryInv, DirectoryTypes, People!Row
<1>6. \A x \in People!Orgs : orgs[x] # NoRow =>
        /\ orgs'[x].parent = orgs[x].parent /\ orgs'[x].name = orgs[x].name
        /\ orgs'[x].bucket = orgs[x].bucket
        /\ orgs'[x].leader = IF x = o THEN p ELSE orgs[x].leader
    BY <1>2, <1>4 DEF DirectoryInv, DirectoryTypes
<1>7. \A x \in People!Orgs : orgs'[x] = NoRow <=> orgs[x] = NoRow
    BY <1>2, <1>4 DEF DirectoryInv, DirectoryTypes
<1>8. DirectoryTypes'
    BY <1>1, <1>2, <1>5 DEF DirectoryInv, DirectoryTypes
<1>9. ParentsExist' /\ LeadersExist'
    BY <1>2, <1>5, <1>6, <1>7
    DEF DirectoryInv, DirectoryTypes, TreeKept, ParentsExist, LeadersExist, People!Row
<1>10. People!SiblingsDiffer'
    BY <1>5, <1>6, <1>7
    DEF DirectoryInv, DirectoryTypes, TreeKept, People!SiblingsDiffer, People!NoDuplicate, People!Row
<1>11. OrgsExist' /\ PositionsExist' /\ People!MembersAreMoved'
    BY <1>2, <1>5 DEF DirectoryInv, OrgsExist, PositionsExist, People!MembersAreMoved, People!Row
<1>12. BucketsApart' /\ LeftoversExcused'
  <2>1. \A q \in editing : q.kind = "delete" => q.id \in People!Orgs
    BY DEF DirectoryInv, DirectoryTypes, OrgEdit, UserEdit, Deletion
  <2>2. BucketsApart'
    BY <1>2, <1>6, <1>7, <2>1 DEF DirectoryInv, BucketsApart
  <2> QED BY <1>2, <2>2 DEF DirectoryInv, LeftoversExcused, People!Members, People!Row
<1> QED BY <1>8, <1>9, <1>10, <1>11, <1>12 DEF DirectoryInv, TreeKept

LEMMA SaveUserKeeps ==
    ASSUME DirectoryInv, NEW q \in editing, q.kind = "user", People!SaveUser(q)
    PROVE  DirectoryInv'
<1> USE DirectoryAssumption
<1>1. q.id \in Accounts /\ q.row \in UserRow /\ q.row # NoRow
    BY DEF DirectoryInv, DirectoryTypes, OrgEdit, UserEdit, Deletion
<1>2. /\ editing' = editing \ {q} /\ UNCHANGED <<orgs, active, requests>>
      /\ \/ UNCHANGED <<people, excused>>
         \/ /\ q.row.org \in People!Row(orgs)
            /\ q.row.position = NoRow \/ active[q.row.position] # NoRow
            /\ people' = [people EXCEPT ![q.id] = q.row]
            /\ People!Join(q.row.org, {q.id})
    BY DEF People!SaveUser
<1>3. BucketsApart'
    BY <1>2 DEF DirectoryInv, BucketsApart
<1>4. CASE UNCHANGED <<people, excused>>
  <2>1. DirectoryTypes'
    BY <1>2, <1>4 DEF DirectoryInv, DirectoryTypes
  <2> QED
    BY <1>2, <1>3, <1>4, <2>1
    DEF DirectoryInv, TreeKept, ParentsExist, LeadersExist, OrgsExist, PositionsExist,
        LeftoversExcused, People!SiblingsDiffer, People!NoDuplicate, People!MembersAreMoved,
        People!Members, People!Row
<1>5. CASE /\ q.row.org \in People!Row(orgs)
           /\ q.row.position = NoRow \/ active[q.row.position] # NoRow
           /\ people' = [people EXCEPT ![q.id] = q.row]
           /\ People!Join(q.row.org, {q.id})
  <2> DEFINE o == q.row.org
  <2>1. o \in People!Orgs /\ o # NoRow
    BY <1>5, MemberFacts
  <2>2. /\ people' \in [Accounts -> {NoRow} \cup UserRow]
        /\ People!Row(people)' = People!Row(people) \cup {q.id}
        /\ \A p \in Accounts : people'[p] = IF p = q.id THEN q.row ELSE people[p]
    BY <1>1, <1>5 DEF DirectoryInv, DirectoryTypes, People!Row
  <2>3. excused' = IF People!UnderDeletion(o) THEN excused \cup {q.id} ELSE excused \ {q.id}
    BY <1>5 DEF People!Join
  <2>4. DirectoryTypes'
    BY <1>1, <1>2, <2>2, <2>3 DEF DirectoryInv, DirectoryTypes
  <2>5. TreeKept' /\ LeadersExist'
    BY <1>2, <2>2
    DEF DirectoryInv, TreeKept, ParentsExist, LeadersExist, People!SiblingsDiffer,
        People!NoDuplicate, People!Row
  <2>6. q.row.position \in People!Row(active) \cup {NoRow}
    BY <1>1, <1>5 DEF UserRow, DirectoryInv, DirectoryTypes, People!Row
  <2>7. OrgsExist' /\ PositionsExist'
    BY <1>1, <1>2, <1>5, <2>2, <2>6
    DEF DirectoryInv, DirectoryTypes, OrgsExist, PositionsExist, People!Row
  <2>8. LeftoversExcused'
    <3> SUFFICES ASSUME NEW x \in editing, x.kind = "delete", x.moved,
                        NEW p \in People!Members(x.id)'
                 PROVE  p \in excused'
      BY <1>2 DEF LeftoversExcused
    <3>1. p \in Accounts /\ people'[p].org = x.id /\ people'[p] # NoRow
      BY <2>2 DEF People!Members, People!Row
    <3>2. CASE p = q.id
      <4>1. x.id = o
        BY <1>1, <2>2, <3>1, <3>2
      <4>2. People!UnderDeletion(o)
        BY <4>1 DEF People!UnderDeletion
      <4> QED BY <2>3, <3>2, <4>2
    <3>3. CASE p # q.id
      <4>1. people[p] # NoRow /\ people[p].org = x.id
        BY <2>2, <3>1, <3>3
      <4>2. p \in excused
        BY <3>1, <4>1, MemberFacts DEF DirectoryInv, LeftoversExcused
      <4> QED BY <2>3, <3>3, <4>2
    <3> QED BY <3>2, <3>3
  <2>9. People!MembersAreMoved'
    <3> SUFFICES ASSUME NEW p \in People!Row(people)', people'[p].org = NoRow
                 PROVE  p \in excused'
      BY DEF People!MembersAreMoved
    <3>1. p \in Accounts /\ people'[p] # NoRow
      BY <2>2 DEF People!Row
    <3>2. p # q.id /\ people[p] # NoRow /\ people[p].org = NoRow
      BY <1>1, <2>1, <2>2, <3>1
    <3>3. p \in excused
      BY <3>1, <3>2 DEF DirectoryInv, DirectoryTypes, People!MembersAreMoved, People!Row
    <3> QED BY <2>3, <3>2, <3>3
  <2> QED BY <1>3, <2>4, <2>5, <2>7, <2>8, <2>9 DEF DirectoryInv
<1> QED BY <1>2, <1>4, <1>5

LEMMA SignupKeeps ==
    ASSUME DirectoryInv, NEW p \in Accounts, People!Signup(p)
    PROVE  DirectoryInv'
<1> USE DirectoryAssumption
<1> DEFINE row == [org |-> NoRow, position |-> NoRow, status |-> "active"]
<1>1. requests' \in 0 .. MaxPeopleEdits
    BY DirectoryRequest DEF People!Signup
<1>2. /\ people[p] = NoRow /\ people' = [people EXCEPT ![p] = row]
      /\ excused' = excused \cup {p}
      /\ UNCHANGED <<orgs, active, editing>>
    BY DEF People!Signup
<1>3. row \in UserRow
    BY DEF UserRow, People!Statuses
<1>4. row.org = NoRow /\ row.position = NoRow /\ row # NoRow
    BY <1>3
<1> HIDE DEF row
<1>5. /\ people' \in [Accounts -> {NoRow} \cup UserRow]
      /\ People!Row(people)' = People!Row(people) \cup {p}
      /\ \A x \in Accounts : people'[x] = IF x = p THEN row ELSE people[x]
    BY <1>2, <1>3, <1>4 DEF DirectoryInv, DirectoryTypes, People!Row
<1>6. DirectoryTypes'
    BY <1>1, <1>2, <1>5 DEF DirectoryInv, DirectoryTypes
<1>7. TreeKept' /\ LeadersExist' /\ BucketsApart'
    BY <1>2, <1>5
    DEF DirectoryInv, TreeKept, ParentsExist, LeadersExist, BucketsApart, People!SiblingsDiffer,
        People!NoDuplicate, People!Row
<1>8. OrgsExist' /\ PositionsExist' /\ People!MembersAreMoved'
    BY <1>2, <1>4, <1>5
    DEF DirectoryInv, DirectoryTypes, OrgsExist, PositionsExist, People!MembersAreMoved, People!Row
<1>9. LeftoversExcused'
  <2> SUFFICES ASSUME NEW x \in editing, x.kind = "delete", x.moved,
                      NEW m \in People!Members(x.id)'
               PROVE  m \in excused'
    BY <1>2 DEF LeftoversExcused
  <2>1. m \in Accounts /\ people'[m].org = x.id /\ people'[m] # NoRow
    BY <1>5 DEF People!Members, People!Row
  <2>2. m # p => m \in excused
    BY <1>5, <2>1, MemberFacts DEF DirectoryInv, LeftoversExcused
  <2> QED BY <1>2, <2>2
<1> QED BY <1>6, <1>7, <1>8, <1>9 DEF DirectoryInv

LEMMA DeleteUsersKeeps ==
    ASSUME DirectoryInv, NEW by \in Accounts, NEW ps \in SUBSET Accounts,
           People!DeleteUsers(by, ps)
    PROVE  DirectoryInv'
<1> USE DirectoryAssumption
<1>1. requests' \in 0 .. MaxPeopleEdits
    BY DirectoryRequest DEF People!DeleteUsers
<1>2. /\ people' = [p \in Accounts |-> IF p \in ps THEN NoRow ELSE people[p]]
      /\ orgs' = [o \in People!Orgs |-> IF orgs[o] # NoRow /\ orgs[o].leader \in ps
                                        THEN [orgs[o] EXCEPT !.leader = NoRow] ELSE orgs[o]]
      /\ excused' = excused \ ps
      /\ UNCHANGED <<active, editing>>
    BY DEF People!DeleteUsers
<1>3. /\ people' \in [Accounts -> {NoRow} \cup UserRow]
      /\ People!Row(people)' = People!Row(people) \ ps
      /\ \A p \in People!Row(people)' : people'[p] = people[p]
    BY <1>2 DEF DirectoryInv, DirectoryTypes, People!Row
<1>4. ASSUME NEW o \in People!Orgs
      PROVE  IF orgs[o] = NoRow THEN orgs'[o] = NoRow
             ELSE /\ orgs'[o] \in OrgRow
                  /\ orgs'[o].parent = orgs[o].parent /\ orgs'[o].name = orgs[o].name
                  /\ orgs'[o].bucket = orgs[o].bucket
                  /\ orgs'[o].leader = IF orgs[o].leader \in ps THEN NoRow ELSE orgs[o].leader
  <2>1. orgs'[o] = IF orgs[o] # NoRow /\ orgs[o].leader \in ps
                   THEN [orgs[o] EXCEPT !.leader = NoRow] ELSE orgs[o]
    BY <1>2
  <2>2. orgs[o] # NoRow => orgs[o] \in OrgRow
    BY DEF DirectoryInv, DirectoryTypes
  <2> QED BY <2>1, <2>2 DEF OrgRow
<1>5. /\ orgs' \in [People!Orgs -> {NoRow} \cup OrgRow]
      /\ People!Row(orgs)' = People!Row(orgs) /\ People!Row(orgs) \subseteq People!Orgs
      /\ \A o \in People!Orgs : orgs'[o] = NoRow <=> orgs[o] = NoRow
  <2>1. orgs' \in [People!Orgs -> {NoRow} \cup OrgRow]
    BY <1>2, <1>4
  <2>2. \A o \in People!Orgs : orgs'[o] = NoRow <=> orgs[o] = NoRow
    BY <1>4
  <2> QED BY <2>1, <2>2 DEF DirectoryInv, DirectoryTypes, People!Row
<1>6. DirectoryTypes'
    BY <1>1, <1>2, <1>3, <1>5 DEF DirectoryInv, DirectoryTypes
<1>7. ParentsExist' /\ LeadersExist'
    BY <1>3, <1>4, <1>5
    DEF DirectoryInv, DirectoryTypes, TreeKept, ParentsExist, LeadersExist, People!Row
<1>8. People!SiblingsDiffer'
    BY <1>4, <1>5
    DEF DirectoryInv, DirectoryTypes, TreeKept, People!SiblingsDiffer, People!NoDuplicate, People!Row
<1>9. OrgsExist' /\ PositionsExist' /\ People!MembersAreMoved'
    BY <1>2, <1>3, <1>5
    DEF DirectoryInv, DirectoryTypes, OrgsExist, PositionsExist, People!MembersAreMoved, People!Row
<1>10. BucketsApart'
  <2>1. \A q \in editing : q.kind = "delete" => q.id \in People!Orgs
    BY DEF DirectoryInv, DirectoryTypes, OrgEdit, UserEdit, Deletion
  <2> QED BY <1>2, <1>4, <2>1 DEF DirectoryInv, BucketsApart
<1>11. LeftoversExcused'
  <2>1. \A o : People!Members(o)' \subseteq People!Members(o) \ ps
    BY <1>3 DEF People!Members
  <2> QED BY <1>2, <2>1 DEF DirectoryInv, LeftoversExcused
<1> QED BY <1>6, <1>7, <1>8, <1>9, <1>10, <1>11 DEF DirectoryInv, TreeKept

\* Columns other than the organization may change.
LEMMA ColumnsOfUsersKeep ==
    ASSUME DirectoryInv, people' \in [Accounts -> {NoRow} \cup UserRow],
           \A p \in Accounts : IF people[p] = NoRow THEN people'[p] = NoRow
                               ELSE /\ people'[p] # NoRow /\ people'[p].org = people[p].org
                                    /\ people'[p].position \in People!Row(active)' \cup {NoRow},
           active' \in [Positions -> {NoRow} \cup BOOLEAN],
           requests' \in 0 .. MaxPeopleEdits,
           UNCHANGED <<orgs, editing, excused>>
    PROVE  DirectoryInv'
<1>1. People!Row(people)' = People!Row(people) /\ People!Row(people) \subseteq Accounts
    BY DEF DirectoryInv, DirectoryTypes, People!Row
<1>2. DirectoryTypes'
    BY DEF DirectoryInv, DirectoryTypes
<1>3. TreeKept' /\ LeadersExist' /\ BucketsApart'
    BY <1>1
    DEF DirectoryInv, TreeKept, ParentsExist, LeadersExist, BucketsApart, People!SiblingsDiffer,
        People!NoDuplicate, People!Row
<1>4. \A p \in People!Row(people) : people'[p].org = people[p].org
    BY <1>1 DEF People!Row
<1>5. OrgsExist' /\ PositionsExist' /\ People!MembersAreMoved'
  <2>1. OrgsExist' /\ People!MembersAreMoved'
    BY <1>1, <1>4 DEF DirectoryInv, OrgsExist, People!MembersAreMoved, People!Row
  <2>2. PositionsExist'
    BY <1>1 DEF PositionsExist, People!Row
  <2> QED BY <2>1, <2>2
<1>6. LeftoversExcused'
    BY <1>1, <1>4 DEF DirectoryInv, LeftoversExcused, People!Members
<1> QED BY <1>2, <1>3, <1>5, <1>6 DEF DirectoryInv

LEMMA SwitchLockKeeps ==
    ASSUME DirectoryInv, NEW by \in Accounts, NEW ps \in SUBSET Accounts,
           NEW from \in People!Statuses, NEW to \in People!Statuses,
           People!SwitchLock(by, ps, from, to)
    PROVE  DirectoryInv'
<1> USE DirectoryAssumption
<1>1. requests' \in 0 .. MaxPeopleEdits
    BY DirectoryRequest DEF People!SwitchLock
<1>2. /\ people' = [p \in Accounts |->
                      IF p \in ps \cap People!Row(people) /\ people[p].status = from
                      THEN [people[p] EXCEPT !.status = to] ELSE people[p]]
      /\ UNCHANGED <<orgs, active, editing, excused>>
    BY DEF People!SwitchLock
<1>3. ASSUME NEW p \in Accounts
      PROVE  IF people[p] = NoRow THEN people'[p] = NoRow
             ELSE /\ people'[p] \in UserRow /\ people'[p].org = people[p].org
                  /\ people'[p].position \in People!Row(active)' \cup {NoRow}
  <2>1. people'[p] = IF p \in ps \cap People!Row(people) /\ people[p].status = from
                     THEN [people[p] EXCEPT !.status = to] ELSE people[p]
    BY <1>2
  <2>2. people[p] # NoRow => /\ people[p] \in UserRow
                             /\ people[p].position \in People!Row(active) \cup {NoRow}
    BY DEF DirectoryInv, DirectoryTypes, PositionsExist, People!Row
  <2>3. people[p] = NoRow => people'[p] = NoRow
    BY <2>1 DEF People!Row
  <2>4. People!Row(active)' = People!Row(active)
    BY <1>2 DEF People!Row
  <2> QED BY <2>1, <2>2, <2>3, <2>4 DEF UserRow
<1>4. people' \in [Accounts -> {NoRow} \cup UserRow]
    BY <1>2, <1>3
<1>5. active' \in [Positions -> {NoRow} \cup BOOLEAN]
    BY <1>2 DEF DirectoryInv, DirectoryTypes
<1> QED BY <1>1, <1>2, <1>3, <1>4, <1>5, ColumnsOfUsersKeep

LEMMA SavePositionKeeps ==
    ASSUME DirectoryInv, NEW x \in Positions, NEW isActive \in BOOLEAN,
           People!SavePosition(x, isActive)
    PROVE  DirectoryInv'
<1> USE DirectoryAssumption
<1>1. requests' \in 0 .. MaxPeopleEdits
    BY DirectoryRequest DEF People!SavePosition
<1>2. /\ active' = [active EXCEPT ![x] = isActive]
      /\ UNCHANGED <<orgs, people, editing, excused>>
    BY DEF People!SavePosition
<1>3. active' \in [Positions -> {NoRow} \cup BOOLEAN]
      /\ People!Row(active) \subseteq People!Row(active)'
    BY <1>2 DEF DirectoryInv, DirectoryTypes, People!Row
<1>4. ASSUME NEW p \in Accounts
      PROVE  IF people[p] = NoRow THEN people'[p] = NoRow
             ELSE /\ people'[p] # NoRow /\ people'[p].org = people[p].org
                  /\ people'[p].position \in People!Row(active)' \cup {NoRow}
    BY <1>2, <1>3 DEF DirectoryInv, DirectoryTypes, PositionsExist, People!Row
<1>5. people' \in [Accounts -> {NoRow} \cup UserRow]
    BY <1>2 DEF DirectoryInv, DirectoryTypes
<1> QED BY <1>1, <1>2, <1>3, <1>4, <1>5, ColumnsOfUsersKeep

LEMMA DeletePositionsKeeps ==
    ASSUME DirectoryInv, NEW xs \in SUBSET Positions, People!DeletePositions(xs)
    PROVE  DirectoryInv'
<1> USE DirectoryAssumption
<1>1. requests' \in 0 .. MaxPeopleEdits
    BY DirectoryRequest DEF People!DeletePositions
<1>2. /\ active' = [x \in Positions |-> IF x \in xs THEN NoRow ELSE active[x]]
      /\ people' = [p \in Accounts |-> IF people[p] # NoRow /\ people[p].position \in xs
                                       THEN [people[p] EXCEPT !.position = NoRow] ELSE people[p]]
      /\ UNCHANGED <<orgs, editing, excused>>
    BY DEF People!DeletePositions
<1>3. active' \in [Positions -> {NoRow} \cup BOOLEAN]
      /\ People!Row(active)' = People!Row(active) \ xs
    BY <1>2 DEF DirectoryInv, DirectoryTypes, People!Row
<1>4. ASSUME NEW p \in Accounts
      PROVE  IF people[p] = NoRow THEN people'[p] = NoRow
             ELSE /\ people'[p] \in UserRow /\ people'[p].org = people[p].org
                  /\ people'[p].position \in People!Row(active)' \cup {NoRow}
  <2>1. people'[p] = IF people[p] # NoRow /\ people[p].position \in xs
                     THEN [people[p] EXCEPT !.position = NoRow] ELSE people[p]
    BY <1>2
  <2>2. people[p] # NoRow => /\ people[p] \in UserRow
                             /\ people[p].position \in People!Row(active) \cup {NoRow}
    BY DEF DirectoryInv, DirectoryTypes, PositionsExist, People!Row
  <2>3. CASE people[p] # NoRow /\ people[p].position \in xs
    BY <2>1, <2>2, <2>3 DEF UserRow
  <2>4. CASE ~(people[p] # NoRow /\ people[p].position \in xs)
    BY <1>3, <2>1, <2>2, <2>4
  <2> QED BY <2>3, <2>4
<1>5. people' \in [Accounts -> {NoRow} \cup UserRow]
    BY <1>2, <1>4
<1> QED BY <1>1, <1>2, <1>3, <1>4, <1>5, ColumnsOfUsersKeep

LEMMA DirectoryStep == DirectoryInv /\ [People!Next]_peopleVars => DirectoryInv'
<1> SUFFICES ASSUME DirectoryInv, [People!Next]_peopleVars PROVE DirectoryInv'
    OBVIOUS
<1>1. CASE UNCHANGED peopleVars
    BY <1>1
    DEF peopleVars, DirectoryInv, DirectoryTypes, TreeKept, ParentsExist, LeadersExist,
        OrgsExist, PositionsExist, BucketsApart, LeftoversExcused, People!SiblingsDiffer,
        People!NoDuplicate, People!MembersAreMoved, People!Members, People!Row
<1>2. CASE People!Edits
  <2>1. ASSUME NEW p \in Accounts, NEW org \in People!Orgs, NEW x \in Positions \cup {NoRow},
               NEW s \in People!Statuses,
               People!OpenUser(p, [org |-> org, position |-> x, status |-> s])
        PROVE  DirectoryInv'
    <3>1. [org |-> org, position |-> x, status |-> s] \in UserRow
      BY DEF UserRow
    <3> QED BY <2>1, <3>1, OpenUserKeeps
  <2>2. "active" \in People!Statuses /\ "locked" \in People!Statuses
    BY DEF People!Statuses
  <2> QED
    BY <1>2, <2>1, <2>2, OpenOrgKeeps, OpenDeleteKeeps, AssignKeeps, RemoveKeeps, SetLeaderKeeps,
       SignupKeeps, DeleteUsersKeeps, SwitchLockKeeps, SavePositionKeeps, DeletePositionsKeeps
    DEF People!Edits
<1>3. ASSUME NEW q \in editing,
             \/ q.kind = "org" /\ People!SaveOrg(q)
             \/ q.kind = "user" /\ People!SaveUser(q)
             \/ People!MoveMembers(q)
             \/ People!DeleteOrg(q)
      PROVE  DirectoryInv'
    BY <1>3, SaveOrgKeeps, SaveUserKeeps, MoveMembersKeeps, DeleteOrgKeeps
<1> QED BY <1>1, <1>2, <1>3 DEF People!Next

\* No two departments under one parent have one name, no reference dangles, and the
\* members of a deleted department are moved, for trees of any shape and requests
\* that overlap in any way (backoffice/models.py:93-98,
\* views/organizations.py:122).
THEOREM DirectoryIsSound == Spec => []DirectoryHolds
<1>1. Init => DirectoryInv
    BY DirectoryInit DEF Init
<1>2. DirectoryInv /\ [Next]_backOfficeVars => DirectoryInv'
    BY DirectoryStep DEF Next, EditPeople, EditTables, EditSite, Train, backOfficeVars, peopleVars
<1>3. DirectoryInv => DirectoryHolds
  <2> SUFFICES ASSUME DirectoryInv PROVE DirectoryHolds
    OBVIOUS
  <2>1. \A o \in People!Row(orgs) : /\ orgs[o].parent \in People!Row(orgs) \cup {NoRow}
                                    /\ orgs[o].leader \in People!Row(people) \cup {NoRow}
                                    /\ orgs[o].bucket \in BOOLEAN
    BY DEF DirectoryInv, DirectoryTypes, TreeKept, ParentsExist, LeadersExist, OrgRow, People!Row
  <2>2. \A p \in People!Row(people) : /\ people[p].org \in People!Row(orgs) \cup {NoRow}
                                      /\ people[p].position \in People!Row(active) \cup {NoRow}
                                      /\ people[p].status \in People!Statuses
    BY DEF DirectoryInv, DirectoryTypes, OrgsExist, PositionsExist, UserRow, People!Row
  <2>3. /\ \A x \in People!Row(active) : active[x] \in BOOLEAN
        /\ \A q \in editing : q.kind \in {"org", "delete", "user"}
        /\ excused \subseteq Accounts /\ requests \in 0 .. MaxPeopleEdits
    BY DEF DirectoryInv, DirectoryTypes, OrgEdit, UserEdit, Deletion, People!Row
  <2> QED BY <2>1, <2>2, <2>3 DEF DirectoryHolds, DirectoryInv, TreeKept, People!TypeOK
<1> QED BY <1>1, <1>2, <1>3, PTL DEF Spec

=============================================================================

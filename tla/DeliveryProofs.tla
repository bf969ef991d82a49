--------------------------- MODULE DeliveryProofs ---------------------------
(***************************************************************************)
(* What Delivery promises of its four parts, for all values of the          *)
(* constants: an inductive invariant for each of them.                      *)
(***************************************************************************)
EXTENDS Delivery, FiniteSetTheorems, TLAPS

-----------------------------------------------------------------------------
(* ExternalNotify: a report has at most one task, and its stage says which   *)
(* channels it may still post to.                                            *)

Ids == 1 .. Len(reports)

Msg(id, channel) == [id |-> id, channel |-> channel]

ExternalTypes ==
    /\ webhooks \subseteq {"slack", "discord"}
    /\ reports \in Seq(Happenings)
    /\ Len(reports) <= MaxReports
    /\ queued \subseteq Ids
    /\ tasks \subseteq [id : Ids, stage : {"slack", "discord", "done"}]
    /\ finished \subseteq Ids
    /\ posted \in [External!Messages -> {0, 1}]

\* A report that waits has no task yet.
OneTaskEach ==
    /\ \A s, t \in tasks : s.id = t.id => s = t
    /\ \A t \in tasks : t.id \notin queued

\* What is still to come: nothing was posted for a report that is new or waits, or
\* to a channel its task has not come to.
NotYetPosted ==
    /\ \A id \in 1 .. MaxReports, channel \in {"slack", "discord"} :
         id \notin Ids \/ id \in queued => posted[Msg(id, channel)] = 0
    /\ \A t \in tasks :
         /\ t.stage = "slack" => posted[Msg(t.id, "slack")] = 0
         /\ t.stage # "done" => posted[Msg(t.id, "discord")] = 0

Told(id, channel) == dryRun \/ posted[Msg(id, channel)] = 1 \/ Msg(id, channel) \in failed

\* What is behind: a channel the task has passed was told, or refused.
PassedAreTold ==
    /\ \A t \in tasks :
         /\ t.stage # "slack" /\ "slack" \in webhooks => Told(t.id, "slack")
         /\ t.stage = "done" /\ "discord" \in webhooks => Told(t.id, "discord")
    /\ \A id \in finished, channel \in webhooks : Told(id, channel)

ExternalInv == ExternalTypes /\ OneTaskEach /\ NotYetPosted /\ PassedAreTold

LEMMA ExternalInit == External!Init => ExternalInv
<1> SUFFICES ASSUME External!Init PROVE ExternalInv
    OBVIOUS
<1>1. /\ reports = <<>> /\ Len(reports) = 0 /\ queued = {} /\ tasks = {} /\ finished = {}
      /\ posted = [m \in External!Messages |-> 0]
      /\ webhooks \subseteq {"slack", "discord"}
    BY DEF External!Init
<1>2. ExternalTypes
    BY <1>1, ReportAssumption DEF ExternalTypes, Ids
<1>3. NotYetPosted
    BY <1>1 DEF NotYetPosted, Msg, External!Messages
<1> QED BY <1>1, <1>2, <1>3 DEF ExternalInv, OneTaskEach, PassedAreTold

\* A report is added, and waits or not.
LEMMA ReportKeeps ==
    ASSUME ExternalInv, NEW h \in Happenings, NEW fault, External!Report(h, fault)
    PROVE  ExternalInv'
<1> USE ReportAssumption
<1>1. /\ reports' = Append(reports, h)
      /\ Len(reports) + 1 <= MaxReports
      /\ queued' \subseteq queued \cup {Len(reports) + 1}
      /\ UNCHANGED <<webhooks, dryRun, tasks, posted, failed, finished>>
    BY DEF External!Report, External!NewId
<1>2. Len(reports') = Len(reports) + 1 /\ reports' \in Seq(Happenings) /\ Len(reports) \in Nat
    BY <1>1 DEF ExternalInv, ExternalTypes
<1>3. Ids' = Ids \cup {Len(reports) + 1} /\ Len(reports) + 1 \notin Ids
    BY <1>2 DEF Ids
<1>4. ExternalTypes'
    BY <1>1, <1>2, <1>3 DEF ExternalInv, ExternalTypes
<1>5. OneTaskEach'
    BY <1>1, <1>3 DEF ExternalInv, ExternalTypes, OneTaskEach
<1>6. NotYetPosted'
    BY <1>1, <1>2, <1>3 DEF ExternalInv, ExternalTypes, NotYetPosted, Msg
<1>7. PassedAreTold'
    BY <1>1 DEF ExternalInv, PassedAreTold, Told, Msg
<1> QED BY <1>4, <1>5, <1>6, <1>7 DEF ExternalInv

LEMMA StartKeeps ==
    ASSUME ExternalInv, NEW id \in queued, External!Start(id)
    PROVE  ExternalInv'
<1> DEFINE t == [id |-> id, stage |-> "slack"]
<1>1. /\ queued' = queued \ {id} /\ tasks' = tasks \cup {t}
      /\ UNCHANGED <<webhooks, dryRun, reports, posted, failed, finished>>
    BY DEF External!Start
<1>2. t \in [id : Ids, stage : {"slack", "discord", "done"}] /\ t.id = id /\ t.stage = "slack"
    BY DEF ExternalInv, ExternalTypes
<1> HIDE DEF t
<1>3. Ids' = Ids /\ id \in 1 .. MaxReports
    BY <1>1, ReportAssumption DEF ExternalInv, ExternalTypes, Ids
<1>4. ExternalTypes'
    BY <1>1, <1>2, <1>3 DEF ExternalInv, ExternalTypes
<1>5. OneTaskEach'
    BY <1>1, <1>2 DEF ExternalInv, OneTaskEach
<1>6. NotYetPosted'
    BY <1>1, <1>2, <1>3 DEF ExternalInv, NotYetPosted, Msg
<1>7. PassedAreTold'
    BY <1>1, <1>2 DEF ExternalInv, PassedAreTold, Told, Msg
<1> QED BY <1>4, <1>5, <1>6, <1>7 DEF ExternalInv

\* The task goes on to the next stage, having posted to the channel of this one, or
\* not.
LEMMA AdvanceKeeps ==
    ASSUME ExternalInv, NEW t \in tasks, t.stage # "done",
           tasks' = External!Advance(t),
           posted' \in {posted, External!Reaches(t)},
           failed \subseteq failed',
           UNCHANGED <<webhooks, dryRun, reports, queued, finished>>,
           t.stage \in webhooks => Told(t.id, t.stage)'
    PROVE  ExternalInv'
<1> DEFINE u == [t EXCEPT !.stage = External!After(@)]
<1>1. /\ t.id \in Ids /\ t.stage \in {"slack", "discord"}
      /\ t \in [id : Ids, stage : {"slack", "discord", "done"}]
      /\ Ids \subseteq 1 .. MaxReports /\ Ids' = Ids
    BY ReportAssumption DEF ExternalInv, ExternalTypes, Ids
<1>2. /\ u \in [id : Ids, stage : {"slack", "discord", "done"}] /\ u.id = t.id
      /\ u.stage = IF t.stage = "slack" THEN "discord" ELSE "done"
      /\ tasks' = (tasks \ {t}) \cup {u}
    BY <1>1 DEF External!After, External!Advance
<1> HIDE DEF u
<1>3. Msg(t.id, t.stage) \in External!Messages /\ posted[Msg(t.id, t.stage)] = 0
    BY <1>1 DEF ExternalInv, NotYetPosted, External!Messages, Msg
<1>4. \/ posted' = posted
      \/ posted' = [posted EXCEPT ![Msg(t.id, t.stage)] = 1]
    BY <1>3 DEF External!Reaches, Msg
<1>5. \A id \in 1 .. MaxReports, channel \in {"slack", "discord"} :
        /\ Msg(id, channel) \in External!Messages
        /\ \/ posted'[Msg(id, channel)] = posted[Msg(id, channel)]
           \/ id = t.id /\ channel = t.stage /\ posted'[Msg(id, channel)] = 1
  <2> SUFFICES ASSUME NEW id \in 1 .. MaxReports, NEW channel \in {"slack", "discord"}
               PROVE  /\ Msg(id, channel) \in External!Messages
                      /\ \/ posted'[Msg(id, channel)] = posted[Msg(id, channel)]
                         \/ id = t.id /\ channel = t.stage /\ posted'[Msg(id, channel)] = 1
      OBVIOUS
  <2>1. Msg(id, channel) \in External!Messages
      BY DEF Msg, External!Messages
  <2>2. Msg(id, channel) = Msg(t.id, t.stage) => id = t.id /\ channel = t.stage
      BY DEF Msg
  <2>3. posted \in [External!Messages -> {0, 1}]
      BY DEF ExternalInv, ExternalTypes
  <2>4. CASE Msg(id, channel) = Msg(t.id, t.stage)
      BY <1>4, <2>1, <2>2, <2>3, <2>4
  <2>5. CASE Msg(id, channel) # Msg(t.id, t.stage)
      BY <1>4, <2>1, <2>3, <2>5
  <2> QED BY <2>4, <2>5
<1>6. ExternalTypes'
    BY <1>1, <1>2, <1>3, <1>4 DEF ExternalInv, ExternalTypes
<1>7. OneTaskEach'
    BY <1>2 DEF ExternalInv, OneTaskEach
<1>8. NotYetPosted'
  <2>1. ASSUME NEW id \in 1 .. MaxReports, NEW channel \in {"slack", "discord"},
               id \notin Ids \/ id \in queued
        PROVE  posted'[Msg(id, channel)] = 0
      BY <1>1, <1>5, <2>1 DEF ExternalInv, NotYetPosted, OneTaskEach
  <2>2. ASSUME NEW s \in tasks', s # u
        PROVE  /\ s.stage = "slack" => posted'[Msg(s.id, "slack")] = 0
               /\ s.stage # "done" => posted'[Msg(s.id, "discord")] = 0
    <3>1. s \in tasks /\ s.id # t.id /\ s.id \in 1 .. MaxReports
        BY <1>1, <1>2, <2>2 DEF ExternalInv, ExternalTypes, OneTaskEach
    <3> QED BY <1>5, <3>1 DEF ExternalInv, NotYetPosted
  <2>3. /\ u.stage = "slack" => posted'[Msg(u.id, "slack")] = 0
        /\ u.stage # "done" => posted'[Msg(u.id, "discord")] = 0
      BY <1>1, <1>2, <1>5 DEF ExternalInv, NotYetPosted
  <2> QED BY <1>1, <2>1, <2>2, <2>3 DEF NotYetPosted, Msg
<1>9. ASSUME NEW id \in 1 .. MaxReports, NEW channel \in {"slack", "discord"},
             Told(id, channel)
      PROVE  Told(id, channel)'
    BY <1>5, <1>9 DEF Told, Msg
<1>10. PassedAreTold'
  <2>1. ASSUME NEW s \in tasks', s # u
        PROVE  /\ s.stage # "slack" /\ "slack" \in webhooks => Told(s.id, "slack")'
               /\ s.stage = "done" /\ "discord" \in webhooks => Told(s.id, "discord")'
    <3>1. s \in tasks /\ s.id \in 1 .. MaxReports
        BY <1>1, <1>2, <2>1 DEF ExternalInv, ExternalTypes
    <3> QED BY <1>9, <3>1 DEF ExternalInv, PassedAreTold
  <2>2. /\ u.stage # "slack" /\ "slack" \in webhooks => Told(u.id, "slack")'
        /\ u.stage = "done" /\ "discord" \in webhooks => Told(u.id, "discord")'
    <3>1. CASE t.stage = "slack"
        BY <1>2, <3>1
    <3>2. CASE t.stage = "discord"
        BY <1>1, <1>2, <1>9, <3>2 DEF ExternalInv, PassedAreTold
    <3> QED BY <1>1, <3>1, <3>2
  <2>3. ASSUME NEW id \in finished, NEW channel \in webhooks PROVE Told(id, channel)'
      BY <1>1, <1>9 DEF ExternalInv, ExternalTypes, PassedAreTold
  <2> QED BY <2>1, <2>2, <2>3 DEF PassedAreTold, Told, Msg
<1> QED BY <1>6, <1>7, <1>8, <1>10 DEF ExternalInv

LEMMA TaskKeeps ==
    ASSUME ExternalInv, NEW t \in tasks,
           \/ External!Skip(t) \/ External!FailToPost(t) \/ External!Deliver(t)
           \/ External!Finish(t) \/ External!Lose(t)
    PROVE  ExternalInv'
<1>1. t.id \in Ids /\ t.stage \in {"slack", "discord", "done"} /\ Ids \subseteq 1 .. MaxReports
    BY ReportAssumption DEF ExternalInv, ExternalTypes, Ids
<1>2. CASE External!Skip(t)
    BY <1>2, AdvanceKeeps DEF External!Skip, Told, Msg
<1>3. CASE External!FailToPost(t)
    BY <1>3, AdvanceKeeps DEF External!FailToPost, External!Post, Told, Msg, ExternalInv, ExternalTypes
<1>4. CASE External!Deliver(t)
  <2>1. t.stage \in {"slack", "discord"} /\ posted' = External!Reaches(t)
      BY <1>4 DEF External!Deliver, External!Post, ExternalInv, ExternalTypes
  <2>2. Msg(t.id, t.stage) \in External!Messages /\ posted[Msg(t.id, t.stage)] = 0
      BY <1>1, <2>1 DEF ExternalInv, NotYetPosted, External!Messages, Msg
  <2>3. posted'[Msg(t.id, t.stage)] = 1
      BY <2>1, <2>2 DEF External!Reaches, ExternalInv, ExternalTypes, Msg
  <2> QED BY <1>4, <2>1, <2>3, AdvanceKeeps DEF External!Deliver, Told, Msg
<1>5. CASE External!Finish(t) \/ External!Lose(t)
  <2>1. /\ tasks' = tasks \ {t}
        /\ finished' \subseteq finished \cup {t.id}
        /\ t.stage = "done" \/ finished' = finished
        /\ UNCHANGED <<webhooks, dryRun, reports, queued, posted, failed>>
      BY <1>5 DEF External!Finish, External!Lose
  <2>2. ExternalTypes' /\ OneTaskEach' /\ NotYetPosted'
      BY <1>1, <2>1 DEF ExternalInv, ExternalTypes, OneTaskEach, NotYetPosted, Ids, Msg
  <2>3. PassedAreTold'
      BY <2>1 DEF ExternalInv, ExternalTypes, PassedAreTold, Told, Msg
  <2> QED BY <2>2, <2>3 DEF ExternalInv
<1> QED BY <1>2, <1>3, <1>4, <1>5

LEMMA ExternalStep == ExternalInv /\ [External!Next]_externalVars => ExternalInv'
<1> SUFFICES ASSUME ExternalInv, [External!Next]_externalVars PROVE ExternalInv'
    OBVIOUS
<1>1. CASE UNCHANGED externalVars
    BY <1>1 DEF externalVars, ExternalInv, ExternalTypes, OneTaskEach, NotYetPosted, PassedAreTold,
                Told, Ids, Msg
<1>2. ASSUME NEW h \in Happenings, External!Emit(h) \/ External!Enter(h) PROVE ExternalInv'
    BY <1>2, ReportKeeps DEF External!Emit, External!Enter
<1> QED BY <1>1, <1>2, StartKeeps, TaskKeeps DEF External!Next

\* Nobody is told the same thing twice on a channel, and a channel that was not told
\* has failed itself, for any number of reports, outages and lost workers
\* (alerts/tasks.py:19-26, alerts/notifiers.py:120-121).
THEOREM ChannelsStayApart == Spec => []ChannelsAreApart
<1>1. Init => ExternalInv
    BY ExternalInit DEF Init
<1>2. ExternalInv /\ [Next]_deliveryVars => ExternalInv'
    BY ExternalStep
    DEF Next, TellOfAlarms, TellOfNotices, TellOutside, KeepRows, deliveryVars, externalVars
<1>3. ExternalInv => ChannelsAreApart
  <2> SUFFICES ASSUME ExternalInv PROVE ChannelsAreApart
      OBVIOUS
  <2>1. Ids \subseteq 1 .. MaxReports /\ DOMAIN reports = Ids
      BY ReportAssumption DEF ExternalInv, ExternalTypes, Ids
  <2>2. ASSUME NEW id \in 1 .. MaxReports, NEW channel \in webhooks
        PROVE  /\ External!Copies(id, channel) <= 1
               /\ External!Copies(id, channel) = posted[Msg(id, channel)]
    <3>1. Msg(id, channel) \in External!Messages
        BY DEF ExternalInv, ExternalTypes, External!Messages, Msg
    <3>2. posted[Msg(id, channel)] \in {0, 1}
        BY <3>1 DEF ExternalInv, ExternalTypes
    <3> QED BY <3>2 DEF External!Copies, Msg
  <2>3. External!AtMostOneMessage
    <3> SUFFICES ASSUME NEW id \in DOMAIN reports, NEW channel \in webhooks
                 PROVE  External!Copies(id, channel) <= 1
        BY DEF External!AtMostOneMessage
    <3> QED BY <2>1, <2>2
  <2>4. External!FailuresAreIsolated
      BY <2>1, <2>2 DEF External!FailuresAreIsolated, ExternalInv, ExternalTypes, PassedAreTold,
                        Told, Msg
  <2> QED BY <2>3, <2>4 DEF ChannelsAreApart
<1> QED BY <1>1, <1>2, <1>3, PTL DEF Spec

-----------------------------------------------------------------------------
(* Retention: what the file of a job that lost nothing holds of the table    *)
(* while the job writes and deletes, and of what it has deleted.             *)

Task ==
    [kind : {"backup", "init"}, stage : {"queued", "writing", "deleting", "ended"},
     file : Rows!Seconds, seen : Nat, wiped : SUBSET Nat, spoilt : BOOLEAN]

RetentionTypes ==
    /\ arrived \in Nat
    /\ DOMAIN table \subseteq 1 .. arrived
    /\ second \in Rows!Seconds
    /\ backups \in [Rows!Seconds -> {NoRow} \cup FileRow]
    /\ jobs \in Seq(Task)

\* The page and the clean-up write different columns.
ColumnsApart ==
    policy = [days |-> chosen.days, active |-> chosen.active, lastRun |-> policy.lastRun]

\* The file of j holds row r, or the row came too late for it.
Holds(j, files, r) == r > j.seen \/ (files[j.file] # NoRow /\ r \in files[j.file].rows)

Complete(j, files) == files[j.file] # NoRow /\ files[j.file].complete

Sound(j, files, ids) ==
    /\ j.stage = "queued" => j.wiped = {}
    /\ ~j.spoilt =>
         /\ j.stage = "writing" => j.wiped = {}
         /\ j.stage \in {"writing", "deleting"} => \A r \in ids : Holds(j, files, r)
         /\ j.stage = "deleting" => Complete(j, files)
         /\ \A r \in j.wiped : r > j.seen \/ (Holds(j, files, r) /\ Complete(j, files))

JobsSound ==
    \A i \in 1 .. Len(jobs) : jobs[i].seen <= arrived /\ Sound(jobs[i], backups, DOMAIN table)

RetentionInv == RetentionTypes /\ ColumnsApart /\ JobsSound

LEMMA RetentionInit == Rows!Init => RetentionInv
<1> SUFFICES ASSUME Rows!Init PROVE RetentionInv
    OBVIOUS
<1>1. /\ table = <<>> /\ arrived = 0 /\ second = 0 /\ jobs = <<>>
      /\ backups = [s \in Rows!Seconds |-> NoRow]
      /\ chosen = [days |-> policy.days, active |-> policy.active]
    BY DEF Rows!Init
<1>2. policy = [days |-> policy.days, active |-> policy.active, lastRun |-> policy.lastRun]
    BY DEF Rows!Init
<1>3. DOMAIN table = {} /\ Len(jobs) = 0 /\ second \in Rows!Seconds /\ jobs \in Seq(Task)
    BY <1>1, RowAssumption DEF Rows!Seconds
<1> QED
    BY <1>1, <1>2, <1>3 DEF RetentionInv, RetentionTypes, ColumnsApart, JobsSound

\* Of what a job has to hold nothing is lost when rows leave the table, later ones
\* come, and the file keeps its rows.
LEMMA SoundStays ==
    ASSUME NEW j \in Task, NEW files, NEW ids, NEW newFiles, NEW newIds,
           Sound(j, files, ids),
           \A r \in newIds : r \in ids \/ r > j.seen,
           \/ newFiles[j.file] = files[j.file]
           \/ /\ newFiles[j.file] # NoRow /\ newFiles[j.file].complete
              /\ newFiles[j.file].rows = files[j.file].rows
    PROVE  Sound(j, newFiles, newIds)
BY DEF Sound, Holds, Complete

\* A job that is spoilt, or was queued only, has nothing to hold.
LEMMA NothingToHold ==
    ASSUME NEW j \in Task, NEW files, NEW ids,
           j.stage = "queued" \/ j.spoilt,
           j.stage = "queued" => j.wiped = {}
    PROVE  Sound(j, files, ids)
BY DEF Sound, Task

LEMMA TableKeeps ==
    ASSUME RetentionInv, arrived' \in Nat, arrived <= arrived',
           \A r \in DOMAIN table' : r \in DOMAIN table \/ (r = arrived + 1 /\ r = arrived'),
           ColumnsApart',
           UNCHANGED <<backups, second, jobs>>
    PROVE  RetentionInv'
<1>1. RetentionTypes'
    BY DEF RetentionInv, RetentionTypes
<1>2. ASSUME NEW i \in 1 .. Len(jobs)
      PROVE  jobs[i].seen <= arrived' /\ Sound(jobs[i], backups, DOMAIN table')
  <2>1. jobs[i] \in Task /\ jobs[i].seen <= arrived /\ arrived \in Nat
      BY DEF RetentionInv, RetentionTypes, JobsSound
  <2>2. \A r \in DOMAIN table' : r \in DOMAIN table \/ r > jobs[i].seen
      BY <2>1 DEF Task
  <2>3. Sound(jobs[i], backups, DOMAIN table)
      BY DEF RetentionInv, JobsSound
  <2>4. Sound(jobs[i], backups, DOMAIN table')
      BY <2>1, <2>2, <2>3, SoundStays
  <2>5. arrived' \in Nat /\ jobs[i].seen <= arrived'
      BY <2>1 DEF Task
  <2> QED BY <2>4, <2>5
<1> QED BY <1>1, <1>2 DEF RetentionInv, JobsSound

LEMMA RequestKeeps ==
    ASSUME RetentionInv, NEW kind \in {"backup", "init"}, Rows!Request(kind)
    PROVE  RetentionInv'
<1> DEFINE new == [kind |-> kind, stage |-> "queued", file |-> 0, seen |-> 0,
                   wiped |-> {}, spoilt |-> FALSE]
<1>1. /\ jobs' = Append(jobs, new)
      /\ UNCHANGED <<table, policy, chosen, backups, second, arrived>>
    BY DEF Rows!Request
<1>2. new \in Task /\ new.stage = "queued" /\ new.wiped = {} /\ new.seen = 0
    BY RowAssumption DEF Task, Rows!Seconds
<1> HIDE DEF new
<1>3. RetentionTypes' /\ ColumnsApart'
    BY <1>1, <1>2 DEF RetentionInv, RetentionTypes, ColumnsApart
<1>4. ASSUME NEW i \in 1 .. Len(jobs') 
      PROVE  jobs'[i] = new \/ (i \in 1 .. Len(jobs) /\ jobs'[i] = jobs[i])
    BY <1>1, <1>2 DEF RetentionInv, RetentionTypes
<1>5. Sound(new, backups, DOMAIN table) /\ new.seen <= arrived
    BY <1>2, NothingToHold DEF RetentionInv, RetentionTypes
<1> QED BY <1>1, <1>3, <1>4, <1>5 DEF RetentionInv, JobsSound

LEMMA SequenceOf ==
    ASSUME NEW S, NEW n \in Nat, NEW f \in [1 .. n -> S]
    PROVE  f \in Seq(S) /\ Len(f) = n
OBVIOUS

LEMMA JobFacts ==
    ASSUME RetentionInv
    PROVE  /\ jobs \in Seq(Task) /\ Len(jobs) \in Nat /\ Rows!Numbers = 1 .. Len(jobs)
           /\ \A k \in Rows!Numbers : jobs[k] \in Task
           /\ \A k \in Rows!Numbers : jobs[k].seen <= arrived
           /\ \A k \in Rows!Numbers : Sound(jobs[k], backups, DOMAIN table)
           /\ \A k \in Rows!Numbers : jobs[k].stage = "queued" => jobs[k].wiped = {}
BY DEF RetentionInv, RetentionTypes, JobsSound, Sound, Rows!Numbers

LEMMA SpoiltFacts ==
    ASSUME RetentionInv, NEW fs, NEW k \in Rows!Numbers
    PROVE  /\ Rows!SpoiltBy(fs)[k] \in Task
           /\ Rows!SpoiltBy(fs)[k].seen = jobs[k].seen
           /\ Rows!SpoiltBy(fs)[k].stage = jobs[k].stage
           /\ Rows!SpoiltBy(fs)[k].wiped = jobs[k].wiped
           /\ Rows!SpoiltBy(fs)[k].spoilt \/ Rows!SpoiltBy(fs)[k] = jobs[k]
           /\ Rows!Started(k) /\ jobs[k].file \in fs => Rows!SpoiltBy(fs)[k].spoilt
<1> DEFINE hit == Rows!Started(k) /\ jobs[k].file \in fs
           changed == [jobs[k] EXCEPT !.spoilt = @ \/ hit]
<1>1. Rows!SpoiltBy(fs)[k] = changed
    BY DEF Rows!SpoiltBy
<1>2. jobs[k] \in Task /\ jobs[k].spoilt \in BOOLEAN /\ hit \in BOOLEAN
    BY JobFacts DEF Task, Rows!Started
<1> HIDE DEF hit
<1>3. /\ changed \in Task
      /\ changed.seen = jobs[k].seen /\ changed.stage = jobs[k].stage
      /\ changed.wiped = jobs[k].wiped
      /\ changed.spoilt \/ changed = jobs[k]
      /\ hit => changed.spoilt
  <2>1. CASE hit
    <3>1. changed = [jobs[k] EXCEPT !.spoilt = TRUE]
        BY <1>2, <2>1
    <3> QED BY <1>2, <3>1 DEF Task
  <2>2. CASE ~hit
    <3>1. (jobs[k].spoilt \/ hit) = jobs[k].spoilt
        BY <1>2, <2>2
    <3>2. changed = jobs[k]
        BY <1>2, <3>1 DEF Task
    <3> HIDE DEF changed
    <3> QED BY <1>2, <2>2, <3>2
  <2> QED BY <2>1, <2>2
<1> QED BY <1>1, <1>3 DEF hit

\* A job that is spoilt if its file is one of fs, and has what it held otherwise.
LEMMA SpoiltIsSound ==
    ASSUME RetentionInv, NEW fs, NEW k \in Rows!Numbers, NEW files, NEW ids,
           \/ ~Rows!Started(k)
           \/ jobs[k].file \in fs
           \/ Sound(jobs[k], files, ids)
    PROVE  Sound(Rows!SpoiltBy(fs)[k], files, ids)
<1> DEFINE j == Rows!SpoiltBy(fs)[k]
<1>1. /\ j \in Task /\ j.stage = jobs[k].stage /\ j.wiped = jobs[k].wiped
      /\ j.spoilt \/ j = jobs[k]
      /\ Rows!Started(k) /\ jobs[k].file \in fs => j.spoilt
    BY SpoiltFacts
<1>2. jobs[k].stage = "queued" => jobs[k].wiped = {}
    BY JobFacts
<1> SUFFICES Sound(j, files, ids)
    OBVIOUS
<1> HIDE DEF j
<1>3. CASE j.stage = "queued" \/ j.spoilt
    BY <1>1, <1>2, <1>3, NothingToHold
<1>4. CASE ~(j.stage = "queued" \/ j.spoilt)
    BY <1>1, <1>4 DEF Rows!Started
<1> QED BY <1>3, <1>4

\* The jobs after a step that moves job i and spoils those whose files are fs.
LEMMA JobsKeep ==
    ASSUME RetentionInv, NEW fs, NEW i \in Rows!Numbers, NEW new \in Task,
           jobs' = [Rows!SpoiltBy(fs) EXCEPT ![i] = new],
           new.seen <= arrived,
           Sound(new, backups', DOMAIN table'),
           backups' \in [Rows!Seconds -> {NoRow} \cup FileRow],
           DOMAIN table' \subseteq DOMAIN table,
           \A k \in Rows!Numbers \ {i} :
               \/ ~Rows!Started(k)
               \/ jobs[k].file \in fs
               \/ Sound(jobs[k], backups', DOMAIN table'),
           UNCHANGED <<policy, chosen, second, arrived>>
    PROVE  RetentionInv'
<1>1. DOMAIN Rows!SpoiltBy(fs) = 1 .. Len(jobs)
    BY JobFacts DEF Rows!SpoiltBy
<1>2. /\ jobs' \in [1 .. Len(jobs) -> Task]
      /\ jobs'[i] = new /\ \A k \in Rows!Numbers \ {i} : jobs'[k] = Rows!SpoiltBy(fs)[k]
    BY <1>1, JobFacts, SpoiltFacts DEF Rows!SpoiltBy
<1>3. jobs' \in Seq(Task) /\ Len(jobs') = Len(jobs)
    BY <1>2, JobFacts, SequenceOf
<1>4. RetentionTypes' /\ ColumnsApart'
    BY <1>3 DEF RetentionInv, RetentionTypes, ColumnsApart
<1>5. ASSUME NEW k \in Rows!Numbers, k # i
      PROVE  jobs'[k].seen <= arrived /\ Sound(jobs'[k], backups', DOMAIN table')
  <2>1. Sound(Rows!SpoiltBy(fs)[k], backups', DOMAIN table')
      BY <1>5, SpoiltIsSound
  <2>2. Rows!SpoiltBy(fs)[k].seen = jobs[k].seen
      BY SpoiltFacts
  <2> QED BY <1>2, <1>5, <2>1, <2>2, JobFacts
<1> QED BY <1>2, <1>3, <1>4, <1>5, JobFacts DEF RetentionInv, JobsSound

\* The same when no job moves.
LEMMA SpoilingKeeps ==
    ASSUME RetentionInv, NEW fs,
           jobs' = Rows!SpoiltBy(fs),
           backups' \in [Rows!Seconds -> {NoRow} \cup FileRow],
           \A k \in Rows!Numbers : jobs[k].file \in fs \/ backups'[jobs[k].file] = backups[jobs[k].file],
           UNCHANGED <<table, policy, chosen, second, arrived>>
    PROVE  RetentionInv'
<1>1. jobs' \in [1 .. Len(jobs) -> Task]
    BY JobFacts, SpoiltFacts DEF Rows!SpoiltBy
<1>2. jobs' \in Seq(Task) /\ Len(jobs') = Len(jobs)
    BY <1>1, JobFacts, SequenceOf
<1>3. RetentionTypes' /\ ColumnsApart'
    BY <1>2 DEF RetentionInv, RetentionTypes, ColumnsApart
<1>4. ASSUME NEW k \in Rows!Numbers
      PROVE  jobs'[k].seen <= arrived /\ Sound(jobs'[k], backups', DOMAIN table')
  <2>1. jobs[k].file \in fs \/ Sound(jobs[k], backups', DOMAIN table)
      BY JobFacts, SoundStays
  <2> QED BY <2>1, JobFacts, SpoiltFacts, SpoiltIsSound
<1> QED BY <1>2, <1>3, <1>4, JobFacts DEF RetentionInv, JobsSound

LEMMA NoneSpoilt ==
    ASSUME RetentionInv
    PROVE  Rows!SpoiltBy({}) = jobs
<1>1. ASSUME NEW k \in Rows!Numbers PROVE Rows!SpoiltBy({})[k] = jobs[k]
  <2>1. (jobs[k].spoilt \/ (Rows!Started(k) /\ jobs[k].file \in {})) = jobs[k].spoilt
      BY JobFacts DEF Task
  <2>2. jobs[k] = [jobs[k] EXCEPT !.spoilt = jobs[k].spoilt]
      BY JobFacts DEF Task
  <2> QED BY <2>1, <2>2 DEF Rows!SpoiltBy
<1>2. jobs = [k \in 1 .. Len(jobs) |-> jobs[k]]
    BY JobFacts
<1> QED BY <1>1, <1>2, JobFacts DEF Rows!SpoiltBy

LEMMA OpenFileKeeps ==
    ASSUME RetentionInv, NEW i \in Rows!Numbers, Rows!OpenFile(i)
    PROVE  RetentionInv'
<1> DEFINE file == [rows |-> DOMAIN table, complete |-> FALSE, mtime |-> second]
           shared == \E k \in Rows!Numbers : jobs[k].stage = "writing" /\ jobs[k].file = second
           old == Rows!SpoiltBy({second})[i]
           new == [old EXCEPT !.stage = "writing", !.file = second, !.seen = arrived,
                              !.spoilt = shared]
<1>1. /\ jobs[i].stage = "queued"
      /\ backups' = [backups EXCEPT ![second] = file]
      /\ jobs' = [Rows!SpoiltBy({second}) EXCEPT ![i] = new]
      /\ UNCHANGED <<table, policy, chosen, second, arrived>>
  <2>1. i \in DOMAIN Rows!SpoiltBy({second})
      BY DEF Rows!SpoiltBy
  <2> QED BY <2>1 DEF Rows!OpenFile
<1>2. /\ arrived \in Nat /\ second \in Rows!Seconds /\ DOMAIN table \subseteq Nat
      /\ backups \in [Rows!Seconds -> {NoRow} \cup FileRow] /\ Rows!Seconds \subseteq Nat
    BY RowAssumption DEF RetentionInv, RetentionTypes, Rows!Seconds
<1>3. /\ old \in Task /\ old.wiped = {}
    BY <1>1, JobFacts, SpoiltFacts
<1>4. /\ new \in Task /\ new.wiped = {} /\ new.seen = arrived /\ new.file = second
      /\ new.stage = "writing"
  <2>1. shared \in BOOLEAN
      OBVIOUS
  <2> HIDE DEF shared, old
  <2> QED BY <1>2, <1>3, <2>1 DEF Task
<1>5. /\ file \in FileRow /\ file # NoRow /\ file.rows = DOMAIN table
      /\ backups'[second] = file
      /\ backups' \in [Rows!Seconds -> {NoRow} \cup FileRow]
  <2>1. file \in FileRow /\ file.rows = DOMAIN table
      BY <1>2 DEF FileRow
  <2> HIDE DEF file, new
  <2> QED BY <1>1, <1>2, <2>1, RowAssumption
<1> HIDE DEF file, new
<1>6. Sound(new, backups', DOMAIN table')
    BY <1>1, <1>4, <1>5 DEF Sound, Holds
<1>7. ASSUME NEW k \in Rows!Numbers \ {i}, jobs[k].file \notin {second}
      PROVE  Sound(jobs[k], backups', DOMAIN table')
  <2>1. backups'[jobs[k].file] = backups[jobs[k].file]
      BY <1>1, <1>2, <1>7
  <2> QED BY <1>1, <2>1, JobFacts, SoundStays
<1>8. new.seen <= arrived
    BY <1>2, <1>4
<1> QED BY <1>1, <1>4, <1>5, <1>6, <1>7, <1>8, JobsKeep


LEMMA CloseFileKeeps ==
    ASSUME RetentionInv, NEW i \in Rows!Numbers, Rows!CloseFile(i)
    PROVE  RetentionInv'
<1> DEFINE f == jobs[i].file
<1>1. /\ jobs[i] \in Task /\ jobs[i].stage = "writing" /\ f \in Rows!Seconds
      /\ Sound(jobs[i], backups, DOMAIN table) /\ jobs[i].seen <= arrived
      /\ second \in Nat
      /\ backups \in [Rows!Seconds -> {NoRow} \cup FileRow]
      /\ UNCHANGED <<table, policy, chosen, second, arrived>>
    BY JobFacts, RowAssumption
    DEF Rows!CloseFile, RetentionInv, RetentionTypes, Task, Rows!Seconds
<1>2. CASE backups[f] = NoRow
  <2> DEFINE new == [jobs[i] EXCEPT !.stage = "ended"]
  <2>1. jobs' = [Rows!SpoiltBy({}) EXCEPT ![i] = new] /\ backups' = backups
      BY <1>2, NoneSpoilt, JobFacts DEF Rows!CloseFile
  <2>2. new \in Task /\ new.seen <= arrived /\ Sound(new, backups, DOMAIN table)
      BY <1>1 DEF Task, Sound
  <2>3. \A k \in Rows!Numbers : Sound(jobs[k], backups, DOMAIN table)
      BY JobFacts
  <2> HIDE DEF new
  <2> QED BY <1>1, <2>1, <2>2, <2>3, JobsKeep
<1>3. CASE backups[f] # NoRow
  <2> DEFINE row == [backups[f] EXCEPT !.complete = TRUE, !.mtime = second]
             written == [backups EXCEPT ![f] = row]
  <2>1. PICK gone \in Rows!Evictable(written) :
               /\ backups' = [s \in Rows!Seconds |-> IF s \in gone THEN NoRow ELSE written[s]]
               /\ jobs' = [Rows!SpoiltBy(gone) EXCEPT
                             ![i].stage = IF jobs[i].kind = "init" THEN "deleting" ELSE "ended"]
    <3>1. written = [backups EXCEPT ![f].complete = TRUE, ![f].mtime = second]
        BY <1>1, <1>3
    <3> HIDE DEF written
    <3> QED BY ZenonT(30), <1>3, <3>1 DEF Rows!CloseFile
  <2> DEFINE old == Rows!SpoiltBy(gone)[i]
             stage == IF jobs[i].kind = "init" THEN "deleting" ELSE "ended"
             new == [old EXCEPT !.stage = stage]
  <2>2. /\ row \in FileRow /\ row # NoRow /\ row.complete /\ row.rows = backups[f].rows
    <3>1. backups[f] \in FileRow
        BY <1>1, <1>3
    <3> QED BY <1>1, <3>1, RowAssumption DEF FileRow
  <2> HIDE DEF row
  <2>3. /\ backups' \in [Rows!Seconds -> {NoRow} \cup FileRow]
        /\ \A s \in Rows!Seconds \ gone :
             \/ backups'[s] = backups[s]
             \/ /\ backups'[s] # NoRow /\ backups'[s].complete
                /\ backups'[s].rows = backups[s].rows
        /\ f \notin gone => backups'[f] = row
      BY <1>1, <2>1, <2>2
  <2>4. /\ jobs' = [Rows!SpoiltBy(gone) EXCEPT ![i] = new]
    <3>1. i \in DOMAIN Rows!SpoiltBy(gone)
        BY DEF Rows!SpoiltBy
    <3> QED BY <2>1, <3>1
  <2>5. /\ old \in Task /\ old.seen = jobs[i].seen
        /\ old.spoilt \/ (old = jobs[i] /\ f \notin gone)
      BY <1>1, SpoiltFacts DEF Rows!Started
  <2>6. stage \in {"deleting", "ended"}
      OBVIOUS
  <2> HIDE DEF old, stage
  <2>7. /\ new \in Task /\ new.seen = jobs[i].seen /\ new.stage = stage
        /\ \/ new.spoilt
           \/ /\ ~jobs[i].spoilt /\ f \notin gone
              /\ new.file = f /\ new.wiped = jobs[i].wiped
      BY <2>5, <2>6 DEF Task
  <2> HIDE DEF new
  <2>8. Sound(new, backups', DOMAIN table)
    <3>1. CASE new.spoilt
        BY <2>6, <2>7, <3>1 DEF Sound
    <3>2. CASE ~new.spoilt
      <4>1. /\ new.file = f /\ new.wiped = {} /\ backups'[f] = row
            /\ \A r \in DOMAIN table : Holds(jobs[i], backups, r)
          BY <1>1, <2>3, <2>7, <3>2 DEF Sound
      <4>2. Complete(new, backups')
          BY <2>2, <4>1 DEF Complete
      <4>3. \A r \in DOMAIN table : Holds(new, backups', r)
          BY <1>3, <2>2, <2>7, <4>1 DEF Holds
      <4> QED BY <2>6, <2>7, <4>1, <4>2, <4>3 DEF Sound
    <3> QED BY <3>1, <3>2
  <2>9. ASSUME NEW k \in Rows!Numbers \ {i}, jobs[k].file \notin gone
        PROVE  Sound(jobs[k], backups', DOMAIN table)
    <3>1. jobs[k] \in Task /\ jobs[k].file \in Rows!Seconds
        BY JobFacts DEF Task
    <3> QED BY <2>3, <2>9, <3>1, JobFacts, SoundStays
  <2>10. new.seen <= arrived
      BY <1>1, <2>7
  <2> QED BY <1>1, <2>3, <2>4, <2>7, <2>8, <2>9, <2>10, JobsKeep
<1> QED BY <1>2, <1>3

LEMMA FailKeeps ==
    ASSUME RetentionInv, NEW i \in Rows!Numbers, Rows!Fail(i)
    PROVE  RetentionInv'
<1> DEFINE new == [jobs[i] EXCEPT !.stage = "ended"]
<1>1. /\ jobs[i] \in Task /\ jobs[i].stage \in {"writing", "deleting"}
      /\ Sound(jobs[i], backups, DOMAIN table) /\ jobs[i].seen <= arrived
      /\ backups \in [Rows!Seconds -> {NoRow} \cup FileRow]
      /\ UNCHANGED <<table, backups, policy, chosen, second, arrived>>
    BY JobFacts DEF Rows!Fail, RetentionInv, RetentionTypes
<1>2. jobs' = [Rows!SpoiltBy({}) EXCEPT ![i] = new]
    BY NoneSpoilt, JobFacts DEF Rows!Fail
<1>3. new \in Task /\ new.seen <= arrived /\ Sound(new, backups, DOMAIN table)
    BY <1>1 DEF Task, Sound, Holds, Complete
<1>4. \A k \in Rows!Numbers : Sound(jobs[k], backups, DOMAIN table)
    BY JobFacts
<1> HIDE DEF new
<1> QED BY <1>1, <1>2, <1>3, <1>4, JobsKeep

LEMMA DeleteChunkKeeps ==
    ASSUME RetentionInv, NEW i \in Rows!Numbers, Rows!DeleteChunk(i)
    PROVE  RetentionInv'
<1>1. /\ jobs[i] \in Task /\ jobs[i].stage = "deleting"
      /\ Sound(jobs[i], backups, DOMAIN table) /\ jobs[i].seen <= arrived
      /\ backups \in [Rows!Seconds -> {NoRow} \cup FileRow]
      /\ DOMAIN table \subseteq Nat
      /\ UNCHANGED <<backups, policy, chosen, second, arrived>>
    BY JobFacts DEF Rows!DeleteChunk, RetentionInv, RetentionTypes
<1>2. CASE table = <<>>
  <2> DEFINE new == [jobs[i] EXCEPT !.stage = "ended"]
  <2>1. jobs' = [Rows!SpoiltBy({}) EXCEPT ![i] = new] /\ table' = table
      BY <1>2, NoneSpoilt, JobFacts DEF Rows!DeleteChunk
  <2>2. new \in Task /\ new.seen <= arrived /\ Sound(new, backups, DOMAIN table)
      BY <1>1 DEF Task, Sound, Holds, Complete
  <2>3. \A k \in Rows!Numbers : Sound(jobs[k], backups, DOMAIN table)
      BY JobFacts
  <2> HIDE DEF new
  <2> QED BY <1>1, <2>1, <2>2, <2>3, JobsKeep
<1>3. CASE table # <<>>
  <2>1. PICK ids \in SUBSET DOMAIN table :
               /\ table' = Rows!Without(ids)
               /\ jobs' = [jobs EXCEPT ![i].wiped = @ \cup ids]
      BY <1>3 DEF Rows!DeleteChunk
  <2> DEFINE new == [jobs[i] EXCEPT !.wiped = @ \cup ids]
  <2>2. jobs' = [Rows!SpoiltBy({}) EXCEPT ![i] = new]
      BY <2>1, NoneSpoilt, JobFacts
  <2>3. DOMAIN table' \subseteq DOMAIN table
      BY <2>1 DEF Rows!Without
  <2>4. /\ new \in Task /\ new.seen = jobs[i].seen /\ new.file = jobs[i].file
        /\ new.stage = "deleting" /\ new.spoilt = jobs[i].spoilt
        /\ new.wiped = jobs[i].wiped \cup ids
      BY <1>1 DEF Task
  <2> HIDE DEF new
  <2>5. Sound(new, backups, DOMAIN table')
      BY <1>1, <2>3, <2>4 DEF Sound, Holds, Complete
  <2>6. ASSUME NEW k \in Rows!Numbers PROVE Sound(jobs[k], backups, DOMAIN table')
      BY <2>3, JobFacts, SoundStays
  <2>7. new.seen <= arrived
      BY <1>1, <2>4
  <2> QED BY <1>1, <2>2, <2>3, <2>4, <2>5, <2>6, <2>7, JobsKeep
<1> QED BY <1>2, <1>3

LEMMA DeleteFileKeeps ==
    ASSUME RetentionInv, NEW s \in Rows!Seconds, Rows!DeleteFile(s)
    PROVE  RetentionInv'
<1>1. /\ backups' = [backups EXCEPT ![s] = NoRow]
      /\ jobs' = Rows!SpoiltBy({s})
      /\ UNCHANGED <<table, policy, chosen, second, arrived>>
    BY DEF Rows!DeleteFile
<1>2. /\ backups' \in [Rows!Seconds -> {NoRow} \cup FileRow]
      /\ \A t \in Rows!Seconds : t = s \/ backups'[t] = backups[t]
    BY <1>1 DEF RetentionInv, RetentionTypes
<1>3. \A k \in Rows!Numbers : jobs[k].file \in {s} \/ backups'[jobs[k].file] = backups[jobs[k].file]
    BY <1>2, JobFacts DEF Task
<1> QED BY <1>1, <1>2, <1>3, SpoilingKeeps

LEMMA ReplaceWorkerKeeps ==
    ASSUME RetentionInv, Rows!ReplaceWorker
    PROVE  RetentionInv'
<1>1. /\ backups' = [s \in Rows!Seconds |-> NoRow]
      /\ jobs' = [i \in Rows!Numbers |->
                    IF Rows!Started(i) THEN [jobs[i] EXCEPT !.stage = "ended", !.spoilt = TRUE]
                    ELSE jobs[i]]
      /\ UNCHANGED <<table, policy, chosen, second, arrived>>
    BY DEF Rows!ReplaceWorker
<1>2. ASSUME NEW k \in Rows!Numbers
      PROVE  /\ jobs'[k] \in Task /\ jobs'[k].seen = jobs[k].seen
             /\ Sound(jobs'[k], backups', DOMAIN table)
  <2>1. CASE Rows!Started(k)
    <3>1. jobs'[k] = [jobs[k] EXCEPT !.stage = "ended", !.spoilt = TRUE]
        BY <1>1, <2>1
    <3>2. jobs'[k] \in Task /\ jobs'[k].seen = jobs[k].seen /\ jobs'[k].spoilt
          /\ jobs'[k].stage = "ended"
        BY <3>1, JobFacts DEF Task
    <3> QED BY <3>2 DEF Sound
  <2>2. CASE ~Rows!Started(k)
    <3>1. jobs'[k] = jobs[k] /\ jobs[k].stage = "queued"
        BY <1>1, <2>2 DEF Rows!Started
    <3> QED BY <3>1, JobFacts, NothingToHold
  <2> QED BY <2>1, <2>2
<1>3. jobs' \in [1 .. Len(jobs) -> Task]
    BY <1>1, <1>2, JobFacts
<1>4. jobs' \in Seq(Task) /\ Len(jobs') = Len(jobs)
    BY <1>3, JobFacts, SequenceOf
<1>5. RetentionTypes' /\ ColumnsApart'
    BY <1>1, <1>4 DEF RetentionInv, RetentionTypes, ColumnsApart
<1> QED BY <1>1, <1>2, <1>4, <1>5, JobFacts DEF RetentionInv, JobsSound

LEMMA RetentionStep == RetentionInv /\ [Rows!Next]_rowVars => RetentionInv'
<1> SUFFICES ASSUME RetentionInv, [Rows!Next]_rowVars PROVE RetentionInv'
    OBVIOUS
<1>1. CASE UNCHANGED rowVars
    BY <1>1 DEF rowVars, RetentionInv, RetentionTypes, ColumnsApart, JobsSound
<1>2. CASE Rows!Arrive
  <2>1. arrived' = arrived + 1 /\ DOMAIN table' = DOMAIN table \cup {arrived + 1}
      BY <1>2 DEF Rows!Arrive
  <2> QED
    BY <1>2, <2>1, TableKeeps DEF Rows!Arrive, RetentionInv, RetentionTypes, ColumnsApart
<1>3. CASE Rows!DayPasses \/ Rows!ReadPolicy
  <2>1. DOMAIN table' = DOMAIN table /\ UNCHANGED <<policy, chosen, backups, second, jobs, arrived>>
      BY <1>3 DEF Rows!DayPasses, Rows!ReadPolicy
  <2> QED BY <2>1, TableKeeps DEF RetentionInv, RetentionTypes, ColumnsApart
<1>4. CASE \E days \in Days, active \in BOOLEAN : Rows!UpdatePolicy(days, active)
  <2>1. PICK days \in Days, active \in BOOLEAN : Rows!UpdatePolicy(days, active)
      BY <1>4
  <2>2. ColumnsApart'
      BY <2>1 DEF Rows!UpdatePolicy, RetentionInv, ColumnsApart
  <2> QED BY <2>1, <2>2, TableKeeps DEF Rows!UpdatePolicy, RetentionInv, RetentionTypes
<1>5. CASE Rows!Clean
  <2>1. DOMAIN table' \subseteq DOMAIN table
      BY <1>5 DEF Rows!Clean, Rows!Without
  <2>2. ColumnsApart'
    <3> DEFINE gone == Rows!Cardinality(Rows!Expired(cleaner.days))
    <3>1. policy' = [policy EXCEPT !.lastRun = gone] /\ chosen' = chosen
        BY <1>5 DEF Rows!Clean
    <3> HIDE DEF gone
    <3> QED BY <3>1 DEF RetentionInv, ColumnsApart
  <2> QED BY <1>5, <2>1, <2>2, TableKeeps DEF Rows!Clean, RetentionInv, RetentionTypes
<1>6. CASE Rows!NextSecond
  <2>1. second' \in Rows!Seconds /\ UNCHANGED <<table, policy, chosen, backups, jobs, arrived>>
      BY <1>6, RowAssumption DEF Rows!NextSecond, Rows!Seconds, RetentionInv, RetentionTypes
  <2> QED BY <2>1 DEF RetentionInv, RetentionTypes, ColumnsApart, JobsSound
<1> QED
  BY <1>1, <1>2, <1>3, <1>4, <1>5, <1>6, RequestKeeps, OpenFileKeeps, CloseFileKeeps, FailKeeps,
     DeleteChunkKeeps, DeleteFileKeeps, ReplaceWorkerKeeps
  DEF Rows!Next

\* What an initialisation deletes is in its backup, or came after it, unless the file
\* was lost in one of the named ways, and no clean-up takes back a change of its
\* policy: for any number of rows, jobs and seconds, and any chunk
\* (backoffice/tasks.py:76, cleanup_data.py:76-78).
THEOREM DeletionsAreBackedUp == Spec => []DeletionIsBackedUp
<1>1. Init => RetentionInv
    BY RetentionInit DEF Init
<1>2. RetentionInv /\ [Next]_deliveryVars => RetentionInv'
    BY RetentionStep
    DEF Next, TellOfAlarms, TellOfNotices, TellOutside, KeepRows, deliveryVars, rowVars
<1>3. RetentionInv => DeletionIsBackedUp
  <2> SUFFICES ASSUME RetentionInv PROVE DeletionIsBackedUp
      OBVIOUS
  <2>1. Rows!BackedUpBeforeDeletion
    <3> SUFFICES ASSUME NEW i \in Rows!Numbers, ~jobs[i].spoilt, NEW r \in jobs[i].wiped
                 PROVE  \/ r > jobs[i].seen
                        \/ LET file == backups[jobs[i].file] IN
                           file # NoRow /\ file.complete /\ r \in file.rows
        BY DEF Rows!BackedUpBeforeDeletion
    <3> QED BY JobFacts DEF Sound, Holds, Complete
  <2>2. Rows!EditsStand
    <3> DEFINE last == policy.lastRun
    <3>1. policy = [days |-> chosen.days, active |-> chosen.active, lastRun |-> last]
        BY DEF RetentionInv, ColumnsApart
    <3> HIDE DEF last
    <3> QED BY <3>1 DEF Rows!EditsStand
  <2> QED BY <2>1, <2>2 DEF DeletionIsBackedUp
<1> QED BY <1>1, <1>2, <1>3, PTL DEF Spec

-----------------------------------------------------------------------------
(* Notices: what the logs of a dispatch say of what it has left to do.       *)

Channels == Notice!NoticeChannels

Pairs == Readers \X Channels

Dispatch == [no : Nat, notice : NoticeIds, sending : SUBSET Pairs, left : SUBSET Pairs]

Log ==
    [no : Nat, notice : NoticeIds, user : Readers, channel : Channels,
     status : {"pending", "sent", "failed"}]

NoticeTypes ==
    /\ dispatched \in Nat /\ breaks \in Nat
    /\ dispatches \subseteq Dispatch
    /\ \A d \in dispatches : d.no < dispatched
    /\ noticeLogs \subseteq Log
    /\ \A l \in noticeLogs : l.no < dispatched

\* A dispatch sends one message at a time.
OneDispatchEach ==
    /\ \A d, e \in dispatches : d.no = e.no => d = e
    /\ \A d \in dispatches : d.sending \cap d.left = {}
    /\ \A d \in dispatches : \A r, s \in d.sending : r = s

\* A dispatch writes one log for each user and channel.
OneLogEach ==
    \A l, m \in noticeLogs : l.no = m.no /\ l.user = m.user /\ l.channel = m.channel => l = m

\* The logs of a running dispatch.
LogsAgree ==
    /\ \A d \in dispatches : \A l \in noticeLogs : l.no = d.no =>
         /\ l.notice = d.notice
         /\ <<l.user, l.channel>> \notin d.left
         /\ l.status = "pending" <=> <<l.user, l.channel>> \in d.sending
    /\ \A d \in dispatches : \A r \in Pairs \ d.left :
         \E l \in noticeLogs : l.no = d.no /\ <<l.user, l.channel>> = r

Over(no) == \A d \in dispatches : d.no # no

\* The logs of a dispatch that has answered or broken off.
OverIsOver ==
    /\ \A l, m \in noticeLogs :
         l.no = m.no /\ Over(l.no) /\ l.status = "pending" /\ m.status = "pending" => l = m
    /\ \A l \in noticeLogs : Over(l.no) /\ l.status = "pending" => breaks > 0
    /\ breaks = 0 =>
         \A no \in 0 .. dispatched - 1 : Over(no) =>
             \A r \in Pairs : \E l \in noticeLogs : l.no = no /\ <<l.user, l.channel>> = r

NoticeInv == NoticeTypes /\ OneDispatchEach /\ OneLogEach /\ LogsAgree /\ OverIsOver

LEMMA NoticeInit == Notice!Init => NoticeInv
<1> SUFFICES ASSUME Notice!Init PROVE NoticeInv
    OBVIOUS
<1>1. dispatches = {} /\ noticeLogs = {} /\ dispatched = 0 /\ breaks = 0
    BY DEF Notice!Init
<1> QED
    BY <1>1
    DEF NoticeInv, NoticeTypes, OneDispatchEach, OneLogEach, LogsAgree, OverIsOver

LEMMA BeginKeeps ==
    ASSUME NoticeInv, NEW n \in NoticeIds, Notice!Start(n)
    PROVE  NoticeInv'
<1> DEFINE new == [no |-> dispatched, notice |-> n, sending |-> {}, left |-> Pairs]
<1>1. /\ dispatched' = dispatched + 1 /\ dispatches' = dispatches \cup {new}
      /\ noticeLogs' = noticeLogs /\ breaks' = breaks
    BY DEF Notice!Start, Pairs, Channels
<1>2. /\ new \in Dispatch /\ new.no = dispatched /\ new.sending = {} /\ new.left = Pairs
      /\ dispatched \in Nat
    BY DEF NoticeInv, NoticeTypes, Dispatch
<1> HIDE DEF new
<1>3. /\ \A d \in dispatches : d.no \in Nat /\ d.no < dispatched /\ d.no # dispatched
      /\ \A l \in noticeLogs : l.no \in Nat /\ l.no < dispatched /\ l.no # dispatched
    BY <1>2 DEF NoticeInv, NoticeTypes, Dispatch, Log
<1>4. NoticeTypes'
    BY <1>1, <1>2, <1>3 DEF NoticeInv, NoticeTypes
<1>5. OneDispatchEach' /\ OneLogEach'
    BY <1>1, <1>2, <1>3 DEF NoticeInv, OneDispatchEach, OneLogEach
<1>6. LogsAgree'
    BY <1>1, <1>2, <1>3 DEF NoticeInv, LogsAgree
<1>7. \A no : no # dispatched => (Over(no)' <=> Over(no))
    BY <1>1, <1>2 DEF Over
<1>8. \A no \in 0 .. dispatched' - 1 : no = dispatched \/ no \in 0 .. dispatched - 1
    BY <1>1, <1>2
<1>9. \A no : no = dispatched => ~(Over(no)')
    BY <1>1, <1>2 DEF Over
<1>10. ASSUME breaks = 0, NEW no \in 0 .. dispatched' - 1, Over(no)', NEW r \in Pairs
       PROVE  \E l \in noticeLogs' : l.no = no /\ <<l.user, l.channel>> = r
  <2>1. no \in 0 .. dispatched - 1 /\ Over(no)
      BY <1>7, <1>8, <1>9, <1>10
  <2> QED BY <1>1, <1>10, <2>1 DEF NoticeInv, OverIsOver
<1>11. ASSUME NEW l \in noticeLogs', Over(l.no)' PROVE l \in noticeLogs /\ Over(l.no)
    BY <1>1, <1>3, <1>7, <1>11
<1>12. OverIsOver'
    BY <1>1, <1>10, <1>11 DEF NoticeInv, OverIsOver
<1> QED BY <1>4, <1>5, <1>6, <1>12 DEF NoticeInv

LEMMA OpenLogKeeps ==
    ASSUME NoticeInv, NEW d \in dispatches, Notice!OpenLog(d)
    PROVE  NoticeInv'
<1>1. PICK r \in d.left :
        /\ dispatches' = (dispatches \ {d}) \cup {[d EXCEPT !.left = @ \ {r}, !.sending = {r}]}
        /\ noticeLogs' = noticeLogs \cup {Notice!LogOf(d, r, "pending")}
    BY DEF Notice!OpenLog
<1> DEFINE e == [d EXCEPT !.left = @ \ {r}, !.sending = {r}]
           log == Notice!LogOf(d, r, "pending")
<1>2. /\ d \in Dispatch /\ d.no < dispatched /\ d.sending = {} /\ r \in Pairs
      /\ r = <<r[1], r[2]>> /\ r[1] \in Readers /\ r[2] \in Channels
      /\ dispatched' = dispatched /\ breaks' = breaks
    BY DEF Notice!OpenLog, NoticeInv, NoticeTypes, Dispatch, Pairs
<1>3. /\ e \in Dispatch /\ e.no = d.no /\ e.notice = d.notice
      /\ e.sending = {r} /\ e.left = d.left \ {r}
    BY <1>2 DEF Dispatch
<1>4. /\ log \in Log /\ log.no = d.no /\ log.notice = d.notice
      /\ <<log.user, log.channel>> = r /\ log.status = "pending"
    BY <1>2 DEF Log, Dispatch, Notice!LogOf
<1>5. dispatches' = (dispatches \ {d}) \cup {e} /\ noticeLogs' = noticeLogs \cup {log}
    BY <1>1
<1> HIDE DEF e, log
<1>6. NoticeTypes'
    BY <1>2, <1>3, <1>4, <1>5 DEF NoticeInv, NoticeTypes
<1>7. OneDispatchEach'
    BY <1>3, <1>5 DEF NoticeInv, OneDispatchEach
<1>8. \A l \in noticeLogs : l.no = d.no => <<l.user, l.channel>> # r
    BY <1>1 DEF NoticeInv, LogsAgree
<1>9. OneLogEach'
    BY <1>4, <1>5, <1>8 DEF NoticeInv, OneLogEach
<1>10. LogsAgree'
  <2>1. ASSUME NEW c \in dispatches', NEW l \in noticeLogs', l.no = c.no
        PROVE  /\ l.notice = c.notice
               /\ <<l.user, l.channel>> \notin c.left
               /\ l.status = "pending" <=> <<l.user, l.channel>> \in c.sending
    <3>1. CASE c = e /\ l = log
        BY <1>3, <1>4, <3>1
    <3>2. CASE c = e /\ l # log
        BY <1>2, <1>3, <1>5, <1>8, <2>1, <3>2 DEF NoticeInv, LogsAgree
    <3>3. CASE c # e
      <4>1. c \in dispatches /\ c.no # d.no /\ l \in noticeLogs
          BY <1>4, <1>5, <2>1, <3>3 DEF NoticeInv, OneDispatchEach
      <4> QED BY <2>1, <4>1 DEF NoticeInv, LogsAgree
    <3> QED BY <3>1, <3>2, <3>3
  <2>2. ASSUME NEW c \in dispatches', NEW s \in Pairs \ c.left
        PROVE  \E l \in noticeLogs' : l.no = c.no /\ <<l.user, l.channel>> = s
    <3>1. CASE c = e /\ s = r
        BY <1>3, <1>4, <1>5, <3>1
    <3>2. CASE c = e /\ s # r
        BY <1>3, <1>5, <2>2, <3>2 DEF NoticeInv, LogsAgree
    <3>3. CASE c # e
        BY <1>5, <2>2, <3>3 DEF NoticeInv, LogsAgree
    <3> QED BY <3>1, <3>2, <3>3
  <2> QED BY <2>1, <2>2 DEF LogsAgree
<1>11. \A no : Over(no)' <=> Over(no)
    BY <1>3, <1>5 DEF Over
<1>12. ~Over(log.no)
    BY <1>4 DEF Over
<1>13. OverIsOver'
    BY <1>2, <1>5, <1>11, <1>12 DEF NoticeInv, OverIsOver
<1> QED BY <1>6, <1>7, <1>9, <1>10, <1>13 DEF NoticeInv

LEMMA CloseLogKeeps ==
    ASSUME NoticeInv, NEW d \in dispatches, Notice!CloseLog(d)
    PROVE  NoticeInv'
<1>1. PICK r \in d.sending, status \in {"sent", "failed"} :
        noticeLogs' = (noticeLogs \ {Notice!LogOf(d, r, "pending")})
                      \cup {Notice!LogOf(d, r, status)}
    BY DEF Notice!CloseLog
<1> DEFINE e == [d EXCEPT !.sending = {}]
           old == Notice!LogOf(d, r, "pending")
           new == Notice!LogOf(d, r, status)
<1>2. /\ d \in Dispatch /\ d.no < dispatched /\ r \in Pairs /\ r \notin d.left
      /\ r = <<r[1], r[2]>> /\ r[1] \in Readers /\ r[2] \in Channels
      /\ \A s \in d.sending : s = r
      /\ dispatched' = dispatched /\ breaks' = breaks
    BY DEF Notice!CloseLog, NoticeInv, NoticeTypes, OneDispatchEach, Dispatch, Pairs
<1>3. e \in Dispatch /\ e.no = d.no /\ e.notice = d.notice /\ e.sending = {} /\ e.left = d.left
    BY <1>2 DEF Dispatch
<1>4. /\ new \in Log /\ new.no = d.no /\ new.notice = d.notice
      /\ <<new.user, new.channel>> = r /\ new.status = status /\ status # "pending"
    BY <1>2 DEF Log, Dispatch, Notice!LogOf
<1>5. \A l \in noticeLogs : l.no = d.no /\ <<l.user, l.channel>> = r => l = old
  <2> SUFFICES ASSUME NEW l \in noticeLogs, l.no = d.no, <<l.user, l.channel>> = r
               PROVE  l = old
      OBVIOUS
  <2>1. l \in Log /\ l.notice = d.notice /\ l.status = "pending"
      BY <1>2 DEF NoticeInv, NoticeTypes, LogsAgree
  <2>2. l.user = r[1] /\ l.channel = r[2]
      BY <1>2
  <2>3. l = [no |-> d.no, notice |-> d.notice, user |-> r[1], channel |-> r[2], status |-> "pending"]
      BY <2>1, <2>2 DEF Log
  <2> QED BY <2>3 DEF Notice!LogOf
<1>6. /\ old.no = d.no /\ <<old.user, old.channel>> = r
    BY <1>2 DEF Notice!LogOf
<1>7. dispatches' = (dispatches \ {d}) \cup {e} /\ noticeLogs' = (noticeLogs \ {old}) \cup {new}
    BY <1>1 DEF Notice!CloseLog
<1> HIDE DEF e, old, new
<1>8. NoticeTypes'
    BY <1>2, <1>3, <1>4, <1>7 DEF NoticeInv, NoticeTypes
<1>9. OneDispatchEach'
    BY <1>3, <1>7 DEF NoticeInv, OneDispatchEach
<1>10. OneLogEach'
  <2>1. \A l \in noticeLogs \ {old} : ~(l.no = new.no /\ l.user = new.user /\ l.channel = new.channel)
      BY <1>4, <1>5
  <2> QED BY <1>7, <2>1 DEF NoticeInv, OneLogEach
<1>11. LogsAgree'
  <2>1. ASSUME NEW c \in dispatches', NEW l \in noticeLogs', l.no = c.no
        PROVE  /\ l.notice = c.notice
               /\ <<l.user, l.channel>> \notin c.left
               /\ l.status = "pending" <=> <<l.user, l.channel>> \in c.sending
    <3>1. CASE c = e /\ l = new
        BY <1>2, <1>3, <1>4, <3>1
    <3>2. CASE c = e /\ l # new
      <4>1. l \in noticeLogs /\ l # old /\ l.no = d.no
          BY <1>3, <1>7, <2>1, <3>2
      <4>2. <<l.user, l.channel>> # r
          BY <1>5, <4>1
      <4> QED BY <1>2, <1>3, <3>2, <4>1, <4>2 DEF NoticeInv, LogsAgree
    <3>3. CASE c # e
      <4>1. c \in dispatches /\ c.no # d.no /\ l \in noticeLogs
          BY <1>4, <1>7, <2>1, <3>3 DEF NoticeInv, OneDispatchEach
      <4> QED BY <2>1, <4>1 DEF NoticeInv, LogsAgree
    <3> QED BY <3>1, <3>2, <3>3
  <2>2. ASSUME NEW c \in dispatches', NEW s \in Pairs \ c.left
        PROVE  \E l \in noticeLogs' : l.no = c.no /\ <<l.user, l.channel>> = s
    <3>1. PICK b \in dispatches : b.no = c.no /\ b.left = c.left
        BY <1>3, <1>7
    <3>2. PICK l \in noticeLogs : l.no = c.no /\ <<l.user, l.channel>> = s
        BY <2>2, <3>1 DEF NoticeInv, LogsAgree
    <3> QED BY <1>4, <1>6, <1>7, <3>2
  <2> QED BY <2>1, <2>2 DEF LogsAgree
<1>12. \A no : Over(no)' <=> Over(no)
    BY <1>3, <1>7 DEF Over
<1>13. ~Over(new.no)
    BY <1>4 DEF Over
<1>14. OverIsOver'
  <2>1. ASSUME breaks = 0, NEW no \in 0 .. dispatched - 1, Over(no), NEW s \in Pairs
        PROVE  \E l \in noticeLogs' : l.no = no /\ <<l.user, l.channel>> = s
    <3>1. PICK l \in noticeLogs : l.no = no /\ <<l.user, l.channel>> = s
        BY <2>1 DEF NoticeInv, OverIsOver
    <3> QED BY <1>4, <1>6, <1>7, <3>1
  <2> QED BY <1>2, <1>7, <1>12, <1>13, <2>1 DEF NoticeInv, OverIsOver
<1> QED BY <1>8, <1>9, <1>10, <1>11, <1>14 DEF NoticeInv

LEMMA EndKeeps ==
    ASSUME NoticeInv, NEW d \in dispatches, Notice!Answer(d) \/ Notice!BreakOff(d)
    PROVE  NoticeInv'
<1>1. /\ dispatches' = dispatches \ {d} /\ noticeLogs' = noticeLogs
      /\ dispatched' = dispatched
      /\ (breaks' = breaks /\ d.left = {} /\ d.sending = {}) \/ breaks' = breaks + 1
      /\ breaks \in Nat /\ breaks' \in Nat
    BY DEF Notice!Answer, Notice!BreakOff, NoticeInv, NoticeTypes
<1>2. NoticeTypes' /\ OneDispatchEach' /\ OneLogEach' /\ LogsAgree'
    BY <1>1 DEF NoticeInv, NoticeTypes, OneDispatchEach, OneLogEach, LogsAgree
<1>3. \A no : no # d.no => (Over(no)' <=> Over(no))
    BY <1>1 DEF Over
<1>4. \A l \in noticeLogs : l.no = d.no /\ l.status = "pending" => <<l.user, l.channel>> \in d.sending
    BY DEF NoticeInv, LogsAgree
<1>5. ASSUME NEW l \in noticeLogs, NEW m \in noticeLogs, l.no = m.no,
             Over(l.no)', l.status = "pending", m.status = "pending"
      PROVE  l = m
  <2>1. CASE l.no = d.no
    <3>1. <<l.user, l.channel>> = <<m.user, m.channel>>
        BY <1>4, <1>5, <2>1 DEF NoticeInv, OneDispatchEach
    <3> QED BY <1>5, <3>1 DEF NoticeInv, OneLogEach
  <2>2. CASE l.no # d.no
      BY <1>3, <1>5, <2>2 DEF NoticeInv, OverIsOver
  <2> QED BY <2>1, <2>2
<1>6. ASSUME NEW l \in noticeLogs, Over(l.no)', l.status = "pending" PROVE breaks' > 0
  <2>1. CASE l.no = d.no
    <3>1. d.sending # {}
        BY <1>4, <1>6, <2>1
    <3> QED BY <1>1, <3>1
  <2>2. CASE l.no # d.no
    <3>1. breaks > 0
        BY <1>3, <1>6, <2>2 DEF NoticeInv, OverIsOver
    <3> QED BY <1>1, <3>1
  <2> QED BY <2>1, <2>2
<1>7. ASSUME breaks' = 0, NEW no \in 0 .. dispatched - 1, Over(no)', NEW r \in Pairs
      PROVE  \E l \in noticeLogs : l.no = no /\ <<l.user, l.channel>> = r
    BY <1>1, <1>3, <1>7 DEF NoticeInv, OverIsOver, LogsAgree
<1>8. OverIsOver'
    BY <1>1, <1>5, <1>6, <1>7 DEF OverIsOver
<1> QED BY <1>2, <1>8 DEF NoticeInv

LEMMA NoticeStep == NoticeInv /\ [Notice!Next]_noticeVars => NoticeInv'
<1> SUFFICES ASSUME NoticeInv, [Notice!Next]_noticeVars PROVE NoticeInv'
    OBVIOUS
<1>1. ASSUME UNCHANGED <<dispatches, noticeLogs, dispatched, breaks>> PROVE NoticeInv'
    BY <1>1 DEF NoticeInv, NoticeTypes, OneDispatchEach, OneLogEach, LogsAgree, OverIsOver, Over
<1>2. ASSUME NEW n \in NoticeIds, NEW form, Notice!Update(n, form) PROVE NoticeInv'
    BY <1>1, <1>2 DEF Notice!Update
<1>3. ASSUME NEW n \in NoticeIds, NEW form, NEW b, Notice!Create(n, form, b) PROVE NoticeInv'
    BY <1>1, <1>3, BeginKeeps DEF Notice!Create
<1>4. ASSUME NEW n \in NoticeIds, Notice!SendAgain(n) PROVE NoticeInv'
    BY <1>4, BeginKeeps DEF Notice!SendAgain
<1>5. ASSUME NEW ns, Notice!ToggleNotices(ns) \/ Notice!DeleteNotices(ns) PROVE NoticeInv'
    BY <1>1, <1>5 DEF Notice!ToggleNotices, Notice!DeleteNotices
<1>6. CASE UNCHANGED noticeVars
    BY <1>1, <1>6 DEF noticeVars
<1> QED
  BY <1>2, <1>3, <1>4, <1>5, <1>6, OpenLogKeeps, CloseLogKeeps, EndKeeps DEF Notice!Next

LEMMA SameCardinality == \A S : Notice!Cardinality(S) = Cardinality(S)
BY DEF Notice!Cardinality, Cardinality, Notice!IsFiniteSet, IsFiniteSet

LEMMA AtMostOne ==
    ASSUME NEW S, \A x, y \in S : x = y
    PROVE  Cardinality(S) <= 1
<1>1. CASE S = {}
    BY <1>1, FS_EmptySet
<1>2. ASSUME NEW x \in S PROVE Cardinality(S) <= 1
  <2>1. S = {x}
      BY <1>2
  <2>2. Cardinality({x}) = 1
      BY FS_Singleton
  <2> QED BY <2>1, <2>2
<1> QED BY <1>1, <1>2

\* A set of logs with one for each user and channel has as many as there are of these.
LEMMA OneForEach ==
    ASSUME NEW S \in SUBSET Log,
           \A l, m \in S : l.user = m.user /\ l.channel = m.channel => l = m,
           \A r \in Pairs : \E l \in S : <<l.user, l.channel>> = r
    PROVE  Cardinality(S) = Cardinality(Readers) * Cardinality(Channels)
<1> DEFINE f == [l \in S |-> <<l.user, l.channel>>]
<1>1. IsFiniteSet(Channels) /\ IsFiniteSet(Readers)
  <2>1. Channels = {"app"} \cup {"realtime"}
      BY DEF Channels, Notice!NoticeChannels
  <2>2. IsFiniteSet({"app"}) /\ IsFiniteSet({"realtime"})
      BY FS_Singleton
  <2>3. IsFiniteSet(Channels)
      BY <2>1, <2>2, FS_Union
  <2> QED BY <2>3, NoticeAssumption
<1>2. IsFiniteSet(Pairs) /\ Cardinality(Pairs) = Cardinality(Readers) * Cardinality(Channels)
    BY <1>1, FS_Product DEF Pairs
<1>3. f \in [S -> Pairs]
    BY DEF Log, Pairs
<1>4. \A l, m \in S : f[l] = f[m] => l = m
    OBVIOUS
<1> HIDE DEF f
<1>5. f \in Injection(S, Pairs)
    BY <1>3, <1>4 DEF Injection, IsInjective
<1>6. f \in Surjection(S, Pairs)
    BY <1>3 DEF f, Surjection
<1>7. Cardinality(S) = Cardinality(Pairs)
    BY <1>2, <1>5, <1>6, FS_Injection
<1> QED BY <1>2, <1>7

\* An answered dispatch has a log for every user and channel, and a log stays pending
\* only where a dispatch broke off, one for each of these: for any users, notices and
\* overlapping dispatches (notification_dispatcher.py:198-218).
THEOREM DispatchesAreAnsweredInFull == Spec => []DispatchesAreAnswered
<1>1. Init => NoticeInv
    BY NoticeInit DEF Init
<1>2. NoticeInv /\ [Next]_deliveryVars => NoticeInv'
    BY NoticeStep
    DEF Next, TellOfAlarms, TellOfNotices, TellOutside, KeepRows, deliveryVars, noticeVars
<1>3. NoticeInv => DispatchesAreAnswered
  <2> SUFFICES ASSUME NoticeInv PROVE DispatchesAreAnswered
      OBVIOUS
  <2>1. Notice!PendingIsCutShort
    <3> SUFFICES ASSUME NEW no \in 0 .. dispatched - 1
                 PROVE  LET open == {l \in Notice!Pending : l.no = no}
                            running == {d \in dispatches : d.no = no}
                        IN  IF running = {}
                            THEN Notice!Cardinality(open) <= 1 /\ (open # {} => breaks > 0)
                            ELSE \A d \in running : {<<l.user, l.channel>> : l \in open} = d.sending
        BY DEF Notice!PendingIsCutShort
    <3> DEFINE open == {l \in Notice!Pending : l.no = no}
               running == {d \in dispatches : d.no = no}
    <3>1. ASSUME running = {} PROVE Notice!Cardinality(open) <= 1 /\ (open # {} => breaks > 0)
      <4>1. Over(no)
          BY <3>1 DEF Over
      <4>2. \A l, m \in open : l = m
          BY <4>1 DEF NoticeInv, OverIsOver, Notice!Pending
      <4>3. open # {} => breaks > 0
          BY <4>1 DEF NoticeInv, OverIsOver, Notice!Pending
      <4> HIDE DEF open
      <4> QED BY <4>2, <4>3, AtMostOne, SameCardinality
    <3>2. ASSUME NEW d \in running PROVE {<<l.user, l.channel>> : l \in open} = d.sending
      <4>1. d.sending \subseteq Pairs \ d.left
          BY DEF NoticeInv, NoticeTypes, OneDispatchEach, Dispatch
      <4>2. ASSUME NEW r \in d.sending PROVE \E l \in open : <<l.user, l.channel>> = r
          BY <4>1 DEF NoticeInv, LogsAgree, Notice!Pending
      <4>3. ASSUME NEW l \in open PROVE <<l.user, l.channel>> \in d.sending
          BY DEF NoticeInv, LogsAgree, Notice!Pending
      <4> HIDE DEF open
      <4> QED BY <4>2, <4>3
    <3> QED BY <3>1, <3>2
  <2>2. Notice!AnsweredInFull
    <3> SUFFICES ASSUME breaks = 0, NEW no \in 0 .. dispatched - 1,
                        \A d \in dispatches : d.no # no
                 PROVE  Notice!Cardinality({l \in noticeLogs : l.no = no})
                          = Notice!Cardinality(Readers)
                            * Notice!Cardinality(Notice!NoticeChannels)
        BY DEF Notice!AnsweredInFull
    <3> DEFINE S == {l \in noticeLogs : l.no = no}
    <3>1. S \in SUBSET Log
        BY DEF NoticeInv, NoticeTypes
    <3>2. \A l, m \in S : l.user = m.user /\ l.channel = m.channel => l = m
        BY DEF NoticeInv, OneLogEach
    <3>3. \A r \in Pairs : \E l \in S : <<l.user, l.channel>> = r
        BY DEF NoticeInv, OverIsOver, Over
    <3> HIDE DEF S
    <3>4. Cardinality(S) = Cardinality(Readers) * Cardinality(Channels)
        BY <3>1, <3>2, <3>3, OneForEach
    <3> QED BY <3>4, SameCardinality DEF S, Channels
  <2> QED BY <2>1, <2>2 DEF DispatchesAreAnswered
<1> QED BY <1>1, <1>2, <1>3, PTL DEF Spec

-----------------------------------------------------------------------------
(* Alarms: what a dispatch still promises, and what the queue, the dispatch  *)
(* and the logs hold of each insertion.                                      *)

Messages == Alarm!Messages

Note(a, p, u, c, status) ==
    [alarm |-> a, policy |-> p, user |-> u, channel |-> c, status |-> status]

Entry == {e \in [id : Policies, form : PolicyRow] : Alarm!ValidForm(e.form)}

Token == [policy : Entry, users : SUBSET Users]

Order == Entry \X Users \X Alarm!Channels

Job ==
    [alarm : Alarms \cup {NoRow}, left : SUBSET Entry, tokens : SUBSET Token,
     seen : SUBSET Users, todo : SUBSET Order, draft : [Messages -> Nat]]

AlarmTypes ==
    /\ Alarm!TypeOK
    /\ policies \in [Policies -> {NoRow} \cup PolicyRow]
    /\ stale \subseteq [id : Alarms, kind : Kinds]
    /\ job \in Job
    /\ \A m \in Messages : job.draft[m] > 0 => m.alarm = job.alarm
    /\ \A a \in Alarms : since[a] <= edits

Drafts(p, u, c) ==
    job.draft[Note(job.alarm, p, u, c, "sent")] + job.draft[Note(job.alarm, p, u, c, "failed")]

\* The dispatch works on one policy at a time and on each of them once.
OnePolicyAtATime ==
    /\ \A e, f \in job.left : e.id = f.id => e = f
    /\ \A s, t \in job.tokens : s.policy = t.policy
    /\ \A d, e \in job.todo : d[1] = e[1]
    /\ \A t \in job.tokens : \A d \in job.todo : t.policy = d[1]
    /\ \A e \in job.left : \A t \in job.tokens : e.id # t.policy.id
    /\ \A e \in job.left : \A d \in job.todo : e.id # d[1].id

\* What has been written, and for whom.
WrittenOnce ==
    /\ \A m \in Messages : \A e \in job.left : e.id = m.policy => job.draft[m] = 0
    /\ \A m \in Messages : \A d \in job.todo :
         d[1].id = m.policy /\ d[2] = m.user /\ d[3] = m.channel => job.draft[m] = 0
    /\ \A m \in Messages : \A t \in job.tokens :
         t.policy.id = m.policy /\ job.draft[m] > 0 => m.user \in job.seen
    /\ \A t \in job.tokens : \A d \in job.todo : d[2] \in job.seen
    /\ job.alarm \in Alarms =>
         \A p \in Policies, u \in Users, c \in Alarm!Channels : Drafts(p, u, c) <= 1

\* A user an earlier token named has, or will have, the messages of the policy.
SeenAreServed ==
    \A t \in job.tokens : \A u \in job.seen : \A c \in t.policy.form.channels :
        <<t.policy, u, c>> \in job.todo \/ Drafts(t.policy.id, u, c) >= 1

Occurs(q, a) == Cardinality({i \in 1 .. Len(q) : q[i] = a})

Waiting(a) == Occurs(queue, a)

Underway(a) == IF job.alarm = a THEN 1 ELSE 0

\* Each insertion is in the queue, under way or done.
EachInsertionOnce ==
    \A a \in Alarms, p \in Policies, u \in Users, c \in Alarm!Channels :
        Alarm!Copies(a, p, u, c) + Waiting(a) + Underway(a) <= births[a]

\* An alarm keeps its kind.
KindsAgree ==
    /\ \A s \in stale : alarms[s.id] # NoRow => alarms[s.id].kind = s.kind
    /\ \A s, t \in stale : s.id = t.id => s.kind = t.kind
    /\ \A s \in stale : births[s.id] > 0
    /\ \A a \in Alarms : births[a] = 0 => alarms[a] = NoRow

InQueue(a) == \E i \in 1 .. Len(queue) : queue[i] = a

\* The dispatch of the last insertion finds what the pages show now.
UpToDate(a) == since[a] = edits /\ ~InQueue(a)

PoliciesStand ==
    failures = 0 /\ job.alarm \in Alarms /\ UpToDate(job.alarm) =>
        /\ \A e \in job.left : policies[e.id] # NoRow
        /\ \A t \in job.tokens : policies[t.policy.id] # NoRow
        /\ \A d \in job.todo : policies[d[1].id] # NoRow
        /\ \A m \in Messages : job.draft[m] > 0 => policies[m.policy] # NoRow

Promised(p, u, c) ==
    LET entry == [id |-> p, form |-> policies[p]] IN
    \/ entry \in job.left
    \/ \E t \in job.tokens : t.policy = entry /\ u \in t.users
    \/ <<entry, u, c>> \in job.todo
    \/ Drafts(p, u, c) >= 1

EachIsPromised ==
    failures = 0 =>
        \A a \in Alarms : alarms[a] # NoRow /\ UpToDate(a) =>
            \A p \in Alarm!Matching(alarms[a].kind) :
                \A u \in Alarm!Recipients(UNION policies[p].tokens), c \in policies[p].channels :
                    \/ Alarm!Copies(a, p, u, c) >= 1
                    \/ job.alarm = a /\ Promised(p, u, c)

\* What only the dispatch is asked.
JobInv == OnePolicyAtATime /\ WrittenOnce /\ SeenAreServed

AlarmInv ==
    /\ AlarmTypes
    /\ JobInv
    /\ EachInsertionOnce
    /\ KindsAgree
    /\ PoliciesStand
    /\ EachIsPromised

LEMMA NoteIsMessage ==
    ASSUME NEW a \in Alarms, NEW p \in Policies, NEW u \in Users, NEW c \in Alarm!Channels,
           NEW s \in {"sent", "failed"}
    PROVE  /\ Note(a, p, u, c, s) \in Messages
           /\ Note(a, p, u, c, s).alarm = a /\ Note(a, p, u, c, s).policy = p
           /\ Note(a, p, u, c, s).user = u /\ Note(a, p, u, c, s).channel = c
           /\ Note(a, p, u, c, s).status = s
BY DEF Note, Messages, Alarm!Messages

LEMMA MessageIsNote ==
    ASSUME NEW m \in Messages
    PROVE  /\ m.alarm \in Alarms /\ m.policy \in Policies /\ m.user \in Users
           /\ m.channel \in Alarm!Channels /\ m.status \in {"sent", "failed"}
           /\ m = Note(m.alarm, m.policy, m.user, m.channel, m.status)
BY DEF Note, Messages, Alarm!Messages

LEMMA CopiesAreCounted ==
    \A a, p, u, c :
        Alarm!Copies(a, p, u, c) = logs[Note(a, p, u, c, "sent")] + logs[Note(a, p, u, c, "failed")]
BY DEF Alarm!Copies, Note

LEMMA OccursAppend ==
    ASSUME NEW q \in Seq(Alarms), NEW a \in Alarms, NEW b \in Alarms
    PROVE  /\ Occurs(q, b) \in Nat
           /\ Occurs(Append(q, a), b) = Occurs(q, b) + (IF a = b THEN 1 ELSE 0)
<1> DEFINE S == {i \in 1 .. Len(q) : q[i] = b}
           T == {i \in 1 .. Len(Append(q, a)) : Append(q, a)[i] = b}
<1>1. IsFiniteSet(S) /\ Cardinality(S) \in Nat
  <2>1. IsFiniteSet(1 .. Len(q))
      BY FS_Interval
  <2>2. S \subseteq 1 .. Len(q)
      OBVIOUS
  <2> HIDE DEF S
  <2> QED BY <2>1, <2>2, FS_Subset, FS_CardinalityType
<1>2. /\ Len(q) \in Nat /\ Len(Append(q, a)) = Len(q) + 1
      /\ \A i \in 1 .. Len(q) : Append(q, a)[i] = q[i]
      /\ Append(q, a)[Len(q) + 1] = a
    OBVIOUS
<1>3. \A i : i \in 1 .. Len(Append(q, a)) <=> i \in 1 .. Len(q) \/ i = Len(q) + 1
    BY <1>2
<1>4. Len(q) + 1 \notin S
    BY <1>2
<1>5. CASE a = b
  <2>1. T = S \cup {Len(q) + 1}
      BY <1>2, <1>3, <1>5
  <2> HIDE DEF S, T
  <2>2. Cardinality(T) = Cardinality(S) + 1
      BY <1>1, <1>4, <2>1, FS_AddElement
  <2> QED BY <1>1, <1>5, <2>2 DEF Occurs, S, T
<1>6. CASE a # b
  <2>1. T = S
      BY <1>2, <1>3, <1>6
  <2>2. Occurs(q, b) = Cardinality(S) /\ Occurs(Append(q, a), b) = Cardinality(T)
      BY DEF Occurs
  <2> HIDE DEF S, T
  <2>3. (IF a = b THEN 1 ELSE 0) = 0
      BY <1>6
  <2> QED BY <1>1, <2>1, <2>2, <2>3
<1> QED BY <1>5, <1>6

LEMMA OccursTail ==
    ASSUME NEW q \in Seq(Alarms), q # <<>>, NEW b \in Alarms
    PROVE  /\ Occurs(Tail(q), b) \in Nat
           /\ Occurs(q, b) = Occurs(Tail(q), b) + (IF Head(q) = b THEN 1 ELSE 0)
<1> DEFINE S == {i \in 1 .. Len(q) : q[i] = b}
           T == {i \in 1 .. Len(Tail(q)) : Tail(q)[i] = b}
           R == S \ {1}
           f == [i \in T |-> i + 1]
<1>1. /\ Len(q) \in Nat \ {0} /\ Len(Tail(q)) = Len(q) - 1 /\ Head(q) = q[1]
      /\ \A i \in 1 .. Len(q) - 1 : Tail(q)[i] = q[i + 1]
    OBVIOUS
<1>2. IsFiniteSet(T) /\ Cardinality(T) \in Nat
  <2>1. IsFiniteSet(1 .. Len(Tail(q)))
      BY <1>1, FS_Interval
  <2>2. T \subseteq 1 .. Len(Tail(q))
      OBVIOUS
  <2> HIDE DEF T
  <2> QED BY <2>1, <2>2, FS_Subset, FS_CardinalityType
<1>3. \A i \in T : i \in Int /\ i + 1 \in R
    BY <1>1
<1>4. \A j \in R : j - 1 \in T /\ (j - 1) + 1 = j
    BY <1>1
<1>5. S = IF Head(q) = b THEN R \cup {1} ELSE R
    BY <1>1
<1> HIDE DEF S, T
<1>6. f \in [T -> R]
    BY <1>3
<1>7. \A i, j \in T : f[i] = f[j] => i = j
    BY <1>3
<1>8. \A j \in R : \E i \in T : f[i] = j
    BY <1>4
<1> HIDE DEF f
<1>9. f \in Surjection(T, R) /\ f \in Injection(T, R)
    BY <1>6, <1>7, <1>8 DEF Surjection, Injection, IsInjective
<1>10. IsFiniteSet(R) /\ Cardinality(R) = Cardinality(T)
    BY <1>2, <1>9, FS_Surjection
<1>11. Cardinality(S) = Cardinality(R) + (IF Head(q) = b THEN 1 ELSE 0)
  <2>1. 1 \notin R
      OBVIOUS
  <2> HIDE DEF R
  <2>2. CASE Head(q) = b
    <3>1. Cardinality(R \cup {1}) = Cardinality(R) + 1
        BY <1>10, <2>1, FS_AddElement
    <3> QED BY <1>5, <2>2, <3>1
  <2>3. CASE Head(q) # b
      BY <1>2, <1>5, <1>10, <2>3
  <2> QED BY <2>2, <2>3
<1> QED BY <1>2, <1>10, <1>11 DEF Occurs, S, T

LEMMA EmptyQueue == \A a : Occurs(<<>>, a) = 0
<1> SUFFICES ASSUME NEW a PROVE Occurs(<<>>, a) = 0
    OBVIOUS
<1>1. {i \in 1 .. Len(<<>>) : <<>>[i] = a} = {}
    OBVIOUS
<1> QED BY <1>1, FS_EmptySet DEF Occurs

\* The dispatch before its first policy, and none.
LEMMA NoJobIs ==
    /\ Alarm!NoJob \in Job
    /\ Alarm!NoJob.alarm = NoRow /\ Alarm!NoJob.left = {} /\ Alarm!NoJob.tokens = {}
    /\ Alarm!NoJob.todo = {} /\ \A m \in Messages : Alarm!NoJob.draft[m] = 0
BY DEF Alarm!NoJob, Alarm!NoMessages, Job, Messages

LEMMA DispatchIs ==
    ASSUME AlarmTypes, NEW a \in Alarms, NEW kind
    PROVE  /\ Alarm!Dispatch(a, kind) \in Job
           /\ Alarm!Dispatch(a, kind).alarm = a
           /\ Alarm!Dispatch(a, kind).left
                = {[id |-> p, form |-> policies[p]] : p \in Alarm!Matching(kind)}
           /\ Alarm!Dispatch(a, kind).tokens = {} /\ Alarm!Dispatch(a, kind).todo = {}
           /\ \A m \in Messages : Alarm!Dispatch(a, kind).draft[m] = 0
<1> DEFINE left == {[id |-> p, form |-> policies[p]] : p \in Alarm!Matching(kind)}
<1>1. \A p \in Alarm!Matching(kind) :
        p \in Policies /\ policies[p] \in PolicyRow /\ Alarm!ValidForm(policies[p])
    BY DEF Alarm!Matching, Alarm!Row, AlarmTypes, Alarm!TypeOK
<1>2. left \subseteq Entry
    BY <1>1 DEF Entry
<1>3. Alarm!Dispatch(a, kind) = [Alarm!NoJob EXCEPT !.alarm = a, !.left = left]
    BY DEF Alarm!Dispatch
<1> HIDE DEF left
<1>4. /\ Alarm!Dispatch(a, kind) \in Job /\ Alarm!Dispatch(a, kind).alarm = a
      /\ Alarm!Dispatch(a, kind).left = left
      /\ Alarm!Dispatch(a, kind).tokens = Alarm!NoJob.tokens
      /\ Alarm!Dispatch(a, kind).todo = Alarm!NoJob.todo
      /\ Alarm!Dispatch(a, kind).draft = Alarm!NoJob.draft
    BY <1>2, <1>3, NoJobIs DEF Job
<1> QED BY <1>4, NoJobIs DEF left

LEMMA FreshJob ==
    ASSUME job' \in Job, job'.tokens = {}, job'.todo = {}, \A m \in Messages : job'.draft[m] = 0,
           \A e, f \in job'.left : e.id = f.id => e = f
    PROVE  JobInv'
<1>1. OnePolicyAtATime' /\ SeenAreServed'
    BY DEF OnePolicyAtATime, SeenAreServed
<1>2. job'.alarm \in Alarms =>
        \A p \in Policies, u \in Users, c \in Alarm!Channels : Drafts(p, u, c)' <= 1
    BY NoteIsMessage DEF Drafts
<1>3. WrittenOnce'
    BY <1>2 DEF WrittenOnce
<1> QED BY <1>1, <1>3 DEF JobInv

LEMMA AlarmInitially == Alarm!Init => AlarmInv
<1> SUFFICES ASSUME Alarm!Init PROVE AlarmInv
    OBVIOUS
<1>1. /\ queue = <<>> /\ job = Alarm!NoJob /\ logs = Alarm!NoMessages /\ stale = {}
      /\ alarms = [a \in Alarms |-> NoRow] /\ births = [a \in Alarms |-> 0]
      /\ since = [a \in Alarms |-> 0] /\ edits = 0 /\ failures = 0 /\ eligible = Users
      /\ async \in BOOLEAN
      /\ policies \in [Policies -> {NoRow} \cup {f \in Forms : Alarm!ValidForm(f)}]
    BY DEF Alarm!Init
<1>2. policies \in [Policies -> {NoRow} \cup PolicyRow]
    BY <1>1, AlarmAssumption
<1>3. \A p \in Alarm!Row(policies) : Alarm!ValidForm(policies[p]) /\ policies[p] \in PolicyRow
    BY <1>1, <1>2 DEF Alarm!Row
<1>4. logs \in [Messages -> Nat] /\ \A m \in Messages : logs[m] = 0
    BY <1>1 DEF Alarm!NoMessages, Messages
<1>5. Alarm!TypeOK
  <2>1. \A p \in Alarm!Row(policies) : policies[p].active \in BOOLEAN
      BY <1>3 DEF PolicyRow
  <2>2. births \in [Alarms -> 0 .. MaxInserts] /\ since \in [Alarms -> 0 .. MaxEdits]
      BY <1>1, AlarmAssumption
  <2>3. edits \in 0 .. MaxEdits /\ failures \in 0 .. MaxFailures
      BY <1>1, AlarmAssumption
  <2>4. alarms \in [Alarms -> {NoRow} \cup [kind : Kinds, read : BOOLEAN]]
      BY <1>1
  <2> QED BY <1>1, <1>2, <1>3, <1>4, <2>1, <2>2, <2>3, <2>4 DEF Alarm!TypeOK, Messages
<1>6. AlarmTypes
  <2>1. job \in Job /\ \A m \in Messages : job.draft[m] > 0 => m.alarm = job.alarm
      BY <1>1, NoJobIs
  <2>2. \A a \in Alarms : since[a] <= edits
      BY <1>1
  <2> QED BY <1>1, <1>2, <1>5, <2>1, <2>2 DEF AlarmTypes
<1>7. JobInv
  <2>1. /\ job \in Job /\ job.tokens = {} /\ job.todo = {} /\ job.left = {}
        /\ job.alarm \notin Alarms /\ \A m \in Messages : job.draft[m] = 0
      BY <1>1, NoJobIs, AlarmAssumption
  <2> QED BY <2>1 DEF JobInv, OnePolicyAtATime, WrittenOnce, SeenAreServed
<1>8. EachInsertionOnce
  <2> SUFFICES ASSUME NEW a \in Alarms, NEW p \in Policies, NEW u \in Users,
                      NEW c \in Alarm!Channels
               PROVE  Alarm!Copies(a, p, u, c) + Waiting(a) + Underway(a) <= births[a]
      BY DEF EachInsertionOnce
  <2>1. Alarm!Copies(a, p, u, c) = 0
      BY <1>4, NoteIsMessage, CopiesAreCounted
  <2>2. Waiting(a) = 0
      BY <1>1, EmptyQueue DEF Waiting
  <2>3. Underway(a) = 0
      BY <1>1, NoJobIs, AlarmAssumption DEF Underway
  <2>4. births[a] = 0
      BY <1>1
  <2> QED BY <2>1, <2>2, <2>3, <2>4
<1>9. KindsAgree
    BY <1>1 DEF KindsAgree
<1>10. PoliciesStand
    BY <1>1, NoJobIs, AlarmAssumption DEF PoliciesStand
<1>11. EachIsPromised
    BY <1>1 DEF EachIsPromised
<1> QED BY <1>6, <1>7, <1>8, <1>9, <1>10, <1>11 DEF AlarmInv

\* A step of the dispatch alone.
Working ==
    /\ UNCHANGED <<async, alarms, policies, eligible, queue, logs, stale, births, since, edits,
                   failures>>
    /\ job'.alarm = job.alarm
    /\ job' \in Job

LEMMA WorkingKeeps ==
    ASSUME AlarmInv, Working, job.alarm \in Alarms, JobInv',
           \A m \in Messages : job'.draft[m] > 0 => m.alarm = job.alarm,
           PoliciesStand',
           \A p \in Policies, c \in Alarm!Channels :
             policies[p] \in PolicyRow /\ c \in policies[p].channels =>
               \A u \in Alarm!Recipients(UNION policies[p].tokens) :
                 Promised(p, u, c) => Promised(p, u, c)'
    PROVE  AlarmInv'
<1>1. AlarmTypes'
  <2>1. Alarm!TypeOK'
      BY DEF AlarmInv, AlarmTypes, Alarm!TypeOK, Working, Alarm!Row, Alarm!ValidForm
  <2> QED BY <2>1 DEF AlarmInv, AlarmTypes, Working
<1>2. EachInsertionOnce'
    BY DEF AlarmInv, EachInsertionOnce, Alarm!Copies, Waiting, Underway, Working
<1>3. KindsAgree'
    BY DEF AlarmInv, KindsAgree, Working
<1>4. EachIsPromised'
  <2> SUFFICES ASSUME failures = 0, NEW a \in Alarms, alarms[a] # NoRow, UpToDate(a),
                      NEW p \in Alarm!Matching(alarms[a].kind),
                      NEW u \in Alarm!Recipients(UNION policies[p].tokens),
                      NEW c \in policies[p].channels
               PROVE  Alarm!Copies(a, p, u, c)' >= 1 \/ (job'.alarm = a /\ Promised(p, u, c)')
      BY DEF EachIsPromised, UpToDate, InQueue, Working, Alarm!Matching, Alarm!Row,
             Alarm!Recipients
  <2>1. p \in Policies /\ policies[p] \in PolicyRow /\ c \in Alarm!Channels
      BY DEF AlarmInv, AlarmTypes, Alarm!TypeOK, Alarm!Matching, Alarm!Row, Alarm!ValidForm
  <2>2. Alarm!Copies(a, p, u, c) >= 1 \/ (job.alarm = a /\ Promised(p, u, c))
      BY DEF AlarmInv, EachIsPromised
  <2>3. Alarm!Copies(a, p, u, c)' = Alarm!Copies(a, p, u, c)
      BY DEF Alarm!Copies, Working
  <2> QED BY <2>1, <2>2, <2>3 DEF Working
<1> QED BY <1>1, <1>2, <1>3, <1>4 DEF AlarmInv

LEMMA NextPolicyKeeps == ASSUME AlarmInv, Alarm!NextPolicy PROVE AlarmInv'
<1>1. PICK p \in job.left :
        /\ job.tokens = {} /\ job.todo = {}
        /\ job' = [job EXCEPT !.left = @ \ {p}, !.seen = {},
                              !.tokens = {[policy |-> p, users |-> t] : t \in p.form.tokens}]
    BY DEF Alarm!NextPolicy
<1> DEFINE tokens == {[policy |-> p, users |-> t] : t \in p.form.tokens}
<1>2. p \in Entry /\ job \in Job /\ p.id \in Policies
    BY DEF AlarmInv, AlarmTypes, Job, Entry
<1>3. tokens \subseteq Token /\ \A t \in tokens : t.policy = p
    BY <1>2 DEF Entry, PolicyRow, Token
<1> HIDE DEF tokens
<1>4. /\ job' \in Job /\ job'.alarm = job.alarm /\ job'.left = job.left \ {p} /\ job'.seen = {}
      /\ job'.tokens = tokens /\ job'.todo = {} /\ job'.draft = job.draft
    BY <1>1, <1>2, <1>3 DEF tokens, Job
<1>5. Working
    BY <1>4 DEF Alarm!NextPolicy, Working
<1>6. job.alarm \in Alarms
    BY <1>1, NoJobIs DEF AlarmInv, AlarmTypes, Alarm!TypeOK
<1>7. OnePolicyAtATime'
    BY <1>1, <1>3, <1>4 DEF AlarmInv, JobInv, OnePolicyAtATime
<1>8. \A a, b, c : Drafts(a, b, c)' = Drafts(a, b, c)
    BY <1>4 DEF Drafts
<1>9. \A m \in Messages : p.id = m.policy => job.draft[m] = 0
    BY DEF AlarmInv, JobInv, WrittenOnce
<1>10. WrittenOnce'
    BY <1>3, <1>4, <1>8, <1>9 DEF AlarmInv, JobInv, WrittenOnce
<1>11. SeenAreServed'
    BY <1>4 DEF SeenAreServed
<1>12. PoliciesStand'
    BY <1>3, <1>4, <1>5 DEF AlarmInv, PoliciesStand, UpToDate, InQueue, Working
<1>13. ASSUME NEW q \in Policies, NEW u, NEW c, u \in Alarm!Recipients(UNION policies[q].tokens),
              Promised(q, u, c)
       PROVE  Promised(q, u, c)'
  <2> DEFINE entry == [id |-> q, form |-> policies[q]]
  <2>1. policies' = policies
      BY <1>5 DEF Working
  <2>2. CASE entry = p
    <3>1. PICK t \in policies[q].tokens : u \in t
        BY <1>13 DEF Alarm!Recipients
    <3>2. [policy |-> p, users |-> t] \in tokens
        BY <2>2 DEF tokens
    <3> QED BY <1>4, <2>1, <2>2, <3>1, <3>2 DEF Promised
  <2>3. CASE entry \in job.left \ {p}
      BY <1>4, <2>1, <2>3 DEF Promised
  <2>4. CASE Drafts(q, u, c) >= 1
      BY <1>8, <2>4 DEF Promised
  <2> QED BY <1>1, <1>13, <2>2, <2>3, <2>4 DEF Promised
<1>14. \A m \in Messages : job'.draft[m] > 0 => m.alarm = job.alarm
    BY <1>4 DEF AlarmInv, AlarmTypes
<1> QED BY <1>5, <1>6, <1>7, <1>10, <1>11, <1>12, <1>13, <1>14, WorkingKeeps DEF JobInv

LEMMA ResolveTokenKeeps == ASSUME AlarmInv, Alarm!ResolveToken PROVE AlarmInv'
<1> DEFINE Fresh(t) == Alarm!Recipients(t.users) \ job.seen
           Todo(t) == Alarm!Orders(t.policy, Fresh(t))
<1>1. PICK t \in job.tokens :
        /\ job.todo = {}
        /\ job' = [job EXCEPT !.tokens = @ \ {t}, !.seen = @ \cup Fresh(t),
                              !.todo = Alarm!Orders(t.policy, Fresh(t))]
    BY DEF Alarm!ResolveToken
<1>2. /\ t \in Token /\ job \in Job /\ t.policy \in Entry /\ t.policy.id \in Policies
      /\ t.policy.form.channels \subseteq Alarm!Channels /\ t.users \subseteq Users
    BY DEF AlarmInv, AlarmTypes, Job, Token, Entry, Alarm!ValidForm
<1>3. Fresh(t) \subseteq Users \ job.seen
    BY <1>2 DEF Alarm!Recipients
<1>4. /\ Todo(t) \subseteq Order
      /\ \A d \in Todo(t) : d[1] = t.policy /\ d[2] \in Fresh(t) /\ d[3] \in Alarm!Channels
    BY <1>2, <1>3 DEF Order, Alarm!Orders
<1>5. \A u \in Fresh(t), c \in t.policy.form.channels : <<t.policy, u, c>> \in Todo(t)
    BY DEF Alarm!Orders
<1>6. \A u \in Alarm!Recipients(t.users) : u \in job.seen \/ u \in Fresh(t)
    OBVIOUS
<1> HIDE DEF Fresh, Todo
<1>7. /\ job' \in Job /\ job'.alarm = job.alarm /\ job'.left = job.left
      /\ job'.seen = job.seen \cup Fresh(t) /\ job'.tokens = job.tokens \ {t}
      /\ job'.todo = Todo(t) /\ job'.draft = job.draft
    BY <1>1, <1>2, <1>3, <1>4 DEF Job, Todo
<1>8. Working
    BY <1>7 DEF Alarm!ResolveToken, Working
<1>9. job.alarm \in Alarms
    BY <1>1, NoJobIs DEF AlarmInv, AlarmTypes, Alarm!TypeOK
<1>10. OnePolicyAtATime'
    BY <1>1, <1>4, <1>7 DEF AlarmInv, JobInv, OnePolicyAtATime
<1>11. \A a, b, c : Drafts(a, b, c)' = Drafts(a, b, c)
    BY <1>7 DEF Drafts
<1>12. \A s \in job.tokens : s.policy = t.policy
    BY DEF AlarmInv, JobInv, OnePolicyAtATime
<1>13. WrittenOnce'
  <2>1. ASSUME NEW m \in Messages, NEW d \in Todo(t), d[1].id = m.policy, d[2] = m.user
        PROVE  job.draft[m] = 0
    <3>1. t.policy.id = m.policy /\ m.user \notin job.seen
        BY <1>3, <1>4, <2>1
    <3>2. job.draft[m] \in Nat
        BY <1>2 DEF Job
    <3> QED BY <3>1, <3>2 DEF AlarmInv, JobInv, WrittenOnce
  <2>2. \A m \in Messages : \A s \in job.tokens :
          s.policy.id = m.policy /\ job.draft[m] > 0 => m.user \in job'.seen
      BY <1>7 DEF AlarmInv, JobInv, WrittenOnce
  <2>3. \A d \in job'.todo : d[2] \in job'.seen
      BY <1>4, <1>7
  <2> QED BY <1>7, <1>11, <2>1, <2>2, <2>3 DEF AlarmInv, JobInv, WrittenOnce
<1>14. SeenAreServed'
  <2> SUFFICES ASSUME NEW s \in job'.tokens, NEW u \in job'.seen, NEW c \in s.policy.form.channels
               PROVE  <<s.policy, u, c>> \in job'.todo \/ Drafts(s.policy.id, u, c)' >= 1
      BY DEF SeenAreServed
  <2>1. s \in job.tokens /\ s.policy = t.policy
      BY <1>7, <1>12
  <2>2. CASE u \in job.seen
      BY <1>1, <1>11, <2>1, <2>2 DEF AlarmInv, JobInv, SeenAreServed
  <2>3. CASE u \in Fresh(t)
      BY <1>5, <1>7, <2>1, <2>3
  <2> QED BY <1>7, <2>2, <2>3
<1>15. PoliciesStand'
    BY <1>4, <1>7, <1>8 DEF AlarmInv, PoliciesStand, UpToDate, InQueue, Working
<1>16. ASSUME NEW q \in Policies, NEW u \in Alarm!Recipients(UNION policies[q].tokens),
              NEW c \in policies[q].channels, policies[q] \in PolicyRow, Promised(q, u, c)
       PROVE  Promised(q, u, c)'
  <2> DEFINE entry == [id |-> q, form |-> policies[q]]
  <2>1. policies' = policies /\ eligible' = eligible
      BY <1>8 DEF Working
  <2>2. CASE entry \in job.left
      BY <1>7, <2>1, <2>2 DEF Promised
  <2>3. ASSUME NEW s \in job.tokens, s.policy = entry, u \in s.users PROVE Promised(q, u, c)'
    <3>1. CASE s # t
        BY <1>7, <2>1, <2>3, <3>1 DEF Promised
    <3>2. CASE s = t
      <4>1. u \in Alarm!Recipients(t.users) /\ c \in t.policy.form.channels
          BY <2>3, <3>2 DEF Alarm!Recipients
      <4>2. CASE u \in job.seen
        <5>1. Drafts(q, u, c) >= 1
            BY <1>1, <2>3, <3>2, <4>1, <4>2 DEF AlarmInv, JobInv, SeenAreServed
        <5> QED BY <1>11, <5>1 DEF Promised
      <4>3. CASE u \in Fresh(t)
        <5>1. <<entry, u, c>> \in job'.todo
            BY <1>5, <1>7, <2>3, <3>2, <4>1, <4>3
        <5> QED BY <2>1, <5>1 DEF Promised
      <4> QED BY <1>6, <4>1, <4>2, <4>3
    <3> QED BY <3>1, <3>2
  <2>4. CASE Drafts(q, u, c) >= 1
      BY <1>11, <2>4 DEF Promised
  <2> QED BY <1>1, <1>16, <2>2, <2>3, <2>4 DEF Promised
<1>17. \A m \in Messages : job'.draft[m] > 0 => m.alarm = job.alarm
    BY <1>7 DEF AlarmInv, AlarmTypes
<1> QED BY <1>8, <1>9, <1>10, <1>13, <1>14, <1>15, <1>16, <1>17, WorkingKeeps DEF JobInv

LEMMA DeliverKeeps == ASSUME AlarmInv, Alarm!Deliver PROVE AlarmInv'
<1>1. PICK d \in job.todo, s \in {"sent", "failed"} :
        job' = [job EXCEPT !.todo = @ \ {d}, !.draft[Alarm!LogOf(d, s)] = @ + 1]
    BY DEF Alarm!Deliver, Alarm!Outcomes
<1> DEFINE n == Alarm!LogOf(d, s)
<1>2. /\ job \in Job /\ d \in Order /\ d[1].id \in Policies /\ d[2] \in Users
      /\ d[3] \in Alarm!Channels /\ d = <<d[1], d[2], d[3]>>
    BY DEF AlarmInv, AlarmTypes, Job, Order, Entry
<1>3. job.alarm \in Alarms
    BY NoJobIs DEF AlarmInv, AlarmTypes, Alarm!TypeOK
<1>4. n = Note(job.alarm, d[1].id, d[2], d[3], s)
    BY DEF Note, Alarm!LogOf
<1>5. n \in Messages /\ n.alarm = job.alarm /\ n.policy = d[1].id /\ n.user = d[2] /\ n.channel = d[3]
    BY <1>2, <1>3, <1>4, NoteIsMessage
<1> HIDE DEF n
<1>6. /\ job.draft \in [Messages -> Nat] /\ job.draft[n] = 0
      /\ \A m \in Messages : m.policy = d[1].id /\ m.user = d[2] /\ m.channel = d[3] => job.draft[m] = 0
    BY <1>2, <1>5 DEF AlarmInv, JobInv, WrittenOnce, Job
<1>7. /\ job'.alarm = job.alarm /\ job'.left = job.left /\ job'.seen = job.seen
      /\ job'.tokens = job.tokens /\ job'.todo = job.todo \ {d}
      /\ job'.draft = [job.draft EXCEPT ![n] = @ + 1]
    BY <1>1, <1>2 DEF Job, n
<1>8. /\ job'.draft \in [Messages -> Nat] /\ job'.draft[n] = 1
      /\ \A m \in Messages : m # n => job'.draft[m] = job.draft[m]
    BY <1>5, <1>6, <1>7
<1>9. job' = [alarm |-> job.alarm, left |-> job.left, tokens |-> job.tokens, seen |-> job.seen,
              todo |-> job.todo \ {d}, draft |-> job'.draft]
    BY <1>1, <1>2, <1>7 DEF Job
<1>10. job' \in Job
  <2>1. \A draft \in [Messages -> Nat] :
          [alarm |-> job.alarm, left |-> job.left, tokens |-> job.tokens, seen |-> job.seen,
           todo |-> job.todo \ {d}, draft |-> draft] \in Job
      BY <1>2 DEF Job
  <2> QED BY <1>8, <1>9, <2>1
<1>11. Working
    BY <1>7, <1>10 DEF Alarm!Deliver, Working
<1>12. \A t \in job.tokens : t.policy = d[1] /\ d[2] \in job.seen
    BY DEF AlarmInv, JobInv, OnePolicyAtATime, WrittenOnce
<1>13. \A e \in job.left : e.id # d[1].id
    BY DEF AlarmInv, JobInv, OnePolicyAtATime
<1>14. \A e \in job.todo : e[1] = d[1] /\ e = <<e[1], e[2], e[3]>>
  <2>1. \A e \in job.todo : e \in Order
      BY <1>2 DEF Job
  <2> QED BY <2>1 DEF AlarmInv, JobInv, OnePolicyAtATime, Order
<1>15. ASSUME NEW p \in Policies, NEW u \in Users, NEW c \in Alarm!Channels
       PROVE  IF p = d[1].id /\ u = d[2] /\ c = d[3] THEN Drafts(p, u, c)' = 1
              ELSE Drafts(p, u, c)' = Drafts(p, u, c)
  <2> DEFINE sent == Note(job.alarm, p, u, c, "sent")
             bounced == Note(job.alarm, p, u, c, "failed")
  <2>1. /\ sent \in Messages /\ sent.policy = p /\ sent.user = u /\ sent.channel = c
        /\ sent.status = "sent"
        /\ bounced \in Messages /\ bounced.policy = p /\ bounced.user = u /\ bounced.channel = c
        /\ bounced.status = "failed"
      BY <1>3, NoteIsMessage
  <2>2. /\ Drafts(p, u, c) = job.draft[sent] + job.draft[bounced]
        /\ Drafts(p, u, c)' = job'.draft[sent] + job'.draft[bounced]
      BY <1>7 DEF Drafts
  <2>3. CASE p = d[1].id /\ u = d[2] /\ c = d[3]
    <3>1. job.draft[sent] = 0 /\ job.draft[bounced] = 0
        BY <1>6, <2>1, <2>3
    <3>2. (n = sent /\ n # bounced) \/ (n = bounced /\ n # sent)
        BY <1>4, <2>1, <2>3
    <3>3. \/ job'.draft[sent] = 1 /\ job'.draft[bounced] = 0
          \/ job'.draft[sent] = 0 /\ job'.draft[bounced] = 1
        BY <1>8, <2>1, <3>1, <3>2
    <3> QED BY <2>2, <2>3, <3>3
  <2>4. CASE ~(p = d[1].id /\ u = d[2] /\ c = d[3])
    <3>1. n # sent /\ n # bounced
        BY <1>5, <2>1, <2>4
    <3> QED BY <1>8, <2>1, <2>2, <2>4, <3>1
  <2> QED BY <2>3, <2>4
<1>16. OnePolicyAtATime'
    BY <1>7 DEF AlarmInv, JobInv, OnePolicyAtATime
<1>17. WrittenOnce'
  <2>1. \A m \in Messages : \A e \in job'.left : e.id = m.policy => job'.draft[m] = 0
      BY <1>5, <1>7, <1>8, <1>13 DEF AlarmInv, JobInv, WrittenOnce
  <2>2. ASSUME NEW m \in Messages, NEW e \in job'.todo,
               e[1].id = m.policy, e[2] = m.user, e[3] = m.channel
        PROVE  job'.draft[m] = 0
    <3>1. e \in job.todo /\ e # d
        BY <1>7
    <3>2. ~(e[2] = d[2] /\ e[3] = d[3])
        BY <1>2, <1>14, <3>1
    <3>3. m # n
        BY <1>5, <2>2, <3>2
    <3> QED BY <1>8, <2>2, <3>1, <3>3 DEF AlarmInv, JobInv, WrittenOnce
  <2>3. \A m \in Messages : \A t \in job'.tokens :
          t.policy.id = m.policy /\ job'.draft[m] > 0 => m.user \in job'.seen
      BY <1>5, <1>7, <1>8, <1>12 DEF AlarmInv, JobInv, WrittenOnce
  <2>4. \A t \in job'.tokens : \A e \in job'.todo : e[2] \in job'.seen
      BY <1>7 DEF AlarmInv, JobInv, WrittenOnce
  <2>5. \A p \in Policies, u \in Users, c \in Alarm!Channels : Drafts(p, u, c)' <= 1
      BY <1>3, <1>15 DEF AlarmInv, JobInv, WrittenOnce
  <2> QED BY <2>1, <2>2, <2>3, <2>4, <2>5 DEF WrittenOnce
<1>18. ASSUME NEW p \in Policies, NEW u \in Users, NEW c \in Alarm!Channels, Drafts(p, u, c) >= 1
       PROVE  Drafts(p, u, c)' >= 1
    BY <1>15, <1>18
<1>19. ASSUME NEW e \in Entry, NEW u, NEW c, <<e, u, c>> \in job.todo
       PROVE  <<e, u, c>> \in job'.todo \/ Drafts(e.id, u, c)' >= 1
  <2>1. CASE <<e, u, c>> # d
      BY <1>7, <1>19, <2>1
  <2>2. CASE <<e, u, c>> = d
    <3>1. e = d[1] /\ u = d[2] /\ c = d[3]
        BY <2>2
    <3> QED BY <1>2, <1>15, <3>1
  <2> QED BY <2>1, <2>2
<1>20. SeenAreServed'
  <2> SUFFICES ASSUME NEW t \in job.tokens, NEW u \in job.seen, NEW c \in t.policy.form.channels
               PROVE  <<t.policy, u, c>> \in job'.todo \/ Drafts(t.policy.id, u, c)' >= 1
      BY <1>7 DEF SeenAreServed
  <2>1. t.policy \in Entry /\ t.policy.id \in Policies /\ u \in Users /\ c \in Alarm!Channels
      BY <1>2 DEF Job, Token, Entry, Alarm!ValidForm
  <2>2. <<t.policy, u, c>> \in job.todo \/ Drafts(t.policy.id, u, c) >= 1
      BY DEF AlarmInv, JobInv, SeenAreServed
  <2> QED BY <1>18, <1>19, <2>1, <2>2
<1>21. PoliciesStand'
    BY <1>5, <1>7, <1>8, <1>11 DEF AlarmInv, PoliciesStand, UpToDate, InQueue, Working
<1>22. ASSUME NEW q \in Policies, policies[q] \in PolicyRow, NEW c \in Alarm!Channels,
              c \in policies[q].channels, NEW u \in Alarm!Recipients(UNION policies[q].tokens),
              Promised(q, u, c)
       PROVE  Promised(q, u, c)'
  <2> DEFINE entry == [id |-> q, form |-> policies[q]]
  <2>1. policies' = policies /\ u \in Users
      BY <1>11 DEF Working, Alarm!Recipients, AlarmInv, AlarmTypes, Alarm!TypeOK
  <2>2. CASE entry \in job.left
      BY <1>7, <2>1, <2>2 DEF Promised
  <2>3. CASE \E t \in job.tokens : t.policy = entry /\ u \in t.users
      BY <1>7, <2>1, <2>3 DEF Promised
  <2>4. CASE <<entry, u, c>> \in job.todo
    <3>1. entry \in Entry
        BY <1>2, <2>4 DEF Job, Order
    <3>2. <<entry, u, c>> \in job'.todo \/ Drafts(q, u, c)' >= 1
        BY <1>19, <2>4, <3>1
    <3> QED BY <2>1, <3>2 DEF Promised
  <2>5. CASE Drafts(q, u, c) >= 1
      BY <1>18, <2>1, <2>5 DEF Promised
  <2> QED BY <1>22, <2>2, <2>3, <2>4, <2>5 DEF Promised
<1>23. \A m \in Messages : job'.draft[m] > 0 => m.alarm = job.alarm
    BY <1>5, <1>8 DEF AlarmInv, AlarmTypes
<1> QED BY <1>3, <1>11, <1>16, <1>17, <1>20, <1>21, <1>22, <1>23, WorkingKeeps DEF JobInv

LEMMA DispatchPromises ==
    ASSUME AlarmInv, job.alarm \notin Alarms, NEW a \in Alarms,
           job' = Alarm!Dispatch(a, alarms'[a].kind),
           UNCHANGED <<policies, eligible, logs, edits, failures>>,
           \A b \in Alarms \ {a} :
             alarms'[b] = alarms[b] /\ since'[b] = since[b] /\ (InQueue(b) => InQueue(b)')
    PROVE  /\ job' \in Job /\ job'.alarm = a /\ \A m \in Messages : job'.draft[m] = 0
           /\ JobInv' /\ PoliciesStand' /\ EachIsPromised'
<1> DEFINE kind == alarms'[a].kind
<1>1. /\ job' \in Job /\ job'.alarm = a
      /\ job'.left = {[id |-> p, form |-> policies[p]] : p \in Alarm!Matching(kind)}
      /\ job'.tokens = {} /\ job'.todo = {} /\ \A m \in Messages : job'.draft[m] = 0
    BY DispatchIs DEF AlarmInv
<1> HIDE DEF kind
<1>2. \A e \in job'.left : e.id \in Alarm!Matching(kind) /\ e = [id |-> e.id, form |-> policies[e.id]]
    BY <1>1
<1>3. JobInv'
  <2>1. \A e, f \in job'.left : e.id = f.id => e = f
      BY <1>2
  <2> QED BY <1>1, <2>1, FreshJob
<1>4. PoliciesStand'
    BY <1>1, <1>2 DEF PoliciesStand, Alarm!Matching, Alarm!Row
<1>5. EachIsPromised'
  <2> SUFFICES ASSUME failures = 0, NEW b \in Alarms, alarms'[b] # NoRow, UpToDate(b)',
                      NEW p \in Alarm!Matching(alarms'[b].kind),
                      NEW u \in Alarm!Recipients(UNION policies[p].tokens),
                      NEW c \in policies[p].channels
               PROVE  Alarm!Copies(b, p, u, c)' >= 1 \/ (job'.alarm = b /\ Promised(p, u, c)')
      BY DEF EachIsPromised, Alarm!Matching, Alarm!Row, Alarm!Recipients
  <2>1. CASE b = a
    <3>1. [id |-> p, form |-> policies[p]] \in job'.left
        BY <1>1, <2>1 DEF kind
    <3> QED BY <1>1, <2>1, <3>1 DEF Promised
  <2>2. CASE b # a
    <3>1. alarms[b] # NoRow /\ UpToDate(b) /\ p \in Alarm!Matching(alarms[b].kind)
        BY <2>2 DEF UpToDate
    <3>2. Alarm!Copies(b, p, u, c) >= 1
        BY <3>1 DEF AlarmInv, EachIsPromised
    <3> QED BY <3>2 DEF Alarm!Copies
  <2> QED BY <2>1, <2>2
<1> QED BY <1>1, <1>3, <1>4, <1>5

LEMMA NoJobPromisesNothing ==
    ASSUME job' = Alarm!NoJob
    PROVE  /\ job' \in Job /\ job'.alarm \notin Alarms /\ \A m \in Messages : job'.draft[m] = 0
           /\ JobInv' /\ PoliciesStand'
<1>1. /\ job' \in Job /\ job'.alarm \notin Alarms /\ job'.left = {} /\ job'.tokens = {}
      /\ job'.todo = {} /\ \A m \in Messages : job'.draft[m] = 0
    BY NoJobIs, AlarmAssumption
<1>2. JobInv'
    BY <1>1, FreshJob
<1> QED BY <1>1, <1>2 DEF PoliciesStand

LEMMA InsertedKeeps ==
    ASSUME AlarmInv, NEW a \in Alarms, NEW kind \in Kinds, NEW r \in BOOLEAN,
           Alarm!Inserted(a, kind), alarms[a] = NoRow,
           alarms' = [alarms EXCEPT ![a] = [kind |-> kind, read |-> r]],
           stale' \subseteq stale, \A s \in stale : s.id = a => s.kind = kind,
           UNCHANGED <<async, policies, eligible, logs, edits, failures>>
    PROVE  AlarmInv'
<1>1. /\ births[a] < MaxInserts /\ births \in [Alarms -> 0 .. MaxInserts]
      /\ births' = [births EXCEPT ![a] = births[a] + 1]
      /\ since \in [Alarms -> 0 .. MaxEdits] /\ edits \in 0 .. MaxEdits
      /\ since' = [since EXCEPT ![a] = edits]
      /\ alarms \in [Alarms -> {NoRow} \cup AlarmRow]
      /\ queue \in Seq(Alarms) /\ logs \in [Messages -> Nat]
      /\ MaxInserts \in Nat /\ MaxEdits \in Nat
    BY AlarmAssumption
    DEF Alarm!Inserted, AlarmInv, AlarmTypes, Alarm!TypeOK, AlarmRow, Messages
<1>2. /\ births' \in [Alarms -> 0 .. MaxInserts] /\ births'[a] = births[a] + 1 /\ births'[a] > 0
      /\ since' \in [Alarms -> 0 .. MaxEdits] /\ since'[a] = edits
      /\ alarms' \in [Alarms -> {NoRow} \cup AlarmRow] /\ alarms'[a] # NoRow /\ alarms'[a].kind = kind
      /\ \A b \in Alarms \ {a} :
           births'[b] = births[b] /\ since'[b] = since[b] /\ alarms'[b] = alarms[b]
  <2>1. [kind |-> kind, read |-> r] \in AlarmRow /\ [kind |-> kind, read |-> r] # NoRow
      BY AlarmAssumption DEF AlarmRow
  <2> QED BY <1>1, <2>1
<1>3. CASE async
  <2>1. queue' = Append(queue, a) /\ job' = job
      BY <1>3 DEF Alarm!Inserted
  <2>2. /\ queue' \in Seq(Alarms) /\ queue' # <<>> /\ InQueue(a)'
        /\ \A b : InQueue(b) => InQueue(b)'
    <3>1. /\ Len(queue) \in Nat /\ queue' \in Seq(Alarms) /\ Len(queue') = Len(queue) + 1
          /\ queue'[Len(queue) + 1] = a /\ \A i \in 1 .. Len(queue) : queue'[i] = queue[i]
        BY <1>1, <2>1
    <3> QED BY <3>1 DEF InQueue
  <2> QED
    <3>1. AlarmTypes'
      <4>1. Alarm!TypeOK'
          BY <1>2, <1>3, <2>1, <2>2
          DEF AlarmInv, AlarmTypes, Alarm!TypeOK, Alarm!Row, Alarm!ValidForm, AlarmRow
      <4> QED BY <1>1, <1>2, <2>1, <4>1 DEF AlarmInv, AlarmTypes
    <3>2. JobInv'
        BY <2>1 DEF AlarmInv, JobInv, OnePolicyAtATime, WrittenOnce, SeenAreServed, Drafts
    <3>3. EachInsertionOnce'
      <4> SUFFICES ASSUME NEW b \in Alarms, NEW p \in Policies, NEW u \in Users,
                          NEW c \in Alarm!Channels
                   PROVE  (Alarm!Copies(b, p, u, c) + Waiting(b) + Underway(b) <= births[b])'
          BY DEF EachInsertionOnce
      <4>1. Alarm!Copies(b, p, u, c) + Waiting(b) + Underway(b) <= births[b]
          BY DEF AlarmInv, EachInsertionOnce
      <4>2. /\ Alarm!Copies(b, p, u, c)' = Alarm!Copies(b, p, u, c)
            /\ Underway(b)' = Underway(b) /\ Underway(b) \in Nat
          BY <2>1 DEF Alarm!Copies, Underway
      <4>3. Alarm!Copies(b, p, u, c) \in Nat
          BY <1>1, NoteIsMessage, CopiesAreCounted
      <4>4. /\ Waiting(b)' = Waiting(b) + (IF a = b THEN 1 ELSE 0) /\ Waiting(b) \in Nat
          BY <1>1, <2>1, OccursAppend DEF Waiting
      <4>5. births'[b] = births[b] + (IF a = b THEN 1 ELSE 0) /\ births[b] \in Nat
          BY <1>1, <1>2
      <4> QED BY <4>1, <4>2, <4>3, <4>4, <4>5
    <3>4. KindsAgree'
        BY <1>2 DEF AlarmInv, AlarmTypes, KindsAgree
    <3>5. PoliciesStand'
      <4> SUFFICES ASSUME failures = 0, job.alarm \in Alarms, UpToDate(job.alarm)'
                   PROVE  PoliciesStand'
          BY <2>1 DEF PoliciesStand, UpToDate, InQueue
      <4>1. \A b \in Alarms : UpToDate(b)' => b # a /\ UpToDate(b)
          BY <1>2, <2>2 DEF UpToDate
      <4>2. PoliciesStand /\ UpToDate(job.alarm)
          BY <2>1, <4>1 DEF AlarmInv, UpToDate, InQueue
      <4> QED BY <2>1, <4>2 DEF PoliciesStand
    <3>6. EachIsPromised'
      <4> SUFFICES ASSUME failures = 0, NEW b \in Alarms, alarms'[b] # NoRow, UpToDate(b)',
                          NEW p \in Alarm!Matching(alarms'[b].kind),
                          NEW u \in Alarm!Recipients(UNION policies[p].tokens),
                          NEW c \in policies[p].channels
                   PROVE  Alarm!Copies(b, p, u, c)' >= 1 \/ (job'.alarm = b /\ Promised(p, u, c)')
          BY DEF EachIsPromised, Alarm!Matching, Alarm!Row, Alarm!Recipients
      <4>1. b # a /\ UpToDate(b) /\ alarms'[b] = alarms[b]
          BY <1>2, <2>2 DEF UpToDate
      <4>2. Alarm!Copies(b, p, u, c) >= 1 \/ (job.alarm = b /\ Promised(p, u, c))
          BY <4>1 DEF AlarmInv, EachIsPromised
      <4> QED BY <2>1, <4>2 DEF Alarm!Copies, Promised, Drafts
    <3> QED BY <3>1, <3>2, <3>3, <3>4, <3>5, <3>6 DEF AlarmInv
<1>4. CASE ~async
  <2>1. job = Alarm!NoJob /\ job' = Alarm!Dispatch(a, kind) /\ queue' = queue
      BY <1>4 DEF Alarm!Inserted
  <2>2. job.alarm \notin Alarms
      BY <2>1, NoJobIs, AlarmAssumption
  <2>3. /\ job' \in Job /\ job'.alarm = a /\ \A m \in Messages : job'.draft[m] = 0
        /\ JobInv' /\ PoliciesStand' /\ EachIsPromised'
      BY <1>2, <2>1, <2>2, DispatchPromises DEF InQueue
  <2>4. AlarmTypes'
    <3>1. Alarm!TypeOK'
        BY <1>2, <2>1, <2>3
        DEF AlarmInv, AlarmTypes, Alarm!TypeOK, Alarm!Row, Alarm!ValidForm, AlarmRow
    <3> QED BY <1>1, <1>2, <2>3, <3>1 DEF AlarmInv, AlarmTypes
  <2>5. EachInsertionOnce'
    <3> SUFFICES ASSUME NEW b \in Alarms, NEW p \in Policies, NEW u \in Users,
                        NEW c \in Alarm!Channels
                 PROVE  (Alarm!Copies(b, p, u, c) + Waiting(b) + Underway(b) <= births[b])'
        BY DEF EachInsertionOnce
    <3>1. Alarm!Copies(b, p, u, c) + Waiting(b) + Underway(b) <= births[b]
        BY DEF AlarmInv, EachInsertionOnce
    <3>2. /\ Alarm!Copies(b, p, u, c)' = Alarm!Copies(b, p, u, c)
          /\ Waiting(b)' = Waiting(b)
        BY <2>1 DEF Alarm!Copies, Waiting
    <3>3. Alarm!Copies(b, p, u, c) \in Nat /\ Waiting(b) \in Nat
        BY SMTT(30), <1>1, NoteIsMessage, CopiesAreCounted, OccursAppend DEF Waiting
    <3>4. Underway(b) = 0 /\ Underway(b)' = IF a = b THEN 1 ELSE 0
        BY <2>2, <2>3 DEF Underway
    <3>5. births'[b] = births[b] + (IF a = b THEN 1 ELSE 0) /\ births[b] \in Nat
        BY <1>1, <1>2
    <3> QED BY <3>1, <3>2, <3>3, <3>4, <3>5
  <2>6. KindsAgree'
      BY <1>2 DEF AlarmInv, AlarmTypes, KindsAgree
  <2> QED BY <2>3, <2>4, <2>5, <2>6 DEF AlarmInv
<1> QED BY <1>3, <1>4

LEMMA TakeKeeps == ASSUME AlarmInv, Alarm!Take PROVE AlarmInv'
<1> DEFINE a == Head(queue)
<1>1. /\ queue # <<>> /\ job = Alarm!NoJob /\ queue' = Tail(queue)
      /\ job' = IF alarms[a] = NoRow THEN Alarm!NoJob ELSE Alarm!Dispatch(a, alarms[a].kind)
      /\ UNCHANGED <<async, alarms, policies, eligible, logs, stale, births, since, edits,
                     failures>>
    BY DEF Alarm!Take
<1>2. queue \in Seq(Alarms) /\ logs \in [Messages -> Nat] /\ births \in [Alarms -> 0 .. MaxInserts]
    BY DEF AlarmInv, AlarmTypes, Alarm!TypeOK, Messages
<1>3. /\ a \in Alarms /\ queue' \in Seq(Alarms)
      /\ Len(queue) \in Nat \ {0} /\ Len(queue') = Len(queue) - 1 /\ a = queue[1]
      /\ \A i \in 1 .. Len(queue) - 1 : queue'[i] = queue[i + 1]
    BY <1>1, <1>2
<1>4. job.alarm \notin Alarms
    BY <1>1, NoJobIs, AlarmAssumption
<1> HIDE DEF a
<1>5. ASSUME NEW b \in Alarms \ {a}, InQueue(b) PROVE InQueue(b)'
  <2>1. PICK i \in 1 .. Len(queue) : queue[i] = b
      BY <1>5 DEF InQueue
  <2>2. i - 1 \in 1 .. Len(queue') /\ queue'[i - 1] = b
      BY <1>3, <2>1
  <2> QED BY <2>2 DEF InQueue
<1>6. /\ job' \in Job /\ job'.alarm \in {a, NoRow} /\ \A m \in Messages : job'.draft[m] = 0
      /\ job' = Alarm!NoJob \/ job'.alarm \in Alarms
      /\ JobInv' /\ PoliciesStand' /\ EachIsPromised'
  <2>1. CASE alarms[a] # NoRow
      BY <1>1, <1>3, <1>4, <1>5, <2>1, DispatchPromises
  <2>2. CASE alarms[a] = NoRow
    <3>1. job' = Alarm!NoJob
        BY <1>1, <2>2
    <3>2. EachIsPromised'
      <4> SUFFICES ASSUME failures = 0, NEW b \in Alarms, alarms[b] # NoRow, UpToDate(b)',
                          NEW p \in Alarm!Matching(alarms[b].kind),
                          NEW u \in Alarm!Recipients(UNION policies[p].tokens),
                          NEW c \in policies[p].channels
                   PROVE  Alarm!Copies(b, p, u, c)' >= 1
          BY <1>1 DEF EachIsPromised, Alarm!Matching, Alarm!Row, Alarm!Recipients
      <4>1. UpToDate(b)
          BY <1>1, <1>5, <2>2 DEF UpToDate
      <4>2. Alarm!Copies(b, p, u, c) >= 1
          BY <1>4, <4>1 DEF AlarmInv, EachIsPromised
      <4> QED BY <1>1, <4>2 DEF Alarm!Copies
    <3> QED BY <3>1, <3>2, NoJobPromisesNothing, NoJobIs
  <2> QED BY <2>1, <2>2
<1>7. AlarmTypes'
  <2>1. Alarm!TypeOK'
      BY <1>1, <1>3, <1>6
      DEF AlarmInv, AlarmTypes, Alarm!TypeOK, Alarm!Row, Alarm!ValidForm
  <2> QED BY <1>1, <1>6, <2>1 DEF AlarmInv, AlarmTypes
<1>8. EachInsertionOnce'
  <2> SUFFICES ASSUME NEW b \in Alarms, NEW p \in Policies, NEW u \in Users,
                      NEW c \in Alarm!Channels
               PROVE  (Alarm!Copies(b, p, u, c) + Waiting(b) + Underway(b) <= births[b])'
      BY DEF EachInsertionOnce
  <2>1. Alarm!Copies(b, p, u, c) + Waiting(b) + Underway(b) <= births[b]
      BY DEF AlarmInv, EachInsertionOnce
  <2>2. Alarm!Copies(b, p, u, c)' = Alarm!Copies(b, p, u, c) /\ births' = births
      BY <1>1 DEF Alarm!Copies
  <2>3. Alarm!Copies(b, p, u, c) \in Nat /\ births[b] \in Nat
      BY <1>2, NoteIsMessage, CopiesAreCounted
  <2>4. Waiting(b) = Waiting(b)' + (IF a = b THEN 1 ELSE 0) /\ Waiting(b)' \in Nat
      BY <1>1, <1>2, OccursTail DEF Waiting, a
  <2>5. Underway(b) = 0 /\ Underway(b)' \in {0, IF a = b THEN 1 ELSE 0}
      BY <1>4, <1>6, AlarmAssumption DEF Underway
  <2> QED BY <2>1, <2>2, <2>3, <2>4, <2>5
<1>9. KindsAgree'
    BY <1>1 DEF AlarmInv, KindsAgree
<1> QED BY <1>6, <1>7, <1>8, <1>9 DEF AlarmInv

LEMMA CommitKeeps == ASSUME AlarmInv, Alarm!Commit PROVE AlarmInv'
<1> DEFINE Stands == \A m \in Messages :
                       job.draft[m] > 0 => alarms[m.alarm] # NoRow /\ policies[m.policy] # NoRow
<1>1. /\ job # Alarm!NoJob /\ job.left = {} /\ job.tokens = {} /\ job.todo = {}
      /\ job' = Alarm!NoJob
      /\ logs' = IF Stands THEN [m \in Messages |-> logs[m] + job.draft[m]] ELSE logs
      /\ UNCHANGED <<async, alarms, policies, eligible, queue, stale, births, since, edits,
                     failures>>
    BY DEF Alarm!Commit, Messages
<1>2. /\ logs \in [Messages -> Nat] /\ job \in Job /\ job.draft \in [Messages -> Nat]
      /\ job.alarm \in Alarms /\ queue \in Seq(Alarms) /\ births \in [Alarms -> 0 .. MaxInserts]
      /\ \A m \in Messages : job.draft[m] > 0 => m.alarm = job.alarm
    BY <1>1 DEF AlarmInv, AlarmTypes, Alarm!TypeOK, Messages, Job
<1> HIDE DEF Stands
<1>3. /\ logs' \in [Messages -> Nat]
      /\ \A m \in Messages : logs'[m] = IF Stands THEN logs[m] + job.draft[m] ELSE logs[m]
    BY <1>1, <1>2
<1>4. job' \in Job /\ job'.alarm \notin Alarms /\ JobInv' /\ PoliciesStand'
      /\ \A m \in Messages : job'.draft[m] = 0
    BY <1>1, NoJobPromisesNothing
<1>5. AlarmTypes'
  <2>1. Alarm!TypeOK'
      BY <1>1, <1>3
      DEF AlarmInv, AlarmTypes, Alarm!TypeOK, Alarm!Row, Alarm!ValidForm, Messages
  <2> QED BY <1>1, <1>4, <2>1 DEF AlarmInv, AlarmTypes
<1>6. ASSUME NEW b \in Alarms, NEW p \in Policies, NEW u \in Users, NEW c \in Alarm!Channels
      PROVE  /\ Alarm!Copies(b, p, u, c) \in Nat /\ Drafts(p, u, c) \in Nat
             /\ Alarm!Copies(b, p, u, c)' =
                  Alarm!Copies(b, p, u, c)
                    + (IF Stands /\ b = job.alarm THEN Drafts(p, u, c) ELSE 0)
  <2> DEFINE sent == Note(b, p, u, c, "sent")
             bounced == Note(b, p, u, c, "failed")
  <2>1. /\ sent \in Messages /\ bounced \in Messages /\ sent.alarm = b /\ bounced.alarm = b
      BY NoteIsMessage
  <2>2. /\ Alarm!Copies(b, p, u, c) = logs[sent] + logs[bounced]
        /\ Alarm!Copies(b, p, u, c)' = logs'[sent] + logs'[bounced]
      BY CopiesAreCounted DEF Alarm!Copies, Note
  <2>3. /\ Drafts(p, u, c) \in Nat
        /\ b = job.alarm => Drafts(p, u, c) = job.draft[sent] + job.draft[bounced]
      BY SMTT(30), <1>2, NoteIsMessage DEF Drafts
  <2> HIDE DEF sent, bounced
  <2>4. b # job.alarm => ~(job.draft[sent] > 0) /\ ~(job.draft[bounced] > 0)
      BY <1>2, <2>1
  <2>5. logs[sent] \in Nat /\ logs[bounced] \in Nat /\ job.draft[sent] \in Nat
        /\ job.draft[bounced] \in Nat
      BY <1>2, <2>1
  <2> QED BY <1>3, <2>1, <2>2, <2>3, <2>4, <2>5
<1>7. EachInsertionOnce'
  <2> SUFFICES ASSUME NEW b \in Alarms, NEW p \in Policies, NEW u \in Users,
                      NEW c \in Alarm!Channels
               PROVE  (Alarm!Copies(b, p, u, c) + Waiting(b) + Underway(b) <= births[b])'
      BY DEF EachInsertionOnce
  <2>1. Alarm!Copies(b, p, u, c) + Waiting(b) + Underway(b) <= births[b]
      BY DEF AlarmInv, EachInsertionOnce
  <2>2. Waiting(b)' = Waiting(b) /\ Waiting(b) \in Nat /\ births' = births /\ births[b] \in Nat
      BY <1>1, <1>2, OccursAppend DEF Waiting
  <2>3. Underway(b)' = 0 /\ Underway(b) = IF b = job.alarm THEN 1 ELSE 0
      BY <1>4 DEF Underway
  <2>4. Drafts(p, u, c) <= 1
      BY <1>2 DEF AlarmInv, JobInv, WrittenOnce
  <2> QED BY <1>6, <2>1, <2>2, <2>3, <2>4
<1>8. KindsAgree'
    BY <1>1 DEF AlarmInv, KindsAgree
<1>9. EachIsPromised'
  <2> SUFFICES ASSUME failures = 0, NEW b \in Alarms, alarms[b] # NoRow, UpToDate(b),
                      NEW p \in Alarm!Matching(alarms[b].kind),
                      NEW u \in Alarm!Recipients(UNION policies[p].tokens),
                      NEW c \in policies[p].channels
               PROVE  Alarm!Copies(b, p, u, c)' >= 1
      BY <1>1 DEF EachIsPromised, UpToDate, InQueue, Alarm!Matching, Alarm!Row, Alarm!Recipients
  <2>1. /\ p \in Policies /\ c \in Alarm!Channels /\ u \in Users
      BY DEF AlarmInv, AlarmTypes, Alarm!TypeOK, Alarm!Matching, Alarm!Row, Alarm!ValidForm,
             Alarm!Recipients
  <2>2. CASE Alarm!Copies(b, p, u, c) >= 1
      BY <1>6, <2>1, <2>2
  <2>3. CASE job.alarm = b /\ Promised(p, u, c)
    <3>1. Drafts(p, u, c) >= 1
        BY <1>1, <2>3 DEF Promised
    <3>2. Stands
        BY <1>2, <2>3 DEF AlarmInv, PoliciesStand, Stands
    <3> QED BY <1>6, <2>1, <2>3, <3>1, <3>2
  <2> QED BY <2>2, <2>3 DEF AlarmInv, EachIsPromised
<1> QED BY <1>4, <1>5, <1>7, <1>8, <1>9 DEF AlarmInv

LEMMA BreakOffKeeps == ASSUME AlarmInv, Alarm!Fail \/ Alarm!Restart PROVE AlarmInv'
<1>1. /\ failures < MaxFailures /\ failures' = failures + 1 /\ job' = Alarm!NoJob
      /\ queue' \in {queue, <<>>} /\ stale' \in {stale, {}}
      /\ UNCHANGED <<async, alarms, policies, eligible, logs, births, since, edits>>
    BY DEF Alarm!Fail, Alarm!Restart
<1>2. /\ failures \in 0 .. MaxFailures /\ MaxFailures \in Nat /\ queue \in Seq(Alarms)
      /\ logs \in [Messages -> Nat] /\ births \in [Alarms -> 0 .. MaxInserts]
    BY AlarmAssumption DEF AlarmInv, AlarmTypes, Alarm!TypeOK, Messages
<1>3. failures' \in 0 .. MaxFailures /\ failures' # 0 /\ queue' \in Seq(Alarms)
  <2>1. failures' \in 0 .. MaxFailures /\ failures' # 0
      BY <1>1, <1>2
  <2>2. <<>> \in Seq(Alarms)
      OBVIOUS
  <2> QED BY <1>1, <1>2, <2>1, <2>2
<1>4. job' \in Job /\ job'.alarm \notin Alarms /\ JobInv' /\ PoliciesStand'
      /\ \A m \in Messages : job'.draft[m] = 0
    BY <1>1, NoJobPromisesNothing
<1>5. AlarmTypes'
  <2>1. Alarm!TypeOK'
      BY <1>1, <1>3
      DEF AlarmInv, AlarmTypes, Alarm!TypeOK, Alarm!Row, Alarm!ValidForm
  <2>2. stale' \subseteq [id : Alarms, kind : Kinds]
      BY <1>1 DEF AlarmInv, AlarmTypes
  <2> QED BY <1>1, <1>4, <2>1, <2>2 DEF AlarmInv, AlarmTypes
<1>6. EachInsertionOnce'
  <2> SUFFICES ASSUME NEW b \in Alarms, NEW p \in Policies, NEW u \in Users,
                      NEW c \in Alarm!Channels
               PROVE  (Alarm!Copies(b, p, u, c) + Waiting(b) + Underway(b) <= births[b])'
      BY DEF EachInsertionOnce
  <2>1. Alarm!Copies(b, p, u, c) + Waiting(b) + Underway(b) <= births[b]
      BY DEF AlarmInv, EachInsertionOnce
  <2>2. /\ Waiting(b)' \in {Waiting(b), 0} /\ Waiting(b) \in Nat
        /\ births' = births /\ births[b] \in Nat
      BY <1>1, <1>2, OccursAppend, EmptyQueue DEF Waiting
  <2>3. Underway(b)' = 0 /\ Underway(b) \in Nat
      BY <1>4 DEF Underway
  <2>4. Alarm!Copies(b, p, u, c)' = Alarm!Copies(b, p, u, c) /\ Alarm!Copies(b, p, u, c) \in Nat
      BY <1>1, <1>2, NoteIsMessage, CopiesAreCounted DEF Alarm!Copies
  <2> QED BY <2>1, <2>2, <2>3, <2>4
<1>7. KindsAgree'
  <2>1. stale' \subseteq stale
      BY <1>1
  <2> QED BY <1>1, <2>1 DEF AlarmInv, KindsAgree
<1>8. EachIsPromised'
    BY <1>3 DEF EachIsPromised
<1> QED BY <1>4, <1>5, <1>6, <1>7, <1>8 DEF AlarmInv

LEMMA EditKeeps ==
    ASSUME AlarmInv, Alarm!Edit, eligible' \subseteq Users,
           policies' \in [Policies -> {NoRow} \cup {f \in PolicyRow : Alarm!ValidForm(f)}]
    PROVE  AlarmInv'
<1>1. /\ edits < MaxEdits /\ edits' = edits + 1
      /\ UNCHANGED <<async, alarms, queue, job, logs, stale, births, since, failures>>
    BY DEF Alarm!Edit
<1>2. /\ edits \in 0 .. MaxEdits /\ MaxEdits \in Nat /\ since \in [Alarms -> 0 .. MaxEdits]
      /\ \A a \in Alarms : since[a] <= edits
    BY AlarmAssumption DEF AlarmInv, AlarmTypes, Alarm!TypeOK
<1>3. edits' \in 0 .. MaxEdits /\ \A a \in Alarms : since[a] <= edits' /\ since[a] # edits'
    BY <1>1, <1>2
<1>4. AlarmTypes'
  <2>1. \A p \in Alarm!Row(policies)' :
          Alarm!ValidForm(policies[p])' /\ (policies[p].active \in BOOLEAN)'
      BY DEF Alarm!Row, Alarm!ValidForm, PolicyRow
  <2>2. Alarm!TypeOK'
      BY <1>1, <1>3, <2>1 DEF AlarmInv, AlarmTypes, Alarm!TypeOK
  <2> QED BY <1>1, <1>3, <2>2 DEF AlarmInv, AlarmTypes
<1>5. JobInv' /\ EachInsertionOnce' /\ KindsAgree'
    BY <1>1
    DEF AlarmInv, JobInv, OnePolicyAtATime, WrittenOnce, SeenAreServed, Drafts,
        EachInsertionOnce, Alarm!Copies, Waiting, Underway, KindsAgree
<1>6. PoliciesStand' /\ EachIsPromised'
    BY <1>1, <1>3 DEF PoliciesStand, EachIsPromised, UpToDate
<1> QED BY <1>4, <1>5, <1>6 DEF AlarmInv

LEMMA RowsKeep ==
    ASSUME AlarmInv,
           UNCHANGED <<async, policies, eligible, queue, job, logs, births, since, edits, failures>>,
           alarms' \in [Alarms -> {NoRow} \cup AlarmRow],
           stale' \subseteq [id : Alarms, kind : Kinds],
           \A a \in Alarms :
             alarms'[a] # NoRow => alarms[a] # NoRow /\ alarms'[a].kind = alarms[a].kind,
           \A s \in stale' :
             s \in stale \/ (alarms[s.id] # NoRow /\ alarms[s.id].kind = s.kind)
    PROVE  AlarmInv'
<1>1. AlarmTypes'
  <2>1. Alarm!TypeOK'
      BY DEF AlarmInv, AlarmTypes, Alarm!TypeOK, Alarm!Row, Alarm!ValidForm, AlarmRow
  <2> QED BY <2>1 DEF AlarmInv, AlarmTypes
<1>2. JobInv' /\ EachInsertionOnce' /\ PoliciesStand'
    BY DEF AlarmInv, JobInv, OnePolicyAtATime, WrittenOnce, SeenAreServed, Drafts,
           EachInsertionOnce, Alarm!Copies, Waiting, Underway, PoliciesStand, UpToDate, InQueue
<1>3. KindsAgree'
  <2>1. \A s \in stale' : s.id \in Alarms
      OBVIOUS
  <2>2. \A s \in stale' : alarms[s.id] # NoRow => alarms[s.id].kind = s.kind
      BY DEF AlarmInv, KindsAgree
  <2>3. \A s, t \in stale' : s.id = t.id => s.kind = t.kind
      BY DEF AlarmInv, KindsAgree
  <2>4. \A a \in Alarms : births[a] \in Nat /\ (births[a] = 0 => alarms[a] = NoRow)
      BY AlarmAssumption DEF AlarmInv, KindsAgree, AlarmTypes, Alarm!TypeOK
  <2>5. \A s \in stale' : births[s.id] > 0
      BY <2>1, <2>4 DEF AlarmInv, KindsAgree
  <2> QED BY <2>1, <2>2, <2>3, <2>4, <2>5 DEF KindsAgree
<1>4. EachIsPromised'
  <2> SUFFICES ASSUME failures = 0, NEW b \in Alarms, alarms'[b] # NoRow, UpToDate(b),
                      NEW p \in Alarm!Matching(alarms[b].kind),
                      NEW u \in Alarm!Recipients(UNION policies[p].tokens),
                      NEW c \in policies[p].channels
               PROVE  Alarm!Copies(b, p, u, c) >= 1 \/ (job.alarm = b /\ Promised(p, u, c))
      BY DEF EachIsPromised, UpToDate, InQueue, Alarm!Matching, Alarm!Row, Alarm!Recipients,
             Alarm!Copies, Promised, Drafts
  <2> QED BY DEF AlarmInv, EachIsPromised
<1> QED BY <1>1, <1>2, <1>3, <1>4 DEF AlarmInv

LEMMA AlarmStep == AlarmInv /\ [Alarm!Next]_alarmVars => AlarmInv'
<1> SUFFICES ASSUME AlarmInv, [Alarm!Next]_alarmVars PROVE AlarmInv'
    OBVIOUS
<1>0. /\ alarms \in [Alarms -> {NoRow} \cup AlarmRow] /\ eligible \subseteq Users
      /\ policies \in [Policies -> {NoRow} \cup PolicyRow]
      /\ \A p \in Policies : policies[p] # NoRow => Alarm!ValidForm(policies[p])
      /\ stale \subseteq [id : Alarms, kind : Kinds]
      /\ NoRow \notin AlarmRow /\ NoRow \notin PolicyRow
    BY AlarmAssumption DEF AlarmInv, AlarmTypes, Alarm!TypeOK, Alarm!Row, AlarmRow
<1>1. ASSUME NEW a \in Alarms, NEW k \in Kinds, Alarm!Raise(a, k) PROVE AlarmInv'
  <2>1. births[a] = 0 /\ alarms[a] = NoRow /\ \A s \in stale : s.id # a
      BY <1>1 DEF Alarm!Raise, AlarmInv, KindsAgree
  <2> QED BY <1>1, <2>1, InsertedKeeps DEF Alarm!Raise
<1>2. ASSUME Alarm!MarkRead PROVE AlarmInv'
  <2>1. PICK s \in stale :
          /\ stale' = stale \ {s}
          /\ alarms' = [alarms EXCEPT ![s.id] = [kind |-> s.kind, read |-> TRUE]]
          /\ IF alarms[s.id] = NoRow THEN Alarm!Inserted(s.id, s.kind)
             ELSE UNCHANGED <<births, since, queue, job>>
      BY <1>2 DEF Alarm!MarkRead
  <2>2. s.id \in Alarms /\ s.kind \in Kinds
      BY <1>0
  <2>3. UNCHANGED <<async, policies, eligible, logs, edits, failures>>
      BY <1>2 DEF Alarm!MarkRead
  <2>4. CASE alarms[s.id] = NoRow
    <3>1. \A t \in stale : t.id = s.id => t.kind = s.kind
        BY DEF AlarmInv, KindsAgree
    <3> QED BY <2>1, <2>2, <2>3, <2>4, <3>1, InsertedKeeps
  <2>5. CASE alarms[s.id] # NoRow
    <3>1. alarms[s.id].kind = s.kind
        BY <2>5 DEF AlarmInv, KindsAgree
    <3>2. [kind |-> s.kind, read |-> TRUE] \in AlarmRow
        BY <2>2 DEF AlarmRow
    <3>3. /\ alarms' \in [Alarms -> {NoRow} \cup AlarmRow]
          /\ \A a \in Alarms :
               alarms'[a] # NoRow => alarms[a] # NoRow /\ alarms'[a].kind = alarms[a].kind
        BY <1>0, <2>1, <2>2, <2>5, <3>1, <3>2
    <3> QED BY <1>0, <2>1, <2>3, <2>5, <3>3, RowsKeep
  <2> QED BY <2>4, <2>5
<1>3. ASSUME NEW a \in Alarms, Alarm!OpenAlarm(a) PROVE AlarmInv'
  <2> DEFINE s == [id |-> a, kind |-> alarms[a].kind]
  <2>1. /\ alarms[a] # NoRow /\ stale' = stale \cup {s} /\ alarms' = alarms
        /\ UNCHANGED <<async, policies, eligible, queue, job, logs, births, since, edits, failures>>
      BY <1>3 DEF Alarm!OpenAlarm
  <2>2. alarms[a].kind \in Kinds /\ s \in [id : Alarms, kind : Kinds] /\ s.id = a
        /\ s.kind = alarms[a].kind
      BY <1>0, <2>1 DEF AlarmRow
  <2> HIDE DEF s
  <2> QED BY <1>0, <2>1, <2>2, RowsKeep
<1>4. ASSUME NEW a \in Alarms, Alarm!Purge(a) PROVE AlarmInv'
  <2>1. /\ alarms' = [alarms EXCEPT ![a] = NoRow] /\ stale' = stale
        /\ UNCHANGED <<async, policies, eligible, queue, job, logs, births, since, edits, failures>>
      BY <1>4 DEF Alarm!Purge
  <2>2. /\ alarms' \in [Alarms -> {NoRow} \cup AlarmRow]
        /\ \A b \in Alarms : alarms'[b] # NoRow => alarms[b] # NoRow /\ alarms'[b] = alarms[b]
      BY <1>0, <2>1
  <2> QED BY <1>0, <2>1, <2>2, RowsKeep
<1>5. ASSUME NEW as \in SUBSET Alarms, Alarm!MarkAllRead(as) PROVE AlarmInv'
  <2>1. /\ alarms' = [a \in Alarms |-> IF a \in as /\ alarms[a] # NoRow
                                       THEN [alarms[a] EXCEPT !.read = TRUE] ELSE alarms[a]]
        /\ stale' = stale
        /\ UNCHANGED <<async, policies, eligible, queue, job, logs, births, since, edits, failures>>
      BY <1>5 DEF Alarm!MarkAllRead
  <2>2. \A a \in Alarms : alarms[a] # NoRow =>
          /\ [alarms[a] EXCEPT !.read = TRUE] \in AlarmRow
          /\ [alarms[a] EXCEPT !.read = TRUE].kind = alarms[a].kind
      BY <1>0 DEF AlarmRow
  <2>3. /\ alarms' \in [Alarms -> {NoRow} \cup AlarmRow]
        /\ \A a \in Alarms :
             alarms'[a] # NoRow => alarms[a] # NoRow /\ alarms'[a].kind = alarms[a].kind
      BY <1>0, <2>1, <2>2
  <2> QED BY <1>0, <2>1, <2>3, RowsKeep
<1>6. ASSUME NEW p \in Policies, NEW f \in Forms, Alarm!SavePolicy(p, f) PROVE AlarmInv'
  <2>1. f \in {g \in PolicyRow : Alarm!ValidForm(g)}
      BY <1>6, AlarmAssumption DEF Alarm!SavePolicy
  <2>2. policies' = [policies EXCEPT ![p] = f] /\ eligible' = eligible /\ Alarm!Edit
      BY <1>6 DEF Alarm!SavePolicy
  <2>3. policies' \in [Policies -> {NoRow} \cup {g \in PolicyRow : Alarm!ValidForm(g)}]
      BY <1>0, <2>1, <2>2
  <2> QED BY <1>0, <2>2, <2>3, EditKeeps
<1>7. ASSUME NEW ps \in SUBSET Policies, Alarm!TogglePolicies(ps) PROVE AlarmInv'
  <2>1. PICK active \in BOOLEAN :
          policies' = [p \in Policies |->
                         IF p \in ps /\ policies[p] # NoRow
                         THEN [policies[p] EXCEPT !.active = active] ELSE policies[p]]
      BY <1>7 DEF Alarm!TogglePolicies
  <2>2. \A g \in PolicyRow : Alarm!ValidForm(g) =>
          [g EXCEPT !.active = active] \in PolicyRow /\ Alarm!ValidForm([g EXCEPT !.active = active])
    <3> SUFFICES ASSUME NEW g \in PolicyRow, Alarm!ValidForm(g)
                 PROVE  /\ [g EXCEPT !.active = active] \in PolicyRow
                        /\ Alarm!ValidForm([g EXCEPT !.active = active])
        OBVIOUS
    <3> DEFINE h == [g EXCEPT !.active = active]
    <3>1. h \in PolicyRow /\ h.channels = g.channels /\ h.tokens = g.tokens
        BY DEF PolicyRow
    <3> HIDE DEF h
    <3>2. Alarm!ValidForm(h)
        BY <3>1 DEF Alarm!ValidForm
    <3> QED BY <3>1, <3>2 DEF h
  <2>3. policies' \in [Policies -> {NoRow} \cup {g \in PolicyRow : Alarm!ValidForm(g)}]
      BY <1>0, <2>1, <2>2
  <2> QED BY <1>0, <1>7, <2>3, EditKeeps DEF Alarm!TogglePolicies
<1>8. ASSUME NEW ps \in SUBSET Policies, Alarm!DeletePolicies(ps) PROVE AlarmInv'
  <2>1. /\ policies' = [p \in Policies |-> IF p \in ps THEN NoRow ELSE policies[p]]
        /\ eligible' = eligible /\ Alarm!Edit
      BY <1>8 DEF Alarm!DeletePolicies
  <2>2. policies' \in [Policies -> {NoRow} \cup {g \in PolicyRow : Alarm!ValidForm(g)}]
      BY <1>0, <2>1
  <2> QED BY <1>0, <2>1, <2>2, EditKeeps
<1>9. ASSUME NEW u \in Users, Alarm!SwitchUser(u) PROVE AlarmInv'
  <2>1. policies' = policies /\ eligible' \subseteq Users /\ Alarm!Edit
      BY <1>0, <1>9 DEF Alarm!SwitchUser
  <2>2. policies' \in [Policies -> {NoRow} \cup {g \in PolicyRow : Alarm!ValidForm(g)}]
      BY <1>0, <2>1
  <2> QED BY <2>1, <2>2, EditKeeps
<1>10. CASE UNCHANGED alarmVars
  <2>1. /\ alarms' = alarms /\ stale' = stale
        /\ UNCHANGED <<async, policies, eligible, queue, job, logs, births, since, edits, failures>>
      BY <1>10 DEF alarmVars
  <2> QED BY <1>0, <2>1, RowsKeep
<1> QED
  BY <1>1, <1>2, <1>3, <1>4, <1>5, <1>6, <1>7, <1>8, <1>9, <1>10, TakeKeeps, NextPolicyKeeps,
     ResolveTokenKeeps, DeliverKeeps, CommitKeeps, BreakOffKeeps
  DEF Alarm!Next

\* Each user has at most one message per policy, channel and insertion of an alarm,
\* and an undisturbed dispatch reaches all of them: for any policies, users and
\* overlapping edits, failures and restarts (notification_dispatcher.py:141-175).
THEOREM EveryoneIsToldExactlyOnce == Spec => []EveryoneIsToldOnce
<1>1. Init => AlarmInv
    BY AlarmInitially DEF Init
<1>2. AlarmInv /\ [Next]_deliveryVars => AlarmInv'
    BY AlarmStep
    DEF Next, TellOfAlarms, TellOfNotices, TellOutside, KeepRows, deliveryVars, alarmVars
<1>3. AlarmInv => EveryoneIsToldOnce
  <2> SUFFICES ASSUME AlarmInv PROVE EveryoneIsToldOnce
      OBVIOUS
  <2>1. Alarm!TypeOK
      BY DEF AlarmInv, AlarmTypes
  <2>2. Alarm!OneMessageEach
    <3> SUFFICES ASSUME NEW a \in Alarms, NEW p \in Policies, NEW u \in Users,
                        NEW c \in Alarm!Channels
                 PROVE  Alarm!Copies(a, p, u, c) <= births[a]
        BY DEF Alarm!OneMessageEach
    <3>1. Alarm!Copies(a, p, u, c) + Waiting(a) + Underway(a) <= births[a]
        BY DEF AlarmInv, EachInsertionOnce
    <3>2. queue \in Seq(Alarms) /\ logs \in [Messages -> Nat] /\ births[a] \in Nat
        BY <2>1 DEF Alarm!TypeOK, Messages
    <3>3. Alarm!Copies(a, p, u, c) \in Nat /\ Waiting(a) \in Nat /\ Underway(a) \in Nat
        BY <3>2, NoteIsMessage, CopiesAreCounted, OccursAppend DEF Waiting, Underway
    <3> QED BY <3>1, <3>2, <3>3
  <2>3. Alarm!ReachesEveryone
    <3> SUFFICES ASSUME queue = <<>>, job = Alarm!NoJob, failures = 0,
                        NEW a \in Alarm!Row(alarms), since[a] = edits,
                        NEW p \in Alarm!Matching(alarms[a].kind),
                        NEW u \in Alarm!Recipients(UNION policies[p].tokens),
                        NEW c \in policies[p].channels
                 PROVE  Alarm!Copies(a, p, u, c) >= 1
        BY DEF Alarm!ReachesEveryone
    <3>1. a \in Alarms /\ alarms[a] # NoRow
        BY <2>1 DEF Alarm!Row, Alarm!TypeOK
    <3>2. UpToDate(a)
        BY DEF UpToDate, InQueue
    <3>3. job.alarm # a
        BY <3>1, NoJobIs, AlarmAssumption
    <3> QED BY <3>1, <3>2, <3>3 DEF AlarmInv, EachIsPromised
  <2> QED BY <2>1, <2>2, <2>3 DEF EveryoneIsToldOnce
<1> QED BY <1>1, <1>2, <1>3, PTL DEF Spec

=============================================================================

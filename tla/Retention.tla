----------------------------- MODULE Retention -----------------------------
(***************************************************************************)
(* The life of the rows of one retention target: the daily clean-up and its *)
(* page, backups, and the initialisation that backs the table up and then   *)
(* empties it.  Backup and initialisation are Celery tasks; two of them may *)
(* run at once, be killed at any point, and give their files one name when  *)
(* they begin in the same second.  The files lie in the worker's container. *)
(***************************************************************************)
EXTENDS Integers, Sequences, FiniteSets

CONSTANTS
    NoFile,
    Days,       \* retention periods the form may submit
    MaxRows,    \* bound: rows that ever arrive
    MaxAge,     \* bound: days a row is followed for
    MaxJobs,    \* bound: backups and initialisations
    MaxSeconds, \* bound: seconds in which files are opened
    Keep,       \* KEEP_BACKUPS
    Chunk,      \* chunk_size of delete_all_data
    MaxEdits    \* bound: changes of the policy

VARIABLES
    table,   \* the rows, as age in days by id
    policy,  \* the row of DataRetentionPolicy
    chosen,  \* history: what was last saved on the page
    cleaner, \* the policy a running clean-up has read, or NoFile
    backups, \* backup files by the second in their name
    second,  \* the clock the names are made from
    jobs,    \* tasks in the order they were queued
    arrived, \* rows so far
    edits

retentionVars == <<table, policy, chosen, cleaner, backups, second, jobs, arrived, edits>>

Seconds == 0 .. MaxSeconds

Files == {s \in Seconds : backups[s] # NoFile}

\* clean_retention_days.
ValidDays(days) == days \in 1 .. 3650

Init ==
    /\ table = <<>>
    /\ policy \in [days : {d \in Days : ValidDays(d)}, active : {TRUE}, lastRun : {0}]
    /\ chosen = [days |-> policy.days, active |-> policy.active]
    /\ cleaner = NoFile
    /\ backups = [s \in Seconds |-> NoFile]
    /\ second = 0
    /\ jobs = <<>>
    /\ arrived = 0
    /\ edits = 0

Without(rows) == [r \in DOMAIN table \ rows |-> table[r]]

Arrive ==
    /\ arrived < MaxRows
    /\ arrived' = arrived + 1
    /\ table' = [r \in DOMAIN table \cup {arrived'} |-> IF r = arrived' THEN 0 ELSE table[r]]
    /\ UNCHANGED <<policy, chosen, cleaner, backups, second, jobs, edits>>

DayPasses ==
    /\ \E r \in DOMAIN table : table[r] < MaxAge
    /\ table' = [r \in DOMAIN table |-> IF table[r] < MaxAge THEN table[r] + 1 ELSE table[r]]
    /\ UNCHANGED <<policy, chosen, cleaner, backups, second, jobs, arrived, edits>>

-----------------------------------------------------------------------------
(* The clean-up.                                                            *)

\* retention_update_api.
UpdatePolicy(days, active) ==
    /\ edits < MaxEdits
    /\ ValidDays(days)
    /\ policy' = [policy EXCEPT !.days = days, !.active = active]
    /\ chosen' = [days |-> days, active |-> active]
    /\ edits' = edits + 1
    /\ UNCHANGED <<table, cleaner, backups, second, jobs, arrived>>

\* cleanup_data and retention_run_now_api read an active policy ...
ReadPolicy ==
    /\ cleaner = NoFile
    /\ policy.active
    /\ cleaner' = policy
    /\ UNCHANGED <<table, policy, chosen, backups, second, jobs, arrived, edits>>

Expired(days) == {r \in DOMAIN table : table[r] > days}

\* Faulty variants of the definition that follows each of them, named
\* <definition>_<fault>, are used by no specification: they record which
\* mistake in the code each property would catch.
Clean_SavesWholeRow ==
    /\ cleaner # NoFile
    /\ table' = Without(Expired(cleaner.days))
    /\ policy' = [cleaner EXCEPT !.lastRun = Cardinality(Expired(cleaner.days))]
    /\ cleaner' = NoFile
    /\ UNCHANGED <<chosen, backups, second, jobs, arrived, edits>>

\* ... delete what is older, and save last_run_at and last_run_deleted only.
Clean ==
    /\ cleaner # NoFile
    /\ table' = Without(Expired(cleaner.days))
    /\ policy' = [policy EXCEPT !.lastRun = Cardinality(Expired(cleaner.days))]
    /\ cleaner' = NoFile
    /\ UNCHANGED <<chosen, backups, second, jobs, arrived, edits>>

-----------------------------------------------------------------------------
(* Backup and initialisation.                                               *)

\* retention_backup_api, and retention_init_with_backup_api with the word DELETE.
Request(kind) ==
    /\ Len(jobs) < MaxJobs
    /\ jobs' = Append(jobs, [kind |-> kind, stage |-> "queued", file |-> 0, seen |-> 0,
                             wiped |-> {}, spoilt |-> FALSE])
    /\ UNCHANGED <<table, policy, chosen, cleaner, backups, second, arrived, edits>>

Numbers == 1 .. Len(jobs)

Started(i) == jobs[i].stage # "queued"

\* The jobs, but those whose file is one of fs have lost it.
SpoiltBy(fs) ==
    [i \in Numbers |-> [jobs[i] EXCEPT !.spoilt = @ \/ (Started(i) /\ jobs[i].file \in fs)]]

\* gzip.open truncates a file of that name, for the jobs that have written or are
\* writing it; the cursor is a snapshot of the table.
OpenFile(i) ==
    /\ jobs[i].stage = "queued"
    /\ backups' = [backups EXCEPT ![second] = [rows |-> DOMAIN table, complete |-> FALSE,
                                              mtime |-> second]]
    /\ jobs' = [SpoiltBy({second}) EXCEPT
                  ![i] = [@ EXCEPT !.stage = "writing", !.file = second, !.seen = arrived,
                                   !.spoilt = \E k \in Numbers : /\ jobs[k].stage = "writing"
                                                                 /\ jobs[k].file = second]]
    /\ UNCHANGED <<table, policy, chosen, cleaner, second, arrived, edits>>

\* What cleanup_old_backups may delete of the files: all but the Keep newest.
Evictable(files) ==
    {gone \in SUBSET {s \in Seconds : files[s] # NoFile} :
        /\ Cardinality({s \in Seconds : files[s] # NoFile} \ gone) <= Keep
        /\ gone # {} => Cardinality({s \in Seconds : files[s] # NoFile} \ gone) = Keep
        /\ \A old \in gone, s \in Seconds \ gone :
             files[s] # NoFile => files[old].mtime <= files[s].mtime}

\* The end of stream_backup_to_file, which fails when the file is gone, and
\* cleanup_old_backups; an initialisation goes on to the deletion.
CloseFile(i) ==
    /\ jobs[i].stage = "writing"
    /\ LET f == jobs[i].file IN
       IF backups[f] = NoFile
       THEN /\ jobs' = [jobs EXCEPT ![i].stage = "ended"]
            /\ UNCHANGED backups
       ELSE LET written == [backups EXCEPT ![f].complete = TRUE, ![f].mtime = second] IN
            \E gone \in Evictable(written) :
               /\ backups' = [s \in Seconds |-> IF s \in gone THEN NoFile ELSE written[s]]
               /\ jobs' = [SpoiltBy(gone) EXCEPT
                             ![i].stage = IF jobs[i].kind = "init" THEN "deleting" ELSE "ended"]
    /\ UNCHANGED <<table, policy, chosen, cleaner, second, arrived, edits>>

Fail_GoesOn(i) ==
    /\ jobs[i].stage \in {"writing", "deleting"}
    /\ jobs' = [jobs EXCEPT ![i].stage = IF jobs[i].kind = "init" /\ @ = "writing"
                                        THEN "deleting" ELSE "ended"]
    /\ UNCHANGED <<table, policy, chosen, cleaner, backups, second, arrived, edits>>

\* An exception or the time limit (CELERY_TASK_TIME_LIMIT) ends a task.
Fail(i) ==
    /\ jobs[i].stage \in {"writing", "deleting"}
    /\ jobs' = [jobs EXCEPT ![i].stage = "ended"]
    /\ UNCHANGED <<table, policy, chosen, cleaner, backups, second, arrived, edits>>

\* One round of delete_all_data, until the table is empty: rows that have
\* arrived since the backup go as well.
DeleteChunk(i) ==
    /\ jobs[i].stage = "deleting"
    /\ IF table = <<>>
       THEN jobs' = [jobs EXCEPT ![i].stage = "ended"] /\ UNCHANGED table
       ELSE \E ids \in SUBSET DOMAIN table :
               /\ ids # {}
               /\ Cardinality(ids) = Chunk \/ (ids = DOMAIN table /\ Cardinality(ids) < Chunk)
               /\ table' = Without(ids)
               /\ jobs' = [jobs EXCEPT ![i].wiped = @ \cup ids]
    /\ UNCHANGED <<policy, chosen, cleaner, backups, second, arrived, edits>>

\* backup_delete_api.
DeleteFile(s) ==
    /\ backups[s] # NoFile
    /\ backups' = [backups EXCEPT ![s] = NoFile]
    /\ jobs' = SpoiltBy({s})
    /\ UNCHANGED <<table, policy, chosen, cleaner, second, arrived, edits>>

\* The container of the Celery worker is replaced: its files and running tasks
\* are gone, the queue is in Redis.
ReplaceWorker ==
    /\ Files # {}
    /\ backups' = [s \in Seconds |-> NoFile]
    /\ jobs' = [i \in Numbers |->
                  IF Started(i) THEN [jobs[i] EXCEPT !.stage = "ended", !.spoilt = TRUE]
                  ELSE jobs[i]]
    /\ UNCHANGED <<table, policy, chosen, cleaner, second, arrived, edits>>

NextSecond ==
    /\ second < MaxSeconds
    /\ second' = second + 1
    /\ UNCHANGED <<table, policy, chosen, cleaner, backups, jobs, arrived, edits>>

Next ==
    \/ Arrive \/ DayPasses \/ NextSecond
    \/ \E days \in Days, active \in BOOLEAN : UpdatePolicy(days, active)
    \/ ReadPolicy \/ Clean
    \/ \E kind \in {"backup", "init"} : Request(kind)
    \/ \E i \in Numbers : OpenFile(i) \/ CloseFile(i) \/ Fail(i) \/ DeleteChunk(i)
    \/ \E s \in Seconds : DeleteFile(s)
    \/ ReplaceWorker

Spec == Init /\ [][Next]_retentionVars

-----------------------------------------------------------------------------
\* Of what an initialisation deletes, a complete file holds every row but those
\* that arrived after its backup began (backoffice/tasks.py:76: the deletion goes
\* ahead only after the backup has succeeded), unless that file has since been
\* deleted on the page, made room for newer ones, got the name of another job's
\* in the same second, or gone with the container.
BackedUpBeforeDeletion ==
    \A i \in Numbers : ~jobs[i].spoilt =>
        \A r \in jobs[i].wiped :
            \/ r > jobs[i].seen
            \/ LET file == backups[jobs[i].file] IN
               file # NoFile /\ file.complete /\ r \in file.rows

\* The clean-up works on a copy of the policy, and its save does not take back
\* what an operator has chosen on the page meanwhile (cleanup_data.py:76-78).
EditsStand == policy.days = chosen.days /\ policy.active = chosen.active

=============================================================================

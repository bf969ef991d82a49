--------------------------- MODULE ExternalNotify ---------------------------
(***************************************************************************)
(* The messages that leave the site: what happens to a zone is recorded and *)
(* pushed to the browsers, and the few events that matter, like the entry   *)
(* of a worker, are queued as Celery tasks which post to the configured     *)
(* webhooks.  Slack comes before Discord, and each failure is absorbed where *)
(* it happens.                                                              *)
(***************************************************************************)
EXTENDS Integers, Sequences, FiniteSets

CONSTANTS
    Happenings, \* what may be reported: [type, dynamic, zoneType] records
    MaxReports, \* bound: reports
    MaxOutages, \* bound: calls of the database, Redis and webhooks that fail
    MaxLost     \* bound: tasks whose worker dies

VARIABLES
    webhooks, \* channels with a webhook URL in the settings
    dryRun,  \* SENSA_NOTIFY_DRY_RUN
    reports, \* what was reported, in this order
    rows,    \* reports with a row of ZoneEvent
    pushed,  \* reports pushed to the browsers
    queued,  \* reports with a task in the broker
    tasks,   \* running tasks: [id, stage]
    posted,  \* how many copies of each message reached its channel
    failed,  \* posts that the task has seen fail
    finished, \* tasks that returned
    outages,
    lost     \* reports whose task died with its worker

externalVars == <<webhooks, dryRun, reports, rows, pushed, queued, tasks, posted, failed, finished,
                  outages, lost>>

Messages == [id : 1 .. MaxReports, channel : {"slack", "discord"}]

IsConfigured == webhooks # {} \/ dryRun

IsWorkerEntry(h) == h.type = "worker_zone_entry"

\* The conditions of _emit and of evaluate_worker.
Matters(h) ==
    \/ h.type = "upgraded_to_critical"
    \/ h.type = "created" /\ h.dynamic /\ h.zoneType \in {"danger", "restricted"}
    \/ IsWorkerEntry(h)

Init ==
    /\ webhooks \in SUBSET {"slack", "discord"}
    /\ dryRun \in BOOLEAN
    /\ reports = <<>>
    /\ rows = {}
    /\ pushed = {}
    /\ queued = {}
    /\ tasks = {}
    /\ posted = [m \in Messages |-> 0]
    /\ failed = {}
    /\ finished = {}
    /\ outages = 0
    /\ lost = {}

NewId == Len(reports) + 1

\* The call that fails, if one does.
Fault(fault) ==
    /\ fault = "none" \/ outages < MaxOutages
    /\ outages' = IF fault = "none" THEN outages ELSE outages + 1

Report(h, fault) ==
    /\ NewId <= MaxReports
    /\ reports' = Append(reports, h)
    /\ queued' = IF Matters(h) /\ IsConfigured /\ fault \notin {"row", "queue"}
                 THEN queued \cup {NewId} ELSE queued
    /\ UNCHANGED <<webhooks, dryRun, tasks, posted, failed, finished, lost>>

\* _emit: the row, the push, the task.  Each may fail: without the row the rest
\* is left out, the other two are absorbed.
Emit(h) ==
    /\ ~IsWorkerEntry(h)
    /\ \E fault \in {"none", "row", "push", "queue"} :
         /\ Fault(fault)
         /\ Report(h, fault)
         /\ rows' = IF fault = "row" THEN rows ELSE rows \cup {NewId}
         /\ pushed' = IF fault \in {"row", "push"} THEN pushed ELSE pushed \cup {NewId}

\* _notify_worker_zone_entry.
Enter(h) ==
    /\ IsWorkerEntry(h)
    /\ \E fault \in {"none", "queue"} : Fault(fault) /\ Report(h, fault)
    /\ UNCHANGED <<webhooks, dryRun, rows, pushed>>

\* A worker takes a task; it has acknowledged it by then.
Start(id) ==
    /\ id \in queued
    /\ queued' = queued \ {id}
    /\ tasks' = tasks \cup {[id |-> id, stage |-> "slack"]}
    /\ UNCHANGED <<webhooks, dryRun, reports, rows, pushed, posted, failed,
                   finished, outages, lost>>

After(stage) == IF stage = "slack" THEN "discord" ELSE "done"

Advance(t) == (tasks \ {t}) \cup {[t EXCEPT !.stage = After(@)]}

\* notify_external passes over a channel without a URL, and over both of them in
\* a dry run.
Skip(t) ==
    /\ t.stage # "done"
    /\ t.stage \notin webhooks \/ dryRun
    /\ tasks' = Advance(t)
    /\ UNCHANGED <<webhooks, dryRun, reports, rows, pushed, queued, posted, failed,
                   finished, outages, lost>>

Post(t) ==
    /\ t.stage \in webhooks
    /\ ~dryRun

Reaches(t) == [posted EXCEPT ![[id |-> t.id, channel |-> t.stage]] = @ + 1]

\* Faulty variants of the definition that follows each of them, named
\* <definition>_<fault>, are used by no specification: they record which
\* mistake in the code each property would catch.

\* _post_webhook lets the exception through, which celery answers with a retry of
\* the whole task.
FailToPost_Raises(t) ==
    /\ Post(t)
    /\ outages < MaxOutages
    /\ outages' = outages + 1
    /\ failed' = failed \cup {[id |-> t.id, channel |-> t.stage]}
    /\ posted' \in {posted, Reaches(t)}
    /\ tasks' = tasks \ {t}
    /\ queued' = queued \cup {t.id}
    /\ UNCHANGED <<webhooks, dryRun, reports, rows, pushed, finished, lost>>

\* The first failure ends the task.
FailToPost_GivesUp(t) ==
    /\ Post(t)
    /\ outages < MaxOutages
    /\ outages' = outages + 1
    /\ failed' = failed \cup {[id |-> t.id, channel |-> t.stage]}
    /\ posted' \in {posted, Reaches(t)}
    /\ tasks' = (tasks \ {t}) \cup {[t EXCEPT !.stage = "done"]}
    /\ UNCHANGED <<webhooks, dryRun, reports, rows, pushed, queued, finished, lost>>

\* _post_webhook that fails or times out, in which case the message may have
\* arrived: it returns False, and the task goes on.
FailToPost(t) ==
    /\ Post(t)
    /\ outages < MaxOutages
    /\ outages' = outages + 1
    /\ failed' = failed \cup {[id |-> t.id, channel |-> t.stage]}
    /\ posted' \in {posted, Reaches(t)}
    /\ tasks' = Advance(t)
    /\ UNCHANGED <<webhooks, dryRun, reports, rows, pushed, queued, finished, lost>>

\* _post_webhook that succeeds.
Deliver(t) ==
    /\ Post(t)
    /\ posted' = Reaches(t)
    /\ tasks' = Advance(t)
    /\ UNCHANGED <<webhooks, dryRun, reports, rows, pushed, queued, failed,
                   finished, outages, lost>>

\* The task returns its result: no exception reaches autoretry_for.
Finish(t) ==
    /\ t.stage = "done"
    /\ tasks' = tasks \ {t}
    /\ finished' = finished \cup {t.id}
    /\ UNCHANGED <<webhooks, dryRun, reports, rows, pushed, queued, posted, failed,
                   outages, lost>>

\* The worker dies.
Lose(t) ==
    /\ Cardinality(lost) < MaxLost
    /\ lost' = lost \cup {t.id}
    /\ tasks' = tasks \ {t}
    /\ UNCHANGED <<webhooks, dryRun, reports, rows, pushed, queued, posted, failed,
                   finished, outages>>

Next ==
    \/ \E h \in Happenings : Emit(h) \/ Enter(h)
    \/ \E id \in queued : Start(id)
    \/ \E t \in tasks : Skip(t) \/ FailToPost(t) \/ Deliver(t) \/ Finish(t) \/ Lose(t)

Spec == Init /\ [][Next]_externalVars

-----------------------------------------------------------------------------
Copies(id, channel) == posted[[id |-> id, channel |-> channel]]

\* Nobody is told the same thing twice on a channel, although a post that times
\* out may have arrived and the task is declared with retries
\* (alerts/tasks.py:19-26).
AtMostOneMessage ==
    \A id \in DOMAIN reports, channel \in webhooks : Copies(id, channel) <= 1

\* Once its task is over, a message has reached every configured channel whose
\* own post did not fail: Slack's failure does not keep it from Discord
\* (alerts/notifiers.py:120-121).
FailuresAreIsolated ==
    \A id \in finished, channel \in webhooks :
        ~dryRun => Copies(id, channel) = 1 \/ [id |-> id, channel |-> channel] \in failed

\* What alerts/tasks.py:11 promises: a transient failure of a webhook is retried,
\* so that a task does not end with a configured channel failed at its first try.
FailedIsRetried ==
    \A f \in failed : f.id \in finished => Copies(f.id, f.channel) >= 1

=============================================================================

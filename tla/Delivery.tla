------------------------------ MODULE Delivery ------------------------------
(***************************************************************************)
(* What leaves an alarm or a row behind: the messages about alarms, about   *)
(* notices and about what happens to zones, and the backups of what is      *)
(* deleted.  Each part keeps its own rows and queues: a step of the system  *)
(* is a step of one of them.                                                *)
(***************************************************************************)
EXTENDS Integers, Sequences, FiniteSets

CONSTANTS
    NoRow,
    Alarms, Users, Policies, Kinds, Forms, MaxInserts, MaxEdits, MaxFailures, \* of AlarmDelivery
    NoticeIds, Readers, NoticeForms, MaxDispatches, MaxBreaks,                \* of Notices
    Happenings, MaxReports, MaxOutages, MaxLost,                              \* of ExternalNotify
    Days, MaxRows, MaxAge, MaxJobs, MaxSeconds, Keep, Chunk, MaxPolicyEdits   \* of Retention

VARIABLES
    async, alarms, policies, eligible, queue, job, logs, stale, births, since, edits, failures,
    notices, dispatches, noticeLogs, dispatched, breaks,
    webhooks, dryRun, reports, rows, pushed, queued, tasks, posted, failed, finished, outages, lost,
    table, policy, chosen, cleaner, backups, second, jobs, arrived, policyEdits

Alarm == INSTANCE AlarmDelivery

Notice == INSTANCE Notices

External == INSTANCE ExternalNotify

Rows == INSTANCE Retention WITH
    NoFile <- NoRow, MaxEdits <- MaxPolicyEdits, edits <- policyEdits

-----------------------------------------------------------------------------
(* The rows, the tasks under way and what is assumed of the constants: a    *)
(* missing row is none of the rows.                                         *)

AlarmRow == [kind : Kinds, read : BOOLEAN]

PolicyRow ==
    [risk : STRING, priority : Nat, channels : SUBSET STRING, active : BOOLEAN,
     tokens : SUBSET SUBSET Users]

ASSUME AlarmAssumption ==
    /\ MaxInserts \in Nat /\ MaxEdits \in Nat /\ MaxFailures \in Nat
    /\ Forms \subseteq PolicyRow
    /\ NoRow \notin AlarmRow /\ NoRow \notin PolicyRow /\ NoRow \notin Alarms

ASSUME NoticeAssumption == MaxDispatches \in Nat /\ MaxBreaks \in Nat /\ IsFiniteSet(Readers)

ASSUME ReportAssumption == MaxReports \in Nat /\ MaxOutages \in Nat

FileRow == [rows : SUBSET Nat, complete : BOOLEAN, mtime : Nat]

ASSUME RowAssumption == MaxRows \in Nat /\ MaxSeconds \in Nat /\ NoRow \notin FileRow

-----------------------------------------------------------------------------
alarmVars == <<async, alarms, policies, eligible, queue, job, logs, stale, births, since,
               edits, failures>>
noticeVars == <<notices, dispatches, noticeLogs, dispatched, breaks>>
externalVars == <<webhooks, dryRun, reports, rows, pushed, queued, tasks, posted, failed,
                  finished, outages, lost>>
rowVars == <<table, policy, chosen, cleaner, backups, second, jobs, arrived, policyEdits>>
deliveryVars == <<alarmVars, noticeVars, externalVars, rowVars>>

Init == Alarm!Init /\ Notice!Init /\ External!Init /\ Rows!Init

TellOfAlarms == Alarm!Next /\ UNCHANGED <<noticeVars, externalVars, rowVars>>

TellOfNotices == Notice!Next /\ UNCHANGED <<alarmVars, externalVars, rowVars>>

TellOutside == External!Next /\ UNCHANGED <<alarmVars, noticeVars, rowVars>>

KeepRows == Rows!Next /\ UNCHANGED <<alarmVars, noticeVars, externalVars>>

Next == TellOfAlarms \/ TellOfNotices \/ TellOutside \/ KeepRows

Spec == Init /\ [][Next]_deliveryVars

-----------------------------------------------------------------------------
\* AlarmDelivery: each user and channel that an undisturbed dispatch's policies name
\* has a message, and nobody has two for one insertion of the alarm
\* (notification_dispatcher.py:10, :141-175).
EveryoneIsToldOnce == Alarm!TypeOK /\ Alarm!OneMessageEach /\ Alarm!ReachesEveryone

\* Notices: an answered dispatch has a log of every user and channel, and only a
\* dispatch that broke off leaves one pending (notification_dispatcher.py:198-218).
DispatchesAreAnswered == Notice!PendingIsCutShort /\ Notice!AnsweredInFull

\* ExternalNotify: nobody is told the same thing twice on a channel, and the failure
\* of a channel keeps no message from the other (alerts/tasks.py:19-26,
\* alerts/notifiers.py:120-121).
ChannelsAreApart == External!AtMostOneMessage /\ External!FailuresAreIsolated

\* Retention: an initialisation deletes what its backup holds or what arrived after
\* the backup began, and no clean-up takes back a change of its policy
\* (backoffice/tasks.py:76, cleanup_data.py:76-78).
DeletionIsBackedUp == Rows!BackedUpBeforeDeletion /\ Rows!EditsStand

=============================================================================

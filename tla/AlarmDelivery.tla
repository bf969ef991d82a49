--------------------------- MODULE AlarmDelivery ---------------------------
(***************************************************************************)
(* From the row of an alarm to the messages about it: the post_save signal, *)
(* the in-memory queue and its worker (or the synchronous call), the        *)
(* dispatcher that writes one NotificationLog per user and channel, the     *)
(* back office pages that edit policies, and the pages that mark alarms as  *)
(* read.  Rows of alarms disappear under all of them when a retention       *)
(* policy is applied.                                                       *)
(*                                                                          *)
(* A dispatch is one transaction: its logs become visible when it commits,  *)
(* while the providers have delivered by then.  Foreign keys are checked at *)
(* the commit (Django declares them initially deferred).  Dispatches of     *)
(* different processes only add logs, so one at a time stands for them.     *)
(* Texts, templates and the lists of the pages are left out.  The keys of a  *)
(* log to its alarm and policy are nulled when these are deleted; here they *)
(* are kept, to tell the messages apart.                                    *)
(***************************************************************************)
EXTENDS Integers, Sequences

CONSTANTS
    NoRow,       \* what a table holds for a missing row
    Alarms,      \* ids of alarms
    Users,       \* accounts.User
    Policies,    \* ids of notification policies
    Kinds,       \* what an alarm may be: [type, sensor, level] records
    Forms,       \* what the policy page may submit: [risk, priority, channels, tokens]
    MaxInserts,  \* bound: times the row of one alarm is inserted
    MaxEdits,    \* bound: changes of policies and users
    MaxFailures  \* bound: dispatches that raise and restarts of the process

Channels == {"app", "realtime", "sms", "email"}

VARIABLES
    async,    \* BACKOFFICE_ASYNC_NOTIFY, as the process was started with
    alarms,   \* rows of Alarm: NoRow or [kind, read]
    policies, \* rows of NotificationPolicy: NoRow or a form with "active"
    eligible, \* users that are active and not locked
    queue,    \* _NotificationWorker.queue
    job,      \* the dispatch that is running, or NoJob
    logs,     \* the committed NotificationLog rows: how many there are of each
    stale,    \* alarms a read request has loaded and not saved yet
    births,   \* history: times each alarm has been inserted
    since,    \* history: edits there had been at its last insertion
    edits,    \* changes of policies and users so far
    failures  \* failed dispatches and restarts so far

vars == <<async, alarms, policies, eligible, queue, job, logs, stale, births, since,
          edits, failures>>

Row(table) == {x \in DOMAIN table : table[x] # NoRow}

-----------------------------------------------------------------------------
(* Matching policies and recipients.                                        *)

\* _resolve_risk_category.
RiskOf(kind) ==
    IF kind.sensor = "power" THEN "RISK_POWER"
    ELSE CASE kind.type = "geofence_enter" -> "RISK_LOCATION"
           [] kind.type \in {"sensor_caution", "sensor_danger"} -> "RISK_GAS"
           [] kind.type = "combined" -> "RISK_COMPLEX"
           [] OTHER -> "RISK_COMMON"

\* _level_priority.
LevelPriority == [info |-> 10, caution |-> 30, danger |-> 90, critical |-> 99]

Matching(kind) ==
    {p \in Row(policies) :
        /\ policies[p].active
        /\ policies[p].risk = RiskOf(kind)
        /\ policies[p].priority <= LevelPriority[kind.level]}

\* _resolve_recipients: a token stands for the users it names, of those who
\* are active and not locked.
Recipients(token) == token \cap eligible

\* Provider.send: e-mail may fail, SMS fails without a number; the others log.
\* No provider fails without a text, so that "skipped" is never recorded.
Outcomes(channel) ==
    IF channel \in {"email", "sms"} THEN {"sent", "failed"} ELSE {"sent"}

\* What a NotificationLog row says.
Messages == [alarm : Alarms, policy : Policies, user : Users,
             channel : Channels, status : {"sent", "failed"}]

NoMessages == [m \in Messages |-> 0]

NoJob == [alarm |-> NoRow, left |-> {}, tokens |-> {}, seen |-> {}, todo |-> {},
          draft |-> NoMessages]

Dispatch(a, kind) ==
    [NoJob EXCEPT !.alarm = a,
                  !.left = {[id |-> p, form |-> policies[p]] : p \in Matching(kind)}]

\* NotificationPolicyForm: at least one channel, all known, and one recipient.
ValidForm(form) == form.channels # {} /\ form.channels \subseteq Channels /\ form.tokens # {}

-----------------------------------------------------------------------------
Init ==
    /\ async \in BOOLEAN
    /\ alarms = [a \in Alarms |-> NoRow]
    /\ policies \in [Policies -> {NoRow} \cup {f \in Forms : ValidForm(f)}]
    /\ eligible = Users
    /\ queue = <<>>
    /\ job = NoJob
    /\ logs = NoMessages
    /\ stale = {}
    /\ births = [a \in Alarms |-> 0]
    /\ since = [a \in Alarms |-> 0]
    /\ edits = 0
    /\ failures = 0

\* alarm_post_save_handler of an inserted row.
Inserted(a, kind) ==
    /\ births[a] < MaxInserts
    /\ births' = [births EXCEPT ![a] = @ + 1]
    /\ since' = [since EXCEPT ![a] = edits]
    /\ IF async
       THEN queue' = Append(queue, a) /\ UNCHANGED job
       ELSE job = NoJob /\ job' = Dispatch(a, kind) /\ UNCHANGED queue

\* Alarm.objects.create in one of the evaluators.
Raise(a, kind) ==
    /\ births[a] = 0
    /\ alarms' = [alarms EXCEPT ![a] = [kind |-> kind, read |-> FALSE]]
    /\ Inserted(a, kind)
    /\ UNCHANGED <<async, policies, eligible, logs, stale, edits, failures>>

\* _NotificationWorker._loop: the row is read again, and may be gone.
Take ==
    /\ queue # <<>>
    /\ job = NoJob
    /\ queue' = Tail(queue)
    /\ LET a == Head(queue) IN
       job' = IF alarms[a] = NoRow THEN NoJob ELSE Dispatch(a, alarms[a].kind)
    /\ UNCHANGED <<async, alarms, policies, eligible, logs, stale, births, since, edits,
                   failures>>

NextPolicy_SeenKept ==
    /\ job.tokens = {}
    /\ job.todo = {}
    /\ \E p \in job.left :
         job' = [job EXCEPT !.left = @ \ {p},
                            !.tokens = {[policy |-> p, users |-> t] : t \in p.form.tokens}]
    /\ UNCHANGED <<async, alarms, policies, eligible, queue, logs, stale, births, since,
                   edits, failures>>

\* The next policy of dispatch_for_alarm.
NextPolicy ==
    /\ job.tokens = {}
    /\ job.todo = {}
    /\ \E p \in job.left :
         job' = [job EXCEPT !.left = @ \ {p}, !.seen = {},
                            !.tokens = {[policy |-> p, users |-> t] : t \in p.form.tokens}]
    /\ UNCHANGED <<async, alarms, policies, eligible, queue, logs, stale, births, since,
                   edits, failures>>

\* What a policy has to send to users: a message on each of its channels.
Orders(policy, users) == {<<policy, u, c>> : u \in users, c \in policy.form.channels}

\* Faulty variants of the definition that follows each of them, named
\* <definition>_<fault>, are used by no specification: they record which
\* mistake in the code each property would catch.
ResolveToken_SeenIgnored ==
    /\ job.todo = {}
    /\ \E t \in job.tokens :
         job' = [job EXCEPT !.tokens = @ \ {t},
                            !.todo = Orders(t.policy, Recipients(t.users))]
    /\ UNCHANGED <<async, alarms, policies, eligible, queue, logs, stale, births, since,
                   edits, failures>>

\* The next token of the policy: its users who have not been served by an
\* earlier one.
ResolveToken ==
    /\ job.todo = {}
    /\ \E t \in job.tokens :
         LET fresh == Recipients(t.users) \ job.seen IN
         job' = [job EXCEPT !.tokens = @ \ {t},
                            !.seen = @ \cup fresh,
                            !.todo = Orders(t.policy, fresh)]
    /\ UNCHANGED <<async, alarms, policies, eligible, queue, logs, stale, births, since,
                   edits, failures>>

\* The row for a policy, user and channel of the running dispatch.
LogOf(d, status) ==
    [alarm |-> job.alarm, policy |-> d[1].id, user |-> d[2], channel |-> d[3],
     status |-> status]

\* NotificationLog.objects.create, provider.send and log.save, which isolate the
\* failure of a provider.
Deliver ==
    /\ \E d \in job.todo : \E s \in Outcomes(d[3]) :
         job' = [job EXCEPT !.todo = @ \ {d},
                            !.draft[LogOf(d, s)] = @ + 1]
    /\ UNCHANGED <<async, alarms, policies, eligible, queue, logs, stale, births, since,
                   edits, failures>>

\* The end of the transaction: a log whose alarm or policy has been deleted in
\* the meantime makes it fail as a whole.
Commit ==
    /\ job # NoJob
    /\ job.left = {} /\ job.tokens = {} /\ job.todo = {}
    /\ logs' = IF \A m \in Messages : job.draft[m] > 0 =>
                      alarms[m.alarm] # NoRow /\ policies[m.policy] # NoRow
               THEN [m \in Messages |-> logs[m] + job.draft[m]]
               ELSE logs
    /\ job' = NoJob
    /\ UNCHANGED <<async, alarms, policies, eligible, queue, stale, births, since, edits,
                   failures>>

\* The database raises inside the dispatch; the signal handler or the worker
\* logs it and goes on.
Fail ==
    /\ job # NoJob
    /\ failures < MaxFailures
    /\ failures' = failures + 1
    /\ job' = NoJob
    /\ UNCHANGED <<async, alarms, policies, eligible, queue, logs, stale, births, since, edits>>

\* The process dies with its daemon thread and its queue.
Restart ==
    /\ failures < MaxFailures
    /\ failures' = failures + 1
    /\ queue' = <<>>
    /\ job' = NoJob
    /\ stale' = {}
    /\ UNCHANGED <<async, alarms, policies, eligible, logs, births, since, edits>>

-----------------------------------------------------------------------------
(* The pages and the retention policy.                                      *)

Edit ==
    /\ edits < MaxEdits
    /\ edits' = edits + 1
    /\ UNCHANGED <<async, alarms, queue, job, logs, stale, births, since, failures>>

SavePolicy_Unchecked(p, form) ==
    /\ policies' = [policies EXCEPT ![p] = form]
    /\ Edit
    /\ UNCHANGED eligible

\* policy_create_api and policy_update_api.
SavePolicy(p, form) ==
    /\ ValidForm(form)
    /\ policies' = [policies EXCEPT ![p] = form]
    /\ Edit
    /\ UNCHANGED eligible

\* policy_bulk_toggle_api.
TogglePolicies(ps) ==
    /\ \E active \in BOOLEAN :
         policies' = [p \in Policies |->
                        IF p \in ps /\ policies[p] # NoRow
                        THEN [policies[p] EXCEPT !.active = active] ELSE policies[p]]
    /\ Edit
    /\ UNCHANGED eligible

\* policy_bulk_delete_api.
DeletePolicies(ps) ==
    /\ policies' = [p \in Policies |-> IF p \in ps THEN NoRow ELSE policies[p]]
    /\ Edit
    /\ UNCHANGED eligible

\* An account is locked, unlocked, activated or deactivated.
SwitchUser(u) ==
    /\ eligible' = IF u \in eligible THEN eligible \ {u} ELSE eligible \cup {u}
    /\ Edit
    /\ UNCHANGED policies

\* AlarmViewSet.read loads the alarm ...
OpenAlarm(a) ==
    /\ alarms[a] # NoRow
    /\ stale' = stale \cup {[id |-> a, kind |-> alarms[a].kind]}
    /\ UNCHANGED <<async, alarms, policies, eligible, queue, job, logs, births, since,
                   edits, failures>>

\* ... and saves every column.  Of a row that is gone by then, save makes a new
\* one, and post_save reports it as created.
MarkRead ==
    /\ \E s \in stale :
         /\ stale' = stale \ {s}
         /\ alarms' = [alarms EXCEPT ![s.id] = [kind |-> s.kind, read |-> TRUE]]
         /\ IF alarms[s.id] = NoRow THEN Inserted(s.id, s.kind)
            ELSE UNCHANGED <<births, since, queue, job>>
    /\ UNCHANGED <<async, policies, eligible, logs, edits, failures>>

\* read_all and event_bulk_read_api: one UPDATE.
MarkAllRead(as) ==
    /\ alarms' = [a \in Alarms |->
                    IF a \in as /\ alarms[a] # NoRow
                    THEN [alarms[a] EXCEPT !.read = TRUE] ELSE alarms[a]]
    /\ UNCHANGED <<async, policies, eligible, queue, job, logs, stale, births, since,
                   edits, failures>>

\* The row's retention period is over, or the table is initialised.
Purge(a) ==
    /\ alarms[a] # NoRow
    /\ alarms' = [alarms EXCEPT ![a] = NoRow]
    /\ UNCHANGED <<async, policies, eligible, queue, job, logs, stale, births, since,
                   edits, failures>>

Next ==
    \/ \E a \in Alarms : \E k \in Kinds : Raise(a, k)
    \/ Take
    \/ NextPolicy
    \/ ResolveToken
    \/ Deliver
    \/ Commit
    \/ Fail
    \/ Restart
    \/ \E p \in Policies : \E f \in Forms : SavePolicy(p, f)
    \/ \E ps \in SUBSET Policies : TogglePolicies(ps) \/ DeletePolicies(ps)
    \/ \E u \in Users : SwitchUser(u)
    \/ \E a \in Alarms : OpenAlarm(a) \/ Purge(a)
    \/ MarkRead
    \/ \E as \in SUBSET Alarms : MarkAllRead(as)

Spec == Init /\ [][Next]_vars

-----------------------------------------------------------------------------
\* Every variable has its type.
TypeOK ==
    /\ async \in BOOLEAN
    /\ alarms \in [Alarms -> {NoRow} \cup [kind : Kinds, read : BOOLEAN]]
    /\ DOMAIN policies = Policies
    /\ \A p \in Row(policies) : ValidForm(policies[p]) /\ policies[p].active \in BOOLEAN
    /\ eligible \subseteq Users
    /\ queue \in Seq(Alarms)
    /\ ~async => queue = <<>>
    /\ job = NoJob \/ job.alarm \in Alarms
    /\ logs \in [Messages -> Nat]
    /\ \A s \in stale : s.id \in Alarms
    /\ births \in [Alarms -> 0 .. MaxInserts]
    /\ since \in [Alarms -> 0 .. MaxEdits]
    /\ edits \in 0 .. MaxEdits
    /\ failures \in 0 .. MaxFailures

Copies(a, p, u, c) ==
    LET Of(status) == logs[[alarm |-> a, policy |-> p, user |-> u, channel |-> c,
                            status |-> status]]
    IN  Of("sent") + Of("failed")

\* A user gets one message per channel for each policy and insertion of an alarm
\* (notification_dispatcher.py:10), although several tokens may name the user and
\* the user, the policy and the alarm change while it is being sent.
OneMessageEach ==
    \A a \in Alarms, p \in Policies, u \in Users, c \in Channels :
        Copies(a, p, u, c) <= births[a]

\* Once the dispatches are over, an alarm has reached every user its policies
\* name, on every channel, unless something failed or was edited meanwhile.
ReachesEveryone ==
    queue = <<>> /\ job = NoJob /\ failures = 0 =>
        \A a \in Row(alarms) : since[a] = edits =>
            \A p \in Matching(alarms[a].kind) :
                \A u \in Recipients(UNION policies[p].tokens), c \in policies[p].channels :
                    Copies(a, p, u, c) >= 1

=============================================================================

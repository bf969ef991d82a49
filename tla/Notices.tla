------------------------------ MODULE Notices ------------------------------
(***************************************************************************)
(* The notices of the back office and their dispatch to every active user.  *)
(* Unlike the dispatch of an alarm it is not a transaction: each log is     *)
(* committed as pending, handed to the provider, and saved again with the   *)
(* outcome, so that a request that breaks off leaves traces.                *)
(***************************************************************************)
EXTENDS Integers, FiniteSets

CONSTANTS
    NoRow,
    NoticeIds,
    Readers,       \* users the notices go to
    NoticeForms,   \* what the page may submit: [valid, published, from, to]
    MaxDispatches, \* bound: dispatches of all notices
    MaxBreaks      \* bound: dispatches that break off

NoDate == -1

VARIABLES
    notices,    \* rows of Notice: NoRow or [published, from, to]
    dispatches, \* running dispatches: [no, notice, left, sending]
    noticeLogs, \* committed NotificationLog rows: [no, notice, user, channel, status]
    dispatched, \* dispatches so far
    breaks      \* dispatches broken off so far

noticeVars == <<notices, dispatches, noticeLogs, dispatched, breaks>>

\* The channels of a notice, by default.
NoticeChannels == {"app", "realtime"}

Listed == {n \in NoticeIds : notices[n] # NoRow}

\* NoticeForm: the dates are optional and in order.
Cleaned(form) == form.valid /\ (form.from # NoDate /\ form.to # NoDate => form.from <= form.to)

Init ==
    /\ notices = [n \in NoticeIds |-> NoRow]
    /\ dispatches = {}
    /\ noticeLogs = {}
    /\ dispatched = 0
    /\ breaks = 0

\* dispatch_for_notice is called: the users are listed once.
Start(n) ==
    /\ dispatched < MaxDispatches
    /\ dispatched' = dispatched + 1
    /\ dispatches' = dispatches \cup {[no |-> dispatched, notice |-> n, sending |-> {},
                                       left |-> Readers \X NoticeChannels]}
    /\ UNCHANGED <<noticeLogs, breaks>>

Row(form) == [published |-> form.published, from |-> form.from, to |-> form.to]

\* notice_create_api, which sends a published notice at once when asked to.
Create(n, form, sendNotify) ==
    /\ notices[n] = NoRow
    /\ Cleaned(form)
    /\ notices' = [notices EXCEPT ![n] = Row(form)]
    /\ IF sendNotify /\ form.published THEN Start(n)
       ELSE UNCHANGED <<dispatches, noticeLogs, dispatched, breaks>>

\* notice_dispatch_api looks at is_published, not at the dates.
SendAgain(n) ==
    /\ notices[n] # NoRow
    /\ notices[n].published
    /\ Start(n)
    /\ UNCHANGED notices

\* notice_update_api.
Update(n, form) ==
    /\ notices[n] # NoRow
    /\ Cleaned(form)
    /\ notices' = [notices EXCEPT ![n] = Row(form)]
    /\ UNCHANGED <<dispatches, noticeLogs, dispatched, breaks>>

\* notice_bulk_toggle_api.
ToggleNotices(ns) ==
    /\ ns # {}
    /\ \E published \in BOOLEAN :
         notices' = [n \in NoticeIds |->
                       IF n \in ns \cap Listed
                       THEN [notices[n] EXCEPT !.published = published] ELSE notices[n]]
    /\ UNCHANGED <<dispatches, noticeLogs, dispatched, breaks>>

\* notice_bulk_delete_api: the logs do not refer to the notice, and a running
\* dispatch holds its copy.
DeleteNotices(ns) ==
    /\ ns # {}
    /\ notices' = [n \in NoticeIds |-> IF n \in ns THEN NoRow ELSE notices[n]]
    /\ UNCHANGED <<dispatches, noticeLogs, dispatched, breaks>>

LogOf(d, r, status) ==
    [no |-> d.no, notice |-> d.notice, user |-> r[1], channel |-> r[2], status |-> status]

\* NotificationLog.objects.create.
OpenLog(d) ==
    /\ d.sending = {}
    /\ \E r \in d.left :
         /\ dispatches' = (dispatches \ {d})
                          \cup {[d EXCEPT !.left = @ \ {r}, !.sending = {r}]}
         /\ noticeLogs' = noticeLogs \cup {LogOf(d, r, "pending")}
    /\ UNCHANGED <<notices, dispatched, breaks>>

\* Faulty variants of the definition that follows each of them, named
\* <definition>_<fault>, are used by no specification: they record which
\* mistake in the code each property would catch.
CloseLog_OnlySuccess(d) ==
    /\ \E r \in d.sending : \E status \in {"sent", "failed"} :
         noticeLogs' = IF status = "sent"
                       THEN (noticeLogs \ {LogOf(d, r, "pending")}) \cup {LogOf(d, r, status)}
                       ELSE noticeLogs
    /\ dispatches' = (dispatches \ {d}) \cup {[d EXCEPT !.sending = {}]}
    /\ UNCHANGED <<notices, dispatched, breaks>>

CloseLog_StopsAtFailure(d) ==
    \E r \in d.sending : \E status \in {"sent", "failed"} :
        /\ noticeLogs' = (noticeLogs \ {LogOf(d, r, "pending")}) \cup {LogOf(d, r, status)}
        /\ dispatches' = (dispatches \ {d})
                         \cup {[d EXCEPT !.sending = {},
                                         !.left = IF status = "failed" THEN {} ELSE @]}
        /\ UNCHANGED <<notices, dispatched, breaks>>

\* provider.send, whose exceptions count as failures, and the save of the log.
CloseLog(d) ==
    /\ \E r \in d.sending : \E status \in {"sent", "failed"} :
         noticeLogs' = (noticeLogs \ {LogOf(d, r, "pending")}) \cup {LogOf(d, r, status)}
    /\ dispatches' = (dispatches \ {d}) \cup {[d EXCEPT !.sending = {}]}
    /\ UNCHANGED <<notices, dispatched, breaks>>

\* The answer with the number of logs.
Answer(d) ==
    /\ d.left = {}
    /\ d.sending = {}
    /\ dispatches' = dispatches \ {d}
    /\ UNCHANGED <<notices, noticeLogs, dispatched, breaks>>

\* The database raises, or the process dies: what is committed stays.
BreakOff(d) ==
    /\ breaks < MaxBreaks
    /\ breaks' = breaks + 1
    /\ dispatches' = dispatches \ {d}
    /\ UNCHANGED <<notices, noticeLogs, dispatched>>

Next ==
    \/ \E n \in NoticeIds, f \in NoticeForms : Update(n, f) \/ \E b \in BOOLEAN : Create(n, f, b)
    \/ \E n \in NoticeIds : SendAgain(n)
    \/ \E ns \in SUBSET NoticeIds : ToggleNotices(ns) \/ DeleteNotices(ns)
    \/ \E d \in dispatches : OpenLog(d) \/ CloseLog(d) \/ Answer(d) \/ BreakOff(d)

Spec == Init /\ [][Next]_noticeVars

-----------------------------------------------------------------------------
Pending == {l \in noticeLogs : l.status = "pending"}

\* A log that stays pending belongs to a dispatch that broke off, and each of
\* those leaves one at most: whatever the provider does, its log is closed before
\* the next one is opened (notification_dispatcher.py:198-217).
PendingIsCutShort ==
    \A no \in 0 .. dispatched - 1 :
        LET open == {l \in Pending : l.no = no}
            running == {d \in dispatches : d.no = no}
        IN  IF running = {} THEN Cardinality(open) <= 1 /\ (open # {} => breaks > 0)
            ELSE \A d \in running : {<<l.user, l.channel>> : l \in open} = d.sending

\* A dispatch that was answered has a log for every user and channel, whatever
\* became of the notice meanwhile.
AnsweredInFull ==
    breaks = 0 =>
        \A no \in 0 .. dispatched - 1 :
            (\A d \in dispatches : d.no # no) =>
                Cardinality({l \in noticeLogs : l.no = no})
                    = Cardinality(Readers) * Cardinality(NoticeChannels)

=============================================================================

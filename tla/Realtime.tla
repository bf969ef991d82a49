------------------------------ MODULE Realtime ------------------------------
(***************************************************************************)
(* The push channel to the dashboards: a connection joins its groups before *)
(* it is accepted and leaves them at its end; a publication goes to the     *)
(* members of one group and then into the cache of latest values.  The      *)
(* channel layer may fail at each call.  A publication is its number.       *)
(***************************************************************************)
EXTENDS Integers, Sequences, SequencesExt, FiniteSets

CONSTANTS
    None,
    Clients,      \* connections
    Groups,       \* DashboardConsumer.GROUPS, in order
    MaxMessages,  \* bound: publications
    MaxFaults     \* bound: failures of the layer or the cache, refused connections

VARIABLES
    clients,   \* connection -> [state, at]: at is the next group to join or leave
    members,   \* group -> the connections in it
    gauge,     \* ws_connections_active
    missed,    \* history: accepted connections that were not sent a message
    sent,      \* messages published
    under,     \* publications between group_send and the cache: [no, group, failed]
    cached,    \* group -> number of the last value cached, or None
    published, \* group -> number of the last publication begun, or None
    disturbed, \* history: publications overlapped, the cache failed, or a value is old
    drifted,   \* history: a connection was refused, or the layer failed in one
    faults

realtimeVars == <<clients, members, gauge, missed, sent, under, cached, published,
                  disturbed, drifted, faults>>

AllGroups == ToSet(Groups)

Init ==
    /\ clients = [c \in Clients |-> [state |-> "away", at |-> 1]]
    /\ members = [g \in AllGroups |-> {}]
    /\ gauge = 0
    /\ missed = {}
    /\ sent = 0
    /\ under = {}
    /\ cached = [g \in AllGroups |-> None]
    /\ published = [g \in AllGroups |-> None]
    /\ disturbed = {}
    /\ drifted = FALSE
    /\ faults = 0

Fault ==
    /\ faults < MaxFaults
    /\ faults' = faults + 1

connectionVars == <<clients, members, gauge, drifted>>
messageVars == <<missed, sent, under, cached, published, disturbed>>

In(c, state) == clients[c].state = state

\* connect without a user: the connection is closed, which disconnect will hear of.
Refuse(c) ==
    /\ Fault
    /\ In(c, "away")
    /\ clients' = [clients EXCEPT ![c] = [state |-> "leaving", at |-> 1]]
    /\ drifted' = TRUE
    /\ UNCHANGED <<members, gauge, messageVars>>

\* connect: counted first ...
Connect(c) ==
    /\ In(c, "away")
    /\ clients' = [clients EXCEPT ![c] = [state |-> "joining", at |-> 1]]
    /\ gauge' = gauge + 1
    /\ UNCHANGED <<members, drifted, faults, messageVars>>

\* Faulty variants of the definition that follows each of them, named
\* <definition>_<fault>, are used by no specification: they record which
\* mistake in the code each property would catch.
Join_AcceptFirst(c) ==
    /\ In(c, "joining") \/ In(c, "open")
    /\ clients[c].at <= Len(Groups)
    /\ members' = [members EXCEPT ![Groups[clients[c].at]] = @ \cup {c}]
    /\ clients' = [clients EXCEPT ![c] = [state |-> "open", at |-> @.at + 1]]
    /\ UNCHANGED <<gauge, drifted, faults, messageVars>>

\* ... group by group ...
Join(c) ==
    /\ In(c, "joining")
    /\ clients[c].at <= Len(Groups)
    /\ members' = [members EXCEPT ![Groups[clients[c].at]] = @ \cup {c}]
    /\ clients' = [clients EXCEPT ![c].at = @ + 1]
    /\ UNCHANGED <<gauge, drifted, faults, messageVars>>

\* ... and accepted; only now is the end of the connection heard of.
Accept(c) ==
    /\ In(c, "joining")
    /\ clients[c].at > Len(Groups)
    /\ clients' = [clients EXCEPT ![c] = [state |-> "open", at |-> 1]]
    /\ UNCHANGED <<members, gauge, drifted, faults, messageVars>>

\* The browser goes.
Close(c) ==
    /\ In(c, "open")
    /\ clients' = [clients EXCEPT ![c] = [state |-> "leaving", at |-> 1]]
    /\ UNCHANGED <<members, gauge, drifted, faults, messageVars>>

\* disconnect: group by group ...
Discard(c) ==
    /\ In(c, "leaving")
    /\ clients[c].at <= Len(Groups)
    /\ members' = [members EXCEPT ![Groups[clients[c].at]] = @ \ {c}]
    /\ clients' = [clients EXCEPT ![c].at = @ + 1]
    /\ UNCHANGED <<gauge, drifted, faults, messageVars>>

Gone_NotCounted(c) ==
    /\ In(c, "leaving")
    /\ clients[c].at > Len(Groups)
    /\ clients' = [clients EXCEPT ![c] = [state |-> "away", at |-> 1]]
    /\ UNCHANGED <<members, gauge, drifted, faults, messageVars>>

\* ... and no longer counted, nor ever was if it was refused.
Gone(c) ==
    /\ In(c, "leaving")
    /\ clients[c].at > Len(Groups)
    /\ gauge' = gauge - 1
    /\ clients' = [clients EXCEPT ![c] = [state |-> "away", at |-> 1]]
    /\ UNCHANGED <<members, drifted, faults, messageVars>>

\* The channel layer fails: the consumer is over in the middle, still counted, and a
\* member of the groups it had joined or not yet left.
Break(c) ==
    /\ Fault
    /\ In(c, "joining") \/ In(c, "leaving")
    /\ clients[c].at <= Len(Groups)
    /\ clients' = [clients EXCEPT ![c] = [state |-> "broken", at |-> 1]]
    /\ drifted' = TRUE
    /\ UNCHANGED <<members, gauge, messageVars>>

\* publish_*: the group is sent the message, or the failure of the layer is
\* swallowed ...
Publish(g, fails) ==
    /\ sent < MaxMessages
    /\ IF fails THEN Fault ELSE faults' = faults
    /\ sent' = sent + 1
    /\ under' = under \cup {[no |-> sent', group |-> g, failed |-> fails]}
    /\ published' = [published EXCEPT ![g] = sent']
    /\ disturbed' = IF \E p \in under : p.group = g THEN disturbed \cup {g} ELSE disturbed
    /\ missed' = IF fails THEN missed
                 ELSE missed \cup {c \in Clients \ members[g] : In(c, "open")}
    /\ UNCHANGED <<cached, connectionVars>>

Cache_IfSent(p) ==
    /\ under' = under \ {p}
    /\ cached' = IF p.failed THEN cached ELSE [cached EXCEPT ![p.group] = p.no]
    /\ UNCHANGED <<missed, sent, published, disturbed, faults, connectionVars>>

\* ... and the latest value cached ...
Cache(p) ==
    /\ under' = under \ {p}
    /\ cached' = [cached EXCEPT ![p.group] = p.no]
    /\ UNCHANGED <<missed, sent, published, disturbed, faults, connectionVars>>

\* ... unless the cache fails, which is swallowed, too.
FailToCache(p) ==
    /\ Fault
    /\ under' = under \ {p}
    /\ disturbed' = disturbed \cup {p.group}
    /\ UNCHANGED <<missed, sent, cached, published, connectionVars>>

\* The cached value is too old, or cleared.
Drop(g) ==
    /\ cached[g] # None
    /\ cached' = [cached EXCEPT ![g] = None]
    /\ UNCHANGED <<missed, sent, under, published, disturbed, faults, connectionVars>>

Next ==
    \/ \E c \in Clients :
         \/ Refuse(c) \/ Connect(c) \/ Join(c) \/ Accept(c)
         \/ Close(c) \/ Discard(c) \/ Gone(c) \/ Break(c)
    \/ \E g \in AllGroups : Drop(g) \/ \E fails \in BOOLEAN : Publish(g, fails)
    \/ \E p \in under : Cache(p) \/ FailToCache(p)

Spec == Init /\ [][Next]_realtimeVars

-----------------------------------------------------------------------------
\* Every variable has its type.
TypeOK ==
    /\ \A c \in Clients : /\ clients[c].state \in {"away", "joining", "open", "leaving", "broken"}
                          /\ clients[c].at \in 1 .. Len(Groups) + 1
    /\ \A g \in AllGroups : members[g] \subseteq Clients /\ cached[g] \in 1 .. sent \cup {None}
    /\ gauge \in -MaxFaults .. Cardinality(Clients)
    /\ faults \in 0 .. MaxFaults

\* Whoever has been told that it is connected is sent every message of every group
\* from then on (realtime/consumers.py:43-51).
OpenHearsAll == missed = {}

\* The gauge is the number of connections between connect and the end of
\* disconnect, as long as none was refused and the layer has not failed in one
\* (realtime/consumers.py:41, :57).
GaugeCounts ==
    ~drifted => gauge = Cardinality({c \in Clients : ~In(c, "away")})

\* The cache shows the last value published, if any, also when the channel layer
\* failed to send it; it may not when two publications overlapped or the cache
\* itself failed (realtime/publishers.py:51-68, :109-141).
CacheIsLatest ==
    \A g \in AllGroups \ disturbed :
        cached[g] # None /\ ~(\E p \in under : p.group = g) => cached[g] = published[g]

=============================================================================

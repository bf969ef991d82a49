--------------------------- MODULE PlatformProofs ---------------------------
(***************************************************************************)
(* What Platform promises of its parts, for all values of the constants: an *)
(* inductive invariant for each of them, and what the loops of the          *)
(* classification compute.                                                  *)
(***************************************************************************)
EXTENDS Platform, FiniteSetTheorems, TLAPS

-----------------------------------------------------------------------------
(* Realtime: how far each connection has come in joining its groups, how    *)
(* much the gauge may have drifted, and which publication a cached value     *)
(* stems from.                                                              *)

Stage == [state : {"away", "joining", "open", "leaving", "broken"}, at : 1 .. Len(Groups) + 1]

SocketTypes ==
    /\ clients \in [Clients -> Stage]
    /\ members \in [Sockets!AllGroups -> SUBSET Clients]
    /\ sent \in Nat
    /\ under \subseteq [no : 1 .. sent, group : Sockets!AllGroups, failed : BOOLEAN]
    /\ cached \in [Sockets!AllGroups -> 1 .. sent \cup {NoRow}]
    /\ DOMAIN published = Sockets!AllGroups
    /\ gauge \in Int
    /\ faults \in 0 .. MaxFaults

\* A connection is in the groups that it has joined, in order, and when it is
\* accepted in all of them.
JoinedInOrder ==
    \A c \in Clients, i \in 1 .. Len(Groups) :
        \/ Sockets!In(c, "open")
        \/ Sockets!In(c, "joining") /\ i < clients[c].at
        => c \in members[Groups[i]]

Counted == {c \in Clients : ~Sockets!In(c, "away")}

\* Each refused connection takes one off the gauge that was never added.
GaugeDrifts ==
    /\ gauge <= Cardinality(Counted) /\ Cardinality(Counted) <= gauge + faults
    /\ ~drifted => gauge = Cardinality(Counted)

\* Unless disturbed, a group's only publication under way is the last one, and a
\* cached value is the last one's, too.
CachedIsPublished ==
    \A g \in Sockets!AllGroups \ disturbed :
        /\ \A p \in under : p.group = g => p.no = published[g]
        /\ cached[g] # NoRow /\ ~(\E p \in under : p.group = g) => cached[g] = published[g]

SocketInv ==
    /\ SocketTypes /\ JoinedInOrder /\ GaugeDrifts /\ CachedIsPublished
    /\ Sockets!OpenHearsAll

LEMMA GroupsAreListed ==
    \A i \in 1 .. Len(Groups) : Groups[i] \in Sockets!AllGroups
BY SocketAssumption DEF Sockets!AllGroups, Sockets!ToSet

LEMMA EveryGroupIsListed ==
    \A g \in Sockets!AllGroups : \E i \in 1 .. Len(Groups) : g = Groups[i]
BY SocketAssumption DEF Sockets!AllGroups, Sockets!ToSet

LEMMA CountedIsFinite ==
    IsFiniteSet(Counted) /\ Cardinality(Counted) \in Nat /\ Cardinality(Counted) <= Cardinality(Clients)
<1>1. Counted \subseteq Clients
    BY DEF Counted
<1> QED BY <1>1, SocketAssumption, FS_Subset, FS_CardinalityType

LEMMA SocketInit == Sockets!Init => SocketInv
<1> SUFFICES ASSUME Sockets!Init PROVE SocketInv
    OBVIOUS
<1> USE SocketAssumption
<1>1. Len(Groups) \in Nat
    OBVIOUS
<1>2. SocketTypes
    BY <1>1 DEF Sockets!Init, SocketTypes, Stage
<1>3. JoinedInOrder
    BY DEF Sockets!Init, JoinedInOrder, Sockets!In
<1>4. Counted = {}
    BY DEF Sockets!Init, Counted, Sockets!In
<1>5. GaugeDrifts
    BY <1>4, FS_EmptySet DEF Sockets!Init, GaugeDrifts
<1>6. CachedIsPublished /\ Sockets!OpenHearsAll
    BY DEF Sockets!Init, CachedIsPublished, Sockets!OpenHearsAll
<1> QED BY <1>2, <1>3, <1>5, <1>6 DEF SocketInv

\* One connection comes to another stage, and nothing is published.
Moves(c, s) ==
    /\ clients' = [clients EXCEPT ![c] = s]
    /\ UNCHANGED Sockets!messageVars

LEMMA CountAfterMove ==
    ASSUME SocketTypes, NEW c \in Clients, NEW s \in Stage, Moves(c, s)
    PROVE  Cardinality(Counted') = IF Sockets!In(c, "away")
                                   THEN IF s.state = "away" THEN Cardinality(Counted)
                                                            ELSE Cardinality(Counted) + 1
                                   ELSE IF s.state = "away" THEN Cardinality(Counted) - 1
                                                            ELSE Cardinality(Counted)
<1>1. Counted' = IF s.state = "away" THEN Counted \ {c} ELSE Counted \cup {c}
    BY DEF Moves, SocketTypes, Counted, Sockets!In
<1>2. c \in Counted <=> ~Sockets!In(c, "away")
    BY DEF Counted
<1>3. Cardinality(Counted \cup {c}) = IF c \in Counted THEN Cardinality(Counted)
                                                      ELSE Cardinality(Counted) + 1
    BY CountedIsFinite, FS_AddElement
<1>4. Cardinality(Counted \ {c}) = IF c \in Counted THEN Cardinality(Counted) - 1
                                                    ELSE Cardinality(Counted)
    BY CountedIsFinite, FS_RemoveElement
<1> QED BY <1>1, <1>2, <1>3, <1>4

LEMMA MoveKeeps ==
    ASSUME SocketInv, NEW c \in Clients, NEW s \in Stage, Moves(c, s),
           members' \in [Sockets!AllGroups -> SUBSET Clients],
           gauge' \in Int, faults' \in 0 .. MaxFaults,
           \A d \in Clients \ {c}, g \in Sockets!AllGroups :
               d \in members[g] => d \in members'[g],
           \A i \in 1 .. Len(Groups) :
               s.state = "open" \/ (s.state = "joining" /\ i < s.at) => c \in members'[Groups[i]],
           GaugeDrifts'
    PROVE  SocketInv'
<1>1. SocketTypes'
    BY DEF SocketInv, SocketTypes, Moves, Sockets!messageVars
<1>2. JoinedInOrder'
  <2> SUFFICES ASSUME NEW d \in Clients, NEW i \in 1 .. Len(Groups),
                      \/ Sockets!In(d, "open")'
                      \/ Sockets!In(d, "joining")' /\ i < clients'[d].at
               PROVE  d \in members'[Groups[i]]
      BY DEF JoinedInOrder
  <2>1. Groups[i] \in Sockets!AllGroups
      BY GroupsAreListed
  <2>2. CASE d = c
      BY <2>2 DEF Moves, SocketInv, SocketTypes, Sockets!In
  <2>3. CASE d # c
    <3>1. clients'[d] = clients[d]
        BY <2>3 DEF Moves, SocketInv, SocketTypes
    <3>2. d \in members[Groups[i]]
        BY <3>1 DEF Sockets!In, SocketInv, JoinedInOrder
    <3> QED BY <3>2, <2>1, <2>3
  <2> QED BY <2>2, <2>3
<1>3. CachedIsPublished' /\ Sockets!OpenHearsAll'
    BY DEF SocketInv, CachedIsPublished, Sockets!OpenHearsAll, Moves, Sockets!messageVars
<1> QED BY <1>1, <1>2, <1>3 DEF SocketInv

LEMMA ConnectionKeeps ==
    ASSUME SocketInv, NEW c \in Clients,
           \/ Sockets!Refuse(c) \/ Sockets!Connect(c) \/ Sockets!Join(c) \/ Sockets!Accept(c)
           \/ Sockets!Close(c) \/ Sockets!Discard(c) \/ Sockets!Gone(c) \/ Sockets!Break(c)
    PROVE  SocketInv'
<1> USE SocketAssumption
<1>1. /\ clients \in [Clients -> Stage] /\ clients[c] \in Stage /\ SocketTypes
      /\ members \in [Sockets!AllGroups -> SUBSET Clients]
      /\ gauge \in Int /\ faults \in 0 .. MaxFaults /\ Len(Groups) \in Nat
      /\ Cardinality(Counted) \in Nat
    BY CountedIsFinite DEF SocketInv, SocketTypes
<1>2. GaugeDrifts /\ JoinedInOrder
    BY DEF SocketInv
<1>3. \A i \in 1 .. Len(Groups) : Groups[i] \in Sockets!AllGroups
    BY GroupsAreListed
<1>4. CASE Sockets!Refuse(c)
  <2> DEFINE s == [state |-> "leaving", at |-> 1]
  <2>1. s \in Stage /\ Moves(c, s) /\ s.state = "leaving"
      BY <1>1, <1>4 DEF Sockets!Refuse, Moves, Stage
  <2> HIDE DEF s
  <2>2. Cardinality(Counted') = Cardinality(Counted) + 1
      BY <2>1, <1>1, <1>4, CountAfterMove DEF Sockets!Refuse
  <2>3. GaugeDrifts'
      BY <2>2, <1>1, <1>2, <1>4 DEF Sockets!Refuse, Sockets!Fault, GaugeDrifts
  <2> QED BY <2>1, <2>3, <1>1, <1>4, MoveKeeps DEF Sockets!Refuse, Sockets!Fault
<1>5. CASE Sockets!Connect(c)
  <2> DEFINE s == [state |-> "joining", at |-> 1]
  <2>1. s \in Stage /\ Moves(c, s) /\ s.state = "joining" /\ s.at = 1
      BY <1>1, <1>5 DEF Sockets!Connect, Moves, Stage
  <2> HIDE DEF s
  <2>2. Cardinality(Counted') = Cardinality(Counted) + 1
      BY <2>1, <1>1, <1>5, CountAfterMove DEF Sockets!Connect
  <2>3. GaugeDrifts'
      BY <2>2, <1>1, <1>2, <1>5 DEF Sockets!Connect, GaugeDrifts
  <2> QED BY <2>1, <2>3, <1>1, <1>5, MoveKeeps DEF Sockets!Connect
<1>6. CASE Sockets!Join(c)
  <2> DEFINE s == [clients[c] EXCEPT !.at = @ + 1]
             g == Groups[clients[c].at]
  <2>0. clients[c].at \in 1 .. Len(Groups) /\ g \in Sockets!AllGroups
      BY <1>1, <1>3, <1>6 DEF Sockets!Join, Stage
  <2>1. s \in Stage /\ Moves(c, s) /\ s.state = "joining" /\ s.at = clients[c].at + 1
      BY <1>1, <1>6, <2>0 DEF Sockets!Join, Moves, Stage, Sockets!In
  <2> HIDE DEF s
  <2>2. Cardinality(Counted') = Cardinality(Counted)
      BY <2>1, <1>1, <1>6, CountAfterMove DEF Sockets!Join, Sockets!In
  <2>3. GaugeDrifts'
      BY <2>2, <1>1, <1>2, <1>6 DEF Sockets!Join, GaugeDrifts
  <2>4. /\ members' = [members EXCEPT ![g] = @ \cup {c}]
        /\ members' \in [Sockets!AllGroups -> SUBSET Clients]
      BY <1>1, <1>6, <2>0 DEF Sockets!Join
  <2>5. \A h \in Sockets!AllGroups, d \in Clients : d \in members[h] => d \in members'[h]
      BY <1>1, <2>4
  <2>6. \A i \in 1 .. Len(Groups) : i < s.at => c \in members'[Groups[i]]
    <3> SUFFICES ASSUME NEW i \in 1 .. Len(Groups), i < s.at PROVE c \in members'[Groups[i]]
        OBVIOUS
    <3>1. CASE i = clients[c].at
        BY <3>1, <1>1, <2>0, <2>4
    <3>2. CASE i < clients[c].at
        BY <3>2, <1>2, <1>3, <1>6, <2>5 DEF JoinedInOrder, Sockets!Join
    <3> QED BY <3>1, <3>2, <2>0, <2>1
  <2> QED BY <2>1, <2>3, <2>4, <2>5, <2>6, <1>1, <1>6, MoveKeeps DEF Sockets!Join
<1>7. CASE Sockets!Accept(c)
  <2> DEFINE s == [state |-> "open", at |-> 1]
  <2>1. s \in Stage /\ Moves(c, s) /\ s.state = "open"
      BY <1>1, <1>7 DEF Sockets!Accept, Moves, Stage
  <2> HIDE DEF s
  <2>2. Cardinality(Counted') = Cardinality(Counted)
      BY <2>1, <1>1, <1>7, CountAfterMove DEF Sockets!Accept, Sockets!In
  <2>3. GaugeDrifts'
      BY <2>2, <1>1, <1>2, <1>7 DEF Sockets!Accept, GaugeDrifts
  <2>4. \A i \in 1 .. Len(Groups) : c \in members[Groups[i]]
      BY <1>1, <1>2, <1>7 DEF Sockets!Accept, JoinedInOrder, Stage
  <2> QED BY <2>1, <2>3, <2>4, <1>1, <1>7, MoveKeeps DEF Sockets!Accept
<1>8. CASE Sockets!Close(c)
  <2> DEFINE s == [state |-> "leaving", at |-> 1]
  <2>1. s \in Stage /\ Moves(c, s) /\ s.state = "leaving"
      BY <1>1, <1>8 DEF Sockets!Close, Moves, Stage
  <2> HIDE DEF s
  <2>2. Cardinality(Counted') = Cardinality(Counted)
      BY <2>1, <1>1, <1>8, CountAfterMove DEF Sockets!Close, Sockets!In
  <2>3. GaugeDrifts'
      BY <2>2, <1>1, <1>2, <1>8 DEF Sockets!Close, GaugeDrifts
  <2> QED BY <2>1, <2>3, <1>1, <1>8, MoveKeeps DEF Sockets!Close
<1>9. CASE Sockets!Discard(c)
  <2> DEFINE s == [clients[c] EXCEPT !.at = @ + 1]
             g == Groups[clients[c].at]
  <2>0. clients[c].at \in 1 .. Len(Groups) /\ g \in Sockets!AllGroups
      BY <1>1, <1>3, <1>9 DEF Sockets!Discard, Stage
  <2>1. s \in Stage /\ Moves(c, s) /\ s.state = "leaving"
      BY <1>1, <1>9, <2>0 DEF Sockets!Discard, Moves, Stage, Sockets!In
  <2> HIDE DEF s
  <2>2. Cardinality(Counted') = Cardinality(Counted)
      BY <2>1, <1>1, <1>9, CountAfterMove DEF Sockets!Discard, Sockets!In
  <2>3. GaugeDrifts'
      BY <2>2, <1>1, <1>2, <1>9 DEF Sockets!Discard, GaugeDrifts
  <2>4. members' = [members EXCEPT ![g] = @ \ {c}]
      BY <1>9 DEF Sockets!Discard
  <2>5. /\ members' \in [Sockets!AllGroups -> SUBSET Clients]
        /\ \A h \in Sockets!AllGroups, d \in Clients \ {c} :
              d \in members[h] => d \in members'[h]
      BY <1>1, <2>0, <2>4
  <2> QED BY <2>1, <2>3, <2>5, <1>1, <1>9, MoveKeeps DEF Sockets!Discard
<1>10. CASE Sockets!Gone(c)
  <2> DEFINE s == [state |-> "away", at |-> 1]
  <2>1. s \in Stage /\ Moves(c, s) /\ s.state = "away"
      BY <1>1, <1>10 DEF Sockets!Gone, Moves, Stage
  <2> HIDE DEF s
  <2>2. Cardinality(Counted') = Cardinality(Counted) - 1
      BY <2>1, <1>1, <1>10, CountAfterMove DEF Sockets!Gone, Sockets!In
  <2>3. GaugeDrifts'
      BY <2>2, <1>1, <1>2, <1>10 DEF Sockets!Gone, GaugeDrifts
  <2> QED BY <2>1, <2>3, <1>1, <1>10, MoveKeeps DEF Sockets!Gone
<1>11. CASE Sockets!Break(c)
  <2> DEFINE s == [state |-> "broken", at |-> 1]
  <2>1. s \in Stage /\ Moves(c, s) /\ s.state = "broken"
      BY <1>1, <1>11 DEF Sockets!Break, Moves, Stage
  <2> HIDE DEF s
  <2>2. Cardinality(Counted') = Cardinality(Counted)
      BY <2>1, <1>1, <1>11, CountAfterMove DEF Sockets!Break, Sockets!In
  <2>3. GaugeDrifts'
      BY <2>2, <1>1, <1>2, <1>11 DEF Sockets!Break, Sockets!Fault, GaugeDrifts
  <2> QED BY <2>1, <2>3, <1>1, <1>11, MoveKeeps DEF Sockets!Break, Sockets!Fault
<1> QED BY <1>4, <1>5, <1>6, <1>7, <1>8, <1>9, <1>10, <1>11

LEMMA PublishKeeps ==
    ASSUME SocketInv, NEW g \in Sockets!AllGroups, NEW fails \in BOOLEAN,
           Sockets!Publish(g, fails)
    PROVE  SocketInv'
<1> DEFINE p == [no |-> sent', group |-> g, failed |-> fails]
<1>1. /\ sent' = sent + 1 /\ under' = under \cup {p}
      /\ published' = [published EXCEPT ![g] = sent']
      /\ disturbed' = IF \E q \in under : q.group = g THEN disturbed \cup {g} ELSE disturbed
      /\ UNCHANGED <<cached, Sockets!connectionVars>>
      /\ faults' \in {faults, faults + 1} /\ (faults' = faults \/ faults < MaxFaults)
      /\ missed' \in {missed, missed \cup {c \in Clients \ members[g] : Sockets!In(c, "open")}}
    BY DEF Sockets!Publish, Sockets!Fault
<1>2. /\ sent \in Nat /\ sent' \in Nat /\ faults \in 0 .. MaxFaults
      /\ p.no = sent' /\ p.group = g
      /\ p \in [no : 1 .. sent', group : Sockets!AllGroups, failed : BOOLEAN]
    BY <1>1 DEF SocketInv, SocketTypes
<1> HIDE DEF p
<1>3. SocketTypes'
  <2>1. /\ under \subseteq [no : 1 .. sent', group : Sockets!AllGroups, failed : BOOLEAN]
        /\ cached \in [Sockets!AllGroups -> 1 .. sent' \cup {NoRow}]
      BY <1>1, <1>2 DEF SocketInv, SocketTypes
  <2> QED BY <1>1, <1>2, <2>1, SocketAssumption
          DEF SocketInv, SocketTypes, Sockets!connectionVars
<1>4. JoinedInOrder' /\ Counted' = Counted
    BY <1>1 DEF SocketInv, JoinedInOrder, Counted, Sockets!In, Sockets!connectionVars
<1>5. GaugeDrifts'
    BY <1>1, <1>2, <1>4, CountedIsFinite
    DEF SocketInv, SocketTypes, GaugeDrifts, Sockets!connectionVars
<1>6. CachedIsPublished'
    BY <1>1, <1>2 DEF SocketInv, SocketTypes, CachedIsPublished
<1>7. \A c \in Clients : Sockets!In(c, "open") => c \in members[g]
    BY EveryGroupIsListed DEF SocketInv, JoinedInOrder
<1>8. Sockets!OpenHearsAll'
    BY <1>1, <1>7 DEF SocketInv, Sockets!OpenHearsAll
<1> QED BY <1>3, <1>4, <1>5, <1>6, <1>8 DEF SocketInv

LEMMA CacheKeeps ==
    ASSUME SocketInv,
           \/ \E p \in under : Sockets!Cache(p) \/ Sockets!FailToCache(p)
           \/ \E g \in Sockets!AllGroups : Sockets!Drop(g)
    PROVE  SocketInv'
<1>1. /\ UNCHANGED <<missed, sent, published, Sockets!connectionVars>>
      /\ faults' \in {faults, faults + 1} /\ (faults' = faults \/ faults < MaxFaults)
    BY DEF Sockets!Cache, Sockets!FailToCache, Sockets!Drop, Sockets!Fault
<1>2. /\ faults \in 0 .. MaxFaults /\ faults' \in 0 .. MaxFaults /\ faults <= faults'
    BY <1>1, SocketAssumption DEF SocketInv, SocketTypes
<1>3. JoinedInOrder' /\ Counted' = Counted /\ Sockets!OpenHearsAll'
    BY <1>1 DEF SocketInv, JoinedInOrder, Counted, Sockets!In, Sockets!connectionVars,
                Sockets!OpenHearsAll
<1>4. GaugeDrifts'
    BY <1>1, <1>2, <1>3, CountedIsFinite
    DEF SocketInv, SocketTypes, GaugeDrifts, Sockets!connectionVars
<1>5. SocketTypes' /\ CachedIsPublished'
  <2>1. CASE \E p \in under : Sockets!Cache(p)
    <3>1. PICK p \in under : Sockets!Cache(p)
        BY <2>1
    <3>2. p.no \in 1 .. sent /\ p.group \in Sockets!AllGroups
        BY DEF SocketInv, SocketTypes
    <3>3. SocketTypes'
        BY <1>1, <1>2, <3>1, <3>2
        DEF SocketInv, SocketTypes, Sockets!Cache, Sockets!connectionVars
    <3>4. CachedIsPublished'
        BY <3>1, <3>2 DEF SocketInv, SocketTypes, CachedIsPublished, Sockets!Cache
    <3> QED BY <3>3, <3>4
  <2>2. CASE \E p \in under : Sockets!FailToCache(p)
    <3>1. PICK p \in under : Sockets!FailToCache(p)
        BY <2>2
    <3>2. SocketTypes'
        BY <1>1, <1>2, <3>1 DEF SocketInv, SocketTypes, Sockets!FailToCache, Sockets!connectionVars
    <3>3. CachedIsPublished'
        BY <3>1 DEF SocketInv, SocketTypes, CachedIsPublished, Sockets!FailToCache
    <3> QED BY <3>2, <3>3
  <2>3. CASE \E g \in Sockets!AllGroups : Sockets!Drop(g)
    <3>1. PICK g \in Sockets!AllGroups : Sockets!Drop(g)
        BY <2>3
    <3>2. SocketTypes'
        BY <1>1, <1>2, <3>1 DEF SocketInv, SocketTypes, Sockets!Drop, Sockets!connectionVars
    <3>3. CachedIsPublished'
        BY <3>1 DEF SocketInv, SocketTypes, CachedIsPublished, Sockets!Drop
    <3> QED BY <3>2, <3>3
  <2> QED BY <2>1, <2>2, <2>3
<1> QED BY <1>3, <1>4, <1>5 DEF SocketInv

LEMMA SocketStep == SocketInv /\ [Next]_platformVars => SocketInv'
<1> SUFFICES ASSUME SocketInv, [Next]_platformVars PROVE SocketInv'
    OBVIOUS
<1>1. CASE UNCHANGED socketVars
    BY <1>1 DEF SocketInv, SocketTypes, JoinedInOrder, GaugeDrifts, Counted, CachedIsPublished,
                Sockets!OpenHearsAll, Sockets!In, socketVars
<1>2. CASE Sockets!Next
    BY <1>2, ConnectionKeeps, PublishKeeps, CacheKeeps DEF Sockets!Next
<1> QED BY <1>1, <1>2 DEF Next, platformVars, PlayScenario, GenerateReadings, MeasurePower,
                          Learn, InjectSpikes, PushToDashboards, ShapeZone

LEMMA SameCardinality == \A S : Sockets!Cardinality(S) = Cardinality(S)
BY DEF Sockets!Cardinality, Cardinality, Sockets!IsFiniteSet, IsFiniteSet

LEMMA SocketInvImplies == SocketInv => DashboardsAreCurrent
<1> SUFFICES ASSUME SocketInv PROVE DashboardsAreCurrent
    OBVIOUS
<1>1. Sockets!TypeOK
    BY CountedIsFinite, SocketAssumption, SameCardinality, FS_CardinalityType
    DEF SocketInv, SocketTypes, Stage, GaugeDrifts, Sockets!TypeOK
<1>2. Sockets!OpenHearsAll
    BY DEF SocketInv
<1>3. Sockets!GaugeCounts
    BY SameCardinality DEF SocketInv, GaugeDrifts, Counted, Sockets!GaugeCounts
<1>4. Sockets!CacheIsLatest
    BY DEF SocketInv, CachedIsPublished, Sockets!CacheIsLatest
<1> QED BY <1>1, <1>2, <1>3, <1>4 DEF DashboardsAreCurrent

\* Whoever has been told that it is connected is sent every message, the gauge counts
\* the connections unless one was refused or broke, and a cached value is the last
\* one published, for any connections, groups, messages and failures of the channel
\* layer (realtime/consumers.py:41-57, realtime/publishers.py:51-68, :109-141).
THEOREM DashboardsStayCurrent == Spec => []DashboardsAreCurrent
<1>1. Init => SocketInv
    BY SocketInit DEF Init
<1>2. SocketInv /\ [Next]_platformVars => SocketInv'
    BY SocketStep
<1>3. SocketInv => DashboardsAreCurrent
    BY SocketInvImplies
<1> QED BY <1>1, <1>2, <1>3, PTL DEF Spec

-----------------------------------------------------------------------------
(* SpikeInjection: whose chain a sensor has, how long its flag still holds,  *)
(* and how far a curve has come.                                            *)

ZoneRow ==
    [state : {"none", "active", "over"}, reach : Nat, confirmed : SUBSET Sensors,
     left : SUBSET Sensors]

Entry == [zone : Zones, sensor : Sensors]

ChainRow ==
    [zone : Zones, sensor : Sensors, joined : BOOLEAN, step : 0 .. MaxSteps,
     wait : -MaxLate .. 1, height : 0 .. Spikes!Full, no : Nat]

SpikeTypes ==
    /\ zones \in [Zones -> ZoneRow]
    /\ tick \in Seq(Entry)
    /\ chains \subseteq ChainRow /\ IsFiniteSet(chains)
    /\ flag \in [Sensors -> 0 .. FlagTime]
    /\ spikeNow \in 0 .. MaxIntervals

\* A tick and a scenario are about a zone that was created, and a tick names a
\* sensor once.
ZonesBegin ==
    /\ \A z \in Zones : zones[z].state = "none" => zones[z].confirmed = {} /\ zones[z].left = {}
    /\ \A i \in DOMAIN tick : zones[tick[i].zone].state # "none"
    /\ \A i, j \in DOMAIN tick : tick[i] = tick[j] => i = j

\* Unless the tick came first, a zone has noted each sensor with a chain, has one
\* chain for it, and waits to start none that it has noted.
NotedOnce ==
    \A z \in Zones \ raced :
        /\ zones[z].left \cap zones[z].confirmed = {}
        /\ \A c \in chains : c.zone = z => c.sensor \in zones[z].confirmed
        /\ \A c, d \in chains : c.zone = z /\ d.zone = z /\ c.sensor = d.sensor => c = d
        /\ \A i \in DOMAIN tick : tick[i].zone = z =>
             zones[z].left = {} /\ tick[i].sensor \notin zones[z].confirmed

\* The flag was set with the last reading of each chain, and has run down as the
\* task that comes next has.
FlagHolds ==
    \A c \in chains :
        c.step > 0 /\ c.sensor \notin released => flag[c.sensor] >= FlagTime - 1 + c.wait

CurveEnd == RampUp + Sustain + RampDown

CurvesComeDown ==
    \A c \in chains : ~c.joined /\ c.step >= CurveEnd => c.height <= RampUp

SpikeInv ==
    /\ SpikeTypes /\ ZonesBegin /\ NotedOnce /\ FlagHolds /\ CurvesComeDown
    /\ Spikes!EndsDown

LEMMA TickType ==
    ASSUME SpikeTypes
    PROVE  \A i \in DOMAIN tick :
             tick[i] \in Entry /\ tick[i].zone \in Zones /\ tick[i].sensor \in Sensors
<1>1. \A e \in Entry : e.zone \in Zones /\ e.sensor \in Sensors
    BY DEF Entry
<1>2. \A i \in DOMAIN tick : tick[i] \in Entry
    BY DEF SpikeTypes
<1> QED BY <1>1, <1>2

LEMMA SpikeInit == Spikes!Init => SpikeInv
<1> SUFFICES ASSUME Spikes!Init PROVE SpikeInv
    OBVIOUS
<1> USE SpikeAssumption
<1>1. SpikeTypes
    BY FS_EmptySet DEF Spikes!Init, SpikeTypes, ZoneRow
<1>2. ZonesBegin /\ NotedOnce /\ FlagHolds /\ CurvesComeDown /\ Spikes!EndsDown
    BY DEF Spikes!Init, ZonesBegin, NotedOnce, FlagHolds, CurvesComeDown, Spikes!EndsDown
<1> QED BY <1>1, <1>2 DEF SpikeInv

\* A product grows with its factors.
LEMMA Monotone ==
    ASSUME NEW i \in Nat, NEW j \in Nat, NEW k \in Nat, i <= j
    PROVE  i * k \in Nat /\ i * k <= j * k
<1>1. PICK d \in Nat : j = i + d
    BY j - i \in Nat
<1>2. j * k = i * k + d * k /\ d * k \in Nat /\ i * k \in Nat
    BY <1>1
<1> QED BY <1>2

\* A reading lies between base and spike, and the last one of a curve that ends one
\* step above the base.
LEMMA HeightInRange ==
    ASSUME NEW c \in ChainRow, ~Spikes!AtEnd(c)
    PROVE  /\ Spikes!Height(c) \in 0 .. Spikes!Full
           /\ ~c.joined /\ c.step + 1 >= CurveEnd => Spikes!Height(c) <= RampUp
<1> USE SpikeAssumption
<1> DEFINE up == RampUp
           down == RampDown
           n == c.step - RampUp - Sustain
<1>1. c.step \in Nat /\ Spikes!Full = up * down /\ up * down \in Nat
    BY DEF ChainRow, Spikes!Full
<1>2. CASE c.step < RampUp
  <2>1. Spikes!Height(c) = c.step * down
      BY <1>2 DEF Spikes!Height
  <2>2. c.step * down \in Nat /\ c.step * down <= up * down
      BY <1>1, <1>2, Monotone
  <2>3. ASSUME c.step + 1 >= CurveEnd PROVE c.step * down <= RampUp
    <3>1. down = 0 \/ (down = 1 /\ Sustain = 0 /\ c.step + 1 >= RampUp + 1)
        BY <1>1, <1>2, <2>3 DEF CurveEnd
    <3> QED BY <3>1, <1>1, <1>2
  <2> QED BY <2>1, <2>2, <2>3, <1>1
<1>3. CASE ~(c.step < RampUp) /\ (c.joined \/ c.step < RampUp + Sustain)
  <2>1. Spikes!Height(c) = Spikes!Full
      BY <1>3 DEF Spikes!Height
  <2>2. ASSUME ~c.joined, c.step + 1 >= CurveEnd PROVE Spikes!Full <= RampUp
    <3>1. down = 0
        BY <1>1, <1>3, <2>2 DEF CurveEnd
    <3> QED BY <3>1, <1>1
  <2> QED BY <2>1, <2>2, <1>1
<1>4. CASE ~(c.step < RampUp) /\ ~(c.joined \/ c.step < RampUp + Sustain)
  <2>1. Spikes!Height(c) = Spikes!Full - n * up
      BY <1>4 DEF Spikes!Height
  <2>2. n \in Nat /\ n + 1 <= down
      BY <1>1, <1>4 DEF Spikes!AtEnd
  <2> HIDE DEF n
  <2>3. n * up \in Nat /\ n * up <= down * up /\ down * up = up * down
      BY <2>2, Monotone
  <2>4. ASSUME c.step + 1 >= CurveEnd PROVE Spikes!Full - n * up <= RampUp
    <3>1. down = n + 1
        BY <2>2, <2>4, <1>1 DEF CurveEnd, n
    <3>2. down * up = n * up + up
        BY <3>1, <2>2
    <3> QED BY <3>2, <2>3, <1>1
  <2> QED BY <2>1, <2>3, <2>4, <1>1
<1> QED BY <1>2, <1>3, <1>4

LEMMA SameCount == \A S : Spikes!Cardinality(S) = Cardinality(S)
BY DEF Spikes!Cardinality, Cardinality, Spikes!IsFiniteSet, IsFiniteSet

\* A chain that starts has written nothing.
LEMMA NewChain ==
    ASSUME SpikeTypes, NEW z \in Zones, NEW s \in Sensors, NEW joined \in BOOLEAN
    PROVE  LET c == Spikes!Chain(z, s, joined) IN
           /\ c \in ChainRow /\ c.zone = z /\ c.sensor = s /\ c.joined = joined
           /\ c.step = 0 /\ c.height = 0
<1> DEFINE same == {c \in chains : c.zone = z /\ c.sensor = s}
<1>1. same \subseteq chains /\ IsFiniteSet(chains)
    BY DEF SpikeTypes
<1>2. Cardinality(same) \in Nat
    BY <1>1, FS_Subset, FS_CardinalityType
<1> HIDE DEF same
<1>3. Spikes!Cardinality(same) \in Nat
    BY <1>2, SameCount
<1>4. Spikes!Full \in Nat
    BY SpikeAssumption DEF Spikes!Full
<1> QED BY <1>3, <1>4, SpikeAssumption DEF Spikes!Chain, ChainRow, same

LEMMA RunScenarioKeeps ==
    ASSUME SpikeInv, NEW z \in Zones, Spikes!RunScenario(z)
    PROVE  SpikeInv'
<1> USE SpikeAssumption
<1>1. PICK reach \in FirstReach[z] :
        zones' = [zones EXCEPT ![z] = [state |-> "active", reach |-> reach, confirmed |-> {},
                                       left |-> Spikes!Reached(z, reach)]]
    BY DEF Spikes!RunScenario
<1> DEFINE row == [state |-> "active", reach |-> reach, confirmed |-> {},
                   left |-> Spikes!Reached(z, reach)]
<1>2. /\ row \in ZoneRow /\ row.state = "active" /\ row.confirmed = {}
      /\ zones' = [zones EXCEPT ![z] = row]
    BY <1>1 DEF ZoneRow, Spikes!Reached
<1> HIDE DEF row
<1>3. /\ zones \in [Zones -> ZoneRow]
      /\ zones[z].state = "none" /\ zones[z].confirmed = {}
      /\ UNCHANGED <<tick, chains, flag, released, raced, ended, spikeNow>>
    BY DEF Spikes!RunScenario, SpikeInv, SpikeTypes, ZonesBegin
<1>4. zones'[z] = row /\ \A y \in Zones \ {z} : zones'[y] = zones[y]
    BY <1>2, <1>3
<1>5. SpikeTypes' /\ \A i \in DOMAIN tick : tick[i] \in Entry
    BY <1>2, <1>3 DEF SpikeInv, SpikeTypes
<1>6. \A i \in DOMAIN tick : tick[i].zone # z /\ tick[i].zone \in Zones
    BY <1>3, <1>5 DEF SpikeInv, ZonesBegin, Entry
<1>7. ZonesBegin'
    BY <1>2, <1>3, <1>4, <1>6 DEF SpikeInv, ZonesBegin
<1>8. NotedOnce'
    BY <1>2, <1>3, <1>4, <1>6 DEF SpikeInv, NotedOnce
<1>9. FlagHolds' /\ CurvesComeDown' /\ Spikes!EndsDown'
    BY <1>3 DEF SpikeInv, FlagHolds, CurvesComeDown, Spikes!EndsDown
<1> QED BY <1>5, <1>7, <1>8, <1>9 DEF SpikeInv

\* A zone notes a sensor for which it had none and starts its chain.
LEMMA ChainStarts ==
    ASSUME SpikeInv, NEW z \in Zones, NEW s \in Sensors, NEW joined \in BOOLEAN,
           chains' = chains \cup {Spikes!Chain(z, s, joined)},
           zones' \in [Zones -> ZoneRow],
           zones'[z].state = zones[z].state, zones[z].state # "none",
           zones'[z].confirmed = zones[z].confirmed \cup {s},
           \A y \in Zones \ {z} : zones'[y] = zones[y],
           z \notin raced => s \notin zones[z].confirmed /\ s \notin zones'[z].left,
           zones'[z].left \subseteq zones[z].left,
           tick' \in Seq(Entry),
           \A i \in DOMAIN tick' :
               \E j \in DOMAIN tick : tick'[i] = tick[j],
           \A i, j \in DOMAIN tick' : tick'[i] = tick'[j] => i = j,
           z \notin raced => \A i \in DOMAIN tick' :
               tick'[i].zone = z => zones'[z].left = {} /\ tick'[i].sensor # s,
           UNCHANGED <<flag, released, raced, ended, spikeNow>>
    PROVE  SpikeInv'
<1> DEFINE c == Spikes!Chain(z, s, joined)
<1>1. /\ SpikeTypes
      /\ c \in ChainRow /\ c.zone = z /\ c.sensor = s /\ c.joined = joined
      /\ c.step = 0 /\ c.height = 0
      /\ chains' = chains \cup {c}
    BY NewChain DEF SpikeInv
<1> HIDE DEF c
<1>2. SpikeTypes'
  <2>0. chains \subseteq ChainRow /\ IsFiniteSet(chains)
      BY <1>1 DEF SpikeTypes
  <2>0a. IsFiniteSet(chains \cup {c})
      BY <2>0, FS_AddElement
  <2>1. chains' \subseteq ChainRow /\ IsFiniteSet(chains')
      BY <1>1, <2>0, <2>0a
  <2> QED BY <1>1, <2>1 DEF SpikeTypes
<1>3. ZonesBegin'
  <2>1. /\ \A i \in DOMAIN tick : tick[i].zone \in Zones /\ zones[tick[i].zone].state # "none"
        /\ \A y \in Zones : zones[y].state = "none" =>
              zones[y].confirmed = {} /\ zones[y].left = {}
      BY <1>1, TickType DEF SpikeInv, ZonesBegin
  <2>2. \A i \in DOMAIN tick' : zones'[tick'[i].zone].state # "none"
    <3> SUFFICES ASSUME NEW i \in DOMAIN tick' PROVE zones'[tick'[i].zone].state # "none"
        OBVIOUS
    <3>1. PICK j \in DOMAIN tick : tick'[i] = tick[j]
        OBVIOUS
    <3> QED BY <2>1, <3>1
  <2>3. \A y \in Zones : zones'[y].state = "none" =>
              zones'[y].confirmed = {} /\ zones'[y].left = {}
      BY <2>1
  <2> QED BY <2>2, <2>3 DEF ZonesBegin
<1>4. NotedOnce'
  <2> SUFFICES ASSUME NEW y \in Zones \ raced
               PROVE  /\ zones'[y].left \cap zones'[y].confirmed = {}
                      /\ \A b \in chains' : b.zone = y => b.sensor \in zones'[y].confirmed
                      /\ \A b, d \in chains' :
                            b.zone = y /\ d.zone = y /\ b.sensor = d.sensor => b = d
                      /\ \A i \in DOMAIN tick' : tick'[i].zone = y =>
                            zones'[y].left = {} /\ tick'[i].sensor \notin zones'[y].confirmed
      BY DEF NotedOnce
  <2>1. /\ zones[y].left \cap zones[y].confirmed = {}
        /\ \A b \in chains : b.zone = y => b.sensor \in zones[y].confirmed
        /\ \A b, d \in chains : b.zone = y /\ d.zone = y /\ b.sensor = d.sensor => b = d
        /\ \A i \in DOMAIN tick : tick[i].zone = y =>
              zones[y].left = {} /\ tick[i].sensor \notin zones[y].confirmed
      BY DEF SpikeInv, NotedOnce
  <2>2. CASE y = z
    <3>1. zones'[y].left \cap zones'[y].confirmed = {}
        BY <2>1, <2>2
    <3>2. \A b \in chains' : b.zone = y => b.sensor \in zones'[y].confirmed
        BY <1>1, <2>1, <2>2
    <3>3. \A b, d \in chains' : b.zone = y /\ d.zone = y /\ b.sensor = d.sensor => b = d
        BY <1>1, <2>1, <2>2
    <3>4. \A i \in DOMAIN tick' : tick'[i].zone = y =>
              zones'[y].left = {} /\ tick'[i].sensor \notin zones'[y].confirmed
        BY <2>1, <2>2
    <3> QED BY <3>1, <3>2, <3>3, <3>4
  <2>3. CASE y # z
      BY <1>1, <2>1, <2>3
  <2> QED BY <2>2, <2>3
<1>5. FlagHolds' /\ CurvesComeDown' /\ Spikes!EndsDown'
    BY <1>1, SpikeAssumption DEF SpikeInv, FlagHolds, CurvesComeDown, Spikes!EndsDown
<1> QED BY <1>2, <1>3, <1>4, <1>5 DEF SpikeInv

LEMMA StartSpikeKeeps ==
    ASSUME SpikeInv, NEW z \in Zones, NEW s \in Sensors, Spikes!StartSpike(z, s)
    PROVE  SpikeInv'
<1>1. /\ s \in zones[z].left
      /\ chains' = chains \cup {Spikes!Chain(z, s, FALSE)}
      /\ zones' = [zones EXCEPT ![z].left = @ \ {s}, ![z].confirmed = @ \cup {s}]
      /\ UNCHANGED <<tick, flag, released, raced, ended, spikeNow>>
    BY DEF Spikes!StartSpike
<1>2. zones \in [Zones -> ZoneRow] /\ zones[z] \in ZoneRow /\ tick \in Seq(Entry)
    BY DEF SpikeInv, SpikeTypes
<1> DEFINE row == [zones[z] EXCEPT !.left = @ \ {s}, !.confirmed = @ \cup {s}]
<1>3. /\ row \in ZoneRow /\ row.state = zones[z].state
      /\ row.confirmed = zones[z].confirmed \cup {s} /\ row.left = zones[z].left \ {s}
      /\ zones' = [zones EXCEPT ![z] = row]
    BY <1>1, <1>2 DEF ZoneRow
<1> HIDE DEF row
<1>4. /\ zones' \in [Zones -> ZoneRow] /\ zones'[z] = row
      /\ \A y \in Zones \ {z} : zones'[y] = zones[y]
    BY <1>2, <1>3
<1>5. zones[z].state # "none"
    BY <1>1 DEF SpikeInv, ZonesBegin
<1>6. \A i, j \in DOMAIN tick : tick[i] = tick[j] => i = j
    BY DEF SpikeInv, ZonesBegin
<1>7. z \notin raced => /\ s \notin zones[z].confirmed
                        /\ \A i \in DOMAIN tick : tick[i].zone # z
    BY <1>1 DEF SpikeInv, NotedOnce
<1>8. /\ zones'[z].state = zones[z].state
      /\ zones'[z].confirmed = zones[z].confirmed \cup {s}
      /\ zones'[z].left \subseteq zones[z].left
      /\ s \notin zones'[z].left
    BY <1>3, <1>4
<1>9. z \notin raced => s \notin zones[z].confirmed /\ s \notin zones'[z].left
    BY <1>7, <1>8
<1>10. tick' = tick
    BY <1>1
<1>11. \A i \in DOMAIN tick' : \E j \in DOMAIN tick : tick'[i] = tick[j]
    BY <1>10
<1>12. \A i, j \in DOMAIN tick' : tick'[i] = tick'[j] => i = j
    BY <1>6, <1>10
<1>13. z \notin raced => \A i \in DOMAIN tick' :
          tick'[i].zone = z => zones'[z].left = {} /\ tick'[i].sensor # s
    BY <1>7, <1>10
<1>14. tick' \in Seq(Entry)
    BY <1>2, <1>10
<1>15. chains' = chains \cup {Spikes!Chain(z, s, FALSE)} /\ FALSE \in BOOLEAN
    BY <1>1
<1>16. UNCHANGED <<flag, released, raced, ended, spikeNow>>
    BY <1>1
<1> QED BY <1>4, <1>5, <1>8, <1>9, <1>11, <1>12, <1>13, <1>14, <1>15, <1>16, ChainStarts

LEMMA JoinKeeps ==
    ASSUME SpikeInv, Spikes!Join
    PROVE  SpikeInv'
<1>0. /\ tick # <<>> /\ Head(tick) = tick[1] /\ 1 \in DOMAIN tick
      /\ Head(tick) \in Entry
    BY DEF Spikes!Join, SpikeInv, SpikeTypes
<1>0a. PICK e \in Entry : e = Head(tick)
    BY <1>0
<1>0b. PICK z \in Zones, s \in Sensors : z = e.zone /\ s = e.sensor
    BY DEF Entry
<1>1. /\ tick # <<>> /\ tick' = Tail(tick)
      /\ chains' = chains \cup {Spikes!Chain(z, s, TRUE)}
      /\ zones' = [zones EXCEPT ![z].confirmed = @ \cup {s}]
      /\ UNCHANGED <<flag, released, raced, ended, spikeNow>>
    BY <1>0a, <1>0b DEF Spikes!Join
<1>2. zones \in [Zones -> ZoneRow] /\ tick \in Seq(Entry)
    BY DEF SpikeInv, SpikeTypes
<1>3. /\ e \in Entry /\ e = tick[1] /\ 1 \in DOMAIN tick
      /\ tick' \in Seq(Entry)
      /\ \A i \in DOMAIN tick' : i + 1 \in DOMAIN tick /\ i + 1 # 1 /\ tick'[i] = tick[i + 1]
    BY <1>0, <1>0a, <1>1, <1>2
<1>3a. \A i \in DOMAIN tick' : \E j \in DOMAIN tick : tick'[i] = tick[j]
    BY <1>3
<1>4. zones[z] \in ZoneRow
    BY <1>2
<1> DEFINE row == [zones[z] EXCEPT !.confirmed = @ \cup {s}]
<1>5. /\ row \in ZoneRow /\ row.state = zones[z].state
      /\ row.confirmed = zones[z].confirmed \cup {s} /\ row.left = zones[z].left
      /\ zones' = [zones EXCEPT ![z] = row]
    BY <1>1, <1>4 DEF ZoneRow
<1> HIDE DEF row
<1>6. /\ zones' \in [Zones -> ZoneRow] /\ zones'[z] = row
      /\ \A y \in Zones \ {z} : zones'[y] = zones[y]
    BY <1>2, <1>4, <1>5
<1>7. zones[z].state # "none" /\ \A i, j \in DOMAIN tick : tick[i] = tick[j] => i = j
    BY <1>0b, <1>3 DEF SpikeInv, ZonesBegin
<1>8. z \notin raced => s \notin zones[z].confirmed /\ zones[z].left = {}
    BY <1>0b, <1>3 DEF SpikeInv, NotedOnce
<1>9. \A i \in DOMAIN tick' : tick'[i] # e
    BY <1>3, <1>7
<1>10. \A i \in DOMAIN tick' : tick'[i].zone = z => tick'[i].sensor # s
  <2> SUFFICES ASSUME NEW i \in DOMAIN tick', tick'[i].zone = z, tick'[i].sensor = s
               PROVE  FALSE
      OBVIOUS
  <2>1. tick'[i] \in Entry /\ tick'[i] # e
      BY <1>2, <1>3, <1>9
  <2> QED BY <2>1, <1>0b DEF Entry
<1>11. \A i, j \in DOMAIN tick' : tick'[i] = tick'[j] => i = j
  <2> SUFFICES ASSUME NEW i \in DOMAIN tick', NEW j \in DOMAIN tick', tick'[i] = tick'[j]
               PROVE  i = j
      OBVIOUS
  <2>1. i + 1 = j + 1
      BY <1>3, <1>7
  <2>2. i \in Int /\ j \in Int
      BY <1>3
  <2> QED BY <2>1, <2>2
<1>12. z \notin raced => s \notin zones'[z].left /\ zones'[z].left = {}
    BY <1>5, <1>6, <1>8
<1>13. /\ zones'[z].state = zones[z].state
       /\ zones'[z].confirmed = zones[z].confirmed \cup {s}
       /\ zones'[z].left \subseteq zones[z].left
    BY <1>5, <1>6
<1>14. z \notin raced => s \notin zones[z].confirmed /\ s \notin zones'[z].left
    BY <1>8, <1>12
<1>15. z \notin raced => \A i \in DOMAIN tick' :
         tick'[i].zone = z => zones'[z].left = {} /\ tick'[i].sensor # s
    BY <1>10, <1>12
<1>16. /\ chains' = chains \cup {Spikes!Chain(z, s, TRUE)}
       /\ UNCHANGED <<flag, released, raced, ended, spikeNow>>
       /\ zones' \in [Zones -> ZoneRow] /\ \A y \in Zones \ {z} : zones'[y] = zones[y]
       /\ tick' \in Seq(Entry) /\ zones[z].state # "none"
    BY <1>1, <1>3, <1>6, <1>7
<1> QED BY <1>3a, <1>11, <1>13, <1>14, <1>15, <1>16, ChainStarts

LEMMA WidenKeeps ==
    ASSUME SpikeInv, NEW z \in Zones, Spikes!Widen(z)
    PROVE  SpikeInv'
<1> USE SpikeAssumption
<1> DEFINE found == Spikes!Reached(z, LastReach[z]) \ (zones[z].confirmed \cup {Source[z]})
<1>1. /\ zones[z].state = "active"
      /\ zones' = [zones EXCEPT ![z].reach = LastReach[z]]
      /\ tick' \in [1 .. Spikes!Cardinality(found) -> [zone : {z}, sensor : found]]
      /\ \A i, j \in DOMAIN tick' : tick'[i] = tick'[j] => i = j
      /\ raced' = IF zones[z].left # {} THEN raced \cup {z} ELSE raced
      /\ UNCHANGED <<chains, flag, released, ended, spikeNow>>
    BY DEF Spikes!Widen
<1>2. found \subseteq Sensors /\ found \cap zones[z].confirmed = {}
    BY DEF Spikes!Reached
<1> HIDE DEF found
<1>3. Spikes!Cardinality(found) \in Nat
    BY <1>2, FS_Subset, FS_CardinalityType, SameCount
<1>4. /\ tick' \in Seq(Entry)
      /\ \A i \in DOMAIN tick' : tick'[i].zone = z /\ tick'[i].sensor \in found
  <2> DEFINE n == Spikes!Cardinality(found)
  <2>1. n \in Nat /\ tick' \in [1 .. n -> [zone : {z}, sensor : found]]
      BY <1>1, <1>3
  <2>2. \A e \in [zone : {z}, sensor : found] : e \in Entry /\ e.zone = z /\ e.sensor \in found
      BY <1>2 DEF Entry
  <2> HIDE DEF n
  <2>3. tick' \in [1 .. n -> Entry]
      BY <2>1, <2>2
  <2> QED BY <2>1, <2>2, <2>3
<1>5. zones \in [Zones -> ZoneRow] /\ zones[z] \in ZoneRow
    BY DEF SpikeInv, SpikeTypes
<1> DEFINE row == [zones[z] EXCEPT !.reach = LastReach[z]]
<1>6. /\ row \in ZoneRow /\ row.state = "active"
      /\ row.confirmed = zones[z].confirmed /\ row.left = zones[z].left
      /\ zones' = [zones EXCEPT ![z] = row]
    BY <1>1, <1>5 DEF ZoneRow
<1> HIDE DEF row
<1>7. /\ zones' \in [Zones -> ZoneRow] /\ zones'[z] = row
      /\ \A y \in Zones \ {z} : zones'[y] = zones[y]
    BY <1>5, <1>6
<1>8. SpikeTypes'
    BY <1>1, <1>4, <1>7 DEF SpikeInv, SpikeTypes
<1>9. ZonesBegin'
    BY <1>1, <1>4, <1>6, <1>7 DEF SpikeInv, ZonesBegin
<1>10. NotedOnce'
    BY <1>1, <1>2, <1>4, <1>6, <1>7 DEF SpikeInv, NotedOnce
<1>11. FlagHolds' /\ CurvesComeDown' /\ Spikes!EndsDown'
    BY <1>1 DEF SpikeInv, FlagHolds, CurvesComeDown, Spikes!EndsDown
<1> QED BY <1>8, <1>9, <1>10, <1>11 DEF SpikeInv

LEMMA FinishKeeps ==
    ASSUME SpikeInv, NEW z \in Zones, Spikes!Finish(z)
    PROVE  SpikeInv'
<1>1. /\ zones' = [zones EXCEPT ![z].state = "over"] /\ zones[z].state = "active"
      /\ UNCHANGED <<tick, chains, flag, released, raced, ended, spikeNow>>
    BY DEF Spikes!Finish
<1>2. zones \in [Zones -> ZoneRow] /\ zones[z] \in ZoneRow
    BY DEF SpikeInv, SpikeTypes
<1> DEFINE row == [zones[z] EXCEPT !.state = "over"]
<1>3. /\ row \in ZoneRow /\ row.state = "over"
      /\ row.confirmed = zones[z].confirmed /\ row.left = zones[z].left
      /\ zones' = [zones EXCEPT ![z] = row]
    BY <1>1, <1>2 DEF ZoneRow
<1> HIDE DEF row
<1>4. /\ zones' \in [Zones -> ZoneRow] /\ zones'[z] = row
      /\ \A y \in Zones \ {z} : zones'[y] = zones[y]
    BY <1>2, <1>3
<1>5. SpikeTypes'
    BY <1>1, <1>4 DEF SpikeInv, SpikeTypes
<1>5a. \A i \in DOMAIN tick : tick[i].zone \in Zones
    BY TickType DEF SpikeInv
<1>6. ZonesBegin'
    BY <1>1, <1>3, <1>4, <1>5a DEF SpikeInv, ZonesBegin
<1>7. NotedOnce'
    BY <1>1, <1>3, <1>4 DEF SpikeInv, NotedOnce
<1>8. FlagHolds' /\ CurvesComeDown' /\ Spikes!EndsDown'
    BY <1>1 DEF SpikeInv, FlagHolds, CurvesComeDown, Spikes!EndsDown
<1> QED BY <1>5, <1>6, <1>7, <1>8 DEF SpikeInv

LEMMA EndKeeps ==
    ASSUME SpikeInv, NEW c \in chains, Spikes!Stop(c) \/ Spikes!End(c)
    PROVE  SpikeInv'
<1> USE SpikeAssumption
<1>1. /\ chains' = chains \ {c} /\ UNCHANGED <<zones, tick, raced, spikeNow>>
    BY DEF Spikes!Stop, Spikes!End
<1>2. c \in ChainRow /\ \A d \in chains : d \in ChainRow
    BY DEF SpikeInv, SpikeTypes
<1>3. ZonesBegin' /\ NotedOnce' /\ CurvesComeDown'
    BY <1>1 DEF SpikeInv, ZonesBegin, NotedOnce, CurvesComeDown
<1>4. CASE Spikes!Stop(c)
    BY <1>1, <1>3, <1>4, FS_RemoveElement
    DEF SpikeInv, SpikeTypes, FlagHolds, Spikes!EndsDown, Spikes!Stop
<1>5. CASE Spikes!End(c)
  <2>1. SpikeTypes'
      BY <1>1, <1>2, <1>5, FS_RemoveElement DEF SpikeInv, SpikeTypes, ChainRow, Spikes!End
  <2>2. FlagHolds'
    <3> SUFFICES ASSUME NEW d \in chains', d.step > 0, d.sensor \notin released'
                 PROVE  flag'[d.sensor] >= FlagTime - 1 + d.wait
        BY DEF FlagHolds
    <3>1. d \in chains \ {c} /\ d.sensor # c.sensor /\ d.sensor \notin released
        BY <1>1, <1>5 DEF Spikes!End
    <3>2. flag'[d.sensor] = flag[d.sensor]
        BY <1>2, <1>5, <3>1 DEF Spikes!End, SpikeInv, SpikeTypes, ChainRow
    <3> QED BY <3>1, <3>2 DEF SpikeInv, FlagHolds
  <2>3. Spikes!EndsDown'
      BY <1>2, <1>5
      DEF Spikes!End, Spikes!AtEnd, Spikes!EndsDown, SpikeInv, CurvesComeDown, CurveEnd
  <2> QED BY <1>3, <2>1, <2>2, <2>3 DEF SpikeInv
<1> QED BY <1>4, <1>5

LEMMA InjectKeeps ==
    ASSUME SpikeInv, NEW c \in chains, Spikes!Inject(c)
    PROVE  SpikeInv'
<1> USE SpikeAssumption
<1> DEFINE d == [c EXCEPT !.step = @ + 1, !.wait = 1, !.height = Spikes!Height(c)]
<1>1. /\ c.step < MaxSteps /\ ~Spikes!AtEnd(c)
      /\ flag' = [flag EXCEPT ![c.sensor] = FlagTime]
      /\ chains' = (chains \ {c}) \cup {d}
      /\ UNCHANGED <<zones, tick, released, raced, ended, spikeNow>>
    BY DEF Spikes!Inject
<1>2. c \in ChainRow /\ \A b \in chains : b \in ChainRow
    BY DEF SpikeInv, SpikeTypes
<1>3. /\ Spikes!Height(c) \in 0 .. Spikes!Full
      /\ ~c.joined /\ c.step + 1 >= CurveEnd => Spikes!Height(c) <= RampUp
    BY <1>1, <1>2, HeightInRange
<1>4. /\ d \in ChainRow /\ d.zone = c.zone /\ d.sensor = c.sensor /\ d.joined = c.joined
      /\ d.step = c.step + 1 /\ d.wait = 1 /\ d.height = Spikes!Height(c)
  <2>1. /\ c.step + 1 \in 0 .. MaxSteps /\ 1 \in -MaxLate .. 1
        /\ Spikes!Height(c) \in 0 .. Spikes!Full
      BY <1>1, <1>2, <1>3 DEF ChainRow
  <2> QED BY <1>2, <2>1 DEF ChainRow
<1> HIDE DEF d
<1>5. SpikeTypes'
  <2>1. c.sensor \in Sensors /\ flag' \in [Sensors -> 0 .. FlagTime]
      BY <1>1, <1>2 DEF SpikeInv, SpikeTypes, ChainRow
  <2>2. IsFiniteSet(chains \ {c}) /\ IsFiniteSet(chains')
      BY <1>1, FS_RemoveElement, FS_AddElement DEF SpikeInv, SpikeTypes
  <2> QED BY <1>1, <1>2, <1>4, <2>1, <2>2 DEF SpikeInv, SpikeTypes
<1>6. ZonesBegin'
    BY <1>1 DEF SpikeInv, ZonesBegin
<1>7. NotedOnce'
    BY <1>1, <1>4 DEF SpikeInv, NotedOnce
<1>8. FlagHolds'
  <2> SUFFICES ASSUME NEW b \in chains', b.step > 0, b.sensor \notin released
               PROVE  flag'[b.sensor] >= FlagTime - 1 + b.wait
      BY <1>1 DEF FlagHolds
  <2>1. b \in ChainRow /\ b.wait \in -MaxLate .. 1 /\ b.sensor \in Sensors
      BY <1>1, <1>2, <1>4 DEF ChainRow
  <2>2. CASE b.sensor = c.sensor
      BY <2>1, <2>2, <1>1 DEF SpikeInv, SpikeTypes
  <2>3. CASE b.sensor # c.sensor
      BY <2>1, <2>3, <1>1, <1>4 DEF SpikeInv, SpikeTypes, FlagHolds
  <2> QED BY <2>2, <2>3
<1>9. CurvesComeDown' /\ Spikes!EndsDown'
    BY <1>1, <1>3, <1>4 DEF SpikeInv, CurvesComeDown, Spikes!EndsDown
<1> QED BY <1>5, <1>6, <1>7, <1>8, <1>9 DEF SpikeInv

LEMMA IntervalKeeps ==
    ASSUME SpikeInv, Spikes!Pass
    PROVE  SpikeInv'
<1> USE SpikeAssumption
<1> DEFINE Later(c) == [c EXCEPT !.wait = @ - 1]
           f == [c \in chains |-> Later(c)]
<1>1. /\ spikeNow < MaxIntervals /\ spikeNow' = spikeNow + 1
      /\ \A c \in chains : c.wait > -MaxLate
      /\ chains' = {Later(c) : c \in chains}
      /\ flag' = [s \in Sensors |-> IF flag[s] = 0 THEN 0 ELSE flag[s] - 1]
      /\ UNCHANGED <<zones, tick, released, raced, ended>>
    BY DEF Spikes!Pass
<1>2. \A c \in chains : c \in ChainRow
    BY DEF SpikeInv, SpikeTypes
<1>3. \A c \in chains :
        /\ Later(c) \in ChainRow /\ Later(c).zone = c.zone /\ Later(c).sensor = c.sensor
        /\ Later(c).joined = c.joined /\ Later(c).step = c.step /\ Later(c).wait = c.wait - 1
        /\ Later(c).height = c.height
    BY <1>1, <1>2 DEF ChainRow
<1>4. IsFiniteSet(chains')
  <2>1. f \in Surjection(chains, chains')
      BY <1>1 DEF Surjection
  <2> QED BY <2>1, FS_Surjection DEF SpikeInv, SpikeTypes
<1> HIDE DEF Later, f
<1>5. SpikeTypes'
    BY <1>1, <1>3, <1>4 DEF SpikeInv, SpikeTypes
<1>6. ZonesBegin'
    BY <1>1 DEF SpikeInv, ZonesBegin
<1>7. NotedOnce'
    BY <1>1, <1>3 DEF SpikeInv, NotedOnce
<1>8. FlagHolds'
  <2> SUFFICES ASSUME NEW c \in chains, c.step > 0, c.sensor \notin released
               PROVE  flag'[c.sensor] >= FlagTime - 1 + (c.wait - 1)
      BY <1>1, <1>3 DEF FlagHolds
  <2>1. /\ flag[c.sensor] >= FlagTime - 1 + c.wait /\ c.sensor \in Sensors
        /\ flag[c.sensor] \in 0 .. FlagTime /\ c.wait \in -MaxLate .. 1
      BY <1>2 DEF SpikeInv, SpikeTypes, FlagHolds, ChainRow
  <2>2. flag'[c.sensor] = IF flag[c.sensor] = 0 THEN 0 ELSE flag[c.sensor] - 1
      BY <1>1, <2>1
  <2> QED BY <2>1, <2>2
<1>9. CurvesComeDown' /\ Spikes!EndsDown'
    BY <1>1, <1>3 DEF SpikeInv, CurvesComeDown, Spikes!EndsDown
<1> QED BY <1>5, <1>6, <1>7, <1>8, <1>9 DEF SpikeInv

LEMMA SpikeStep == SpikeInv /\ [Next]_platformVars => SpikeInv'
<1> SUFFICES ASSUME SpikeInv, [Next]_platformVars PROVE SpikeInv'
    OBVIOUS
<1>1. CASE UNCHANGED <<zones, tick, chains, flag, released, raced, ended, spikeNow>>
    BY <1>1 DEF SpikeInv, SpikeTypes, ZonesBegin, NotedOnce, FlagHolds, CurvesComeDown,
                Spikes!EndsDown
<1>2. ASSUME NEW s \in Sensors, Spikes!Generate(s) PROVE SpikeInv'
    BY <1>1, <1>2 DEF Spikes!Generate
<1>3. CASE Spikes!Next
    BY <1>2, <1>3, RunScenarioKeeps, WidenKeeps, FinishKeeps, StartSpikeKeeps, JoinKeeps, EndKeeps,
       InjectKeeps, IntervalKeeps DEF Spikes!Next
<1> QED BY <1>1, <1>3 DEF Next, platformVars, spikeVars,
                          PlayScenario, GenerateReadings, MeasurePower,
                          Learn, InjectSpikes, PushToDashboards, ShapeZone

\* While a chain's next task is on time its flag holds, so that the generator's
\* readings are dropped.
LEMMA NoMixingStep ==
    ASSUME MaxLate + 1 < FlagTime
    PROVE  SpikeInv /\ Spikes!NoMixing /\ [Next]_platformVars => Spikes!NoMixing'
<1> SUFFICES ASSUME SpikeInv, Spikes!NoMixing, [Next]_platformVars PROVE Spikes!NoMixing'
    OBVIOUS
<1>1. CASE mixed' = mixed /\ released \subseteq released'
    BY <1>1 DEF Spikes!NoMixing
<1>2. ASSUME NEW s \in Sensors, Spikes!Generate(s) PROVE Spikes!NoMixing'
  <2>1. PICK c \in chains : c.sensor = s /\ c.step > 0
      BY <1>2 DEF Spikes!Generate
  <2>2. c.wait \in -MaxLate .. 1 /\ flag[s] = 0
      BY <1>2 DEF SpikeInv, SpikeTypes, ChainRow, Spikes!Generate
  <2>3. s \in released
      BY <2>1, <2>2, SpikeAssumption DEF SpikeInv, FlagHolds
  <2> QED BY <1>2, <2>3 DEF Spikes!NoMixing, Spikes!Generate
<1>3. CASE Spikes!Next /\ ~(\E s \in Sensors : Spikes!Generate(s))
    BY <1>1, <1>3 DEF Spikes!Next, Spikes!RunScenario, Spikes!Widen, Spikes!Finish,
                      Spikes!StartSpike, Spikes!Join, Spikes!Stop, Spikes!End, Spikes!Inject,
                      Spikes!Pass
<1> QED BY <1>1, <1>2, <1>3 DEF Next, platformVars, spikeVars,
                                PlayScenario, GenerateReadings, MeasurePower,
                                Learn, InjectSpikes, PushToDashboards, ShapeZone

LEMMA SpikeInvImplies == SpikeInv /\ Spikes!NoMixing => SpikesAreApart
<1> SUFFICES ASSUME SpikeInv, Spikes!NoMixing PROVE SpikesAreApart
    OBVIOUS
<1>1. Spikes!TypeOK
    BY DEF SpikeInv, SpikeTypes, ZoneRow, ChainRow, Spikes!TypeOK
<1>2. Spikes!OneChainEach
    BY DEF SpikeInv, SpikeTypes, ChainRow, NotedOnce, Spikes!OneChainEach
<1>3. Spikes!EndsDown
    BY DEF SpikeInv
<1> QED BY <1>1, <1>2, <1>3 DEF SpikesAreApart

\* A sensor of a zone has one chain, no reading of the generator lies between those of
\* a chain, and a curve that ends has come down, for any zones, sensors, distances and
\* curves, if the queue is never so late that the flag of the last step has run out
\* (zone_lifecycle.py:213-228, devices/views.py:127-134, tasks_scenario.py:96-124).
THEOREM SpikesStayApart ==
    ASSUME MaxLate + 1 < FlagTime
    PROVE  Spec => []SpikesAreApart
<1>1. Init => SpikeInv /\ Spikes!NoMixing
    BY SpikeInit DEF Init, Spikes!Init, Spikes!NoMixing
<1>2. SpikeInv /\ [Next]_platformVars => SpikeInv'
    BY SpikeStep
<1>3. SpikeInv /\ Spikes!NoMixing /\ [Next]_platformVars => Spikes!NoMixing'
    BY NoMixingStep
<1>4. SpikeInv /\ Spikes!NoMixing => SpikesAreApart
    BY SpikeInvImplies
<1> QED BY <1>1, <1>2, <1>3, <1>4, PTL DEF Spec

-----------------------------------------------------------------------------
(* ScenarioSwitch: the clock of a phase never runs ahead of the time since   *)
(* the phase began.                                                          *)

\* A switch that is off is at rest or on its return.
PhaseFits(s) == s.phase \in IF s.on THEN 1 .. 4 ELSE {0, 5}

SwitchInv ==
    /\ toggles \in [Switches!Driven -> {NoRow} \cup SwitchRow]
    /\ stay \in [Switches!Driven -> Nat]
    /\ label \in [Switches!Driven -> {NoRow, "normal", "caution", "danger"}]
    /\ \A d \in Switches!Driven : toggles[d] # NoRow =>
         /\ PhaseFits(toggles[d])
         /\ toggles[d].age <= Switches!Duration(d)
         /\ toggles[d].age <= stay[d]

LEMMA DurationType == \A d \in Switches!Driven : Switches!Duration(d) \in Nat
BY SwitchAssumption DEF Switches!Driven, Switches!Duration

LEMMA SwitchInit == Switches!Init => SwitchInv
<1> SUFFICES ASSUME Switches!Init PROVE SwitchInv
    OBVIOUS
<1>1. /\ toggles = [d \in Switches!Driven |-> NoRow]
      /\ stay = [d \in Switches!Driven |-> 0]
      /\ label = [d \in Switches!Driven |-> NoRow]
    BY DEF Switches!Init
<1> QED BY <1>1 DEF SwitchInv

\* A clock goes on with its phase or starts with a new one.
ClockFollows(d, s) ==
    s # NoRow =>
        /\ s \in SwitchRow /\ PhaseFits(s) /\ s.age <= Switches!Duration(d)
        /\ \/ s.age = 0
           \/ toggles[d] # NoRow /\ s.phase = toggles[d].phase /\ s.age = toggles[d].age

LEMMA WatchKeeps ==
    ASSUME SwitchInv, DOMAIN toggles' = Switches!Driven,
           toggles' = [d \in Switches!Driven |-> toggles'[d]],
           \A d \in Switches!Driven : ClockFollows(d, toggles'[d]),
           Switches!Watch(toggles'),
           label' \in [Switches!Driven -> {NoRow, "normal", "caution", "danger"}]
    PROVE  SwitchInv'
<1>1. \A d \in Switches!Driven : toggles'[d] \in {NoRow} \cup SwitchRow
    BY DEF ClockFollows
<1>2. toggles' \in [Switches!Driven -> {NoRow} \cup SwitchRow]
    BY <1>1
<1>3. /\ stay' \in [Switches!Driven -> Nat]
      /\ \A d \in Switches!Driven :
            stay'[d] = IF toggles'[d] # NoRow /\ toggles'[d].phase # Switches!Toggled(d).phase
                       THEN 0 ELSE stay[d]
    BY DEF Switches!Watch, SwitchInv
<1>4. ASSUME NEW d \in Switches!Driven, toggles'[d] # NoRow
      PROVE  /\ PhaseFits(toggles'[d])
             /\ toggles'[d].age <= Switches!Duration(d)
             /\ toggles'[d].age <= stay'[d]
  <2>1. CASE toggles'[d].age = 0
      BY <1>3, <1>4, <2>1 DEF ClockFollows
  <2>2. CASE toggles[d] # NoRow /\ toggles'[d].phase = toggles[d].phase
             /\ toggles'[d].age = toggles[d].age
    <3>1. stay'[d] = stay[d]
        BY <1>3, <2>2 DEF Switches!Toggled
    <3> QED BY <3>1, <1>4, <2>2 DEF ClockFollows, SwitchInv
  <2> QED BY <2>1, <2>2, <1>4 DEF ClockFollows
<1> QED BY <1>2, <1>3, <1>4 DEF SwitchInv, Switches!Duration, PhaseFits

LEMMA SwitchedResult ==
    ASSUME NEW s \in SwitchRow, PhaseFits(s), NEW state \in BOOLEAN
    PROVE  LET t == Switches!Switched(s, state) IN
           /\ t \in SwitchRow /\ PhaseFits(t) /\ t.on = state
           /\ t.age = 0 \/ (t.phase = s.phase /\ t.age = s.age)
           /\ state /\ s.phase \in 1 .. 3 => t.phase = s.phase
<1> DEFINE t == Switches!Switched(s, state)
<1>1. s.on \in BOOLEAN /\ s.phase \in 0 .. 5 /\ s.age \in Nat
      /\ s = [on |-> s.on, phase |-> s.phase, age |-> s.age]
    BY DEF SwitchRow
<1>2. CASE state /\ s.phase \in {0, 5}
  <2>1. t = [on |-> TRUE, phase |-> 1, age |-> 0]
      BY <1>2 DEF Switches!Switched
  <2> QED BY <2>1, <1>2 DEF SwitchRow, PhaseFits
<1>3. CASE state /\ s.phase \notin {0, 5}
  <2>1. t = [on |-> TRUE, phase |-> s.phase, age |-> s.age]
      BY <1>1, <1>3 DEF Switches!Switched
  <2> QED BY <2>1, <1>1, <1>3 DEF SwitchRow, PhaseFits
<1>4. CASE ~state
  <2>1. PICK phase \in {0, 5} : t = [on |-> FALSE, phase |-> phase, age |-> 0]
      BY <1>4 DEF Switches!Switched
  <2> HIDE DEF t
  <2>2. t \in SwitchRow /\ PhaseFits(t)
      BY <2>1 DEF SwitchRow, PhaseFits
  <2>3. t.on = state /\ t.age = 0
      BY <2>1, <1>4
  <2> QED BY <2>2, <2>3, <1>4 DEF t
<1> QED BY <1>2, <1>3, <1>4

\* The three outcomes of a question for the phase.
LEMMA RampResult ==
    ASSUME SwitchInv, NEW d \in Switches!Driven, toggles[d] # NoRow
    PROVE  LET s == toggles[d]
               t == Switches!Ramp(d) IN
           /\ t \in SwitchRow /\ PhaseFits(t) /\ t.on = s.on
           /\ \/ t = s
              \/ t.age = 0 /\ s.age >= Switches!Duration(d)
<1> DEFINE s == toggles[d]
           due == s.age >= Switches!Duration(d)
<1>1. s \in SwitchRow /\ PhaseFits(s)
    BY DEF SwitchInv
<1>2. CASE due /\ s.on /\ s.phase < 4
  <2>1. Switches!Ramp(d) = [on |-> s.on, phase |-> s.phase + 1, age |-> 0]
      BY <1>1, <1>2 DEF Switches!Ramp, SwitchRow
  <2> QED BY <1>1, <1>2, <2>1 DEF SwitchRow, PhaseFits
<1>3. CASE due /\ ~s.on /\ s.phase = 5
  <2>1. Switches!Ramp(d) = [on |-> s.on, phase |-> 0, age |-> 0]
      BY <1>1, <1>3 DEF Switches!Ramp, SwitchRow
  <2> QED BY <1>1, <1>3, <2>1 DEF SwitchRow, PhaseFits
<1>4. CASE ~(due /\ s.on /\ s.phase < 4) /\ ~(due /\ ~s.on /\ s.phase = 5)
  <2>1. Switches!Ramp(d) = s
      BY <1>4 DEF Switches!Ramp
  <2> QED BY <1>1, <2>1
<1> QED BY <1>2, <1>3, <1>4

LEMMA RampFollows ==
    ASSUME SwitchInv, NEW d \in Switches!Driven
    PROVE  ClockFollows(d, Switches!Ramp(d)) /\ ClockFollows(d, toggles[d])
<1>1. ClockFollows(d, toggles[d])
    BY DEF ClockFollows, SwitchInv
<1>2. CASE toggles[d] = NoRow
  <2>1. Switches!Ramp(d) = NoRow
      BY <1>2 DEF Switches!Ramp
  <2> QED BY <1>1, <2>1 DEF ClockFollows
<1>3. CASE toggles[d] # NoRow
    BY <1>1, <1>3, RampResult, DurationType DEF ClockFollows
<1> QED BY <1>1, <1>2, <1>3

LEMMA StatusType ==
    \A phase \in 0 .. 5 : Switches!Status(phase) \in {"normal", "caution", "danger"}
<1> SUFFICES ASSUME NEW phase \in 0 .. 5
             PROVE  Switches!Status(phase) \in {"normal", "caution", "danger"}
    OBVIOUS
<1>1. CASE phase \in {0, 1, 5}
    BY <1>1 DEF Switches!Status
<1>2. CASE phase = 2
    BY <1>2 DEF Switches!Status
<1>3. CASE phase \in {3, 4}
    BY <1>3 DEF Switches!Status
<1> QED BY <1>1, <1>2, <1>3

LEMMA SwitchStep == SwitchInv /\ [Next]_platformVars => SwitchInv'
<1> SUFFICES ASSUME SwitchInv, [Next]_platformVars PROVE SwitchInv'
    OBVIOUS
<1> DEFINE Rows == [Switches!Driven -> {NoRow} \cup SwitchRow]
           Off == Switches!Off
<1>0. /\ toggles \in Rows /\ stay \in [Switches!Driven -> Nat]
      /\ label \in [Switches!Driven -> {NoRow, "normal", "caution", "danger"}]
    BY DEF SwitchInv
<1>a. Off \in SwitchRow /\ PhaseFits(Off) /\ Off.age = 0
    BY DEF Switches!Off, SwitchRow, PhaseFits
<1>b. \A d \in Switches!Driven : ClockFollows(d, Off)
    BY <1>a, DurationType DEF ClockFollows
<1> HIDE DEF Off
<1>1. CASE UNCHANGED switchVars
    BY <1>1 DEF SwitchInv, switchVars, PhaseFits, Switches!Duration
<1>2. ASSUME NEW d \in Switches!Driven, NEW state \in BOOLEAN, Switches!Toggle(d, state)
      PROVE  SwitchInv'
  <2> DEFINE s == Switches!Toggled(d)
             t == Switches!Switched(s, state)
  <2>1. /\ s \in SwitchRow /\ PhaseFits(s) /\ s.age <= Switches!Duration(d)
        /\ (s = toggles[d] /\ toggles[d] # NoRow) \/ s.age = 0
      BY <1>a, DurationType DEF Switches!Toggled, SwitchInv, Off
  <2>2. /\ t \in SwitchRow /\ PhaseFits(t)
        /\ t.age = 0 \/ (t.phase = s.phase /\ t.age = s.age)
      BY <2>1, SwitchedResult
  <2>3. toggles' = [toggles EXCEPT ![d] = t] /\ Switches!Watch(toggles') /\ label' = label
      BY <1>2 DEF Switches!Toggle
  <2> HIDE DEF s, t
  <2>4. t.age <= Switches!Duration(d)
      BY <2>1, <2>2, DurationType
  <2>5. ClockFollows(d, t)
      BY <2>1, <2>2, <2>4 DEF ClockFollows
  <2>6. \A x \in Switches!Driven : ClockFollows(x, toggles'[x])
      BY <1>0, <2>3, <2>5, RampFollows
  <2> QED BY <1>0, <2>3, <2>6, WatchKeeps
<1>3. ASSUME NEW d \in Switches!Driven, Switches!Tick(d) PROVE SwitchInv'
  <2> DEFINE t == Switches!Ramp(d)
             phase == IF t = NoRow THEN 0 ELSE t.phase
  <2>1. /\ toggles' = [toggles EXCEPT ![d] = t] /\ Switches!Watch(toggles')
        /\ label' = [label EXCEPT ![d] = Switches!Status(phase)]
      BY <1>3 DEF Switches!Tick
  <2>2. ClockFollows(d, t)
      BY RampFollows
  <2>3. phase \in 0 .. 5
      BY <2>2 DEF ClockFollows, SwitchRow
  <2> HIDE DEF t, phase
  <2>4. label' \in [Switches!Driven -> {NoRow, "normal", "caution", "danger"}]
      BY <1>0, <2>1, <2>3, StatusType
  <2>5. \A x \in Switches!Driven : ClockFollows(x, toggles'[x])
      BY <1>0, <2>1, <2>2, RampFollows
  <2> QED BY <1>0, <2>1, <2>4, <2>5, WatchKeeps
<1>4. CASE Switches!ReadState
  <2>1. toggles' = [d \in Switches!Driven |-> Switches!Ramp(d)]
        /\ Switches!Watch(toggles') /\ label' = label
      BY <1>4 DEF Switches!ReadState
  <2>2. \A x \in Switches!Driven : ClockFollows(x, toggles'[x])
      BY <2>1, RampFollows
  <2> QED BY <1>0, <2>1, <2>2, WatchKeeps
<1>5. CASE Switches!ClearAll
  <2>1. toggles' = [d \in Switches!Driven |-> Off]
        /\ Switches!Watch(toggles') /\ label' = label
      BY <1>5 DEF Switches!ClearAll, Off
  <2>2. \A x \in Switches!Driven : ClockFollows(x, toggles'[x])
      BY <1>b, <2>1
  <2> QED BY <1>0, <2>1, <2>2, WatchKeeps
<1>6. CASE Switches!Pass
  <2>1. /\ toggles' = [d \in Switches!Driven |->
                         IF toggles[d] = NoRow THEN NoRow
                         ELSE [toggles[d] EXCEPT !.age = Switches!Older(@, d)]]
        /\ stay' = [d \in Switches!Driven |-> Switches!Older(stay[d], d)]
        /\ label' = label
      BY <1>6 DEF Switches!Pass
  <2>2. stay' \in [Switches!Driven -> Nat]
      BY <1>0, <2>1, DurationType DEF Switches!Older
  <2>3. ASSUME NEW d \in Switches!Driven, toggles[d] # NoRow
        PROVE  /\ toggles'[d] \in SwitchRow /\ PhaseFits(toggles'[d])
               /\ toggles'[d].age <= Switches!Duration(d) /\ toggles'[d].age <= stay'[d]
    <3>1. /\ toggles[d] \in SwitchRow /\ PhaseFits(toggles[d])
          /\ toggles[d].age <= Switches!Duration(d) /\ toggles[d].age <= stay[d]
          /\ Switches!Duration(d) \in Nat /\ stay[d] \in Nat
        BY <2>3, DurationType DEF SwitchInv
    <3>2. /\ toggles'[d] = [toggles[d] EXCEPT !.age = Switches!Older(@, d)]
          /\ stay'[d] = Switches!Older(stay[d], d)
        BY <2>1, <2>3
    <3> QED BY <3>1, <3>2 DEF SwitchRow, PhaseFits, Switches!Older
  <2>4. \A d \in Switches!Driven : toggles[d] = NoRow => toggles'[d] = NoRow
      BY <2>1
  <2>5. toggles' \in Rows
      BY <2>1, <2>3
  <2> QED BY <1>0, <2>1, <2>2, <2>3, <2>4, <2>5 DEF SwitchInv, Switches!Duration, PhaseFits
<1>7. CASE Switches!Restart
    BY <1>0, <1>7 DEF Switches!Restart, SwitchInv
<1> QED BY <1>1, <1>2, <1>3, <1>4, <1>5, <1>6, <1>7
        DEF Switches!Next, Next, platformVars, PlayScenario, GenerateReadings, MeasurePower,
            Learn, InjectSpikes, PushToDashboards, ShapeZone

\* A phase that ends has lasted its time.
LEMMA PhaseLasts ==
    ASSUME SwitchInv, [Next]_platformVars,
           NEW d \in Switches!Driven,
           toggles[d] # NoRow, toggles'[d] # NoRow, toggles'[d].on,
           toggles[d].phase \in 1 .. 3, toggles'[d].phase = toggles[d].phase + 1
    PROVE  stay[d] >= Switches!Duration(d)
<1>0. /\ toggles[d] \in SwitchRow /\ PhaseFits(toggles[d]) /\ toggles[d].age <= stay[d]
      /\ stay[d] \in Nat /\ Switches!Duration(d) \in Nat /\ toggles[d].age \in Nat
      /\ toggles \in [Switches!Driven -> {NoRow} \cup SwitchRow]
    BY DurationType DEF SwitchInv, SwitchRow
<1>1. CASE toggles'[d] = toggles[d]
    BY <1>0, <1>1
<1>2. CASE toggles'[d] = Switches!Ramp(d)
    BY <1>0, <1>1, <1>2, RampResult
<1>3. ASSUME NEW e \in Switches!Driven, NEW state \in BOOLEAN, Switches!Toggle(e, state)
      PROVE  stay[d] >= Switches!Duration(d)
  <2>1. CASE e # d
      BY <1>0, <1>1, <1>3, <2>1 DEF Switches!Toggle
  <2>2. CASE e = d
    <3>1. toggles'[d] = Switches!Switched(toggles[d], state)
        BY <1>0, <1>3, <2>2 DEF Switches!Toggle, Switches!Toggled
    <3> QED BY <1>0, <3>1, SwitchedResult
  <2> QED BY <2>1, <2>2
<1>4. ASSUME NEW e \in Switches!Driven, Switches!Tick(e)
      PROVE  stay[d] >= Switches!Duration(d)
    BY <1>0, <1>1, <1>2, <1>4 DEF Switches!Tick
<1>5. CASE Switches!ReadState
    BY <1>2, <1>5 DEF Switches!ReadState
<1>6. CASE Switches!ClearAll
    BY <1>6 DEF Switches!ClearAll, Switches!Off
<1>7. CASE Switches!Pass
    BY <1>0, <1>7 DEF Switches!Pass, SwitchRow
<1>8. CASE Switches!Restart
    BY <1>8 DEF Switches!Restart
<1> QED BY <1>1, <1>3, <1>4, <1>5, <1>6, <1>7, <1>8
        DEF Switches!Next, Next, platformVars, switchVars,
            PlayScenario, GenerateReadings, MeasurePower,
            Learn, InjectSpikes, PushToDashboards, ShapeZone

LEMMA SwitchInvImplies == SwitchInv => Switches!TypeOK
<1> SUFFICES ASSUME SwitchInv, NEW d \in Switches!Driven
             PROVE  /\ toggles[d] # NoRow =>
                         /\ toggles[d].on \in BOOLEAN
                         /\ toggles[d].phase \in IF toggles[d].on THEN 1 .. 4 ELSE {0, 5}
                         /\ toggles[d].age \in 0 .. Switches!Duration(d)
                    /\ label[d] \in {NoRow, "normal", "caution", "danger"}
    BY DEF Switches!TypeOK
<1>1. toggles[d] # NoRow => toggles[d] \in SwitchRow
    BY DEF SwitchInv
<1> QED BY <1>1, DurationType DEF SwitchInv, SwitchRow, PhaseFits

-----------------------------------------------------------------------------
(* GeneratorLoop: no device is listed twice, and what a device or a worker   *)
(* is simulated to do stays within its range.                               *)

TableRow == [id : Devices, type : Generator!Types]

KnownRow == [id : Devices, type : Generator!Types, events : 0 .. EventTicks]

Listed(s) == \A i, j \in DOMAIN s : s[i].id = s[j].id => i = j

LoopInv ==
    /\ rows \in Seq(TableRow) /\ Listed(rows)
    /\ known \in Seq(KnownRow) /\ Listed(known)
    /\ loop \in {"loading", "running", "ended"}
    /\ mode \in {"normal", "mixed", "danger"}
    /\ worker # NoRow => worker \in WorkerRow /\ worker.dx \in -MaxSpeed .. MaxSpeed
    /\ changes \in 0 .. MaxChanges
    /\ Generator!OwnStatus
    /\ Generator!OnTheMap

LEMMA LoopInit == Generator!Init => LoopInv
<1> SUFFICES ASSUME Generator!Init PROVE LoopInv
    OBVIOUS
<1>1. rows \in UNION {[1 .. n -> TableRow] : n \in 0 .. 2} /\ Listed(rows)
    BY DEF Generator!Init, TableRow, Listed
<1>2. PICK n \in 0 .. 2 : rows \in [1 .. n -> TableRow]
    BY <1>1
<1>3. rows \in Seq(TableRow)
    BY <1>2
<1>4. known = <<>> /\ worker = NoRow /\ summary = {}
    BY DEF Generator!Init
<1>5. known \in Seq(KnownRow) /\ Listed(known)
    BY <1>4 DEF Listed
<1> QED BY <1>1, <1>3, <1>4, <1>5, GeneratorAssumption
        DEF LoopInv, Generator!Init, Generator!OwnStatus, Generator!OnTheMap

\* A worker that was not moved yet, or none.
LEMMA FreshWorkerType ==
    ASSUME NEW w \in Generator!FreshWorkers, w # NoRow
    PROVE  w \in WorkerRow /\ w.dx \in -MaxSpeed .. MaxSpeed /\ ~w.moved
<1>1. PICK x \in 0 .. Width : w = [x |-> x, dx |-> 0, moved |-> FALSE]
    BY DEF Generator!FreshWorkers
<1> QED BY <1>1, GeneratorAssumption DEF WorkerRow

\* A move ends on the map.
LEMMA MoveStaysOnMap ==
    ASSUME NEW v \in WorkerRow, NEW w \in Generator!MoveWorker(v)
    PROVE  /\ w \in WorkerRow /\ w.dx \in -MaxSpeed .. MaxSpeed
           /\ w.x \in Margin .. Width - Margin
<1> USE GeneratorAssumption
<1> DEFINE dxs == {Generator!Clamp(v.dx + push, -MaxSpeed, MaxSpeed) : push \in {-1, 0, 1}}
<1>1. v.x \in Int /\ v.dx \in Int
    BY DEF WorkerRow
<1>2. PICK dx \in dxs :
        w = [x |-> Generator!Clamp(v.x + dx, Margin, Width - Margin),
             dx |-> IF v.x + dx \in Margin .. Width - Margin THEN dx ELSE -dx,
             moved |-> TRUE]
    BY DEF Generator!MoveWorker
<1>3. dx \in -MaxSpeed .. MaxSpeed
    BY <1>1 DEF Generator!Clamp
<1> HIDE DEF dxs
<1>4. Generator!Clamp(v.x + dx, Margin, Width - Margin) \in Margin .. Width - Margin
    BY <1>1, <1>3 DEF Generator!Clamp
<1>5. (IF v.x + dx \in Margin .. Width - Margin THEN dx ELSE -dx) \in -MaxSpeed .. MaxSpeed
    BY <1>3
<1> QED BY <1>2, <1>4, <1>5 DEF WorkerRow

\* What is generated for a device leaves it the device that it is.
LEMMA GeneratedType ==
    ASSUME LoopInv, NEW k \in KnownRow, NEW m \in Generator!Generated(k)
    PROVE  m \in KnownRow /\ m.id = k.id
<1> USE GeneratorAssumption
<1>0. /\ k.events \in 0 .. EventTicks /\ k.id \in Devices /\ k.type \in Generator!Types
      /\ 0 \in 0 .. EventTicks
    BY DEF KnownRow
<1>a. ASSUME NEW n \in 0 .. EventTicks, m = [k EXCEPT !.events = n]
      PROVE  m \in KnownRow /\ m.id = k.id
    BY <1>a DEF KnownRow
<1>1. CASE k.id \in DOMAIN Mapped \/ ~Generator!IsSensor(k)
    BY <1>1 DEF Generator!Generated
<1>2. CASE ~(k.id \in DOMAIN Mapped \/ ~Generator!IsSensor(k))
  <2>1. CASE mode = "danger"
      BY <1>0, <1>a, <1>2, <2>1 DEF Generator!Generated
  <2>2. CASE mode = "normal"
      BY <1>0, <1>2, <2>2 DEF Generator!Generated
  <2>3. CASE mode = "mixed"
    <3> DEFINE left == IF k.events > 0 THEN k.events - 1 ELSE 0
               next == IF left > 0 THEN {left} ELSE {0, EventTicks}
    <3>1. next \subseteq 0 .. EventTicks
        BY <1>0
    <3>2. Generator!Generated(k) = {[k EXCEPT !.events = n] : n \in next}
        BY <1>2, <2>3 DEF Generator!Generated
    <3> HIDE DEF next
    <3> QED BY <1>a, <3>1, <3>2
  <2> QED BY <2>1, <2>2, <2>3 DEF LoopInv
<1> QED BY <1>1, <1>2

LEMMA AdvancedType ==
    ASSUME LoopInv, NEW n \in Int, NEW s \in Generator!Advanced(n)
    PROVE  s \in Seq(KnownRow) /\ Listed(s)
<1>1. /\ DOMAIN s = DOMAIN known /\ DOMAIN known = 1 .. Len(known) /\ Len(known) \in Nat
      /\ \A i \in DOMAIN known : known[i] \in KnownRow
      /\ \A i \in DOMAIN known : s[i] \in Generator!Generated(known[i]) \/ s[i] = known[i]
      /\ s = [i \in DOMAIN known |-> s[i]]
    BY DEF Generator!Advanced, LoopInv
<1>2. \A i \in DOMAIN known : s[i] \in KnownRow /\ s[i].id = known[i].id
    BY <1>1, GeneratedType
<1>3. s \in [1 .. Len(known) -> KnownRow]
    BY <1>1, <1>2
<1>4. s \in Seq(KnownRow)
    BY <1>1, <1>3
<1>5. Listed(s)
    BY <1>1, <1>2 DEF LoopInv, Listed
<1> QED BY <1>4, <1>5

\* A table that is loaded, whatever was known before.
LEMMA LoadedType ==
    ASSUME LoopInv, NEW s, DOMAIN s = DOMAIN rows, s = [i \in DOMAIN rows |-> s[i]],
           \A i \in DOMAIN rows : s[i] \in KnownRow /\ s[i].id = rows[i].id
    PROVE  s \in Seq(KnownRow) /\ Listed(s)
<1>1. DOMAIN rows = 1 .. Len(rows) /\ Len(rows) \in Nat
    BY DEF LoopInv
<1>2. s \in [1 .. Len(rows) -> KnownRow]
    BY <1>1
<1> QED BY <1>1, <1>2 DEF LoopInv, Listed

LEMMA LoadKeeps ==
    ASSUME LoopInv, Generator!Load
    PROVE  LoopInv'
<1>1. /\ UNCHANGED <<rows, employed, mode, answers, summary, changes>>
      /\ loop' \in {"running", "ended"}
    BY DEF Generator!Load
<1>2. CASE known' = [i \in DOMAIN rows |-> Generator!Fresh(rows[i])]
           /\ worker' \in Generator!FreshWorkers
  <2>1. \A i \in DOMAIN rows : rows[i] \in TableRow
      BY DEF LoopInv
  <2>2. \A r \in TableRow : Generator!Fresh(r) \in KnownRow /\ Generator!Fresh(r).id = r.id
      BY GeneratorAssumption DEF Generator!Fresh, TableRow, KnownRow
  <2>3. known' \in Seq(KnownRow) /\ Listed(known')
      BY <1>2, <2>1, <2>2, LoadedType
  <2>4. worker' # NoRow =>
          /\ worker' \in WorkerRow /\ worker'.dx \in -MaxSpeed .. MaxSpeed /\ ~worker'.moved
      BY <1>2, FreshWorkerType
  <2> QED BY <1>1, <2>3, <2>4 DEF LoopInv, Listed, Generator!OwnStatus, Generator!OnTheMap
<1>3. CASE UNCHANGED <<known, worker>>
    BY <1>1, <1>3 DEF LoopInv, Listed, Generator!OwnStatus, Generator!OnTheMap
<1> QED BY <1>2, <1>3 DEF Generator!Load

LEMMA ReloadKeeps ==
    ASSUME LoopInv, Generator!Reload
    PROVE  LoopInv'
<1> DEFINE Old(r) == CHOOSE k \in {known[j] : j \in DOMAIN known} : k.id = r.id
           Kept(r) == IF \E j \in DOMAIN known : known[j].id = r.id
                      THEN [Old(r) EXCEPT !.type = r.type]
                      ELSE Generator!Fresh(r)
<1>1. /\ UNCHANGED <<rows, employed, loop, mode, answers, summary, changes>>
      /\ known' = [i \in DOMAIN rows |-> Kept(rows[i])]
      /\ worker' = worker \/ worker' \in Generator!FreshWorkers
    BY DEF Generator!Reload
<1>2. ASSUME NEW r \in TableRow PROVE Kept(r) \in KnownRow /\ Kept(r).id = r.id
  <2>1. CASE \E j \in DOMAIN known : known[j].id = r.id
    <3>1. Old(r) \in {known[j] : j \in DOMAIN known} /\ Old(r).id = r.id
        BY <2>1
    <3> HIDE DEF Old
    <3>1a. PICK j \in DOMAIN known : Old(r) = known[j]
        BY <3>1
    <3>1b. known[j] \in KnownRow
        BY DEF LoopInv
    <3>2. Old(r) \in KnownRow /\ Old(r).id = r.id
        BY <3>1, <3>1a, <3>1b
    <3>3. Kept(r) = [Old(r) EXCEPT !.type = r.type]
        BY <2>1
    <3> QED BY <3>2, <3>3 DEF KnownRow, TableRow
  <2>2. CASE ~(\E j \in DOMAIN known : known[j].id = r.id)
    <3>1. Kept(r) = [id |-> r.id, type |-> r.type, events |-> 0]
        BY <2>2 DEF Generator!Fresh
    <3>2. 0 \in 0 .. EventTicks
        BY GeneratorAssumption
    <3> HIDE DEF Kept
    <3> QED BY <3>1, <3>2 DEF TableRow, KnownRow
  <2> QED BY <2>1, <2>2
<1> HIDE DEF Kept
<1>3. \A i \in DOMAIN rows : rows[i] \in TableRow
    BY DEF LoopInv
<1>4. known' \in Seq(KnownRow) /\ Listed(known')
    BY <1>1, <1>2, <1>3, LoadedType
<1>5. worker' # NoRow =>
        /\ worker' \in WorkerRow /\ worker'.dx \in -MaxSpeed .. MaxSpeed
        /\ worker' = worker \/ ~worker'.moved
    BY <1>1, FreshWorkerType DEF LoopInv
<1> QED BY <1>1, <1>4, <1>5 DEF LoopInv, Listed, Generator!OwnStatus, Generator!OnTheMap

LEMMA LoopTickKeeps ==
    ASSUME LoopInv, Generator!Tick
    PROVE  LoopInv'
<1>1. PICK result \in Generator!Results :
        answers' = result /\ summary' = IF worker = NoRow THEN {} ELSE Generator!Report(result)
    BY DEF Generator!Tick
<1>2. /\ known' \in Generator!Advanced(Len(known))
      /\ IF worker = NoRow THEN worker' = NoRow ELSE worker' \in Generator!MoveWorker(worker)
      /\ UNCHANGED <<rows, employed, loop, mode, changes>>
    BY DEF Generator!Tick
<1>3. known' \in Seq(KnownRow) /\ Listed(known')
  <2>1. Len(known) \in Int
      BY DEF LoopInv
  <2> QED BY <1>2, <2>1, AdvancedType
<1>4. worker' # NoRow =>
        /\ worker' \in WorkerRow /\ worker'.dx \in -MaxSpeed .. MaxSpeed
        /\ worker'.x \in Margin .. Width - Margin
    BY <1>2, MoveStaysOnMap DEF LoopInv
<1>5. \A e \in Generator!Report(result) : result[e.device] = e.status
    BY DEF Generator!Report
<1>6. Generator!OwnStatus'
    BY <1>1, <1>5 DEF Generator!OwnStatus
<1> QED BY <1>2, <1>3, <1>4, <1>6 DEF LoopInv, Listed, Generator!OnTheMap

LEMMA BrokenTickKeeps ==
    ASSUME LoopInv, Generator!BrokenTick
    PROVE  LoopInv'
<1>1. PICK i \in DOMAIN known : known' \in Generator!Advanced(i - 1)
    BY DEF Generator!BrokenTick
<1>2. i - 1 \in Int
    BY DEF LoopInv
<1>3. known' \in Seq(KnownRow) /\ Listed(known')
    BY <1>1, <1>2, AdvancedType
<1> QED BY <1>3 DEF Generator!BrokenTick, LoopInv, Listed, Generator!OwnStatus, Generator!OnTheMap

LEMMA AdministrateKeeps ==
    ASSUME LoopInv, Generator!Administrate
    PROVE  LoopInv'
<1>0. /\ rows \in Seq(TableRow) /\ Listed(rows)
      /\ changes \in 0 .. MaxChanges /\ changes < MaxChanges /\ changes' = changes + 1
      /\ UNCHANGED <<loop, mode, known, worker, answers, summary>>
    BY DEF LoopInv, Generator!Administrate, Generator!Change
<1>1. rows' \in Seq(TableRow) /\ Listed(rows')
  <2>1. ASSUME NEW i \in DOMAIN rows, NEW t \in Generator!Types,
               rows' = [rows EXCEPT ![i].type = t]
        PROVE  rows' \in Seq(TableRow) /\ Listed(rows')
    <3> DEFINE r == [rows[i] EXCEPT !.type = t]
    <3>1. rows[i] \in TableRow
        BY <1>0
    <3>2. r \in TableRow /\ r.id = rows[i].id /\ rows' = [rows EXCEPT ![i] = r]
        BY <2>1, <3>1 DEF TableRow
    <3> HIDE DEF r
    <3>3. /\ rows' \in Seq(TableRow) /\ DOMAIN rows' = DOMAIN rows
          /\ \A j \in DOMAIN rows : rows'[j].id = rows[j].id
        BY <1>0, <3>2
    <3> QED BY <1>0, <3>3 DEF Listed
  <2>2. CASE rows # <<>> /\ rows' = Tail(rows)
    <3>1. /\ rows' \in Seq(TableRow)
          /\ \A i \in DOMAIN rows' : i + 1 \in DOMAIN rows /\ rows'[i] = rows[i + 1] /\ i \in Int
        BY <1>0, <2>2
    <3>2. ASSUME NEW i \in DOMAIN rows', NEW j \in DOMAIN rows', rows'[i].id = rows'[j].id
          PROVE  i = j
      <4>1. i + 1 = j + 1
          BY <1>0, <3>1, <3>2 DEF Listed
      <4> QED BY <3>1, <4>1
    <3> QED BY <3>1, <3>2 DEF Listed
  <2>3. CASE rows' = rows
      BY <1>0, <2>3
  <2> QED BY <2>1, <2>2, <2>3 DEF Generator!Administrate
<1> QED BY <1>0, <1>1, GeneratorAssumption
        DEF LoopInv, Listed, Generator!OwnStatus, Generator!OnTheMap

LEMMA LoopStep == LoopInv /\ [Next]_platformVars => LoopInv'
<1> SUFFICES ASSUME LoopInv, [Next]_platformVars PROVE LoopInv'
    OBVIOUS
<1> USE GeneratorAssumption
<1>1. CASE UNCHANGED loopVars
    BY <1>1 DEF LoopInv, Listed, Generator!OwnStatus, Generator!OnTheMap, loopVars
<1>2. ASSUME NEW m \in {"normal", "mixed", "danger"}, Generator!SetMode(m) PROVE LoopInv'
    BY <1>2 DEF Generator!SetMode, Generator!Change, LoopInv, Listed, Generator!OwnStatus,
                Generator!OnTheMap
<1>3. CASE Generator!Restart
  <2>1. known' = <<>> /\ worker' = NoRow /\ summary' = {} /\ loop' = "loading" /\ mode' = "mixed"
        /\ rows' = rows /\ changes < MaxChanges /\ changes' = changes + 1
      BY <1>3 DEF Generator!Restart, Generator!Change
  <2>2. known' \in Seq(KnownRow) /\ Listed(known')
      BY <2>1 DEF Listed
  <2> QED BY <2>1, <2>2 DEF LoopInv, Listed, Generator!OwnStatus, Generator!OnTheMap
<1>4. CASE Generator!Next
    BY <1>2, <1>3, <1>4, LoadKeeps, ReloadKeeps, LoopTickKeeps, BrokenTickKeeps, AdministrateKeeps
    DEF Generator!Next
<1> QED BY <1>1, <1>4 DEF Next, platformVars, PlayScenario, GenerateReadings, MeasurePower,
                          Learn, InjectSpikes, PushToDashboards, ShapeZone

LEMMA LoopInvImplies == LoopInv => Generator!TypeOK /\ Generator!OwnStatus /\ Generator!OnTheMap
<1> SUFFICES ASSUME LoopInv PROVE Generator!TypeOK /\ Generator!OwnStatus /\ Generator!OnTheMap
    OBVIOUS
<1>1. \A i \in DOMAIN known : known[i] \in KnownRow
    BY DEF LoopInv
<1>2. \A i \in DOMAIN known : known[i].type \in Generator!Types /\ known[i].events \in 0 .. EventTicks
    BY <1>1 DEF KnownRow
<1> QED BY <1>2 DEF LoopInv, Listed, Generator!TypeOK

\* A phase of a scenario lasts its time however often the switch is pressed and the
\* phase is asked for, each sensor is reported with its own status, and a worker that
\* was moved is on the map, for any devices, tables, reloads and restarts
\* (scenario.py:25-33, :177-256, scheduler.py:93-157, :202-215, generators.py:531-548).
THEOREM GeneratorStaysFaithful == Spec => GeneratorIsFaithful
<1> DEFINE Good == Switches!TypeOK /\ Generator!TypeOK /\ Generator!OwnStatus /\ Generator!OnTheMap
           Lasts == \A d \in Switches!Driven :
                      /\ toggles[d] # NoRow /\ toggles'[d] # NoRow
                      /\ toggles'[d].on /\ toggles[d].phase \in 1 .. 3
                      /\ toggles'[d].phase = toggles[d].phase + 1
                      => stay[d] >= Switches!Duration(d)
<1>1. Init => SwitchInv /\ LoopInv
    BY SwitchInit, LoopInit DEF Init
<1>2. SwitchInv /\ LoopInv /\ [Next]_platformVars => SwitchInv' /\ LoopInv'
    BY SwitchStep, LoopStep
<1>3. SwitchInv /\ LoopInv => Good
    BY SwitchInvImplies, LoopInvImplies
<1>4. SwitchInv /\ [Next]_platformVars => [Lasts]_(Switches!switchVars)
  <2> SUFFICES ASSUME SwitchInv, [Next]_platformVars PROVE Lasts
      OBVIOUS
  <2> QED BY PhaseLasts
<1>5. GeneratorIsFaithful <=> []Good /\ [][Lasts]_(Switches!switchVars)
    BY DEF GeneratorIsFaithful, Switches!FullPhases
<1> HIDE DEF Good, Lasts
<1> QED BY <1>1, <1>2, <1>3, <1>4, <1>5, PTL DEF Spec

-----------------------------------------------------------------------------
(* EarlyWarning: at most one fit is under way, and it is the last one that   *)
(* was begun; predictions are numbered in the order of their times.         *)

Fitted == 1 .. MaxFits \cup {NoRow}

Prediction == [no : Nat, at : Nat, due : Nat, result : {"pending", "success", "failure"}]

WarningTypes ==
    /\ now \in Nat
    /\ values \in [arima : 0 .. MaxValues, trend : 0 .. MaxValues]
    /\ fits \in 0 .. MaxFits
    /\ arima \in [model : Fitted, std : Fitted, at : Nat, fitting : BOOLEAN]
    /\ threads \subseteq [no : 1 .. MaxFits, step : {"fit", "std"}]
    /\ forest \in [model : BOOLEAN, fitted : 0 .. MaxValues]
    /\ asking \in [Requests -> {NoRow, "predicts"}]
    /\ lastPrediction # NoRow => lastPrediction \in 0 .. now
    /\ predictions \subseteq Prediction /\ IsFiniteSet(predictions)

\* A deviation is of the model's fit or of an earlier one.
OneFit ==
    /\ \A s, t \in threads : s = t
    /\ threads # {} => arima.fitting
    /\ \A t \in threads : t.no = fits /\ (t.step = "std" => arima.model = t.no)
    /\ arima.model # NoRow => arima.model <= fits
    /\ arima.std # NoRow => arima.model # NoRow /\ arima.std <= arima.model

Numbered(ps) ==
    /\ \A p, q \in ps : p.no = q.no => p = q
    /\ \A p \in ps : p.no < Cardinality(ps)

PredictedInOrder ==
    /\ Numbered(predictions)
    /\ \A p \in predictions : lastPrediction # NoRow /\ p.at <= lastPrediction

WarningInv ==
    /\ WarningTypes /\ OneFit /\ PredictedInOrder
    /\ judged # NoRow => judged.std <= judged.model
    /\ Warning!PredictionsSpaced

LEMMA WarningInit == Warning!Init => WarningInv
<1> SUFFICES ASSUME Warning!Init PROVE WarningInv
    OBVIOUS
<1>1. WarningTypes
    BY FS_EmptySet, WarningAssumption DEF Warning!Init, WarningTypes, Fitted
<1>2. OneFit /\ PredictedInOrder /\ judged = NoRow /\ Warning!PredictionsSpaced
    BY DEF Warning!Init, OneFit, PredictedInOrder, Numbered, Warning!PredictionsSpaced
<1> QED BY <1>1, <1>2 DEF WarningInv

LEMMA DetectKeeps ==
    ASSUME WarningInv, Warning!Detect
    PROVE  WarningInv'
<1> USE WarningAssumption
<1>0. /\ values \in [arima : 0 .. MaxValues, trend : 0 .. MaxValues] /\ values.arima < MaxValues
      /\ values' = [values EXCEPT !.arima = @ + 1]
      /\ UNCHANGED <<now, forest, lastPrediction, asking, predictions>>
    BY DEF Warning!Detect, Warning!trendVars, WarningInv, WarningTypes
<1>1. values' \in [arima : 0 .. MaxValues, trend : 0 .. MaxValues]
    BY <1>0
<1>2. judged' # NoRow => judged'.std <= judged'.model
    BY DEF Warning!Detect, WarningInv, OneFit
<1>3. PredictedInOrder' /\ Warning!PredictionsSpaced'
    BY <1>0 DEF WarningInv, PredictedInOrder, Warning!PredictionsSpaced
<1>4. CASE Warning!FitIsDue(values'.arima) /\ fits < MaxFits
  <2> DEFINE t == [no |-> fits', step |-> "fit"]
  <2>1. /\ fits' = fits + 1 /\ threads' = threads \cup {t}
        /\ arima' = [arima EXCEPT !.fitting = TRUE] /\ ~arima.fitting
      BY <1>4 DEF Warning!Detect, Warning!FitIsDue
  <2>2. /\ fits \in 0 .. MaxFits /\ fits' \in 1 .. MaxFits
        /\ arima \in [model : Fitted, std : Fitted, at : Nat, fitting : BOOLEAN]
        /\ threads = {}
      BY <1>4, <2>1 DEF WarningInv, WarningTypes, OneFit
  <2>3. /\ t \in [no : 1 .. MaxFits, step : {"fit", "std"}] /\ t.no = fits' /\ t.step = "fit"
        /\ threads' = {t}
      BY <2>1, <2>2
  <2> HIDE DEF t
  <2>4. /\ arima' \in [model : Fitted, std : Fitted, at : Nat, fitting : BOOLEAN]
        /\ arima'.model = arima.model /\ arima'.std = arima.std /\ arima'.fitting
      BY <2>1, <2>2
  <2>5. WarningTypes'
      BY <1>0, <1>1, <2>2, <2>3, <2>4 DEF WarningInv, WarningTypes
  <2>6. OneFit'
      BY <2>1, <2>2, <2>3, <2>4 DEF WarningInv, OneFit, Fitted
  <2> QED BY <1>2, <1>3, <2>5, <2>6 DEF WarningInv
<1>5. CASE UNCHANGED <<arima, threads, fits>>
    BY <1>0, <1>1, <1>2, <1>3, <1>5 DEF WarningInv, WarningTypes, OneFit
<1> QED BY <1>4, <1>5 DEF Warning!Detect

LEMMA FitKeeps ==
    ASSUME WarningInv, NEW t \in threads,
           Warning!WriteModel(t) \/ Warning!WriteDeviation(t) \/ Warning!FailFit(t)
    PROVE  WarningInv'
<1>0. /\ UNCHANGED <<now, values, fits, judged, forest, lastPrediction, asking, predictions>>
      /\ t \in [no : 1 .. MaxFits, step : {"fit", "std"}] /\ t.no = fits
      /\ threads = {t} /\ fits \in 0 .. MaxFits /\ fits \in Fitted
      /\ arima \in [model : Fitted, std : Fitted, at : Nat, fitting : BOOLEAN]
    BY DEF Warning!WriteModel, Warning!WriteDeviation, Warning!FailFit, Warning!trendVars,
           WarningInv, WarningTypes, OneFit, Fitted
<1>1. PredictedInOrder' /\ Warning!PredictionsSpaced' /\ (judged' # NoRow => judged'.std <= judged'.model)
    BY <1>0 DEF WarningInv, PredictedInOrder, Warning!PredictionsSpaced
<1>2. CASE Warning!WriteModel(t)
  <2> DEFINE u == [t EXCEPT !.step = "std"]
  <2>1. u \in [no : 1 .. MaxFits, step : {"fit", "std"}] /\ u.no = fits /\ threads' = {u}
      BY <1>0, <1>2 DEF Warning!WriteModel
  <2> HIDE DEF u
  <2>2. /\ arima' \in [model : Fitted, std : Fitted, at : Nat, fitting : BOOLEAN]
        /\ arima'.model = fits /\ arima'.std = arima.std /\ arima'.fitting = arima.fitting
      BY <1>0, <1>2 DEF Warning!WriteModel
  <2>3. WarningTypes'
      BY <1>0, <2>1, <2>2 DEF WarningInv, WarningTypes
  <2>4. OneFit'
      BY <1>0, <2>1, <2>2, WarningAssumption DEF WarningInv, OneFit, Fitted
  <2> QED BY <1>1, <2>3, <2>4 DEF WarningInv
<1>3. CASE Warning!WriteDeviation(t)
  <2>1. /\ threads' = {} /\ arima.model = fits
        /\ arima' = [model |-> arima.model, std |-> fits, at |-> now, fitting |-> FALSE]
      BY <1>0, <1>3 DEF Warning!WriteDeviation, WarningInv, OneFit
  <2>2. WarningTypes'
      BY <1>0, <2>1 DEF WarningInv, WarningTypes
  <2>3. OneFit'
      BY <1>0, <2>1, WarningAssumption DEF OneFit, Fitted
  <2> QED BY <1>1, <2>2, <2>3 DEF WarningInv
<1>4. CASE Warning!FailFit(t)
  <2>1. threads' = {}
      BY <1>0, <1>4 DEF Warning!FailFit
  <2>2. /\ arima' \in [model : Fitted, std : Fitted, at : Nat, fitting : BOOLEAN]
        /\ arima'.model = arima.model /\ arima'.std = arima.std
      BY <1>0, <1>4 DEF Warning!FailFit
  <2>3. WarningTypes'
      BY <1>0, <2>1, <2>2 DEF WarningInv, WarningTypes
  <2>4. OneFit'
      BY <1>0, <2>1, <2>2 DEF WarningInv, OneFit
  <2> QED BY <1>1, <2>3, <2>4 DEF WarningInv
<1> QED BY <1>2, <1>3, <1>4

LEMMA PredictKeeps ==
    ASSUME WarningInv, NEW r \in Requests, Warning!Predict(r)
    PROVE  WarningInv'
<1>0. /\ values \in [arima : 0 .. MaxValues, trend : 0 .. MaxValues] /\ values.trend < MaxValues
      /\ values' = [values EXCEPT !.trend = @ + 1]
      /\ asking \in [Requests -> {NoRow, "predicts"}]
      /\ forest \in [model : BOOLEAN, fitted : 0 .. MaxValues]
      /\ UNCHANGED <<now, arima, threads, fits, judged, lastPrediction, predictions>>
    BY DEF Warning!Predict, Warning!arimaVars, WarningInv, WarningTypes
<1>1. /\ values' \in [arima : 0 .. MaxValues, trend : 0 .. MaxValues]
      /\ values'.trend \in 0 .. MaxValues
    BY <1>0, WarningAssumption
<1>2. forest' \in {forest, [model |-> TRUE, fitted |-> values'.trend]}
    BY DEF Warning!Predict
<1>3. asking' \in {asking, [asking EXCEPT ![r] = "predicts"]}
    BY DEF Warning!Predict
<1>4. WarningTypes'
  <2>1. forest' \in [model : BOOLEAN, fitted : 0 .. MaxValues]
    <3>1. PICK n \in 0 .. MaxValues : n = values'.trend
        BY <1>1
    <3>2. [model |-> TRUE, fitted |-> n] \in [model : BOOLEAN, fitted : 0 .. MaxValues]
        OBVIOUS
    <3> QED BY <1>0, <1>2, <3>1, <3>2
  <2>2. asking' \in [Requests -> {NoRow, "predicts"}]
      BY <1>0, <1>3
  <2> QED BY <1>0, <1>1, <2>1, <2>2 DEF WarningInv, WarningTypes
<1> QED BY <1>0, <1>4 DEF WarningInv, OneFit, PredictedInOrder, Warning!PredictionsSpaced

LEMMA SameNumber == \A S : Warning!Cardinality(S) = Cardinality(S)
BY DEF Warning!Cardinality, Cardinality, Warning!IsFiniteSet, IsFiniteSet

LEMMA RecordKeeps ==
    ASSUME WarningInv, NEW r \in Requests, Warning!Record(r)
    PROVE  WarningInv'
<1> USE WarningAssumption
<1>0. /\ asking' = [asking EXCEPT ![r] = NoRow]
      /\ UNCHANGED <<now, values, arima, threads, fits, judged, forest>>
      /\ now \in Nat /\ predictions \subseteq Prediction /\ IsFiniteSet(predictions)
      /\ asking \in [Requests -> {NoRow, "predicts"}]
    BY DEF Warning!Record, Warning!arimaVars, WarningInv, WarningTypes
<1>1. OneFit' /\ (judged' # NoRow => judged'.std <= judged'.model)
    BY <1>0 DEF WarningInv, OneFit
<1>2. asking' \in [Requests -> {NoRow, "predicts"}]
    BY <1>0
<1>3. CASE Warning!MayPredict
  <2> DEFINE n == Cardinality(predictions)
  <2>1. /\ lastPrediction' = now
        /\ predictions' \in {predictions} \cup {Warning!Predictions(due) : due \in Horizons}
      BY <1>3 DEF Warning!Record
  <2>2. n \in Nat /\ \A p \in predictions : p.no \in Nat /\ p.at \in Nat /\ p.no < n
      BY <1>0, FS_CardinalityType DEF Prediction, WarningInv, PredictedInOrder, Numbered
  <2>3. \A p \in predictions : p.at <= now /\ now - p.at >= Throttle
      BY <1>0, <1>3, <2>2
      DEF WarningInv, WarningTypes, PredictedInOrder, Warning!MayPredict
  <2>4. CASE predictions' = predictions
      BY SMTT(30), <1>0, <1>1, <1>2, <2>1, <2>3, <2>4
      DEF WarningInv, WarningTypes, PredictedInOrder, Warning!PredictionsSpaced
  <2>5. ASSUME NEW due \in Horizons, predictions' = Warning!Predictions(due)
        PROVE  WarningInv'
    <3> DEFINE q == [no |-> n, at |-> now, due |-> now + due, result |-> "pending"]
    <3>1. predictions' = predictions \cup {q}
        BY <2>5, SameNumber DEF Warning!Predictions
    <3>2. q \in Prediction /\ q.no = n /\ q.at = now
      <4> HIDE DEF n
      <4>1. now + due \in Nat
          BY <1>0, <2>5
      <4> QED BY <1>0, <2>2, <4>1 DEF Prediction
    <3> HIDE DEF q
    <3>3. q \notin predictions
        BY <2>2, <3>2
    <3>4. IsFiniteSet(predictions') /\ Cardinality(predictions') = n + 1
        BY <1>0, <3>1, <3>3, FS_AddElement
    <3> HIDE DEF n
    <3>5. WarningTypes'
        BY <1>0, <1>2, <2>1, <3>1, <3>2, <3>4 DEF WarningInv, WarningTypes
    <3>6. Numbered(predictions')
        BY <2>2, <3>1, <3>2, <3>4 DEF WarningInv, PredictedInOrder, Numbered
    <3>7. PredictedInOrder'
        BY <1>0, <2>1, <2>3, <3>1, <3>2, <3>6 DEF PredictedInOrder
    <3>8. Warning!PredictionsSpaced'
        BY <2>2, <2>3, <3>1, <3>2 DEF WarningInv, Warning!PredictionsSpaced
    <3> QED BY <1>1, <3>5, <3>7, <3>8 DEF WarningInv
  <2> QED BY <2>1, <2>4, <2>5
<1>4. CASE ~Warning!MayPredict
  <2>1. UNCHANGED <<lastPrediction, predictions>>
      BY <1>4 DEF Warning!Record
  <2> QED BY <1>0, <1>1, <1>2, <2>1
          DEF WarningInv, WarningTypes, PredictedInOrder, Warning!PredictionsSpaced
<1> QED BY <1>3, <1>4

Judge(p, reached) ==
    IF p.result = "pending" /\ p.due <= now
    THEN [p EXCEPT !.result = IF reached THEN "success" ELSE "failure"] ELSE p

LEMMA JudgeType ==
    ASSUME NEW p \in Prediction, NEW reached \in BOOLEAN
    PROVE  /\ Judge(p, reached) \in Prediction
           /\ Judge(p, reached).no = p.no /\ Judge(p, reached).at = p.at
           /\ \/ Judge(p, reached) = p
              \/ p.result = "pending" /\ p.due <= now /\ Judge(p, reached).result # "pending"
BY DEF Judge, Prediction

LEMMA VerifyKeeps ==
    ASSUME WarningInv, NEW reached \in BOOLEAN, Warning!Verify(reached)
    PROVE  WarningInv'
<1> DEFINE f == [p \in predictions |-> Judge(p, reached)]
<1>0. /\ predictions' = {Judge(p, reached) : p \in predictions}
      /\ UNCHANGED <<now, values, arima, threads, fits, judged, forest, lastPrediction, asking>>
      /\ predictions \subseteq Prediction /\ IsFiniteSet(predictions)
    BY DEF Warning!Verify, Warning!Verified, Warning!arimaVars, Judge, WarningInv, WarningTypes
<1>1. \A p \in predictions :
        /\ Judge(p, reached) \in Prediction
        /\ Judge(p, reached).no = p.no /\ Judge(p, reached).at = p.at
    BY <1>0, JudgeType
<1>2. f \in Surjection(predictions, predictions') /\ f \in Injection(predictions, predictions')
  <2>1. f \in [predictions -> predictions'] /\ \A q \in predictions' : \E p \in predictions : f[p] = q
      BY <1>0
  <2>2. ASSUME NEW p \in predictions, NEW q \in predictions, f[p] = f[q] PROVE p = q
    <3>1. p.no = q.no
        BY <1>1, <2>2
    <3> QED BY <3>1 DEF WarningInv, PredictedInOrder, Numbered
  <2> HIDE DEF f
  <2> QED BY <2>1, <2>2 DEF Surjection, Injection, IsInjective
<1> HIDE DEF f
<1>3. IsFiniteSet(predictions') /\ Cardinality(predictions') = Cardinality(predictions)
    BY <1>0, <1>2, FS_Surjection
<1>4. WarningTypes'
    BY <1>0, <1>1, <1>3 DEF WarningInv, WarningTypes
<1>5. Numbered(predictions')
  <2>1. \A p \in predictions' : \E a \in predictions : p = Judge(a, reached) /\ p.no = a.no
      BY <1>0, <1>1
  <2>2. \A p, q \in predictions : p.no = q.no => p = q
      BY DEF WarningInv, PredictedInOrder, Numbered
  <2>3. \A p \in predictions : p.no < Cardinality(predictions)
      BY DEF WarningInv, PredictedInOrder, Numbered
  <2>4. \A p, q \in predictions' : p.no = q.no => p = q
      BY <2>1, <2>2
  <2>5. \A p \in predictions' : p.no < Cardinality(predictions')
      BY <1>3, <2>1, <2>3
  <2> QED BY <2>4, <2>5 DEF Numbered
<1>6. PredictedInOrder'
    BY <1>0, <1>1, <1>5 DEF WarningInv, PredictedInOrder
<1>7. Warning!PredictionsSpaced'
    BY <1>0, <1>1 DEF WarningInv, Warning!PredictionsSpaced
<1>8. OneFit' /\ (judged' # NoRow => judged'.std <= judged'.model)
    BY <1>0 DEF WarningInv, OneFit
<1> QED BY <1>4, <1>6, <1>7, <1>8 DEF WarningInv

LEMMA WarningStep == WarningInv /\ [Next]_platformVars => WarningInv'
<1> SUFFICES ASSUME WarningInv, [Next]_platformVars PROVE WarningInv'
    OBVIOUS
<1>1. CASE UNCHANGED warningVars
    BY <1>1 DEF WarningInv, WarningTypes, OneFit, PredictedInOrder, Warning!PredictionsSpaced,
                warningVars
<1>2. CASE Warning!Pass
  <2>1. now' = now + 1 /\ UNCHANGED <<values, arima, threads, fits, judged, forest,
                                      lastPrediction, asking, predictions>>
      BY <1>2 DEF Warning!Pass, Warning!arimaVars, Warning!trendVars
  <2> QED BY <2>1 DEF WarningInv, WarningTypes, OneFit, PredictedInOrder,
                      Warning!PredictionsSpaced
<1>3. CASE Warning!Next
    BY <1>2, <1>3, DetectKeeps, FitKeeps, PredictKeeps, RecordKeeps, VerifyKeeps DEF Warning!Next
<1> QED BY <1>1, <1>3 DEF Next, platformVars, PlayScenario, GenerateReadings, MeasurePower,
                          Learn, InjectSpikes, PushToDashboards, ShapeZone

LEMMA WarningInvImplies ==
    WarningInv => Warning!TypeOK /\ Warning!FitsInOrder /\ Warning!PredictionsSpaced
<1> SUFFICES ASSUME WarningInv
             PROVE  Warning!TypeOK /\ Warning!FitsInOrder /\ Warning!PredictionsSpaced
    OBVIOUS
<1>1. \A p \in predictions : p.result \in {"pending", "success", "failure"}
    BY DEF WarningInv, WarningTypes, Prediction
<1>2. Warning!TypeOK
    BY <1>1 DEF WarningInv, WarningTypes, Fitted, Warning!TypeOK
<1>3. \A t \in threads, n \in {arima.model, arima.std} \ {NoRow} : n <= t.no
    BY DEF WarningInv, WarningTypes, Fitted, OneFit
<1> QED BY <1>2, <1>3 DEF WarningInv, Warning!FitsInOrder

\* A prediction stays or is judged, and then it was due and not judged before.
LEMMA JudgedWhenDue ==
    ASSUME WarningInv, [Next]_platformVars, NEW p \in predictions
    PROVE  \/ p \in predictions'
           \/ p.result = "pending" /\ p.due <= now /\
              \E q \in predictions' : q.no = p.no /\ q.result # "pending"
<1>1. CASE predictions \subseteq predictions'
    BY <1>1
<1>2. ASSUME NEW reached \in BOOLEAN, Warning!Verify(reached)
      PROVE  \/ p \in predictions'
             \/ p.result = "pending" /\ p.due <= now /\
                \E q \in predictions' : q.no = p.no /\ q.result # "pending"
  <2>1. Judge(p, reached) \in predictions'
      BY <1>2 DEF Warning!Verify, Warning!Verified, Judge
  <2>2. p \in Prediction
      BY DEF WarningInv, WarningTypes
  <2> QED BY <2>1, <2>2, JudgeType
<1>3. ASSUME NEW r \in Requests, Warning!Record(r) PROVE predictions \subseteq predictions'
    BY <1>3 DEF Warning!Record, Warning!Predictions
<1>4. CASE Warning!Next
    BY <1>1, <1>2, <1>3, <1>4
    DEF Warning!Next, Warning!Pass, Warning!Detect, Warning!WriteModel, Warning!WriteDeviation,
        Warning!FailFit, Warning!Predict, Warning!trendVars
<1> QED BY <1>1, <1>4 DEF Next, platformVars, warningVars,
                          PlayScenario, GenerateReadings, MeasurePower,
                          Learn, InjectSpikes, PushToDashboards, ShapeZone

\* Although the fit writes without the lock, no value is judged by a model with the
\* deviation of a later fit; predictions are apart by the throttle's time; each is
\* judged once and not before it is due; for any values, fits and requests at once
\* (anomaly_detector.py:101-156, devices/views.py:73, :384-388,
\* trend_predictor.py:209-234).
THEOREM LearnersStayInOrder == Spec => LearnersInOrder
<1> DEFINE Good == Warning!TypeOK /\ Warning!FitsInOrder /\ Warning!PredictionsSpaced
           Once == \A p \in predictions :
                     \/ p \in predictions'
                     \/ p.result = "pending" /\ p.due <= now /\
                        \E q \in predictions' : q.no = p.no /\ q.result # "pending"
<1>1. Init => WarningInv
    BY WarningInit DEF Init
<1>2. WarningInv /\ [Next]_platformVars => WarningInv'
    BY WarningStep
<1>3. WarningInv => Good
    BY WarningInvImplies
<1>4. WarningInv /\ [Next]_platformVars => [Once]_(Warning!warningVars)
  <2> SUFFICES ASSUME WarningInv, [Next]_platformVars PROVE Once
      OBVIOUS
  <2> QED BY JudgedWhenDue
<1>5. LearnersInOrder <=> []Good /\ [][Once]_(Warning!warningVars)
    BY DEF LearnersInOrder, Warning!JudgedOnce
<1> HIDE DEF Good, Once
<1> QED BY <1>1, <1>2, <1>3, <1>4, <1>5, PTL DEF Spec

-----------------------------------------------------------------------------
(* Loops: induction over the rounds of a loop, whose step is a function, so *)
(* that no operator has to be passed.                                       *)

\* A set of numbers has a least one.
LEMMA Smallest ==
    ASSUME NEW S \in SUBSET Nat, S # {}
    PROVE  \E m \in S : \A n \in S : m <= n
<1>1. PICK m \in S : \A n \in S : <<n, m>> \notin OpToRel(<, Nat)
    BY WFMin, NatLessThanWellFounded
<1>2. \A n \in S : ~(n < m)
    BY <1>1 DEF OpToRel
<1> QED BY <1>2

\* Induction up to N, over a set of numbers.
LEMMA Prefixes ==
    ASSUME NEW N \in Nat, NEW S, 0 \in S,
           \A n \in 1 .. N : n - 1 \in S => n \in S
    PROVE  \A n \in 0 .. N : n \in S
<1> DEFINE Rest == (0 .. N) \ S
<1> SUFFICES ASSUME Rest # {} PROVE FALSE
    OBVIOUS
<1>0. Rest \in SUBSET Nat
    OBVIOUS
<1> HIDE DEF Rest
<1>1. PICK m \in Rest : \A n \in Rest : m <= n
    BY <1>0, Smallest
<1> USE DEF Rest
<1>2. m \in 1 .. N /\ m - 1 \in 0 .. N /\ m - 1 \notin Rest
    BY <1>1
<1> QED BY <1>1, <1>2

\* f runs through a loop of N rounds: it starts with a, and g does one round.
IsRun(f, N, R, a, g) ==
    f \in [0 .. N -> R] /\ f[0] = a /\ \A n \in 1 .. N : f[n] = g[<<n, f[n - 1]>>]

\* Every loop has a run.
LEMMA Iteration ==
    ASSUME NEW N \in Nat, NEW R, NEW a \in R, NEW g \in [(1 .. N) \X R -> R]
    PROVE  \E f : IsRun(f, N, R, a, g)
<1> DEFINE S == {m \in 0 .. N : \E f : IsRun(f, m, R, a, g)}
<1>1. 0 \in S
  <2>1. IsRun([n \in 0 .. 0 |-> a], 0, R, a, g)
      BY DEF IsRun
  <2> QED BY <2>1
<1>2. \A m \in 1 .. N : m - 1 \in S => m \in S
  <2> SUFFICES ASSUME NEW m \in 1 .. N, m - 1 \in S PROVE m \in S
      OBVIOUS
  <2>1. PICK f : IsRun(f, m - 1, R, a, g)
      OBVIOUS
  <2>2. f \in [0 .. m - 1 -> R] /\ f[0] = a /\ \A n \in 1 .. m - 1 : f[n] = g[<<n, f[n - 1]>>]
      BY <2>1 DEF IsRun
  <2>3. f[m - 1] \in R
      BY <2>2
  <2> DEFINE h == [n \in 0 .. m |-> IF n = m THEN g[<<m, f[m - 1]>>] ELSE f[n]]
  <2>4. h \in [0 .. m -> R] /\ h[0] = a /\ h[m] = g[<<m, h[m - 1]>>]
    <3>1. g[<<m, f[m - 1]>>] \in R
        BY <2>3
    <3>2. \A n \in 0 .. m : n # m => n \in 0 .. m - 1 /\ f[n] \in R
        BY <2>2
    <3>3. h \in [0 .. m -> R]
        BY <3>1, <3>2
    <3>4. 0 \in 0 .. m /\ 0 # m /\ m \in 0 .. m /\ m - 1 \in 0 .. m /\ m - 1 # m
        OBVIOUS
    <3>5. h[0] = f[0] /\ h[m - 1] = f[m - 1] /\ h[m] = g[<<m, f[m - 1]>>]
        BY <3>4
    <3> QED BY <2>2, <3>3, <3>5
  <2>5. \A n \in 1 .. m - 1 : h[n] = g[<<n, h[n - 1]>>]
      BY <2>2
  <2>6. \A n \in 1 .. m : h[n] = g[<<n, h[n - 1]>>]
    <3> SUFFICES ASSUME NEW n \in 1 .. m PROVE h[n] = g[<<n, h[n - 1]>>]
        OBVIOUS
    <3>1. n = m \/ n \in 1 .. m - 1
        OBVIOUS
    <3> HIDE DEF h
    <3> QED BY <2>4, <2>5, <3>1
  <2> HIDE DEF h
  <2>7. IsRun(h, m, R, a, g)
      BY <2>4, <2>6 DEF IsRun
  <2> QED BY <2>7
<1>3. N \in S
  <2> HIDE DEF S
  <2> QED BY <1>1, <1>2, Prefixes
<1> QED BY <1>3

-----------------------------------------------------------------------------
(* Classification: the two loops over the gases of a reading, round by      *)
(* round, and the samples that count towards the median.                    *)

GasKeys == {Keys[n] : n \in DOMAIN Keys}
Reading == [GasKeys -> Int \cup {NoRow}]
Status == {"normal", "caution", "danger"}

\* classify_gas is a loop: after n gases it has a status, and each gas does a round.
LEMMA GasJudgeType ==
    ASSUME NEW worst \in Status, NEW k, NEW v
    PROVE  Classes!Judge(worst, k, v) \in Status
BY DEF Classes!Judge, Status

LEMMA ClassifyGasIsLoop ==
    ASSUME NEW reading \in Reading
    PROVE  \E w \in [0 .. Len(Keys) -> Status] :
             /\ w[0] = "normal"
             /\ \A n \in 1 .. Len(Keys) :
                   w[n] = Classes!Judge(w[n - 1], Keys[n], reading[Keys[n]])
             /\ Classes!ClassifyGas(reading) = w[Len(Keys)]
<1> DEFINE N == Len(Keys)
           Step(f) == [n \in 0 .. N |-> IF n = 0 THEN "normal"
                                        ELSE Classes!Judge(f[n - 1], Keys[n], reading[Keys[n]])]
           worst == CHOOSE f : f = Step(f)
           g == [p \in (1 .. N) \X Status |-> Classes!Judge(p[2], Keys[p[1]], reading[Keys[p[1]]])]
<1>1. Classes!ClassifyGas(reading) = worst[N]
    BY DEF Classes!ClassifyGas
<1>2. N \in Nat
    BY ReadingAssumption
<1>3. g \in [(1 .. N) \X Status -> Status]
    BY GasJudgeType
<1>4. \A n \in 1 .. N, s \in Status :
         g[<<n, s>>] = Classes!Judge(s, Keys[n], reading[Keys[n]])
    OBVIOUS
<1>5. "normal" \in Status
    BY DEF Status
<1> HIDE DEF g, N
<1>6. PICK f : IsRun(f, N, Status, "normal", g)
    BY <1>2, <1>3, <1>5, Iteration
<1>6a. /\ f \in [0 .. N -> Status] /\ f[0] = "normal"
       /\ \A n \in 1 .. N : f[n] = g[<<n, f[n - 1]>>]
    BY <1>6 DEF IsRun
<1>7. f = Step(f)
  <2>1. \A n \in 0 .. N : f[n] = Step(f)[n]
    <3> SUFFICES ASSUME NEW n \in 0 .. N PROVE f[n] = Step(f)[n]
        OBVIOUS
    <3>1. CASE n = 0
        BY <3>1, <1>6a
    <3>2. CASE n # 0
      <4>1. n \in 1 .. N /\ n - 1 \in 0 .. N
          BY <3>2, <1>2
      <4>2. f[n] = Classes!Judge(f[n - 1], Keys[n], reading[Keys[n]])
          BY <4>1, <1>4, <1>6a
      <4> QED BY <4>2, <3>2
    <3> QED BY <3>1, <3>2
  <2> QED BY <2>1, <1>6a
<1>8. worst = Step(worst)
    BY <1>7
<1> HIDE DEF worst
<1>9. /\ worst[0] = "normal"
      /\ \A n \in 1 .. N : worst[n] = Classes!Judge(worst[n - 1], Keys[n], reading[Keys[n]])
      /\ DOMAIN worst = 0 .. N
  <2>1. DOMAIN worst = 0 .. N /\ \A n \in 0 .. N : worst[n] = Step(worst)[n]
      BY <1>8
  <2>2. worst[0] = "normal"
    <3>1. 0 \in 0 .. N
        BY <1>2
    <3> QED BY <2>1, <3>1
  <2>3. ASSUME NEW n \in 1 .. N
        PROVE  worst[n] = Classes!Judge(worst[n - 1], Keys[n], reading[Keys[n]])
    <3>1. n \in 0 .. N /\ n # 0
        BY <1>2
    <3> QED BY <3>1, <2>1
  <2> QED BY <2>1, <2>2, <2>3
<1>10. worst \in [0 .. N -> Status]
  <2> DEFINE S == {n \in 0 .. N : worst[n] \in Status}
  <2>1. 0 \in S
      BY <1>9, <1>5, <1>2
  <2>2. ASSUME NEW n \in 1 .. N, n - 1 \in S PROVE n \in S
      BY <2>2, <1>9, <1>2, GasJudgeType
  <2>3. \A n \in 0 .. N : n \in S
      BY <2>1, <2>2, <1>2, Prefixes
  <2>4. worst = [n \in 0 .. N |-> worst[n]]
      BY <1>8
  <2> QED BY <2>3, <2>4
<1> QED BY <1>1, <1>9, <1>10 DEF N
LEMMA RankIs ==
    /\ Classes!Rank("normal") = 0 /\ Classes!Rank("caution") = 1 /\ Classes!Rank("danger") = 2
    /\ \A s \in Status : Classes!Rank(s) \in 0 .. 2
BY DEF Classes!Rank, Status

LEMMA GasFacts ==
    ASSUME NEW k \in GasKeys
    PROVE  /\ k = "o2" => /\ Oxygen.low2 \in Int /\ Oxygen.low1 \in Int
                          /\ Oxygen.high1 \in Int /\ Oxygen.high2 \in Int
                          /\ Oxygen.low2 < Oxygen.low1 /\ Oxygen.low1 < Oxygen.high1
                          /\ Oxygen.high1 < Oxygen.high2
           /\ k # "o2" => /\ Limits[k].caution \in Int /\ Limits[k].danger \in Int
                          /\ Limits[k].caution < Limits[k].danger
<1>1. PICK n \in DOMAIN Keys : k = Keys[n]
    BY DEF GasKeys
<1>2. k = "o2" => /\ Oxygen.low2 \in Int /\ Oxygen.low1 \in Int
                  /\ Oxygen.high1 \in Int /\ Oxygen.high2 \in Int
                  /\ Oxygen.low2 < Oxygen.low1 /\ Oxygen.low1 < Oxygen.high1
                  /\ Oxygen.high1 < Oxygen.high2
    BY ReadingAssumption
<1>3. k # "o2" => /\ Limits[k] \in [caution : Int, danger : Int]
                  /\ Limits[k].caution < Limits[k].danger
    BY <1>1, ReadingAssumption
<1> QED BY <1>2, <1>3

LEMMA GasStatusType ==
    ASSUME NEW k \in GasKeys, NEW v \in Int \cup {NoRow}
    PROVE  Classes!StatusOf(k, v) \in Status
<1>1. CASE v = NoRow
    BY <1>1 DEF Classes!StatusOf, Status
<1>2. CASE v # NoRow /\ k = "o2"
    BY <1>2, GasFacts DEF Classes!StatusOf, Status
<1>3. CASE v # NoRow /\ k # "o2"
    BY <1>3, GasFacts DEF Classes!StatusOf, Status
<1> QED BY <1>1, <1>2, <1>3

\* One round of classify_gas: the status is one of the two, and the worse one.
LEMMA JudgeTakesWorse ==
    ASSUME NEW worst \in Status, NEW k \in GasKeys, NEW v \in Int \cup {NoRow}
    PROVE  LET r == Classes!Judge(worst, k, v)
               s == Classes!StatusOf(k, v)
           IN  /\ r \in {worst, s}
               /\ Classes!Rank(worst) <= Classes!Rank(r) /\ Classes!Rank(s) <= Classes!Rank(r)
<1> DEFINE r == Classes!Judge(worst, k, v)
           s == Classes!StatusOf(k, v)
<1> SUFFICES /\ r \in {worst, s}
             /\ Classes!Rank(worst) <= Classes!Rank(r) /\ Classes!Rank(s) <= Classes!Rank(r)
    OBVIOUS
<1>0. s \in Status /\ r \in Status
    BY GasStatusType, GasJudgeType
<1>1. CASE v = NoRow
  <2>1. r = worst /\ s = "normal"
      BY <1>1 DEF Classes!Judge, Classes!StatusOf
  <2> QED BY <2>1, RankIs
<1>2. CASE worst = "danger"
  <2>1. r = "danger"
      BY <1>2 DEF Classes!Judge
  <2>2. Classes!Rank(r) = 2 /\ Classes!Rank(s) \in 0 .. 2
      BY <1>0, <2>1, RankIs
  <2> HIDE DEF r, s
  <2> QED BY <1>2, <2>1, <2>2
<1>3. CASE v \in Int /\ v # NoRow /\ worst # "danger" /\ k = "o2"
  <2>1. \/ r = "danger" /\ s = "danger"
        \/ r = "caution" /\ s = "caution"
        \/ r = worst /\ s = "normal"
      BY <1>3, GasFacts DEF Classes!Judge, Classes!StatusOf
  <2>2. worst \in {"normal", "caution"}
      BY <1>3 DEF Status
  <2> QED BY <2>1, <2>2, RankIs
<1>4. CASE v \in Int /\ v # NoRow /\ worst # "danger" /\ k # "o2"
  <2>1. \/ r = "danger" /\ s = "danger"
        \/ r = "caution" /\ s = "caution"
        \/ r = worst /\ worst = "caution" /\ s = "caution"
        \/ r = worst /\ s = "normal"
    <3>1. worst \in {"normal", "caution"}
        BY <1>4 DEF Status
    <3> QED BY <3>1, <1>4, GasFacts DEF Classes!Judge, Classes!StatusOf
  <2>2. worst \in {"normal", "caution"}
      BY <1>4 DEF Status
  <2> QED BY <2>1, <2>2, RankIs
<1> QED BY <1>1, <1>2, <1>3, <1>4

LEMMA KeyAt ==
    ASSUME NEW reading \in Reading, NEW n \in 1 .. Len(Keys)
    PROVE  Keys[n] \in GasKeys /\ reading[Keys[n]] \in Int \cup {NoRow}
<1>1. DOMAIN Keys = 1 .. Len(Keys) /\ Len(Keys) \in Nat
    BY ReadingAssumption
<1> QED BY <1>1 DEF Reading, GasKeys

\* classify_gas: the status of a reading is that of one of its gases, or normal, and
\* no gas is worse.
LEMMA ClassifyGasIsWorst ==
    ASSUME NEW reading \in Reading
    PROVE  LET c == Classes!ClassifyGas(reading) IN
           /\ c \in Status
           /\ c = "normal" \/ \E k \in GasKeys : c = Classes!StatusOf(k, reading[k])
           /\ \A k \in GasKeys :
                 Classes!Rank(Classes!StatusOf(k, reading[k])) <= Classes!Rank(c)
<1> DEFINE c == Classes!ClassifyGas(reading)
           Of(n) == Classes!StatusOf(Keys[n], reading[Keys[n]])
<1>1. PICK w \in [0 .. Len(Keys) -> Status] :
         /\ w[0] = "normal"
         /\ \A n \in 1 .. Len(Keys) :
               w[n] = Classes!Judge(w[n - 1], Keys[n], reading[Keys[n]])
         /\ Classes!ClassifyGas(reading) = w[Len(Keys)]
    BY ClassifyGasIsLoop
<1> DEFINE S == {n \in 0 .. Len(Keys) :
                   /\ w[n] = "normal" \/ \E i \in 1 .. n : w[n] = Of(i)
                   /\ \A i \in 1 .. n : Classes!Rank(Of(i)) <= Classes!Rank(w[n])}
<1>2. Len(Keys) \in Nat /\ DOMAIN Keys = 1 .. Len(Keys)
    BY ReadingAssumption
<1>3. 0 \in S
    BY <1>1, <1>2
<1>4. \A n \in 1 .. Len(Keys) : n - 1 \in S => n \in S
  <2> SUFFICES ASSUME NEW n \in 1 .. Len(Keys), n - 1 \in S PROVE n \in S
      OBVIOUS
  <2>1. /\ w[n - 1] = "normal" \/ \E i \in 1 .. n - 1 : w[n - 1] = Of(i)
        /\ \A i \in 1 .. n - 1 : Classes!Rank(Of(i)) <= Classes!Rank(w[n - 1])
      OBVIOUS
  <2>2. /\ Keys[n] \in GasKeys /\ reading[Keys[n]] \in Int \cup {NoRow}
        /\ w[n - 1] \in Status /\ w[n] \in Status /\ n \in 0 .. Len(Keys)
    <3>1. n - 1 \in 0 .. Len(Keys) /\ n \in 0 .. Len(Keys)
        BY <1>2
    <3> QED BY <3>1, <1>1, KeyAt
  <2>3. /\ w[n] \in {w[n - 1], Of(n)}
        /\ Classes!Rank(w[n - 1]) <= Classes!Rank(w[n]) /\ Classes!Rank(Of(n)) <= Classes!Rank(w[n])
      BY <1>1, <2>2, JudgeTakesWorse
  <2>4. \A i \in 1 .. n - 1 : Of(i) \in Status
    <3> SUFFICES ASSUME NEW i \in 1 .. n - 1 PROVE Of(i) \in Status
        OBVIOUS
    <3>1. i \in 1 .. Len(Keys)
        BY <1>2
    <3> QED BY <3>1, KeyAt, GasStatusType
  <2> HIDE DEF Of
  <2>5. w[n] = "normal" \/ \E i \in 1 .. n : w[n] = Of(i)
      BY <2>1, <2>3
  <2>6. ASSUME NEW i \in 1 .. n PROVE Classes!Rank(Of(i)) <= Classes!Rank(w[n])
    <3>1. CASE i = n
        BY <3>1, <2>3
    <3>2. CASE i \in 1 .. n - 1
      <4>1. /\ Classes!Rank(Of(i)) \in 0 .. 2 /\ Classes!Rank(w[n - 1]) \in 0 .. 2
            /\ Classes!Rank(w[n]) \in 0 .. 2
          BY <3>2, <2>2, <2>4, RankIs
      <4> QED BY <4>1, <3>2, <2>1, <2>3
    <3> QED BY <3>1, <3>2
  <2> QED BY <2>2, <2>5, <2>6
<1>5. Len(Keys) \in S
  <2> DEFINE N == Len(Keys)
  <2> HIDE DEF S, N
  <2>1. \A n \in 0 .. N : n \in S
      BY <1>2, <1>3, <1>4, Prefixes DEF N
  <2> QED BY <1>2, <2>1 DEF N
<1>6. c = w[Len(Keys)] /\ c \in Status
    BY <1>1, <1>2
<1>7. c = "normal" \/ \E k \in GasKeys : c = Classes!StatusOf(k, reading[k])
    BY <1>2, <1>5, <1>6 DEF GasKeys
<1>8. ASSUME NEW k \in GasKeys
      PROVE  Classes!Rank(Classes!StatusOf(k, reading[k])) <= Classes!Rank(c)
  <2>1. PICK n \in 1 .. Len(Keys) : k = Keys[n]
      BY <1>2 DEF GasKeys
  <2> QED BY <2>1, <1>5, <1>6
<1> QED BY <1>6, <1>7, <1>8

\* WorstDecides, of any reading.
LEMMA WorstDecidesHolds ==
    ASSUME gas \in Reading
    PROVE  Classes!WorstDecides
<1> DEFINE c == Classes!ClassifyGas(gas)
           M == {Classes!Rank(Classes!StatusOf(k, gas[k])) : k \in GasKeys} \cup {0}
<1>1. /\ c \in Status
      /\ c = "normal" \/ \E k \in GasKeys : c = Classes!StatusOf(k, gas[k])
      /\ \A k \in GasKeys : Classes!Rank(Classes!StatusOf(k, gas[k])) <= Classes!Rank(c)
    BY ClassifyGasIsWorst
<1>2. Classes!Rank(c) \in M /\ Classes!Rank(c) \in 0 .. 2
    BY <1>1, RankIs
<1>3. \A y \in M : Classes!Rank(c) >= y
    BY <1>1, <1>2
<1>4. \A y \in M : y \in 0 .. 2
  <2>1. \A k \in GasKeys : Classes!StatusOf(k, gas[k]) \in Status
      BY GasStatusType DEF Reading
  <2> QED BY <2>1, RankIs
<1>5. Classes!ToSet(Keys) = GasKeys
    BY DEF Classes!ToSet, GasKeys
<1> HIDE DEF M, c
<1>6. Classes!Max(M) = Classes!Rank(c)
  <2>1. \A x \in M : (\A y \in M : x >= y) => x = Classes!Rank(c)
      BY <1>2, <1>3, <1>4
  <2> QED BY <1>2, <1>3, <2>1 DEF Classes!Max
<1> QED BY <1>5, <1>6 DEF Classes!WorstDecides, M, c

\* How far a value has gone: a fraction, whose denominator is not 0.
Fraction == [num : Nat, den : Nat \ {0}]

LEMMA CandidatesAre ==
    ASSUME NEW k \in GasKeys
    PROVE  Classes!Candidates(k) =
             IF k = "o2"
             THEN {GenLimit("o2", "over", [caution |-> Oxygen.high1, danger |-> Oxygen.high2]),
                   GenLimit("o2", "under", [caution |-> Oxygen.low1, danger |-> Oxygen.low2])}
             ELSE {GenLimit(k, "over", Limits[k])}
<1>1. GenLimits =
        {GenLimit("o2", "over", [caution |-> Oxygen.high1, danger |-> Oxygen.high2]),
         GenLimit("o2", "under", [caution |-> Oxygen.low1, danger |-> Oxygen.low2])} \cup
        {GenLimit(j, "over", Limits[j]) : j \in GasKeys \ {"o2"}}
    BY ReadingAssumption DEF GasKeys
<1>2. \A j, op, limits : GenLimit(j, op, limits).key = j
    BY DEF GenLimit
<1> QED BY <1>1, <1>2 DEF Classes!Candidates

\* What the scores of a gas are.
LEMMA ScoresAre ==
    ASSUME NEW k \in GasKeys, NEW v \in Int \cup {NoRow}
    PROVE  /\ v = NoRow => Classes!Scores(k, v) = {}
           /\ v # NoRow /\ k # "o2" => Classes!Scores(k, v) =
                 IF v < Limits[k].caution THEN {}
                 ELSE {[num |-> v - Limits[k].caution,
                        den |-> Limits[k].danger - Limits[k].caution]}
           /\ v # NoRow /\ k = "o2" => Classes!Scores(k, v) =
                 (IF v < Oxygen.high1 THEN {}
                  ELSE {[num |-> v - Oxygen.high1, den |-> Oxygen.high2 - Oxygen.high1]}) \cup
                 (IF v > Oxygen.low1 THEN {}
                  ELSE {[num |-> Oxygen.low1 - v, den |-> Oxygen.low1 - Oxygen.low2]})
<1>1. v = NoRow => Classes!Scores(k, v) = {}
    BY DEF Classes!Scores
<1>2. ASSUME v # NoRow, k # "o2"
      PROVE  Classes!Scores(k, v) =
                 IF v < Limits[k].caution THEN {}
                 ELSE {[num |-> v - Limits[k].caution,
                        den |-> Limits[k].danger - Limits[k].caution]}
  <2> DEFINE l == GenLimit(k, "over", Limits[k])
  <2>1. Classes!Candidates(k) = {l}
      BY <1>2, CandidatesAre
  <2>2. l.operator = "over" /\ l.caution = Limits[k].caution /\ l.danger = Limits[k].danger
      BY DEF GenLimit
  <2> HIDE DEF l
  <2>3. Classes!Scores(k, v) = Classes!Score(l, v)
      BY <1>2, <2>1 DEF Classes!Scores
  <2> QED BY <2>2, <2>3 DEF Classes!Score
<1>3. ASSUME v # NoRow, k = "o2"
      PROVE  Classes!Scores(k, v) =
                 (IF v < Oxygen.high1 THEN {}
                  ELSE {[num |-> v - Oxygen.high1, den |-> Oxygen.high2 - Oxygen.high1]}) \cup
                 (IF v > Oxygen.low1 THEN {}
                  ELSE {[num |-> Oxygen.low1 - v, den |-> Oxygen.low1 - Oxygen.low2]})
  <2> DEFINE h == GenLimit("o2", "over", [caution |-> Oxygen.high1, danger |-> Oxygen.high2])
             l == GenLimit("o2", "under", [caution |-> Oxygen.low1, danger |-> Oxygen.low2])
  <2>1. Classes!Candidates(k) = {h, l}
      BY <1>3, CandidatesAre
  <2>2. /\ h.operator = "over" /\ h.caution = Oxygen.high1 /\ h.danger = Oxygen.high2
        /\ l.operator = "under" /\ l.caution = Oxygen.low1 /\ l.danger = Oxygen.low2
      BY DEF GenLimit
  <2> HIDE DEF h, l
  <2>3. Classes!Scores(k, v) = Classes!Score(h, v) \cup Classes!Score(l, v)
      BY <1>3, <2>1 DEF Classes!Scores
  <2>4. Classes!Score(h, v) =
          IF v < Oxygen.high1 THEN {}
          ELSE {[num |-> v - Oxygen.high1, den |-> Oxygen.high2 - Oxygen.high1]}
      BY <2>2 DEF Classes!Score
  <2>5. Classes!Score(l, v) =
          IF v > Oxygen.low1 THEN {}
          ELSE {[num |-> Oxygen.low1 - v, den |-> Oxygen.low1 - Oxygen.low2]}
      BY <2>2 DEF Classes!Score
  <2> QED BY <2>3, <2>4, <2>5
<1> QED BY <1>1, <1>2, <1>3

\* A gas has at most one score; it has one if it is not normal, and the score tells
\* its status, except of oxygen at one of its limits.
LEMMA ScoresTell ==
    ASSUME NEW k \in GasKeys, NEW v \in Int \cup {NoRow}
    PROVE  /\ Classes!Scores(k, v) \subseteq Fraction
           /\ \A x, y \in Classes!Scores(k, v) : x = y
           /\ Classes!StatusOf(k, v) # "normal" => Classes!Scores(k, v) # {}
           /\ (k = "o2" => v \notin {Oxygen.low2, Oxygen.low1, Oxygen.high1})
              => \A x \in Classes!Scores(k, v) :
                    Classes!StatusOf(k, v) = IF x.num >= x.den THEN "danger" ELSE "caution"
<1>1. CASE v = NoRow
    BY <1>1, ScoresAre DEF Classes!StatusOf
<1>2. CASE v # NoRow /\ k # "o2" /\ v < Limits[k].caution
  <2>1. Classes!Scores(k, v) = {}
      BY <1>2, ScoresAre
  <2>2. Classes!StatusOf(k, v) = "normal"
      BY <1>2, GasFacts DEF Classes!StatusOf
  <2> QED BY <2>1, <2>2
<1>3. CASE v # NoRow /\ k # "o2" /\ ~(v < Limits[k].caution)
  <2> DEFINE x == [num |-> v - Limits[k].caution, den |-> Limits[k].danger - Limits[k].caution]
  <2>1. Classes!Scores(k, v) = {x}
      BY <1>3, ScoresAre
  <2>2. /\ x.num = v - Limits[k].caution /\ x.den = Limits[k].danger - Limits[k].caution
        /\ x \in Fraction
      BY <1>3, GasFacts DEF Fraction
  <2> HIDE DEF x
  <2>3. Classes!StatusOf(k, v) = IF x.num >= x.den THEN "danger" ELSE "caution"
      BY <1>3, <2>2, GasFacts DEF Classes!StatusOf
  <2> QED BY <2>1, <2>2, <2>3
<1>4. CASE v # NoRow /\ k = "o2" /\ v < Oxygen.high1 /\ v > Oxygen.low1
  <2>1. Classes!Scores(k, v) = {}
      BY <1>4, ScoresAre
  <2>2. Classes!StatusOf(k, v) = "normal"
      BY <1>4, GasFacts DEF Classes!StatusOf
  <2> QED BY <2>1, <2>2
<1>5. CASE v # NoRow /\ k = "o2" /\ ~(v < Oxygen.high1)
  <2> DEFINE x == [num |-> v - Oxygen.high1, den |-> Oxygen.high2 - Oxygen.high1]
  <2>1. Classes!Scores(k, v) = {x}
      BY <1>5, ScoresAre, GasFacts
  <2>2. /\ x.num = v - Oxygen.high1 /\ x.den = Oxygen.high2 - Oxygen.high1
        /\ x \in Fraction
      BY <1>5, GasFacts DEF Fraction
  <2> HIDE DEF x
  <2>3. v # Oxygen.high1 =>
          Classes!StatusOf(k, v) = IF x.num >= x.den THEN "danger" ELSE "caution"
      BY <1>5, <2>2, GasFacts DEF Classes!StatusOf
  <2>4. (k = "o2" => v \notin {Oxygen.low2, Oxygen.low1, Oxygen.high1}) => v # Oxygen.high1
      BY <1>5
  <2>5. ASSUME k = "o2" => v \notin {Oxygen.low2, Oxygen.low1, Oxygen.high1},
               NEW y \in Classes!Scores(k, v)
        PROVE  Classes!StatusOf(k, v) = IF y.num >= y.den THEN "danger" ELSE "caution"
    <3>1. y = x
        BY <2>1, <2>5
    <3>2. Classes!StatusOf(k, v) = IF x.num >= x.den THEN "danger" ELSE "caution"
        BY <2>3, <2>4, <2>5
    <3> QED BY <3>1, <3>2
  <2>6. /\ Classes!Scores(k, v) \subseteq Fraction /\ Classes!Scores(k, v) # {}
        /\ \A y, z \in Classes!Scores(k, v) : y = z
      BY <2>1, <2>2
  <2> QED BY <2>5, <2>6
<1>6. CASE v # NoRow /\ k = "o2" /\ v < Oxygen.high1 /\ ~(v > Oxygen.low1)
  <2> DEFINE x == [num |-> Oxygen.low1 - v, den |-> Oxygen.low1 - Oxygen.low2]
  <2>1. Classes!Scores(k, v) = {x}
      BY <1>6, ScoresAre, GasFacts
  <2>2. /\ x.num = Oxygen.low1 - v /\ x.den = Oxygen.low1 - Oxygen.low2
        /\ x \in Fraction
      BY <1>6, GasFacts DEF Fraction
  <2> HIDE DEF x
  <2>3. v # Oxygen.low1 /\ v # Oxygen.low2 =>
          Classes!StatusOf(k, v) = IF x.num >= x.den THEN "danger" ELSE "caution"
      BY <1>6, <2>2, GasFacts DEF Classes!StatusOf
  <2>4. (k = "o2" => v \notin {Oxygen.low2, Oxygen.low1, Oxygen.high1}) =>
          v # Oxygen.low1 /\ v # Oxygen.low2
      BY <1>6
  <2>5. ASSUME k = "o2" => v \notin {Oxygen.low2, Oxygen.low1, Oxygen.high1},
               NEW y \in Classes!Scores(k, v)
        PROVE  Classes!StatusOf(k, v) = IF y.num >= y.den THEN "danger" ELSE "caution"
    <3>1. y = x
        BY <2>1, <2>5
    <3>2. Classes!StatusOf(k, v) = IF x.num >= x.den THEN "danger" ELSE "caution"
        BY <2>3, <2>4, <2>5
    <3> QED BY <3>1, <3>2
  <2>6. /\ Classes!Scores(k, v) \subseteq Fraction /\ Classes!Scores(k, v) # {}
        /\ \A y, z \in Classes!Scores(k, v) : y = z
      BY <2>1, <2>2
  <2> QED BY <2>5, <2>6
<1> QED BY <1>1, <1>2, <1>3, <1>4, <1>5, <1>6

\* No cause so far, or a gas and its score.
NoCause == [key |-> NoRow, score |-> NoRow]
Cause == {NoCause} \cup [key : GasKeys, score : Fraction]

LEMMA KeysAreNames == NoRow \notin GasKeys
BY ReadingAssumption DEF GasKeys

LEMMA NoCauseKey ==
    /\ NoCause.key = NoRow
    /\ \A b \in Cause : b.key = NoRow \/ (b.key \in GasKeys /\ b.score \in Fraction)
<1>1. NoCause.key = NoRow
    BY DEF NoCause
<1>3. \A b \in Cause : b = NoCause \/ b \in [key : GasKeys, score : Fraction]
    BY DEF Cause
<1>4. ASSUME NEW b \in Cause
      PROVE  b.key = NoRow \/ (b.key \in GasKeys /\ b.score \in Fraction)
  <2>1. CASE b = NoCause
      BY <1>1, <2>1
  <2>2. CASE b \in [key : GasKeys, score : Fraction]
      BY <2>2
  <2> QED BY <1>3, <1>4, <2>1, <2>2
<1> QED BY <1>1, <1>4

\* One round of identify_worst_gas: the cause stays unless the gas has gone farther.
LEMMA WorseIs ==
    ASSUME NEW best \in Cause, NEW k \in GasKeys, NEW v \in Int \cup {NoRow}
    PROVE  LET r == Classes!Worse(best, k, v) IN
           \/ /\ r = best
              /\ \A x \in Classes!Scores(k, v) :
                    best.key # NoRow /\ ~Classes!Less(best.score, x)
           \/ \E x \in Classes!Scores(k, v) :
                 /\ r = [key |-> k, score |-> x]
                 /\ best.key = NoRow \/ Classes!Less(best.score, x)
<1> DEFINE X == Classes!Scores(k, v)
           y == CHOOSE x \in X : \A z \in X : ~Classes!Less(x, z)
<1>1. CASE \E x \in X : best.key = NoRow \/ Classes!Less(best.score, x)
  <2>1. PICK x \in X : best.key = NoRow \/ Classes!Less(best.score, x)
      BY <1>1
  <2>2. x \in Fraction /\ X = {x}
      BY <2>1, ScoresTell
  <2>3. ~Classes!Less(x, x)
      BY <2>2 DEF Classes!Less, Fraction
  <2> HIDE DEF X
  <2>4. y = x
      BY <2>2, <2>3
  <2>5. Classes!Worse(best, k, v) = [key |-> k, score |-> y]
      BY <1>1 DEF Classes!Worse, X
  <2> HIDE DEF y
  <2> QED BY <2>1, <2>4, <2>5 DEF X
<1>2. CASE ~\E x \in X : best.key = NoRow \/ Classes!Less(best.score, x)
  <2>1. Classes!Worse(best, k, v) = best
      BY <1>2 DEF Classes!Worse
  <2> QED BY <1>2, <2>1
<1> QED BY <1>1, <1>2

LEMMA WorseType ==
    ASSUME NEW best \in Cause, NEW k \in GasKeys, NEW v \in Int \cup {NoRow}
    PROVE  Classes!Worse(best, k, v) \in Cause
<1>1. CASE Classes!Worse(best, k, v) = best
    BY <1>1
<1>2. CASE \E x \in Classes!Scores(k, v) : Classes!Worse(best, k, v) = [key |-> k, score |-> x]
    BY <1>2, ScoresTell DEF Cause
<1> QED BY <1>1, <1>2, WorseIs

\* identify_worst_gas is a loop too.
LEMMA WorstGasIsLoop ==
    ASSUME NEW reading \in Reading
    PROVE  \E w \in [0 .. Len(Keys) -> Cause] :
             /\ w[0] = NoCause
             /\ \A n \in 1 .. Len(Keys) :
                   w[n] = Classes!Worse(w[n - 1], Keys[n], reading[Keys[n]])
             /\ Classes!WorstGas(reading) = w[Len(Keys)].key
<1> DEFINE N == Len(Keys)
           Step(f) == [n \in 0 .. N |-> IF n = 0 THEN [key |-> NoRow, score |-> NoRow]
                                        ELSE Classes!Worse(f[n - 1], Keys[n], reading[Keys[n]])]
           best == CHOOSE f : f = Step(f)
           g == [p \in (1 .. N) \X Cause |-> Classes!Worse(p[2], Keys[p[1]], reading[Keys[p[1]]])]
<1>1. Classes!WorstGas(reading) = best[N].key
    BY DEF Classes!WorstGas
<1>2. N \in Nat
    BY ReadingAssumption
<1>3. g \in [(1 .. N) \X Cause -> Cause]
    BY WorseType, KeyAt
<1>4. \A n \in 1 .. N, s \in Cause :
         g[<<n, s>>] = Classes!Worse(s, Keys[n], reading[Keys[n]])
    OBVIOUS
<1>5. NoCause \in Cause
    BY DEF Cause
<1>5a. \A n \in 1 .. N : Keys[n] \in GasKeys /\ reading[Keys[n]] \in Int \cup {NoRow}
    BY KeyAt
<1> HIDE DEF g, N
<1>6. PICK f : IsRun(f, N, Cause, NoCause, g)
    BY <1>2, <1>3, <1>5, Iteration
<1>6a. /\ f \in [0 .. N -> Cause] /\ f[0] = NoCause
       /\ \A n \in 1 .. N : f[n] = g[<<n, f[n - 1]>>]
    BY <1>6 DEF IsRun
<1>7. f = Step(f)
  <2>1. \A n \in 0 .. N : f[n] = Step(f)[n]
    <3> SUFFICES ASSUME NEW n \in 0 .. N PROVE f[n] = Step(f)[n]
        OBVIOUS
    <3>1. CASE n = 0
        BY <3>1, <1>6a DEF NoCause
    <3>2. CASE n # 0
      <4>1. n \in 1 .. N /\ n - 1 \in 0 .. N
          BY <3>2, <1>2
      <4>2. f[n] = Classes!Worse(f[n - 1], Keys[n], reading[Keys[n]])
          BY <4>1, <1>4, <1>6a
      <4> QED BY <4>2, <3>2
    <3> QED BY <3>1, <3>2
  <2> QED BY <2>1, <1>6a
<1>8. best = Step(best)
    BY <1>7
<1> HIDE DEF best
<1>9. /\ best[0] = NoCause
      /\ \A n \in 1 .. N : best[n] = Classes!Worse(best[n - 1], Keys[n], reading[Keys[n]])
      /\ DOMAIN best = 0 .. N
  <2>1. DOMAIN best = 0 .. N /\ \A n \in 0 .. N : best[n] = Step(best)[n]
      BY <1>8
  <2>2. best[0] = NoCause
    <3>1. 0 \in 0 .. N
        BY <1>2
    <3> QED BY <2>1, <3>1 DEF NoCause
  <2>3. ASSUME NEW n \in 1 .. N
        PROVE  best[n] = Classes!Worse(best[n - 1], Keys[n], reading[Keys[n]])
    <3>1. n \in 0 .. N /\ n # 0
        BY <1>2
    <3> QED BY <3>1, <2>1
  <2> QED BY <2>1, <2>2, <2>3
<1>10. best \in [0 .. N -> Cause]
  <2> DEFINE S == {n \in 0 .. N : best[n] \in Cause}
  <2>1. 0 \in S
      BY <1>9, <1>5, <1>2
  <2>2. ASSUME NEW n \in 1 .. N, n - 1 \in S PROVE n \in S
    <3>1. best[n] \in Cause
        BY <2>2, <1>9, <1>5a, WorseType
    <3> QED BY <3>1, <1>2
  <2>3. \A n \in 0 .. N : n \in S
      BY <2>1, <2>2, <1>2, Prefixes
  <2>4. best = [n \in 0 .. N |-> best[n]]
      BY <1>8
  <2> QED BY <2>3, <2>4
<1> QED BY <1>1, <1>9, <1>10 DEF N

\* Who has gone farther than another that is past danger is past danger too.
LEMMA DangerIsFarther ==
    ASSUME NEW a \in Fraction, NEW b \in Fraction
    PROVE  /\ ~Classes!Less(a, b) /\ b.num >= b.den => a.num >= a.den
           /\ Classes!Less(a, b) /\ a.num >= a.den => b.num >= b.den
<1>0. /\ a.num \in Nat /\ a.den \in Nat \ {0} /\ b.num \in Nat /\ b.den \in Nat \ {0}
    BY DEF Fraction
<1>1. ASSUME NEW i \in Nat, NEW j \in Nat \ {0}, NEW m \in Nat, NEW n \in Nat \ {0},
             m >= n, i < j
      PROVE  i * n < m * j
  <2>1. i * n <= m * i
    <3>1. n * i <= m * i
        BY <1>1, Monotone
    <3>2. n * i = i * n
        OBVIOUS
    <3> QED BY <3>1, <3>2
  <2>2. m * i < m * j
    <3>1. (i + 1) * m <= j * m
        BY <1>1, Monotone
    <3>2. (i + 1) * m = m * i + m /\ j * m = m * j /\ m > 0 /\ m * i \in Nat /\ m * j \in Nat
        BY <1>1
    <3> QED BY <3>1, <3>2
  <2> QED BY <2>1, <2>2
<1>2. ASSUME ~Classes!Less(a, b), b.num >= b.den, a.num < a.den PROVE FALSE
  <2>1. a.num * b.den < b.num * a.den
      BY <1>0, <1>1, <1>2
  <2> QED BY <1>2, <2>1 DEF Classes!Less
<1>3. ASSUME Classes!Less(a, b), a.num >= a.den, b.num < b.den PROVE FALSE
  <2>1. b.num * a.den < a.num * b.den
      BY <1>0, <1>1, <1>3
  <2>2. a.num * b.den < b.num * a.den
      BY <1>3 DEF Classes!Less
  <2>3. a.num * b.den \in Nat /\ b.num * a.den \in Nat
      BY <1>0
  <2> QED BY <2>1, <2>2, <2>3
<1> QED BY <1>0, <1>2, <1>3

\* identify_worst_gas: if a gas has a score there is a cause, and the cause is past
\* danger if any gas is.
LEMMA WorstGasIsFarthest ==
    ASSUME NEW reading \in Reading
    PROVE  LET c == Classes!WorstGas(reading) IN
           /\ c = NoRow => \A k \in GasKeys : Classes!Scores(k, reading[k]) = {}
           /\ c # NoRow =>
                /\ c \in GasKeys
                /\ \E x \in Classes!Scores(c, reading[c]) :
                     \A k \in GasKeys : \A y \in Classes!Scores(k, reading[k]) :
                        y.num >= y.den => x.num >= x.den
<1> DEFINE c == Classes!WorstGas(reading)
           X(n) == Classes!Scores(Keys[n], reading[Keys[n]])
<1>1. PICK w \in [0 .. Len(Keys) -> Cause] :
         /\ w[0] = NoCause
         /\ \A n \in 1 .. Len(Keys) :
               w[n] = Classes!Worse(w[n - 1], Keys[n], reading[Keys[n]])
         /\ Classes!WorstGas(reading) = w[Len(Keys)].key
    BY WorstGasIsLoop
<1>2. Len(Keys) \in Nat /\ DOMAIN Keys = 1 .. Len(Keys)
    BY ReadingAssumption
<1> DEFINE S == {n \in 0 .. Len(Keys) :
                   /\ w[n].key = NoRow => \A i \in 1 .. n : X(i) = {}
                   /\ w[n].key # NoRow =>
                        /\ w[n].key \in GasKeys /\ w[n].score \in Fraction
                        /\ w[n].score \in Classes!Scores(w[n].key, reading[w[n].key])
                        /\ \A i \in 1 .. n : \A y \in X(i) :
                              y.num >= y.den => w[n].score.num >= w[n].score.den}
<1>3. 0 \in S
    BY <1>1, <1>2, NoCauseKey
<1>4. \A n \in 1 .. Len(Keys) : n - 1 \in S => n \in S
  <2> SUFFICES ASSUME NEW n \in 1 .. Len(Keys), n - 1 \in S PROVE n \in S
      OBVIOUS
  <2>0. n - 1 \in 0 .. Len(Keys) /\ n \in 0 .. Len(Keys)
      BY <1>2
  <2>1. /\ w[n - 1].key = NoRow => \A i \in 1 .. n - 1 : X(i) = {}
        /\ w[n - 1].key # NoRow =>
             /\ w[n - 1].key \in GasKeys /\ w[n - 1].score \in Fraction
             /\ w[n - 1].score \in Classes!Scores(w[n - 1].key, reading[w[n - 1].key])
             /\ \A i \in 1 .. n - 1 : \A y \in X(i) :
                   y.num >= y.den => w[n - 1].score.num >= w[n - 1].score.den
      OBVIOUS
  <2>2. /\ Keys[n] \in GasKeys /\ reading[Keys[n]] \in Int \cup {NoRow}
        /\ w[n - 1] \in Cause /\ w[n] = Classes!Worse(w[n - 1], Keys[n], reading[Keys[n]])
        /\ X(n) \subseteq Fraction
        /\ \A x, y \in X(n) : x = y
      BY <1>1, <2>0, KeyAt, ScoresTell
  <2>3. \A i \in 1 .. n : i = n \/ i \in 1 .. n - 1
      OBVIOUS
  <2>4. \/ /\ w[n] = w[n - 1]
           /\ \A x \in X(n) : w[n - 1].key # NoRow /\ ~Classes!Less(w[n - 1].score, x)
        \/ \E x \in X(n) :
              /\ w[n] = [key |-> Keys[n], score |-> x]
              /\ w[n - 1].key = NoRow \/ Classes!Less(w[n - 1].score, x)
      BY <2>2, WorseIs
  <2>5. CASE /\ w[n] = w[n - 1]
             /\ \A x \in X(n) : w[n - 1].key # NoRow /\ ~Classes!Less(w[n - 1].score, x)
    <3>1. w[n].key = NoRow => \A i \in 1 .. n : X(i) = {}
        BY <2>1, <2>3, <2>5
    <3>2. ASSUME w[n].key # NoRow
          PROVE  \A i \in 1 .. n : \A y \in X(i) :
                    y.num >= y.den => w[n].score.num >= w[n].score.den
      <4>1. \A y \in X(n) : y.num >= y.den => w[n].score.num >= w[n].score.den
          BY <2>1, <2>2, <2>5, <3>2, DangerIsFarther
      <4> HIDE DEF X
      <4> QED BY <2>1, <2>3, <2>5, <3>2, <4>1
    <3> QED BY <2>0, <2>1, <2>5, <3>1, <3>2
  <2>6. CASE \E x \in X(n) :
                /\ w[n] = [key |-> Keys[n], score |-> x]
                /\ w[n - 1].key = NoRow \/ Classes!Less(w[n - 1].score, x)
    <3>1. PICK x \in X(n) : /\ w[n] = [key |-> Keys[n], score |-> x]
                            /\ w[n - 1].key = NoRow \/ Classes!Less(w[n - 1].score, x)
        BY <2>6
    <3>2. /\ w[n].key = Keys[n] /\ w[n].score = x /\ x \in Fraction /\ w[n].key # NoRow
          /\ w[n].score \in Classes!Scores(w[n].key, reading[w[n].key])
        BY <2>2, <3>1, KeysAreNames
    <3>3. \A y \in X(n) : y.num >= y.den => w[n].score.num >= w[n].score.den
        BY <2>2, <3>2
    <3>4. ASSUME NEW i \in 1 .. n - 1, NEW y \in X(i), y.num >= y.den
          PROVE  w[n].score.num >= w[n].score.den
      <4>1. w[n - 1].key # NoRow /\ w[n - 1].score \in Fraction
            /\ w[n - 1].score.num >= w[n - 1].score.den
          BY <2>1, <3>4
      <4>2. Classes!Less(w[n - 1].score, x)
          BY <3>1, <4>1
      <4> QED BY <3>2, <4>1, <4>2, DangerIsFarther
    <3>5. \A i \in 1 .. n : \A y \in X(i) :
             y.num >= y.den => w[n].score.num >= w[n].score.den
      <4> HIDE DEF X
      <4> QED BY <2>3, <3>3, <3>4
    <3> QED BY <2>0, <2>2, <3>2, <3>5
  <2> QED BY <2>4, <2>5, <2>6
<1>5. Len(Keys) \in S
  <2> DEFINE N == Len(Keys)
  <2> HIDE DEF S, N
  <2>1. \A n \in 0 .. N : n \in S
      BY <1>2, <1>3, <1>4, Prefixes DEF N
  <2> QED BY <1>2, <2>1 DEF N
<1> DEFINE last == w[Len(Keys)]
<1>6. /\ last.key = NoRow => \A i \in 1 .. Len(Keys) : X(i) = {}
      /\ last.key # NoRow =>
           /\ last.key \in GasKeys
           /\ last.score \in Classes!Scores(last.key, reading[last.key])
           /\ \A i \in 1 .. Len(Keys) : \A y \in X(i) :
                 y.num >= y.den => last.score.num >= last.score.den
    BY <1>5
<1> HIDE DEF S
<1>7. \A k \in GasKeys : \E i \in 1 .. Len(Keys) : k = Keys[i]
    BY <1>2 DEF GasKeys
<1>8. c = last.key
    BY <1>1
<1> HIDE DEF c, last
<1>9. ASSUME c = NoRow, NEW k \in GasKeys PROVE Classes!Scores(k, reading[k]) = {}
    BY <1>6, <1>7, <1>8, <1>9
<1>10. ASSUME c # NoRow
       PROVE  /\ c \in GasKeys
              /\ \E x \in Classes!Scores(c, reading[c]) :
                   \A k \in GasKeys : \A y \in Classes!Scores(k, reading[k]) :
                      y.num >= y.den => x.num >= x.den
  <2>1. \A k \in GasKeys : \A y \in Classes!Scores(k, reading[k]) :
           y.num >= y.den => last.score.num >= last.score.den
      BY <1>6, <1>7, <1>8, <1>10
  <2> QED BY <1>6, <1>8, <1>10, <2>1
<1> QED BY <1>9, <1>10 DEF c

\* CauseIsNamed, of any reading.
LEMMA CauseIsNamedHolds ==
    ASSUME gas \in Reading
    PROVE  Classes!CauseIsNamed
<1> DEFINE c == Classes!ClassifyGas(gas)
           g == Classes!WorstGas(gas)
<1> SUFFICES ASSUME c # "normal", gas["o2"] \notin {Oxygen.low2, Oxygen.low1, Oxygen.high1}
             PROVE  g # NoRow /\ Classes!StatusOf(g, gas[g]) = c
    BY DEF Classes!CauseIsNamed
<1>1. /\ c \in Status
      /\ \E k \in GasKeys : c = Classes!StatusOf(k, gas[k])
      /\ \A k \in GasKeys : Classes!Rank(Classes!StatusOf(k, gas[k])) <= Classes!Rank(c)
    BY ClassifyGasIsWorst
<1>2. PICK k \in GasKeys : c = Classes!StatusOf(k, gas[k])
    BY <1>1
<1>3. \A j \in GasKeys : gas[j] \in Int \cup {NoRow}
    BY DEF Reading
<1>3a. \A j \in GasKeys : j = "o2" => gas[j] \notin {Oxygen.low2, Oxygen.low1, Oxygen.high1}
    OBVIOUS
<1>3b. \A j \in GasKeys : \A y \in Classes!Scores(j, gas[j]) :
          Classes!StatusOf(j, gas[j]) = IF y.num >= y.den THEN "danger" ELSE "caution"
  <2> SUFFICES ASSUME NEW j \in GasKeys, NEW y \in Classes!Scores(j, gas[j])
               PROVE  Classes!StatusOf(j, gas[j]) = IF y.num >= y.den THEN "danger" ELSE "caution"
      OBVIOUS
  <2>1. gas[j] \in Int \cup {NoRow}
      BY <1>3
  <2> DEFINE v == gas[j]
  <2>2. j = "o2" => v \notin {Oxygen.low2, Oxygen.low1, Oxygen.high1}
      BY <1>3a
  <2> HIDE DEF v
  <2>3. v \in Int \cup {NoRow} /\ y \in Classes!Scores(j, v)
      BY <2>1 DEF v
  <2>4. Classes!StatusOf(j, v) = IF y.num >= y.den THEN "danger" ELSE "caution"
      BY <2>2, <2>3, ScoresTell
  <2> QED BY <2>4 DEF v
<1>4. /\ g = NoRow => \A j \in GasKeys : Classes!Scores(j, gas[j]) = {}
      /\ g # NoRow =>
           /\ g \in GasKeys
           /\ \E x \in Classes!Scores(g, gas[g]) :
                \A j \in GasKeys : \A y \in Classes!Scores(j, gas[j]) :
                   y.num >= y.den => x.num >= x.den
    BY WorstGasIsFarthest
<1> HIDE DEF c, g
<1>5. Classes!Scores(k, gas[k]) # {}
    BY <1>2, <1>3, ScoresTell
<1>6. g # NoRow /\ g \in GasKeys
    BY <1>4, <1>5
<1>7. PICK x \in Classes!Scores(g, gas[g]) :
         \A j \in GasKeys : \A y \in Classes!Scores(j, gas[j]) : y.num >= y.den => x.num >= x.den
    BY <1>4, <1>6
<1>8. Classes!StatusOf(g, gas[g]) = IF x.num >= x.den THEN "danger" ELSE "caution"
    BY <1>3b, <1>6, <1>7
<1>9. CASE c = "danger"
  <2>1. PICK y \in Classes!Scores(k, gas[k]) : TRUE
      BY <1>5
  <2>2. "danger" = IF y.num >= y.den THEN "danger" ELSE "caution"
      BY <1>2, <1>3b, <1>9, <2>1
  <2> QED BY <1>6, <1>7, <1>8, <1>9, <2>1, <2>2
<1>10. CASE c = "caution"
  <2>1. Classes!Rank(Classes!StatusOf(g, gas[g])) <= 1
      BY <1>1, <1>6, <1>10, RankIs
  <2>2. Classes!StatusOf(g, gas[g]) # "danger"
      BY <2>1, RankIs
  <2> QED BY <1>6, <1>8, <1>10, <2>2
<1> QED BY <1>1, <1>9, <1>10 DEF Status

LEMMA SameCountOfSamples == \A S : Classes!Cardinality(S) = Cardinality(S)
BY DEF Classes!Cardinality, Cardinality, Classes!IsFiniteSet, IsFiniteSet

Rated == Classes!Min(Watts)
Usual(s) == {i \in DOMAIN s : s[i] = Rated}

LEMMA RatedIsLeast ==
    Rated \in Watts /\ Rated \in Nat \ {0} /\ \A w \in Watts : w \in Nat /\ Rated <= w
<1>1. Watts \in SUBSET Nat /\ Watts # {} /\ Watts \subseteq Nat \ {0}
    BY PowerAssumption
<1>2. PICK m \in Watts : \A n \in Watts : m <= n
    BY <1>1, Smallest
<1>3. \A x \in Watts : (\A y \in Watts : x <= y) => x = m
    BY <1>1, <1>2
<1>4. Rated = m
    BY <1>2, <1>3 DEF Rated, Classes!Min
<1> QED BY <1>1, <1>2, <1>4

\* As many samples have the least value as one counts from below: that value it is.
LEMMA LowRanksAreRated ==
    ASSUME NEW s \in Seq(Watts), NEW k \in Nat \ {0}, k <= Cardinality(Usual(s))
    PROVE  Classes!AtRank(s, k) = Rated
<1> DEFINE Below(v) == {i \in DOMAIN s : s[i] < v}
           UpTo(v) == {i \in DOMAIN s : s[i] <= v}
<1>1. /\ DOMAIN s = 1 .. Len(s) /\ Len(s) \in Nat /\ IsFiniteSet(DOMAIN s)
      /\ \A i \in DOMAIN s : s[i] \in Watts
  <2>1. DOMAIN s = 1 .. Len(s) /\ Len(s) \in Nat
      OBVIOUS
  <2> QED BY <2>1, FS_Interval
<1>2. /\ IsFiniteSet(Usual(s)) /\ Cardinality(Usual(s)) \in Nat
      /\ \A v : /\ IsFiniteSet(Below(v)) /\ Cardinality(Below(v)) \in Nat
                /\ IsFiniteSet(UpTo(v)) /\ Cardinality(UpTo(v)) \in Nat
  <2>1. /\ Usual(s) \subseteq DOMAIN s
        /\ \A v : Below(v) \subseteq DOMAIN s /\ UpTo(v) \subseteq DOMAIN s
      BY DEF Usual
  <2> HIDE DEF Below, UpTo
  <2> QED BY <1>1, <2>1, FS_Subset, FS_CardinalityType
<1>3. Below(Rated) = {} /\ UpTo(Rated) = Usual(s)
  <2>1. \A i \in DOMAIN s : s[i] \in Nat /\ Rated <= s[i] /\ Rated \in Nat
      BY <1>1, RatedIsLeast
  <2> QED BY <2>1 DEF Usual
<1>4. \A v \in Watts : v # Rated => Usual(s) \subseteq Below(v)
  <2>1. \A v \in Watts : v # Rated => Rated < v
      BY RatedIsLeast
  <2> QED BY <2>1 DEF Usual
<1>5. /\ Cardinality(Below(Rated)) < k /\ Cardinality(UpTo(Rated)) >= k
  <2>1. Cardinality({}) = 0
      BY FS_EmptySet
  <2> HIDE DEF Below, UpTo
  <2> QED BY <1>2, <1>3, <2>1
<1>6. ASSUME NEW v \in Watts, v # Rated, Cardinality(Below(v)) < k PROVE FALSE
  <2>1. Cardinality(Usual(s)) <= Cardinality(Below(v))
      BY <1>2, <1>4, <1>6, FS_Subset
  <2>2. Cardinality(Usual(s)) \in Nat /\ Cardinality(Below(v)) \in Nat
      BY <1>2
  <2> HIDE DEF Below
  <2> QED BY <1>6, <2>1, <2>2
<1>7. Classes!ToSet(s) \subseteq Watts /\ Rated \in Classes!ToSet(s)
  <2>1. Usual(s) # {}
    <3> SUFFICES ASSUME Usual(s) = {} PROVE FALSE
        OBVIOUS
    <3>1. Cardinality(Usual(s)) = 0
        BY FS_EmptySet
    <3> QED BY <3>1
  <2>2. \E i \in DOMAIN s : s[i] = Rated
      BY <2>1 DEF Usual
  <2> QED BY <1>1, <2>2 DEF Classes!ToSet
<1>8. Classes!AtRank(s, k) =
        CHOOSE v \in Classes!ToSet(s) : Cardinality(Below(v)) < k /\ Cardinality(UpTo(v)) >= k
    BY SameCountOfSamples DEF Classes!AtRank
<1> HIDE DEF Below, UpTo
<1> QED BY <1>5, <1>6, <1>7, <1>8

\* SpikesChangeNothing, of any samples.
LEMMA SpikesHold ==
    ASSUME samples \in Seq(Watts)
    PROVE  Classes!SpikesChangeNothing
<1> DEFINE n == Len(samples)
           spikes == {i \in DOMAIN samples : samples[i] # Rated}
           r == Cardinality(Usual(samples))
<1> SUFFICES ASSUME n >= MinPower, 2 * Cardinality(spikes) < n
             PROVE  /\ Classes!ClassifyPower(Rated, samples) = "normal"
                    /\ \A w \in Watts : 4 * w > 9 * Rated =>
                          Classes!ClassifyPower(w, samples) = "danger"
    BY SameCountOfSamples DEF Classes!SpikesChangeNothing, Rated
<1>1. DOMAIN samples = 1 .. n /\ n \in Nat /\ n >= 1
    BY PowerAssumption
<1>2. r \in Nat /\ 2 * r > n
  <2>1. IsFiniteSet(DOMAIN samples) /\ Cardinality(DOMAIN samples) = n
      BY <1>1, FS_Interval
  <2>2. /\ spikes \subseteq DOMAIN samples /\ Usual(samples) = DOMAIN samples \ spikes
        /\ DOMAIN samples \cap spikes = spikes
      BY DEF Usual
  <2> HIDE DEF spikes
  <2>3. IsFiniteSet(spikes) /\ Cardinality(spikes) \in Nat
      BY <2>1, <2>2, FS_Subset, FS_CardinalityType
  <2>4. r = n - Cardinality(spikes)
    <3>1. Cardinality(DOMAIN samples \ spikes) =
              Cardinality(DOMAIN samples) - Cardinality(DOMAIN samples \cap spikes)
        BY <2>1, FS_Difference
    <3>2. r = Cardinality(DOMAIN samples \ spikes)
        BY <2>2
    <3>3. Cardinality(DOMAIN samples \cap spikes) = Cardinality(spikes)
        BY <2>2
    <3> QED BY <2>1, <3>1, <3>2, <3>3
  <2>5. r \in Nat
      BY <2>1, <2>2, FS_Subset, FS_CardinalityType
  <2> HIDE DEF r, n
  <2> QED BY <1>1, <2>3, <2>4, <2>5
<1> HIDE DEF spikes
<1>3. /\ (n + 1) \div 2 \in Nat \ {0} /\ (n + 1) \div 2 <= r
      /\ n \div 2 + 1 \in Nat \ {0} /\ n \div 2 + 1 <= r
  <2> HIDE DEF r, n
  <2> QED BY <1>1, <1>2
<1>4. Classes!Median2(samples) = 2 * Rated
  <2>1. Classes!AtRank(samples, (n + 1) \div 2) = Rated
      BY <1>3, LowRanksAreRated
  <2>2. Classes!AtRank(samples, n \div 2 + 1) = Rated
      BY <1>3, LowRanksAreRated
  <2>3. ~(n < MinPower)
      BY <1>1, PowerAssumption
  <2>4. Classes!Median2(samples) =
          Classes!AtRank(samples, (n + 1) \div 2) + Classes!AtRank(samples, n \div 2 + 1)
      BY <2>3 DEF Classes!Median2
  <2> QED BY <2>1, <2>2, <2>4, RatedIsLeast
<1>5. 2 * Rated # NoRow /\ 2 * Rated # 0 /\ Rated \in Nat
    BY RatedIsLeast, ReadingAssumption
<1>6. Classes!ClassifyPower(Rated, samples) = "normal"
    BY <1>4, <1>5, RatedIsLeast DEF Classes!ClassifyPower
<1>7. ASSUME NEW w \in Watts, 4 * w > 9 * Rated
      PROVE  Classes!ClassifyPower(w, samples) = "danger"
  <2>1. w \in Nat /\ 8 * w > 9 * (2 * Rated)
      BY <1>5, <1>7, RatedIsLeast
  <2> QED BY <1>4, <1>5, <2>1 DEF Classes!ClassifyPower
<1> QED BY <1>6, <1>7

\* Nothing but types is needed of the state: the rest is about the calculations.
ClassInv == gas \in Reading /\ samples \in Seq(Watts)

LEMMA ClassStep == ClassInv /\ [Next]_platformVars => ClassInv'
<1> SUFFICES ASSUME ClassInv, [Next]_platformVars PROVE ClassInv'
    OBVIOUS
<1>1. CASE UNCHANGED classVars
    BY <1>1 DEF ClassInv, classVars
<1>2. CASE Classes!Next
  <2>1. gas' = gas
      BY <1>2 DEF Classes!Next, Classes!Measure, Classes!Forget
  <2>2. CASE \E watt \in Watts : Classes!Measure(watt)
      BY <2>2 DEF ClassInv, Classes!Measure
  <2>3. CASE Classes!Forget
      BY <2>3 DEF ClassInv, Classes!Forget
  <2> QED BY <1>2, <2>1, <2>2, <2>3 DEF ClassInv, Classes!Next
<1> QED BY <1>1, <1>2 DEF Next, platformVars, PlayScenario, GenerateReadings, MeasurePower,
                          Learn, InjectSpikes, PushToDashboards, ShapeZone

\* Classification: for any gases, limits on which Django and the generator agree, any
\* readings and any samples, a reading is as bad as its worst value, the cause that an
\* alarm names is as bad as the alarm says, and spikes do not change what is normal
\* for a power device (classifiers.py:42-72, :85-87, generators.py:329-385).
THEOREM ReadingsStayClassified == Spec => []ReadingsAreClassified
<1>1. Init => ClassInv
  <2> SUFFICES ASSUME Init PROVE ClassInv
      OBVIOUS
  <2>1. gas \in Readings /\ samples = <<>>
      BY DEF Init, Classes!Init
  <2>2. gas \in Reading
      BY <2>1, ReadingAssumption DEF Reading, GasKeys
  <2>3. samples \in Seq(Watts)
      BY <2>1
  <2> QED BY <2>2, <2>3 DEF ClassInv
<1>2. ClassInv /\ [Next]_platformVars => ClassInv'
    BY ClassStep
<1>3. ClassInv => ReadingsAreClassified
    BY WorstDecidesHolds, CauseIsNamedHolds, SpikesHold DEF ClassInv, ReadingsAreClassified
<1> QED BY <1>1, <1>2, <1>3, PTL DEF Spec

-----------------------------------------------------------------------------
(* ZoneGeometry: what the cached distances still have in common with the    *)
(* places of the devices.                                                   *)

CacheInv ==
    /\ place \in [Placed -> Places]
    /\ cache # NoRow => \A s \in Placed \ moved : cache[s] = place[s]

\* Who is counted as a neighbour of the source is one, unless one of the two was
\* moved after the distances were loaded.
LEMMA ConfirmsNear ==
    ASSUME CacheInv, Geometry!Confirm, NEW s \in confirmed' \ confirmed
    PROVE  \/ Geometry!Square(place[s], place[Leak]) <= radius * radius
           \/ moved' \cap {s, Leak} # {}
<1> DEFINE loaded == IF cache = NoRow THEN place ELSE cache
<1>1. /\ moved' = IF cache = NoRow THEN {} ELSE moved
      /\ s \in Geometry!Neighbours(loaded, radius)
    BY DEF Geometry!Confirm
<1>2. s \in Placed /\ Geometry!Square(loaded[s], loaded[Leak]) <= radius * radius
    BY <1>1 DEF Geometry!Neighbours
<1>3. CASE cache = NoRow
    BY <1>2, <1>3
<1>4. CASE cache # NoRow /\ moved' \cap {s, Leak} = {}
  <2>1. cache[s] = place[s] /\ cache[Leak] = place[Leak]
      BY <1>1, <1>2, <1>4, LeakAssumption DEF CacheInv
  <2> QED BY <1>2, <1>4, <2>1
<1> QED BY <1>3, <1>4

LEMMA CacheStep == CacheInv /\ [Next]_platformVars => CacheInv'
<1> SUFFICES ASSUME CacheInv, [Next]_platformVars PROVE CacheInv'
    OBVIOUS
<1>1. CASE UNCHANGED geometryVars
    BY <1>1 DEF CacheInv, geometryVars
<1>2. CASE Geometry!Confirm
    BY <1>2 DEF CacheInv, Geometry!Confirm
<1>3. CASE Geometry!Invalidate
    BY <1>3 DEF CacheInv, Geometry!Invalidate
<1>4. CASE \E b \in BOOLEAN : Geometry!Grow(b)
    BY <1>4 DEF CacheInv, Geometry!Grow
<1>5. CASE \E s \in Placed, p \in Places : Geometry!MoveDevice(s, p)
  <2>1. PICK s \in Placed, p \in Places : Geometry!MoveDevice(s, p)
      BY <1>5
  <2>2. /\ place' = [place EXCEPT ![s] = p] /\ moved' = moved \cup {s} /\ cache' = cache
      BY <2>1 DEF Geometry!MoveDevice
  <2> QED BY <2>2 DEF CacheInv
<1> QED BY <1>1, <1>2, <1>3, <1>4, <1>5 DEF Geometry!Next, Next, platformVars,
        PlayScenario, GenerateReadings, MeasurePower,
        Learn, InjectSpikes, PushToDashboards, ShapeZone

\* Part of ZoneHasItsShape: a sensor confirms a leak only within the radius of the
\* zone, unless it or the source was moved after the distances were loaded
\* (devices/neighbor_graph.py:54-95).
THEOREM NeighboursConfirm == Spec => Geometry!ConfirmedNear
<1> DEFINE Near == \A s \in confirmed' \ confirmed :
                     \/ Geometry!Square(place[s], place[Leak]) <= radius * radius
                     \/ moved' \cap {s, Leak} # {}
<1>1. Init => CacheInv
    BY DEF Init, Geometry!Init, CacheInv
<1>2. CacheInv /\ [Next]_platformVars => CacheInv'
    BY CacheStep
<1>3. CacheInv /\ [Next]_platformVars => [Near]_(Geometry!geometryVars)
  <2> SUFFICES ASSUME CacheInv, [Next]_platformVars PROVE Near
      OBVIOUS
  <2>1. CASE Geometry!Confirm
      BY <2>1, ConfirmsNear
  <2>2. CASE confirmed' = confirmed
      BY <2>2
  <2> QED BY <2>1, <2>2 DEF Geometry!Next, Geometry!Invalidate, Geometry!Grow,
          Geometry!MoveDevice, Next, platformVars, geometryVars, PlayScenario,
          GenerateReadings, MeasurePower, Learn, InjectSpikes, PushToDashboards, ShapeZone
<1>4. Geometry!ConfirmedNear <=> [][Near]_(Geometry!geometryVars)
    BY DEF Geometry!ConfirmedNear
<1> HIDE DEF Near
<1> QED BY <1>1, <1>2, <1>3, <1>4, PTL DEF Spec

=============================================================================

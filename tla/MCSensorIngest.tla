--------------------------- MODULE MCSensorIngest ---------------------------
(* Model-checking instances of SensorIngest, two in one run: requests that   *)
(* overlap, fewer of them and with two kinds of reading, and requests one at *)
(* a time, with every kind of reading.                                       *)
EXTENDS SensorIngest, TLC

CONSTANTS
    FewReadings, \* bound: what POSTs carry when they overlap
    FewPosts,    \* bound: POSTs when they overlap
    ShortTime    \* bound: seconds when they overlap

VARIABLE single \* requests are served one at a time

PodSymmetry == Permutations(Pods)

Reading(s, diffuses) == [status |-> s, diffuses |-> diffuses]

\* Normal, caution, a leak and a danger that is none.
AllReadings ==
    {Reading("normal", TRUE), Reading("caution", TRUE), Reading("danger", TRUE),
     Reading("danger", FALSE)}

\* The swing between normal and a leak.
Swing == {Reading("normal", TRUE), Reading("danger", TRUE)}

AtMostOneServing == \A p, q \in Pods : pc[p] # "idle" /\ pc[q] # "idle" => p = q

Few ==
    /\ \A p \in Pods : pc[p] # "idle" => local[p].reading \in FewReadings
    /\ posts <= FewPosts
    /\ clock <= ShortTime

MCInit == Init /\ single \in BOOLEAN

MCNext ==
    /\ IF single THEN Next /\ AtMostOneServing' ELSE Next /\ Few'
    /\ UNCHANGED single

MCSpec == MCInit /\ [][MCNext]_<<vars, single>>

OverlapSpec == Init /\ single = FALSE /\ [][Next /\ UNCHANGED single]_<<vars, single>>

\* One request at a time: StatusIsLatest (devices/views.py:190-192).
StatusIsLatestInOrder == single => StatusIsLatest

=============================================================================

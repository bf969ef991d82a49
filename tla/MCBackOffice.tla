---------------------------- MODULE MCBackOffice ----------------------------
(***************************************************************************)
(* Small instances of the pages of the back office: each behaviour moves one *)
(* of its parts and leaves the others at rest, since they share no state.   *)
(***************************************************************************)
EXTENDS BackOffice

CONSTANTS
    gas, other, f1, f2, d1, d2, o1, o2, p1, p2, i1, i2,
    FewMapEdits  \* bound: requests about fences and devices

VARIABLE focus

SmallLimits ==
    {[operator |-> "over", caution |-> 1, danger |-> 2],
     [operator |-> "over", caution |-> 1, danger |-> 1],
     [operator |-> "under", caution |-> 1, danger |-> 0]}

Built == [c \in {gas, other} |->
            IF c = gas THEN NoRow ELSE [operator |-> "over", caution |-> 3, danger |-> 4]]

Danger == [type |-> "danger", covers |-> {1}]
Caution == [type |-> "caution", covers |-> {1, 2}]
TwoKinds == {Danger, Caution}

Line(d, at, isValid) == [device |-> d, place |-> at, valid |-> isValid]
TwoFiles == {<<Line(d1, 1, TRUE), Line(d2, 3, FALSE)>>, <<Line(d1, 3, TRUE)>>}

\* Both fences, or none; one device inside both, mapped to the milder one or not at all.
Surveyed ==
    /\ fences \in {[f \in {f1, f2} |-> NoRow],
                   [f \in {f1, f2} |-> [kind |-> IF f = f1 THEN Danger ELSE Caution,
                                        active |-> TRUE]]}
    /\ devices[d1] # NoRow /\ devices[d2] = NoRow
    /\ devices[d1].place = 1 /\ devices[d1].fence # f1

MCInit ==
    /\ focus \in {"people", "tables", "site", "images", "safety"}
    /\ Tables!Init /\ (focus # "tables" => family = "codes")
    /\ Safety!Init
    /\ People!Init /\ orgs[o2] = NoRow /\ people[p2] # NoRow /\ people[p2].org = Root
    /\ focus # "people" => orgs[o1] = NoRow /\ people[p1] = NoRow
    /\ Site!Init /\ Surveyed
    /\ focus # "site" => fences[f1] = NoRow
    /\ focus \notin {"site", "images"} => \A i \in {i1, i2} : images[i] = NoRow

\* Three requests are needed for an image to become the last active one between the
\* look and the deletion; with fences and devices they would be too many.
ImagesOnly ==
    /\ UNCHANGED <<fences, devices, job>>
    /\ \A q \in mapEdits' : q.kind # "device"

MCNext ==
    /\ UNCHANGED focus
    /\ \/ focus = "people" /\ EditPeople
       \/ focus = "tables" /\ EditTables
       \/ focus = "site" /\ EditSite /\ mapRequests' <= FewMapEdits
       \/ focus = "images" /\ EditSite /\ ImagesOnly
       \/ focus = "safety" /\ Train

MCSpec == MCInit /\ [][MCNext]_<<focus, backOfficeVars>>

=============================================================================

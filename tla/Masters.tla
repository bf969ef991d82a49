------------------------------ MODULE Masters ------------------------------
(***************************************************************************)
(* The reference data that administrators edit: codes, risk types, alarm    *)
(* levels and thresholds, each a table of groups with a table of items in   *)
(* them (alarm levels have no items), and the gas limits that the data      *)
(* generator copies from the thresholds every few seconds.                  *)
(* An edit loads the row and validates the form, then saves every column;   *)
(* two edits overlap between these steps.  A form is what passes the checks *)
(* of single fields: others change nothing.                                 *)
(***************************************************************************)
EXTENDS Integers

CONSTANTS
    None,
    Gas,       \* the code TH_GAS
    Groups,    \* ids of groups, among them ...
    Seeded,    \* ... the ones the system comes with
    Items,     \* ids of items
    Codes,     \* of groups and items
    Limits,    \* what a threshold may hold, [operator, caution, danger]
    Fallback,  \* the limits in the generator's source by code, or None
    MaxEdits   \* bound: requests

VARIABLES
    family,    \* which pair of tables this behaviour edits
    groups,    \* None or [code, active, system], by id
    items,     \* None or [group, code, active, limits], by id
    editing,   \* requests between validation and save
    inUse,     \* generators.GAS_THRESHOLDS
    released,  \* history: [code, limits] that were active at some time
    requests

masterVars == <<family, groups, items, editing, inUse, released, requests>>

Row(table) == {x \in DOMAIN table : table[x] # None}

\* CodeGroup, RiskCategory, AlarmLevel and ThresholdCategory: code is unique.
UniqueGroups(gs) == \A x, y \in Row(gs) : gs[x].code = gs[y].code => x = y

\* Code, RiskType and Threshold: the code is unique within the group.
UniqueItems(is) ==
    \A x, y \in Row(is) : is[x].group = is[y].group /\ is[x].code = is[y].code => x = y

Ordered(l) == IF l.operator = "over" THEN l.caution < l.danger ELSE l.danger < l.caution

\* What is active now, in an active category TH_GAS.
Released(gs, is) ==
    {[code |-> is[i].code, limits |-> is[i].limits] :
       i \in {j \in Row(is) : /\ is[j].active
                              /\ gs[is[j].group].active
                              /\ gs[is[j].group].code = Gas}}

Init ==
    /\ family \in {"codes", "risks", "levels", "thresholds"}
    /\ groups = [g \in Groups |-> IF g \in Seeded
                                  THEN [code |-> Gas, active |-> TRUE, system |-> TRUE] ELSE None]
    /\ items = [i \in Items |-> None]
    /\ editing = {}
    /\ inUse = Fallback
    /\ released = {}
    /\ requests = 0

Request ==
    /\ requests < MaxEdits
    /\ requests' = requests + 1

IsNew(table, x) == table[x] = None /\ \A q \in editing : q.id # x

-----------------------------------------------------------------------------
(* Forms.                                                                   *)

\* _MasterFormBase.clean_code and AlarmLevelForm.clean_code.
ValidGroup(g, row) == \A x \in Row(groups) \ {g} : groups[x].code # row.code

\* CodeForm and RiskTypeForm: an existing group, a code new in it.
ValidItem(i, row) ==
    /\ groups[row.group] # None
    /\ \A x \in Row(items) \ {i} : items[x].group = row.group => items[x].code # row.code

\* Faulty variants of the definition that follows each of them, named
\* <definition>_<fault>, are used by no specification: they record which
\* mistake in the code each property would catch.
ValidThreshold_EqualAllowed(i, row) ==
    /\ ValidItem(i, row)
    /\ IF row.limits.operator = "over" THEN row.limits.caution <= row.limits.danger
                                       ELSE row.limits.danger <= row.limits.caution

\* ThresholdForm: the values are also in the order of the operator.
ValidThreshold(i, row) == ValidItem(i, row) /\ Ordered(row.limits)

-----------------------------------------------------------------------------
(* Steps of a request.                                                      *)

\* *_create_api and *_update_api of a group: load, validate ...
OpenGroup(g, row) ==
    /\ Request
    /\ groups[g] # None \/ IsNew(groups, g)
    /\ ValidGroup(g, row)
    /\ editing' = editing \cup
           {[kind |-> "group", no |-> requests, id |-> g,
             row |-> [code |-> row.code, active |-> row.active,
                      system |-> IF groups[g] = None THEN FALSE ELSE groups[g].system]]}
    /\ UNCHANGED <<family, groups, items, inUse, released>>

\* ... of an item ...
OpenItem(i, row) ==
    /\ Request
    /\ items[i] # None \/ IsNew(items, i)
    /\ editing' = editing \cup {[kind |-> "item", no |-> requests, id |-> i, row |-> row]}
    /\ UNCHANGED <<family, groups, items, inUse, released>>

SaveRow_Unconstrained(q) ==
    /\ editing' = editing \ {q}
    /\ groups' = IF q.kind = "group" THEN [groups EXCEPT ![q.id] = q.row] ELSE groups
    /\ items' = IF q.kind = "item" THEN [items EXCEPT ![q.id] = q.row] ELSE items
    /\ UNCHANGED <<family, inUse, released, requests>>

\* ... and the save, unless the key of the group or a unique constraint forbids
\* it.  Of a row deleted meanwhile it makes a new one.
SaveRow(q) ==
    /\ editing' = editing \ {q}
    /\ LET gs == IF q.kind = "group" THEN [groups EXCEPT ![q.id] = q.row] ELSE groups
           is == IF q.kind = "item" THEN [items EXCEPT ![q.id] = q.row] ELSE items
       IN  IF /\ q.kind = "item" => groups[q.row.group] # None
              /\ UniqueGroups(gs)
              /\ UniqueItems(is)
           THEN groups' = gs /\ items' = is /\ released' = released \cup Released(gs, is)
           ELSE UNCHANGED <<groups, items, released>>
    /\ UNCHANGED <<family, inUse, requests>>

DeleteGroups_AnyGroup(gs) ==
    /\ Request
    /\ gs # {}
    /\ groups' = [g \in Groups |-> IF g \in gs THEN None ELSE groups[g]]
    /\ items' = [i \in Items |-> IF items[i] # None /\ items[i].group \in gs
                                 THEN None ELSE items[i]]
    /\ UNCHANGED <<family, editing, inUse, released>>

\* Groups are deleted with their items, but none of the system's.
DeleteGroups(gs) ==
    /\ \A g \in gs : groups[g] # None => ~groups[g].system
    /\ Request
    /\ gs # {}
    /\ groups' = [g \in Groups |-> IF g \in gs THEN None ELSE groups[g]]
    /\ items' = [i \in Items |-> IF items[i] # None /\ items[i].group \in gs
                                 THEN None ELSE items[i]]
    /\ UNCHANGED <<family, editing, inUse, released>>

\* Items are deleted without conditions.
DeleteItems(is) ==
    /\ Request
    /\ is \cap Row(items) # {}
    /\ items' = [i \in Items |-> IF i \in is THEN None ELSE items[i]]
    /\ UNCHANGED <<family, groups, editing, inUse, released>>

\* code_bulk_toggle_api and threshold_bulk_toggle_api: one UPDATE.
ToggleItems(is, isActive) ==
    /\ Request
    /\ is \cap Row(items) # {}
    /\ items' = [i \in Items |-> IF i \in is \cap Row(items)
                                 THEN [items[i] EXCEPT !.active = isActive] ELSE items[i]]
    /\ released' = released \cup Released(groups, items')
    /\ UNCHANGED <<family, groups, editing, inUse>>

-----------------------------------------------------------------------------
(* The pages.                                                               *)

GroupForms == [code : Codes, active : BOOLEAN]

ItemForms(limits) == [group : Groups, code : Codes, active : BOOLEAN, limits : limits]

\* Codes.
EditCodes ==
    /\ family = "codes"
    /\ \/ \E g \in Groups, row \in GroupForms : OpenGroup(g, row)
       \/ \E i \in Items, row \in ItemForms({None}) : ValidItem(i, row) /\ OpenItem(i, row)
       \/ \E g \in Groups : groups[g] # None /\ DeleteGroups({g})
       \/ \E is \in SUBSET Items : DeleteItems(is) \/ \E b \in BOOLEAN : ToggleItems(is, b)

\* Risk types.
EditRisks ==
    /\ family = "risks"
    /\ \/ \E g \in Groups, row \in GroupForms : OpenGroup(g, row)
       \/ \E i \in Items, row \in ItemForms({None}) : ValidItem(i, row) /\ OpenItem(i, row)
       \/ \E g \in Groups : groups[g] # None /\ DeleteGroups({g})
       \/ \E is \in SUBSET Items : DeleteItems(is)

\* Alarm levels: several at once, or none if one is the system's.
EditLevels ==
    /\ family = "levels"
    /\ \/ \E g \in Groups, row \in GroupForms : OpenGroup(g, row)
       \/ \E gs \in SUBSET Groups : DeleteGroups(gs)

\* Thresholds.
EditThresholds ==
    /\ family = "thresholds"
    /\ \/ \E g \in Groups, row \in GroupForms : OpenGroup(g, row)
       \/ \E i \in Items, row \in ItemForms(Limits) : ValidThreshold(i, row) /\ OpenItem(i, row)
       \/ \E g \in Groups : groups[g] # None /\ DeleteGroups({g})
       \/ \E is \in SUBSET Items : DeleteItems(is) \/ \E b \in BOOLEAN : ToggleItems(is, b)

Published_InactiveCategory ==
    {[category |-> groups[items[i].group].code, code |-> items[i].code, limits |-> items[i].limits] :
       i \in {j \in Row(items) : items[j].active}}

\* thresholds_for_fastapi: the active thresholds of the active categories.
Published ==
    {[category |-> groups[items[i].group].code, code |-> items[i].code, limits |-> items[i].limits] :
       i \in {j \in Row(items) : items[j].active /\ groups[items[j].group].active}}

\* apply_thresholds: what is published for the gases replaces what was in use;
\* what is not published stays in use.
Apply(published) ==
    [c \in Codes |-> IF \E e \in published : e.category = Gas /\ e.code = c
                     THEN (CHOOSE e \in published : e.category = Gas /\ e.code = c).limits
                     ELSE inUse[c]]

\* Every fifth tick of the generator; a load that fails changes nothing.
Reload ==
    /\ family = "thresholds"
    /\ inUse' = Apply(Published)
    /\ UNCHANGED <<family, groups, items, editing, released, requests>>

Next ==
    \/ EditCodes \/ EditRisks \/ EditLevels \/ EditThresholds
    \/ \E q \in editing : SaveRow(q)
    \/ Reload

Spec == Init /\ [][Next]_masterVars

-----------------------------------------------------------------------------
\* Every variable has its type; however requests overlap, no item is left without
\* its group and no code is used twice.
TypeOK ==
    /\ \A g \in Row(groups) : groups[g].code \in Codes /\ groups[g].active \in BOOLEAN
    /\ UniqueGroups(groups)
    /\ \A i \in Row(items) : groups[items[i].group] # None /\ items[i].code \in Codes
    /\ UniqueItems(items)
    /\ \A q \in editing : q.kind \in {"group", "item"}
    /\ requests \in 0 .. MaxEdits

\* What the system comes with is never deleted: not alone, not in a bulk with
\* others (views/masters.py:143-155, :357-372).
SeededStay == \A g \in Seeded : groups[g] # None /\ groups[g].system

\* The generator never compares with a danger limit that is reached before, or
\* together with, the caution limit (forms/masters.py:403-416).
LimitsInOrder == \A c \in Codes : inUse[c] # None => Ordered(inUse[c])

\* A limit that was never active, in an active category, does not reach the
\* generator (views/masters.py:515-533).
DraftsStayDrafts ==
    \A c \in Codes : inUse[c] # Fallback[c] => [code |-> c, limits |-> inUse[c]] \in released

=============================================================================

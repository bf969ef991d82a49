----------------------------- MODULE Directory -----------------------------
(***************************************************************************)
(* The organization tree, its members and their positions, as the back      *)
(* office edits them.  An edit loads a row, validates the form and saves    *)
(* every column; the removal of a department moves its members to the       *)
(* "unassigned" department of its company and then deletes, with all that   *)
(* lies below.  Requests of several administrators overlap between these    *)
(* steps; a validation and the load next to it are one.                     *)
(***************************************************************************)
EXTENDS Integers, FiniteSets

CONSTANTS
    None,      \* a missing row or reference
    Root,      \* the company
    Bucket,    \* its unassigned department
    Others,    \* ids of further organizations
    People,    \* ids of users
    Positions, \* ids of positions
    Names,     \* of organizations
    MaxEdits   \* bound: requests

Orgs == {Root, Bucket} \cup Others

VARIABLES
    orgs,     \* Organization: None or [name, parent, leader, bucket]
    people,   \* accounts.User: None or [org, position, status]
    active,   \* Position rows, as is_active by id, or None
    editing,  \* requests between two steps
    excused,  \* history: people whose way out of every department is explained
    requests

directoryVars == <<orgs, people, active, editing, excused, requests>>

Row(table) == {x \in DOMAIN table : table[x] # None}

Members(o) == {p \in Row(people) : people[p].org = o}

\* What goes with an organization, on_delete=CASCADE of parent: the least set that
\* has it and the children of whatever it has.
Below(o) ==
    LET Closed == {os \in SUBSET Orgs :
                     o \in os /\ \A x \in Row(orgs) : orgs[x].parent \in os => x \in os}
    IN  {x \in Orgs : \A os \in Closed : x \in os}

Company == [name |-> Root, parent |-> None, leader |-> None, bucket |-> FALSE]

Unassigned == [name |-> Bucket, parent |-> Root, leader |-> None, bucket |-> TRUE]

Department(name) == [name |-> name, parent |-> Root, leader |-> None, bucket |-> FALSE]

NoDuplicate(table, o) ==
    \A x \in DOMAIN table \ {o} :
        table[x] # None /\ table[o].parent # None /\ table[x].parent = table[o].parent
            => table[x].name # table[o].name

Init ==
    /\ orgs \in {f \in [Orgs -> {None, Company, Unassigned} \cup {Department(n) : n \in Names}] :
                  /\ f[Root] = Company
                  /\ f[Bucket] = Unassigned
                  /\ \A o \in Others : f[o] \notin {Company, Unassigned}
                  /\ \A o \in Orgs : f[o] # None => NoDuplicate(f, o)}
    /\ people \in [People -> {None} \cup {[org |-> o, position |-> None,
                                          status |-> "active"] : o \in Row(orgs)}]
    /\ active = [x \in Positions |-> TRUE]
    /\ editing = {}
    /\ excused = {}
    /\ requests = 0

Request ==
    /\ requests < MaxEdits
    /\ requests' = requests + 1

Exists(table, x) == table[x] # None

\* Ids are not used twice: not while a request still holds a row with this one.
IsNew(table, x) == table[x] = None /\ \A q \in editing : q.id # x

-----------------------------------------------------------------------------
(* Organizations.                                                           *)

\* OrganizationForm: any existing organization may be the parent, or none, and
\* its children have different names.
ValidOrg(o, name, parent) ==
    /\ parent \in Row(orgs) \cup {None}
    /\ \A x \in Row(orgs) \ {o} : orgs[x].parent = parent => orgs[x].name # name

\* organization_create_api and organization_update_api: the row is loaded or made
\* and the form validated ...
OpenOrg(o, name, parent) ==
    /\ Request
    /\ Exists(orgs, o) \/ IsNew(orgs, o)
    /\ orgs[o] # None => ~orgs[o].bucket
    /\ ValidOrg(o, name, parent)
    /\ editing' = editing \cup
           {[kind |-> "org", no |-> requests, id |-> o,
             row |-> [name |-> name, parent |-> parent, bucket |-> FALSE,
                      leader |-> IF orgs[o] = None THEN None ELSE orgs[o].leader]]}
    /\ UNCHANGED <<orgs, people, active, excused>>

\* Faulty variants of the definition that follows each of them, named
\* <definition>_<fault>, are used by no specification: they record which
\* mistake in the code each property would catch.
SaveOrg_Unconstrained(q) ==
    /\ orgs' = [orgs EXCEPT ![q.id] = q.row]
    /\ editing' = editing \ {q}
    /\ UNCHANGED <<people, active, excused, requests>>

\* ... and every column is saved, unless a foreign key or org_unique_name_per_parent
\* forbids it.  Of a row deleted meanwhile it makes a new one.
SaveOrg(q) ==
    /\ LET saved == [orgs EXCEPT ![q.id] = q.row] IN
       orgs' = IF /\ q.row.parent \in Row(saved) \cup {None}
                  /\ q.row.leader \in Row(people) \cup {None}
                  /\ NoDuplicate(saved, q.id)
               THEN saved ELSE orgs
    /\ editing' = editing \ {q}
    /\ UNCHANGED <<people, active, excused, requests>>

BucketsOf(company) ==
    {o \in Row(orgs) : company # None /\ orgs[o].bucket /\ orgs[o].parent = company}

\* organization_delete_api loads the department ...
OpenDelete(o) ==
    /\ Request
    /\ orgs[o] # None
    /\ ~orgs[o].bucket
    /\ orgs[o].parent # None
    /\ editing' = editing \cup {[kind |-> "delete", no |-> requests, id |-> o,
                                 company |-> orgs[o].parent, moved |-> FALSE]}
    /\ UNCHANGED <<orgs, people, active, excused>>

MoveMembers_Skipped(q) ==
    /\ q.kind = "delete" /\ ~q.moved
    /\ editing' = (editing \ {q}) \cup {[q EXCEPT !.moved = TRUE]}
    /\ UNCHANGED <<orgs, people, active, excused, requests>>

\* ... moves its members to the company's unassigned department, if there is one ...
MoveMembers(q) ==
    /\ q.kind = "delete" /\ ~q.moved
    /\ LET bucket == BucketsOf(q.company) IN
       IF bucket = {}
       THEN people' = people /\ excused' = excused \cup Members(q.id)
       ELSE /\ \E b \in bucket :
                 people' = [p \in People |-> IF p \in Members(q.id)
                                             THEN [people[p] EXCEPT !.org = b] ELSE people[p]]
            /\ excused' = excused
    /\ editing' = (editing \ {q}) \cup {[q EXCEPT !.moved = TRUE]}
    /\ UNCHANGED <<orgs, active, requests>>

\* The members of a department have been moved away and the rest is to come.
UnderDeletion(o) == \E q \in editing : q.kind = "delete" /\ q.id = o /\ q.moved

\* Those who join now may lose their department again.
Join(o, ps) == excused' = IF UnderDeletion(o) THEN excused \cup ps ELSE excused \ ps

\* ... and deletes it with everything below; who is a member of that has no
\* organization any more.
DeleteOrg(q) ==
    /\ q.kind = "delete" /\ q.moved
    /\ LET gone == Below(q.id)
           lost == UNION {Members(o) : o \in gone} IN
       /\ orgs' = [o \in Orgs |-> IF o \in gone THEN None ELSE orgs[o]]
       /\ people' = [p \in People |-> IF p \in lost THEN [people[p] EXCEPT !.org = None]
                                      ELSE people[p]]
       /\ excused' = excused \cup UNION {Members(o) : o \in gone \ {q.id}}
    /\ editing' = editing \ {q}
    /\ UNCHANGED <<active, requests>>

\* organization_assign_members_api.
Assign(o, ps) ==
    /\ Request
    /\ orgs[o] # None
    /\ ps \cap Row(people) # {}
    /\ people' = [p \in People |-> IF p \in ps \cap Row(people)
                                   THEN [people[p] EXCEPT !.org = o] ELSE people[p]]
    /\ Join(o, ps \cap Row(people))
    /\ UNCHANGED <<orgs, active, editing>>

\* organization_remove_members_api.
Remove(o, ps) ==
    /\ Request
    /\ orgs[o] # None
    /\ ps \cap Members(o) # {}
    /\ \E b \in BucketsOf(IF orgs[o].parent = None THEN o ELSE orgs[o].parent) :
         people' = [p \in People |-> IF p \in ps \cap Members(o)
                                     THEN [people[p] EXCEPT !.org = b] ELSE people[p]]
    /\ UNCHANGED <<orgs, active, editing, excused>>

\* organization_set_leader_api saves the leader only.
SetLeader(o, p) ==
    /\ Request
    /\ orgs[o] # None
    /\ p \in Members(o)
    /\ orgs' = [orgs EXCEPT ![o].leader = p]
    /\ UNCHANGED <<people, active, editing, excused>>

-----------------------------------------------------------------------------
(* Users and positions.                                                     *)

Statuses == {"active", "locked", "disabled"}

\* UserCreateForm and UserUpdateForm: an existing organization, an active position
\* or none; nobody is created locked.
ValidUser(p, row) ==
    /\ row.org \in Row(orgs)
    /\ row.position # None => active[row.position] = TRUE
    /\ people[p] = None => row.status # "locked"

\* user_create_api and user_update_api ...
OpenUser(p, row) ==
    /\ Request
    /\ Exists(people, p) \/ IsNew(people, p)
    /\ ValidUser(p, row)
    /\ editing' = editing \cup {[kind |-> "user", no |-> requests, id |-> p, row |-> row]}
    /\ UNCHANGED <<orgs, people, active, excused>>

\* ... and the save, which fails when a reference is gone.
SaveUser(q) ==
    /\ IF /\ q.row.org \in Row(orgs)
          /\ q.row.position = None \/ active[q.row.position] # None
       THEN /\ people' = [people EXCEPT ![q.id] = q.row]
            /\ Join(q.row.org, {q.id})
       ELSE UNCHANGED <<people, excused>>
    /\ editing' = editing \ {q}
    /\ UNCHANGED <<orgs, active, requests>>

\* SignupSerializer: an account outside the tree.
Signup(p) ==
    /\ Request
    /\ people[p] = None
    /\ people' = [people EXCEPT ![p] = [org |-> None, position |-> None, status |-> "active"]]
    /\ excused' = excused \cup {p}
    /\ UNCHANGED <<orgs, active, editing>>

\* user_bulk_delete_api, by one who is not among them; leaders are SET_NULL.
DeleteUsers(by, ps) ==
    /\ Request
    /\ by \in Row(people) \ ps
    /\ ps # {}
    /\ people' = [p \in People |-> IF p \in ps THEN None ELSE people[p]]
    /\ orgs' = [o \in Orgs |-> IF orgs[o] # None /\ orgs[o].leader \in ps
                               THEN [orgs[o] EXCEPT !.leader = None] ELSE orgs[o]]
    /\ excused' = excused \ ps
    /\ UNCHANGED <<active, editing>>

\* user_bulk_lock_api, by one who is not among them, and user_bulk_unlock_api;
\* a disabled account stays disabled.
SwitchLock(by, ps, from, to) ==
    /\ Request
    /\ by \in Row(people)
    /\ to = "locked" => by \notin ps
    /\ \E p \in ps \cap Row(people) : people[p].status = from
    /\ people' = [p \in People |->
                    IF p \in ps \cap Row(people) /\ people[p].status = from
                    THEN [people[p] EXCEPT !.status = to] ELSE people[p]]
    /\ UNCHANGED <<orgs, active, editing, excused>>

\* position_create_api and position_update_api.
SavePosition(x, isActive) ==
    /\ Request
    /\ active' = [active EXCEPT ![x] = isActive]
    /\ UNCHANGED <<orgs, people, editing, excused>>

\* position_bulk_delete_api: the key of its holders is SET_NULL.
DeletePositions(xs) ==
    /\ Request
    /\ xs # {}
    /\ active' = [x \in Positions |-> IF x \in xs THEN None ELSE active[x]]
    /\ people' = [p \in People |-> IF people[p] # None /\ people[p].position \in xs
                                   THEN [people[p] EXCEPT !.position = None] ELSE people[p]]
    /\ UNCHANGED <<orgs, editing, excused>>

Edits ==
    \/ \E o \in Others \cup {Root}, n \in Names, parent \in Orgs \cup {None} : OpenOrg(o, n, parent)
    \/ \E o \in Orgs : OpenDelete(o)
    \/ \E o \in Orgs, ps \in SUBSET People : Assign(o, ps) \/ Remove(o, ps)
    \/ \E o \in Orgs, p \in People : SetLeader(o, p)
    \/ \E p \in People, org \in Orgs, x \in Positions \cup {None}, s \in Statuses :
         OpenUser(p, [org |-> org, position |-> x, status |-> s])
    \/ \E p \in People : Signup(p)
    \/ \E by \in People, ps \in SUBSET People :
         \/ DeleteUsers(by, ps)
         \/ SwitchLock(by, ps, "active", "locked")
         \/ SwitchLock(by, ps, "locked", "active")
    \/ \E x \in Positions, b \in BOOLEAN : SavePosition(x, b)
    \/ \E xs \in SUBSET Positions : DeletePositions(xs)

Next ==
    \/ Edits
    \/ \E q \in editing :
         \/ q.kind = "org" /\ SaveOrg(q)
         \/ q.kind = "user" /\ SaveUser(q)
         \/ MoveMembers(q)
         \/ DeleteOrg(q)

Spec == Init /\ [][Next]_directoryVars

-----------------------------------------------------------------------------
\* Two forms validated side by side give no two departments one name under one
\* parent (backoffice/models.py:93-98).
SiblingsDiffer == \A o \in Row(orgs) : NoDuplicate(orgs, o)

\* Every variable has its type, and no reference dangles whichever requests
\* overlap.
TypeOK ==
    /\ \A o \in Row(orgs) : /\ orgs[o].parent \in Row(orgs) \cup {None}
                            /\ orgs[o].leader \in Row(people) \cup {None}
                            /\ orgs[o].bucket \in BOOLEAN
    /\ \A p \in Row(people) : /\ people[p].org \in Row(orgs) \cup {None}
                              /\ people[p].position \in Row(active) \cup {None}
                              /\ people[p].status \in Statuses
    /\ \A x \in Row(active) : active[x] \in BOOLEAN
    /\ \A q \in editing : q.kind \in {"org", "delete", "user"}
    /\ excused \subseteq People
    /\ requests \in 0 .. MaxEdits

\* A member of a deleted department is moved, not lost: without an organization
\* are those only who signed up themselves, joined while the department was being
\* deleted, belonged to one below it, or whose company has no unassigned
\* department (views/organizations.py:122).
MembersAreMoved == \A p \in Row(people) : people[p].org = None => p \in excused

=============================================================================

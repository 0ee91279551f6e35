----------------------------- MODULE Directory -----------------------------
(* Administration (app/routers/admin.py): the roles and statuses of the     *)
(* employees, the leaders of the teams, the team scope of QA and the        *)
(* permissions of the roles (app/services/role_permissions.py).  Requests   *)
(* are served one at a time; log_audit_event commits, so a handler stores   *)
(* its work in several commits and the process may die between two.         *)
EXTENDS Integers, FiniteSets, Sequences, SequencesExt

CONSTANTS NoOne,
          Staff,       \* employees, the first administrator among them
          FirstAdmin,
          Teams

StaffRoles == {"ADMIN", "HR_MANAGER", "TEAM_LEADER", "QA"}

ASSUME DirectoryAssumption ==
    /\ FirstAdmin \in Staff
    /\ NoOne \notin Staff \cup Teams \cup StaffRoles

VARIABLES staff,      \* employees: role, active, qa_scope_team_id
          leader,     \* teams.leader_id
          grants,     \* role_permissions, the three keys that guard these handlers
          todo        \* what the request being served has still to commit

directoryVars == << staff, leader, grants, todo >>

Perms == {"manage", "role", "status"}
Absent == [role |-> NoOne, active |-> FALSE, scope |-> NoOne]

\* ROLE_PERMISSIONS
DefaultGrants == [r \in StaffRoles |-> IF r \in {"ADMIN", "HR_MANAGER"} THEN Perms ELSE {}]

DirectoryInit ==
    /\ staff = [e \in Staff |-> IF e = FirstAdmin THEN [Absent EXCEPT !.role = "ADMIN", !.active = TRUE]
                                ELSE Absent]
    /\ leader = [t \in Teams |-> NoOne]
    /\ grants = DefaultGrants
    /\ todo = << >>

Employed(e) == staff[e].role # NoOne

\* get_current_user, has_permission
May(by, perm) == staff[by].active /\ perm \in grants[staff[by].role]

\* _require_role_assignment_access, can_assign_role
MayAssign(by, role) ==
    /\ May(by, "role")
    /\ \/ staff[by].role = "ADMIN"
       \/ staff[by].role = "HR_MANAGER" /\ role # "ADMIN"

\* Slip: the own role and status are not protected.
AnyLockout(by, e, role, active) == TRUE

\* _prevent_self_lockout
NotOwnLockout(by, e, role, active) ==
    by = e => role \in {NoOne, staff[e].role} /\ active = staff[e].active

----------------------------------------------------------------------------
(* Each commit of a handler is one write; the first is made at once. *)

Apply(write) ==
    /\ staff' = IF write.of \in Staff THEN [staff EXCEPT ![write.of] = write.to] ELSE staff
    /\ leader' = [t \in Teams |-> IF t \in DOMAIN write.leads THEN write.leads[t] ELSE leader[t]]

Perform(writes) == /\ todo = << >>
                   /\ Apply(Head(writes))
                   /\ todo' = Tail(writes)

WriteStaff(e, to) == [of |-> e, to |-> to, leads |-> << >>]
WriteLeader(t, e) == [of |-> NoOne, to |-> Absent, leads |-> [u \in {t} |-> e]]

Led(e) == {t \in Teams : leader[t] = e}

NextCommit == /\ todo # << >>
              /\ Apply(Head(todo))
              /\ todo' = Tail(todo)
              /\ UNCHANGED grants

ApiDies == todo # << >> /\ todo' = << >> /\ UNCHANGED << staff, leader, grants >>

----------------------------------------------------------------------------

\* create_employee
CreateEmployee(by, e, role, active) ==
    /\ May(by, "manage") /\ MayAssign(by, role)
    /\ ~Employed(e)
    /\ Perform(<< WriteStaff(e, [role |-> role, active |-> active, scope |-> NoOne]) >>)
    /\ UNCHANGED grants

\* Slip: the teams and the scope stay.
RoleOnlyWrites(e, role) ==
    IF role \in {NoOne, staff[e].role} THEN << >> ELSE << WriteStaff(e, [staff[e] EXCEPT !.role = role]) >>

\* The commits of a new role: it is flushed with the first audit row written,
\* that of the first team taken from a former leader, of a QA scope that is
\* cleared, or of the change itself.
RoleWrites(e, role) ==
    LET old   == staff[e].role
        moved == [staff[e] EXCEPT !.role = role, !.scope = IF old = "QA" THEN NoOne ELSE @]
        freed == IF old = "TEAM_LEADER"
                 THEN [i \in 1..Cardinality(Led(e)) |-> WriteLeader(SetToSeq(Led(e))[i], NoOne)] ELSE << >>
    IN  IF role \in {NoOne, old} THEN << >>
        ELSE IF freed # << >>
        THEN << [freed[1] EXCEPT !.of = e, !.to = moved] >> \o Tail(freed)
        ELSE << WriteStaff(e, moved) >>

\* update_employee: the status is a commit of its own, after the role's
UpdateEmployee(by, e, role, active) ==
    LET writes == RoleWrites(e, role)
        held   == [(IF writes = << >> THEN staff[e] ELSE writes[1].to) EXCEPT !.active = active]
        all    == writes \o (IF active = staff[e].active THEN << >> ELSE << WriteStaff(e, held) >>)
    IN  /\ Employed(e) /\ May(by, "manage")
        /\ NotOwnLockout(by, e, role, active)
        /\ role # NoOne => MayAssign(by, role)
        /\ all # << >>
        /\ Perform(all)
        /\ UNCHANGED grants

\* update_employee_status
UpdateStatus(by, e, active) ==
    /\ Employed(e) /\ May(by, "status")
    /\ NotOwnLockout(by, e, NoOne, active)
    /\ active # staff[e].active
    /\ Perform(<< WriteStaff(e, [staff[e] EXCEPT !.active = active]) >>)
    /\ UNCHANGED grants

\* update_employee_qa_scope: any manager, his own scope too
UpdateQaScope(by, e, t) ==
    /\ May(by, "manage")
    /\ staff[e].role = "QA"
    /\ Perform(<< WriteStaff(e, [staff[e] EXCEPT !.scope = t]) >>)
    /\ UNCHANGED grants

\* The teams assign_team_leader takes from the new leader, one commit each.
Displaced(t, e) == IF e = NoOne THEN {} ELSE Led(e) \ {t}

\* assign_team_leader
AssignLeader(by, t, e) ==
    LET freed == SetToSeq(Displaced(t, e))
    IN  /\ May(by, "manage")
        /\ e # NoOne => staff[e].role = "TEAM_LEADER" /\ staff[e].active
        /\ leader[t] # e \/ freed # << >>
        /\ Perform([i \in 1..Len(freed) |-> WriteLeader(freed[i], NoOne)] \o << WriteLeader(t, e) >>)
        /\ UNCHANGED grants

\* update_role_permissions, set_role_permission_values: only the role ADMIN,
\* which must keep the audit log, none of these keys
UpdateRolePermissions(by, role, perms) ==
    /\ staff[by].role = "ADMIN" /\ staff[by].active
    /\ todo = << >>
    /\ grants' = [grants EXCEPT ![role] = perms]
    /\ UNCHANGED << staff, leader, todo >>

DirectoryNext ==
    \/ NextCommit \/ ApiDies
    \/ \E by, e \in Staff, active \in BOOLEAN :
          \/ \E role \in StaffRoles : CreateEmployee(by, e, role, active)
          \/ \E role \in StaffRoles \cup {NoOne} : UpdateEmployee(by, e, role, active)
          \/ UpdateStatus(by, e, active)
    \/ \E by, e \in Staff, t \in Teams \cup {NoOne} : UpdateQaScope(by, e, t)
    \/ \E by \in Staff, e \in Staff \cup {NoOne}, t \in Teams : AssignLeader(by, t, e)
    \/ \E by \in Staff, role \in {"ADMIN", "HR_MANAGER"}, perms \in SUBSET Perms :
          UpdateRolePermissions(by, role, perms)

----------------------------------------------------------------------------

\* However roles, statuses and permissions are changed, somebody who can log
\* in can still change them: an administrator, or an employee with one of the
\* keys that the account handlers ask for.
SomebodyManages ==
    \E e \in Staff : /\ staff[e].active
                     /\ staff[e].role = "ADMIN" \/ grants[staff[e].role] \cap {"manage", "status"} # {}

\* After every commit, the last one a dying process made included, a team is
\* led by a team leader, nobody leads two teams, and only QA has a team scope.
LeadershipFollowsRole ==
    /\ \A t \in Teams : leader[t] # NoOne => staff[leader[t]].role = "TEAM_LEADER"
    /\ \A e \in Staff : Cardinality(Led(e)) <= 1
    /\ \A e \in Staff : staff[e].scope # NoOne => staff[e].role = "QA"
=============================================================================

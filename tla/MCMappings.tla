----------------------------- MODULE MCMappings -----------------------------
(* A root tenant and two others; a user mapped to the root, perhaps to more, *)
(* and one who is created.                                                   *)
EXTENDS Mappings, TLC

CONSTANTS u1, u2, root, t1, t2, learner, teacher, manager

TenantOf == [p \in Roles |-> IF p = teacher THEN t1 ELSE None]
Symmetry == Permutations(Requests) \cup Permutations(RowIds)

Named(name, U) == [NoOp EXCEPT !.name = name, !.users = U]
Give(t, p, update, s) == [tenant |-> t, role |-> p, update |-> update, status |-> s]
AssignTenant(t, p, s) ==
    [Named("userTenantMapping", {u1}) EXCEPT !.todo = <<Give(t, p, TRUE, s)>>]
NewUser(t, p) == [Named("createUser", {u2}) EXCEPT !.todo = <<Give(t, p, FALSE, None)>>]
Twice(t, p, q) == [Named("createUser", {u2}) EXCEPT !.todo =
                     <<Give(t, p, FALSE, None), Give(t, q, FALSE, None)>>]
ManagerOf(t) == <<Give(t, manager, TRUE, None)>>
SignUp(t, p, rest) ==
    [Named("handleNewUser", {u2}) EXCEPT !.todo = <<Give(t, p, FALSE, None)>> \o rest]
SignIn(t) == [Named("handleExistingUser", {u1}) EXCEPT !.todo = ManagerOf(t)]
SetStatus(t, s) ==
    [Named("updateAssignTenantStatus", {u1}) EXCEPT !.tenant = t, !.status = s]
AssignRoles(t, P) ==
    [Named("createAssignRole", {u1}) EXCEPT !.tenant = t, !.roles = P]
UnassignRoles(P) == [Named("deleteAssignedRole", {u1}) EXCEPT !.roles = P]
BulkRole(U, t, p) ==
    [Named("bulkUpdateUserRoles", U) EXCEPT !.tenant = t, !.roles = {p}]
DropRole(p) == [Named("deleteRole", {}) EXCEPT !.roles = {p}]
DropUser(u) == Named("deleteUserById", {u})
Job(U) == Named("mapPrathaUsersToTenant", U)

Run(O, n, F, start) == [ops |-> O, parallel |-> n, faults |-> F, start |-> start]
AtRoot == {<<u1, root, learner>>}
AtBoth == AtRoot \cup {<<u1, t1, learner>>}

SomeScenarios ==
    \* Assignments against each other and against what takes them away.
    {Run({AssignTenant(t1, teacher, "active"), AssignTenant(t2, learner, "pending")},
         2, {"database"}, AtRoot),
     Run({AssignTenant(t2, teacher, "active"), SignIn(t1)}, 2, {"database"}, AtBoth),
     Run({AssignTenant(t1, teacher, "active"), UnassignRoles({learner}), DropUser(u1)},
         2, {"crash"}, AtRoot),
    \* A status against another, with the events that follow.
     Run({SetStatus(root, "inactive"), SetStatus(root, "active")}, 2,
         {"database", "kafka"}, AtRoot),
     Run({AssignTenant(t1, teacher, "inactive"), SetStatus(t1, "archived")}, 2,
         {}, AtBoth),
    \* The roles of a user, by hand and in bulk, and the end of a role.
     Run({AssignRoles(t1, {teacher, learner}), BulkRole({u1}, t1, teacher)}, 2,
         {"database"}, AtBoth),
     Run({AssignRoles(t1, {teacher}), DropRole(teacher), AssignTenant(t2, teacher, None)},
         2, {"database"}, AtRoot),
    \* New users, and the job.
     Run({NewUser(t1, teacher), SignUp(root, learner, ManagerOf(root)), DropUser(u2)},
         2, {"database"}, {}),
     Run({Twice(t1, teacher, learner), SignUp(t1, manager, ManagerOf(t1)), DropRole(learner)},
         1, {}, {}),
     Run({Job({u1}), AssignTenant(t1, teacher, None), DropUser(u1)}, 2, {"database"}, AtRoot),
     Run({Job({u1}), SetStatus(t1, "archived")}, 2, {"kafka", "crash"}, AtRoot)}
=============================================================================

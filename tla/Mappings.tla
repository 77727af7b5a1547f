------------------------------ MODULE Mappings ------------------------------
(***************************************************************************)
(* The tenants that a user is mapped to (UserTenantMapping) and the roles  *)
(* the user has in them (UserRolesMapping).  Seven handlers and a job      *)
(* write the two tables, one statement after the other and without a       *)
(* transaction; neither table has a constraint that keeps its rows unique, *)
(* and UserRolesMapping none that ties it to Users or Roles.               *)
(*                                                                         *)
(* A mapping to a root tenant is provisional: assigning the user to        *)
(* another tenant moves that row instead of inserting one.  Which row is   *)
(* looked at is up to the database: findOne by userId, without an order.   *)
(*                                                                         *)
(* One action per awaited statement.  Tenants are fixed here, see Catalog; *)
(* bumps of the caches are in WritePaths, accounts in Accounts, and the    *)
(* status that the batch job gives a mapping (mapUsersToTenant) in Members.*)
(***************************************************************************)
EXTENDS Naturals, Sequences, FiniteSets

CONSTANTS
    Users, Tenants, Roles,
    Roots,      \* the tenants without a parent
    RoleTenant, \* RoleTenant[p]: the tenant of a role, None if it is for all of them
    RowIds,     \* ids of the rows of both tables
    Requests,   \* concurrent requests and runs of the job
    Home, Learner, Manager, \* DEFAULT_TENANT_ID, ..LEARNER_ROLE_ID, MANAGER_ROLE_ID
    Scenarios,  \* records [ops, parallel, faults, start]: what is requested, how many
                \* at once, which of "database", "crash", "kafka" go wrong, and the
                \* <<user, tenant, role>> that are there at first
    None

Statuses == {"active", "inactive", "archived", "pending"}

\* Columns of history: whether createAssignRole inserted the row; what the handler that
\* wrote it had looked up, "pair" and looked for such a row of the user; whether a mapping
\* was written by a handler that publishes no event about it.
RoleRow == [user : Users, tenant : Tenants, role : Roles, hand : BOOLEAN,
            checked : SUBSET {"user", "role", "pair"}]
TenantRow == [user : Users, tenant : Tenants, status : Statuses, quiet : BOOLEAN,
              looked : BOOLEAN]

\* One call of assignUserToTenantAndRoll; update: rows of a root tenant are moved.
Assignment == [tenant : Tenants, role : Roles, update : BOOLEAN,
               status : Statuses \cup {None}]

Names == {"createUser", "handleNewUser", "userTenantMapping", "handleExistingUser",
          "updateAssignTenantStatus", "createAssignRole", "deleteAssignedRole",
          "bulkUpdateUserRoles", "deleteRole", "deleteUserById", "mapPrathaUsersToTenant"}

\* The handlers that make the user, and those that assign a user who is there.
Creators == {"createUser", "handleNewUser"}
Assigners == {"userTenantMapping", "handleExistingUser"}

\* A request.
Op == [name : Names, users : SUBSET Users, todo : Seq(Assignment),
       tenant : Tenants \cup {None}, roles : SUBSET Roles, status : Statuses \cup {None}]

\* What may be asked for: one assignment, which moves rows of a root tenant, of a user who
\* is there; of a new one an assignment per tenant of the body, or the one of single
\* sign-on, which may make the user a manager after it.
Asked(o) ==
    /\ o.name \in Assigners => Len(o.todo) = 1 /\ o.todo[1].update
    /\ o.name = "createUser" => Len(o.todo) >= 1 /\ \A i \in DOMAIN o.todo : ~o.todo[i].update
    /\ o.name = "handleNewUser" =>
         Len(o.todo) \in {1, 2} /\ \A i \in DOMAIN o.todo : o.todo[i].update <=> i = 2
    /\ o.name \notin Assigners \cup Creators => o.todo = <<>>
    /\ o.name \in {"updateAssignTenantStatus", "createAssignRole", "bulkUpdateUserRoles"}
         => o.tenant \in Tenants
    /\ o.name = "updateAssignTenantStatus" => o.status \in Statuses
    /\ o.name = "bulkUpdateUserRoles" => Cardinality(o.roles) = 1

ASSUME MappingsAssumption ==
    /\ IsFiniteSet(RowIds) /\ IsFiniteSet(Requests)
    /\ Roots \subseteq Tenants /\ Home \in Tenants /\ {Learner, Manager} \subseteq Roles
    /\ RoleTenant \in [Roles -> Tenants \cup {None}]
    /\ \A c \in Scenarios :
         /\ c.ops \subseteq Op /\ (\A o \in c.ops : Asked(o)) /\ c.parallel \in Nat
         /\ c.faults \subseteq {"database", "crash", "kafka"}
         /\ c.start \subseteq Users \X Tenants \X Roles
         /\ \A x, y \in c.start : x[1] = y[1] /\ x[2] = y[2] => x = y
    /\ None \notin Users \cup Tenants \cup Roles \cup RowIds \cup Statuses
    /\ None \notin RoleRow \cup TenantRow \cup (Users \X Tenants \X Roles)

VARIABLES
    users,      \* Users: the users that have a row
    roles,      \* Roles: the roles that have a row
    roleRows,   \* UserRolesMapping: a row, or None
    tenantRows, \* UserTenantMapping: a row, or None
    told,       \* per user and tenant: the status of the last event that gave one
    run,        \* the requests
    granted,    \* history: <<user, tenant, role>> assigned and not taken away
    raced,      \* history: users written while another request was about to
    failed,     \* history: users on whom a request failed half way, or an event
    doubled,    \* history: users to whom a request gave a mapping that they had
    halfway,    \* history: roles whose deletion failed half way or overlapped a use
    scenario    \* the one that this behaviour runs

tables == <<users, roles, roleRows, tenantRows>>
history == <<granted, raced, failed, doubled, halfway, scenario>>
vars == <<tables, told, run, history>>

NoOp == [name |-> "createUser", users |-> {}, todo |-> <<>>, tenant |-> None,
         roles |-> {}, status |-> None]
Idle == [at |-> "idle", op |-> NoOp, user |-> None, users |-> {}, todo |-> <<>>,
         roles |-> {}, role |-> None, row |-> None, was |-> None, entity |-> None,
         wrote |-> FALSE, looked |-> FALSE]

\* The rows at first: some numbering of the triples of the scenario.
Numbered(start) == {f \in [RowIds -> start \cup {None}] :
    \A t \in start : Cardinality({m \in RowIds : f[m] = t}) = 1}

Init ==
    /\ scenario \in Scenarios
    /\ users = {t[1] : t \in scenario.start}
    /\ roles = Roles
    /\ \E f \in Numbered(scenario.start) :
        /\ roleRows = [m \in RowIds |-> IF f[m] = None THEN None ELSE
              [user |-> f[m][1], tenant |-> f[m][2], role |-> f[m][3],
               hand |-> FALSE, checked |-> {"user", "role", "pair"}]]
        /\ tenantRows = [m \in RowIds |-> IF f[m] = None THEN None ELSE
              [user |-> f[m][1], tenant |-> f[m][2], status |-> "active", quiet |-> FALSE,
               looked |-> TRUE]]
    /\ told = [p \in Users \X Tenants |-> None]
    /\ run = [r \in Requests |-> Idle]
    /\ granted = scenario.start
    /\ raced = {} /\ failed = {} /\ doubled = {} /\ halfway = {}

-----------------------------------------------------------------------------
Running == {r \in Requests : run[r].at # "idle"}
At(r, name, here) == run[r].op.name = name /\ run[r].at = here
Assigning(r, here) ==
    /\ run[r].op.name \in Creators \cup Assigners /\ run[r].at = here

Present(table) == {m \in RowIds : table[m] # None}
RolesOf(u) == {m \in Present(roleRows) : roleRows[m].user = u}
RolesIn(u, t) == {m \in RolesOf(u) : roleRows[m].tenant = t}
MappingsOf(u) == {m \in Present(tenantRows) : tenantRows[m].user = u}
MappingsTo(u, t) == {m \in MappingsOf(u) : tenantRows[m].tenant = t}

\* A request that has read rows of u, and writes or sends what it has made of them.
Holds(q, u) == run[q].user = u /\ run[q].at \in
    {"role", "saveRole", "saveMapping", "saveStatus", "insertRole", "bulkSave", "deleteRoles",
     "deleteUser", "jobRoles", "jobMapping", "jobRole", "send"}

\* r writes rows of u.
Writes(r, u) ==
    raced' = IF \E q \in Requests \ {r} : Holds(q, u) THEN raced \cup {u} ELSE raced

Set(r, f) == run' = [run EXCEPT ![r] = f]
End(r) == Set(r, Idle)

\* What was read for the last write.
Forget(f) == [f EXCEPT !.row = None, !.entity = None, !.was = None]
GoTo(r, there) == Set(r, [Forget(run[r]) EXCEPT !.at = there])

\* A request fails: half way, if it has written something.
FailHalfWay(r) ==
    failed' = IF run[r].wrote THEN failed \cup {run[r].user} ELSE failed

\* What is left alone by a step that only reads.
OnlyRun == UNCHANGED <<tables, told, history>>

\* A new row is inserted at any free id; an entity that was read goes back to its own.
Slots(r, table) ==
    IF run[r].row # None THEN {run[r].row}
    ELSE {m \in RowIds : table[m] = None /\ \A q \in Requests : run[q].row # m}

First(o) ==
    CASE o.name \in Creators \cup {"userTenantMapping"} -> "validate"
      [] o.name \in {"createAssignRole", "bulkUpdateUserRoles", "mapPrathaUsersToTenant"}
           -> "loop"
      [] OTHER -> "find"

\* A request arrives.  Only the loops over several users start without one.
Start(r, o) ==
    /\ run[r].at = "idle"
    /\ Cardinality(Running) < scenario.parallel
    /\ LET loop == o.name \in {"bulkUpdateUserRoles", "mapPrathaUsersToTenant"} IN
       \E u \in IF loop \/ o.name = "deleteRole" THEN {None} ELSE o.users :
        \* The id of a new user is new.
        /\ o.name \in Creators =>
             u \notin users /\ \A q \in Running : run[q].user # u
        /\ Set(r, [Idle EXCEPT !.at = First(o), !.op = o, !.user = u, !.todo = o.todo,
                     !.users = IF loop THEN o.users ELSE {}, !.roles = o.roles])
    /\ OnlyRun

-----------------------------------------------------------------------------
(* assignUserToTenantAndRoll, and the handlers that call it. *)

\* validateRequestBody: the roles are there, and of their tenants; getRoleNameDirectly of
\* single sign-on asks for the first role only.  No one notices a tenant named twice.
ValidateNew(r) ==
    /\ run[r].op.name \in Creators /\ run[r].at = "validate"
    /\ LET todo == run[r].todo
           fine == IF run[r].op.name = "handleNewUser" THEN todo[1].role \in roles
                   ELSE \A i \in DOMAIN todo :
                          /\ todo[i].role \in roles
                          /\ RoleTenant[todo[i].role] \in {None, todo[i].tenant}
       IN IF fine THEN GoTo(r, "create") ELSE End(r)
    /\ OnlyRun

\* The user's row, before the assignments of createUserInDatabase.
CreateUser(r) ==
    /\ run[r].op.name \in Creators /\ run[r].at = "create"
    /\ users' = users \cup {run[r].user}
    /\ Set(r, [run[r] EXCEPT !.at = "role", !.wrote = TRUE])
    /\ UNCHANGED <<roles, roleRows, tenantRows, told, history>>

\* The user has the role in the tenant.
Assigned(u, t, p) == \E m \in RolesIn(u, t) : roleRows[m].role = p

\* On to the assignment; whether such a row of the user was looked for.
ToRole(r, looked) == Set(r, [Forget(run[r]) EXCEPT !.at = "role", !.looked = looked])

\* validateUserTenantMapping: the user and the role exist, the pair is new.
Validate(r) ==
    /\ At(r, "userTenantMapping", "validate")
    /\ LET a == Head(run[r].todo) IN
       IF /\ run[r].user \in users /\ a.role \in roles
          /\ ~Assigned(run[r].user, a.tenant, a.role)
       THEN ToRole(r, TRUE) ELSE End(r)
    /\ OnlyRun

\* checkIfUserHasRoleInTenant of a manager who signs in again: a query that fails says
\* that the user has not.
HasRole(r) ==
    /\ At(r, "handleExistingUser", "find")
    /\ LET a == Head(run[r].todo) IN
       \/ IF Assigned(run[r].user, a.tenant, a.role) THEN End(r) ELSE ToRole(r, TRUE)
       \/ "database" \in scenario.faults /\ ToRole(r, FALSE)
    /\ OnlyRun

\* Mutant of Moves: a row is moved wherever it is.
MovesAny(a, row) == a.update

\* The row that was found is moved to the tenant of the assignment.
Moves(a, row) == a.update /\ row.tenant \in Roots

\* Single sign-on looks up neither an existing user nor the role of a manager.
NewRole(r, a) ==
    [user |-> run[r].user, tenant |-> a.tenant, role |-> a.role, hand |-> FALSE,
     checked |-> (IF run[r].looked THEN {"pair"} ELSE {}) \cup
                 (CASE run[r].op.name = "handleExistingUser" -> {}
                    [] run[r].op.name = "handleNewUser" /\ a.update -> {"user"}
                    [] OTHER -> {"user", "role"})]

\* handleRoleMappingForUser.
FindRole(r) ==
    /\ Assigning(r, "role")
    /\ LET a == Head(run[r].todo)
           new == [run[r] EXCEPT !.at = "saveRole", !.entity = NewRole(r, a)]
       IN \/ ~a.update /\ Set(r, new)
          \/ a.update /\ \E m \in RolesOf(run[r].user) :
                Set(r, IF ~Moves(a, roleRows[m]) THEN new
                       ELSE [run[r] EXCEPT !.at = "saveRole", !.row = m, !.was = roleRows[m],
                               !.entity = NewRole(r, a)])
    /\ OnlyRun

\* A user without any role row: findOne returns null, and null has no tenantId.
NothingFound(r) ==
    /\ \/ Assigning(r, "role") /\ RolesOf(run[r].user) = {}
       \/ Assigning(r, "mapping") /\ MappingsOf(run[r].user) = {}
    /\ Head(run[r].todo).update
    /\ End(r)
    /\ FailHalfWay(r)
    /\ UNCHANGED <<tables, told, granted, raced, doubled, halfway, scenario>>

\* A row that was read is saved as a whole, wherever it is by now.
SaveRole(r) ==
    /\ Assigning(r, "saveRole")
    /\ LET e == run[r].entity
           was == run[r].was
           gone == IF was = None THEN {} ELSE {<<was.user, was.tenant, was.role>>}
       IN /\ \E m \in Slots(r, roleRows) : roleRows' = [roleRows EXCEPT ![m] = e]
          /\ granted' = (granted \ gone) \cup {<<e.user, e.tenant, e.role>>}
          /\ Writes(r, e.user)
    /\ Set(r, [Forget(run[r]) EXCEPT !.at = "mapping", !.wrote = TRUE])
    /\ UNCHANGED <<users, roles, tenantRows, told, failed, doubled, halfway, scenario>>

\* Of the handlers that assign only assign-tenant publishes an event about the mapping.
Silent(r) == run[r].op.name # "userTenantMapping"

\* The mapping that an assignment makes, or makes of one with this status.
NewMapping(r, a, status, looked) ==
    [user |-> run[r].user, tenant |-> a.tenant, quiet |-> Silent(r),
     status |-> IF a.status = None THEN status ELSE a.status, looked |-> looked]

\* The next assignment, or the end; assign-tenant publishes an event after its reply.
NextAssignment(r) ==
    IF Len(run[r].todo) > 1
    THEN [Forget(run[r]) EXCEPT !.at = "role", !.todo = Tail(@)]
    ELSE IF run[r].op.name = "userTenantMapping"
    THEN [Forget(run[r]) EXCEPT !.at = "event"] ELSE Idle

\* handleTenantMappingForUser, which looks at a row of its own choice.
FindMapping(r) ==
    /\ Assigning(r, "mapping")
    /\ LET a == Head(run[r].todo)
       IN \/ /\ ~a.update
             /\ Set(r, [run[r] EXCEPT !.at = "saveMapping", !.entity = NewMapping(r, a, "active", FALSE)])
          \/ a.update /\ \E m \in MappingsOf(run[r].user) :
                LET row == tenantRows[m] IN
                Set(r, IF ~Moves(a, row) THEN [run[r] EXCEPT !.at = "pair"]
                       ELSE [run[r] EXCEPT !.at = "saveMapping", !.row = m, !.was = row,
                               !.entity = NewMapping(r, a, row.status, FALSE)])
    /\ OnlyRun

\* Mutant of FindPair: an inactive mapping is not found.
FindActivePair(r) ==
    /\ Assigning(r, "pair")
    /\ LET a == Head(run[r].todo) IN
       Set(r, IF \E m \in MappingsTo(run[r].user, a.tenant) : tenantRows[m].status = "active"
              THEN NextAssignment(r)
              ELSE [run[r] EXCEPT !.at = "saveMapping",
                                  !.entity = NewMapping(r, a, "active", TRUE)])
    /\ OnlyRun

\* Mutant of FindPair: an active mapping to any tenant will do.
FindAnyActive(r) ==
    /\ Assigning(r, "pair")
    /\ LET a == Head(run[r].todo) IN
       Set(r, IF \E m \in MappingsOf(run[r].user) : tenantRows[m].status = "active"
              THEN NextAssignment(r)
              ELSE [run[r] EXCEPT !.at = "saveMapping",
                                  !.entity = NewMapping(r, a, "active", TRUE)])
    /\ OnlyRun

\* The row of the pair, if there is one: it is left alone while it is active.
FindPair(r) ==
    /\ Assigning(r, "pair")
    /\ LET a == Head(run[r].todo) IN
       \/ /\ MappingsTo(run[r].user, a.tenant) = {}
          /\ Set(r, [run[r] EXCEPT !.at = "saveMapping",
                                   !.entity = NewMapping(r, a, "active", TRUE)])
       \/ \E m \in MappingsTo(run[r].user, a.tenant) :
            LET row == tenantRows[m] IN
            Set(r, IF row.status = "active" THEN NextAssignment(r)
                   ELSE [run[r] EXCEPT !.at = "saveMapping", !.row = m,
                           !.entity = NewMapping(r, a, row.status, row.looked)])
    /\ OnlyRun

\* A mapping refers to its user, who must be there.
SaveMapping(r) ==
    /\ Assigning(r, "saveMapping")
    /\ LET e == run[r].entity
           was == run[r].was
       IN /\ e.user \in users
          /\ \E m \in Slots(r, tenantRows) :
                /\ tenantRows' = [tenantRows EXCEPT ![m] = e]
                /\ doubled' = IF /\ was # None \/ run[r].op.name \in Creators
                                 /\ MappingsTo(e.user, e.tenant) \ {m} # {}
                              THEN doubled \cup {e.user} ELSE doubled
          /\ granted' = {g \in granted : was = None \/ was.tenant = e.tenant
                                         \/ g[1] # e.user \/ g[2] # was.tenant}
          /\ Writes(r, e.user)
    /\ Set(r, NextAssignment(r))
    /\ UNCHANGED <<users, roles, roleRows, told, failed, halfway, scenario>>

-----------------------------------------------------------------------------
(* updateAssignTenantStatus, and the events. *)

FindStatus(r) ==
    /\ At(r, "updateAssignTenantStatus", "find")
    /\ LET rows == MappingsTo(run[r].user, run[r].op.tenant) IN
       \/ rows = {} /\ End(r)
       \/ \E m \in rows :
            Set(r, [run[r] EXCEPT !.at = "saveStatus", !.row = m,
                        !.entity = [tenantRows[m] EXCEPT !.status = run[r].op.status,
                                                         !.quiet = FALSE]])
    /\ OnlyRun

\* save inserts the row again if it is gone by now.
SaveStatus(r) ==
    /\ At(r, "updateAssignTenantStatus", "saveStatus")
    /\ run[r].user \in users
    /\ tenantRows' = [tenantRows EXCEPT ![run[r].row] = run[r].entity]
    /\ Writes(r, run[r].user)
    /\ Set(r, [run[r] EXCEPT !.at = "event", !.row = None, !.wrote = TRUE])
    /\ UNCHANGED <<users, roles, roleRows, told, granted, failed, doubled, halfway, scenario>>

\* What the event is about.
Pair(r) == <<run[r].user, CASE run[r].op.name = "updateAssignTenantStatus" -> run[r].op.tenant
                            [] run[r].op.name = "mapPrathaUsersToTenant" -> Home
                            [] OTHER -> Head(run[r].todo).tenant>>

\* The job goes on with the next user.
NextUser(r) ==
    [Forget(run[r]) EXCEPT !.at = "loop", !.user = None, !.role = None, !.wrote = FALSE]

AfterEvent(r) == IF run[r].op.name = "mapPrathaUsersToTenant" THEN NextUser(r) ELSE Idle

\* Mutant of ReadForEvent: the event gives what the request itself has saved.
ReadsOwn(r) ==
    /\ run[r].at = "event"
    /\ LET e == run[r].entity IN
       Set(r, [run[r] EXCEPT !.at = "send", !.entity =
                 IF e # None THEN e
                 ELSE [user |-> run[r].user, tenant |-> Pair(r)[2], quiet |-> FALSE,
                       status |-> "active", looked |-> TRUE]])
    /\ OnlyRun

\* publishUserTenantMappingEvent, after the reply: a mapping of the pair is read
\* again; without one the event has no status.
ReadForEvent(r) ==
    /\ run[r].at = "event"
    /\ LET rows == MappingsTo(Pair(r)[1], Pair(r)[2]) IN
       \/ rows = {} /\ Set(r, AfterEvent(r))
       \/ \E m \in rows :
            Set(r, [run[r] EXCEPT !.at = "send", !.entity = tenantRows[m]])
    /\ OnlyRun

\* The reading fails: an event about a status gives the one that was asked for, one about
\* a new mapping gives none.
ReadFails(r) ==
    /\ run[r].at = "event" /\ "database" \in scenario.faults
    /\ Set(r, IF run[r].op.name # "updateAssignTenantStatus" THEN AfterEvent(r)
              ELSE [run[r] EXCEPT !.at = "send", !.entity =
                      [user |-> run[r].user, tenant |-> run[r].op.tenant,
                       status |-> run[r].op.status, quiet |-> FALSE, looked |-> TRUE]])
    /\ failed' = failed \cup {run[r].user}
    /\ UNCHANGED <<tables, told, granted, raced, doubled, halfway, scenario>>

\* publishUserTenantEvent.
Send(r) ==
    /\ run[r].at = "send"
    /\ told' = [told EXCEPT ![Pair(r)] = run[r].entity.status]
    /\ Writes(r, run[r].user)
    /\ Set(r, AfterEvent(r))
    /\ UNCHANGED <<tables, granted, failed, doubled, halfway, scenario>>

\* Kafka refuses the event, which is logged.
SendFails(r) ==
    /\ run[r].at = "send" /\ "kafka" \in scenario.faults
    /\ failed' = failed \cup {run[r].user}
    /\ Set(r, AfterEvent(r))
    /\ UNCHANGED <<tables, told, granted, raced, doubled, halfway, scenario>>

-----------------------------------------------------------------------------
(* The handlers of assigned roles. *)

\* createAssignRole: a role that the user has in any tenant, that is gone, or that is
\* another tenant's is passed over.
CheckRole(r) ==
    /\ At(r, "createAssignRole", "loop")
    /\ \E p \in run[r].roles :
         LET fits == /\ \A m \in RolesOf(run[r].user) : roleRows[m].role # p
                     /\ p \in roles /\ RoleTenant[p] = run[r].op.tenant
         IN Set(r, IF fits THEN [run[r] EXCEPT !.at = "insertRole", !.role = p]
                   ELSE [run[r] EXCEPT !.roles = @ \ {p}])
    /\ OnlyRun

InsertRole(r) ==
    /\ At(r, "createAssignRole", "insertRole")
    /\ \E m \in Slots(r, roleRows) : roleRows' = [roleRows EXCEPT ![m] =
            [user |-> run[r].user, tenant |-> run[r].op.tenant, role |-> run[r].role,
             hand |-> TRUE, checked |-> {"role", "pair"}]]
    /\ Writes(r, run[r].user)
    /\ Set(r, [run[r] EXCEPT !.at = "loop", !.roles = @ \ {run[r].role}, !.role = None])
    /\ UNCHANGED <<users, roles, tenantRows, told, granted, failed, doubled, halfway, scenario>>

RolesDone(r) ==
    /\ At(r, "createAssignRole", "loop") /\ run[r].roles = {}
    /\ End(r)
    /\ OnlyRun

\* deleteAssignedRole: as many rows as roles are expected.
FindAssigned(r) ==
    /\ At(r, "deleteAssignedRole", "find")
    /\ LET found == {m \in RolesOf(run[r].user) : roleRows[m].role \in run[r].op.roles} IN
       IF Cardinality(found) = Cardinality(run[r].op.roles) THEN GoTo(r, "deleteRoles")
       ELSE End(r)
    /\ OnlyRun

DeleteAssigned(r) ==
    /\ At(r, "deleteAssignedRole", "deleteRoles")
    /\ roleRows' = [m \in RowIds |->
            IF m \in RolesOf(run[r].user) /\ roleRows[m].role \in run[r].op.roles
            THEN None ELSE roleRows[m]]
    /\ granted' = {g \in granted : g[1] # run[r].user \/ g[3] \notin run[r].op.roles}
    /\ Writes(r, run[r].user)
    /\ End(r)
    /\ UNCHANGED <<users, roles, tenantRows, told, failed, doubled, halfway, scenario>>

\* bulkUpdateUserRoles: the users that have a role in the tenant; the new role is
\* not looked up.
BulkFind(r) ==
    /\ At(r, "bulkUpdateUserRoles", "loop")
    /\ \E u \in run[r].users :
         Set(r, IF RolesIn(u, run[r].op.tenant) = {}
                THEN [run[r] EXCEPT !.users = @ \ {u}]
                ELSE [run[r] EXCEPT !.users = @ \ {u}, !.user = u, !.at = "bulkSave"])
    /\ OnlyRun

\* Every role of the user in the tenant becomes the new one.
BulkUpdate(r) ==
    /\ At(r, "bulkUpdateUserRoles", "bulkSave")
    /\ LET u == run[r].user
           t == run[r].op.tenant
           p == CHOOSE q \in run[r].op.roles : TRUE
       IN /\ roleRows' = [m \in RowIds |-> IF m \notin RolesIn(u, t) THEN roleRows[m]
                    ELSE [roleRows[m] EXCEPT !.role = p, !.checked = @ \ {"role", "pair"}]]
          /\ granted' = {g \in granted : g[1] # u \/ g[2] # t}
          /\ Writes(r, u)
    /\ Set(r, [run[r] EXCEPT !.at = "loop", !.user = None])
    /\ UNCHANGED <<users, roles, tenantRows, told, failed, doubled, halfway, scenario>>

LoopDone(r) ==
    /\ run[r].op.name \in {"bulkUpdateUserRoles", "mapPrathaUsersToTenant"}
    /\ run[r].at = "loop" /\ run[r].users = {}
    /\ End(r)
    /\ OnlyRun

-----------------------------------------------------------------------------
(* deleteRole and deleteUserById, as far as they concern the two tables. *)

FindRoleToDelete(r) ==
    /\ At(r, "deleteRole", "find")
    /\ IF run[r].op.roles \subseteq roles THEN GoTo(r, "delete") ELSE End(r)
    /\ OnlyRun

\* A request under way that may still write a row with role p.
Uses(q, p) == run[q].at # "idle" /\ run[q].op.name # "deleteRole" /\
    (p \in run[q].roles \/ \E i \in DOMAIN run[q].todo : run[q].todo[i].role = p)

\* The role goes first, ...
DeleteRole(r) ==
    /\ At(r, "deleteRole", "delete")
    /\ roles' = roles \ run[r].op.roles
    /\ halfway' = halfway \cup {p \in run[r].op.roles : \E q \in Requests : Uses(q, p)}
    /\ GoTo(r, "rows")
    /\ UNCHANGED <<users, roleRows, tenantRows, told, granted, raced, failed, doubled, scenario>>

\* Mutant of DeleteRoleRows: only the rows of the role's own tenant.
DeleteRoleRowsOfTenant(r) ==
    /\ At(r, "deleteRole", "rows")
    /\ roleRows' = [m \in RowIds |-> IF /\ m \in Present(roleRows)
                                        /\ roleRows[m].role \in run[r].op.roles
                                        /\ roleRows[m].tenant = RoleTenant[roleRows[m].role]
                                     THEN None ELSE roleRows[m]]
    /\ granted' = {g \in granted : g[3] \notin run[r].op.roles}
    /\ End(r)
    /\ UNCHANGED <<users, roles, tenantRows, told, raced, failed, doubled, halfway, scenario>>

\* ... then its privileges, then the rows that give it to users.
DeleteRoleRows(r) ==
    /\ At(r, "deleteRole", "rows")
    /\ LET gone == {m \in Present(roleRows) : roleRows[m].role \in run[r].op.roles} IN
       /\ roleRows' = [m \in RowIds |-> IF m \in gone THEN None ELSE roleRows[m]]
       /\ raced' = raced \cup {u \in {roleRows[m].user : m \in gone} :
                                \E q \in Requests \ {r} : Holds(q, u)}
    /\ granted' = {g \in granted : g[3] \notin run[r].op.roles}
    /\ End(r)
    /\ UNCHANGED <<users, roles, tenantRows, told, failed, doubled, halfway, scenario>>

FindUser(r) ==
    /\ At(r, "deleteUserById", "find")
    /\ IF run[r].user \in users THEN GoTo(r, "deleteMappings") ELSE End(r)
    /\ OnlyRun

DeleteMappings(r) ==
    /\ At(r, "deleteUserById", "deleteMappings")
    /\ tenantRows' = [m \in RowIds |-> IF m \in MappingsOf(run[r].user) THEN None
                                       ELSE tenantRows[m]]
    /\ granted' = {g \in granted : g[1] # run[r].user}
    /\ Writes(r, run[r].user)
    /\ Set(r, [run[r] EXCEPT !.at = "deleteRows", !.wrote = TRUE])
    /\ UNCHANGED <<users, roles, roleRows, told, failed, doubled, halfway, scenario>>

DeleteRows(r) ==
    /\ At(r, "deleteUserById", "deleteRows")
    /\ roleRows' = [m \in RowIds |-> IF m \in RolesOf(run[r].user) THEN None
                                     ELSE roleRows[m]]
    /\ Writes(r, run[r].user)
    /\ GoTo(r, "deleteUser")
    /\ UNCHANGED <<users, roles, tenantRows, told, granted, failed, doubled, halfway, scenario>>

\* A mapping made in the meantime keeps the user.  A request that is still assigning
\* leaves a role behind.
DeleteUser(r) ==
    /\ At(r, "deleteUserById", "deleteUser")
    /\ MappingsOf(run[r].user) = {}
    /\ users' = users \ {run[r].user}
    /\ raced' = IF \E q \in Requests \ {r} : run[q].user = run[r].user
                THEN raced \cup {run[r].user} ELSE raced
    /\ End(r)
    /\ UNCHANGED <<roles, roleRows, tenantRows, told, granted, failed, doubled, halfway, scenario>>

-----------------------------------------------------------------------------
(* mapPrathaUsersToTenant. *)

\* A user who has a mapping to the home tenant, or cannot be read, is passed over.
JobUser(r) ==
    /\ At(r, "mapPrathaUsersToTenant", "loop")
    /\ \E u \in run[r].users :
         \/ /\ MappingsTo(u, Home) # {} \/ "database" \in scenario.faults
            /\ Set(r, [run[r] EXCEPT !.users = @ \ {u}])
         \/ /\ MappingsTo(u, Home) = {}
            /\ Set(r, [run[r] EXCEPT !.users = @ \ {u}, !.user = u, !.at = "jobRoles"])
    /\ OnlyRun

\* Whether the user has a role there is read before the mapping is made.
JobRoles(r) ==
    /\ At(r, "mapPrathaUsersToTenant", "jobRoles")
    /\ Set(r, [run[r] EXCEPT !.at = "jobMapping",
                 !.role = IF RolesIn(run[r].user, Home) = {} THEN Learner ELSE None])
    /\ OnlyRun

JobMapping(r) ==
    /\ At(r, "mapPrathaUsersToTenant", "jobMapping")
    /\ run[r].user \in users
    /\ \E m \in Slots(r, tenantRows) : tenantRows' = [tenantRows EXCEPT ![m] =
            [user |-> run[r].user, tenant |-> Home, status |-> "active", quiet |-> FALSE,
             looked |-> TRUE]]
    /\ granted' = IF run[r].role = None THEN granted
                  ELSE granted \cup {<<run[r].user, Home, Learner>>}
    /\ Writes(r, run[r].user)
    /\ Set(r, [run[r] EXCEPT !.wrote = TRUE,
                             !.at = IF run[r].role = None THEN "event" ELSE "jobRole"])
    /\ UNCHANGED <<users, roles, roleRows, told, failed, doubled, halfway, scenario>>

JobRole(r) ==
    /\ At(r, "mapPrathaUsersToTenant", "jobRole")
    /\ \E m \in Slots(r, roleRows) : roleRows' = [roleRows EXCEPT ![m] =
            [user |-> run[r].user, tenant |-> Home, role |-> Learner,
             hand |-> FALSE, checked |-> {"user", "pair"}]]
    /\ Writes(r, run[r].user)
    /\ Set(r, [run[r] EXCEPT !.at = "event"])
    /\ UNCHANGED <<users, roles, tenantRows, told, granted, failed, doubled, halfway, scenario>>

\* An error ends the work on one user.
JobFails(r) ==
    /\ run[r].op.name = "mapPrathaUsersToTenant"
    /\ run[r].at \in {"jobRoles", "jobMapping", "jobRole"}
    /\ "database" \in scenario.faults \/ run[r].user \notin users
    /\ Set(r, NextUser(r))
    /\ FailHalfWay(r)
    /\ UNCHANGED <<tables, told, granted, raced, doubled, halfway, scenario>>

-----------------------------------------------------------------------------
\* A database error ends a handler, and what it has written stays; so it is when a
\* pod dies.  Mappings are refused for a user that is gone.
Abort(r) ==
    /\ run[r].at # "idle"
    /\ \/ "crash" \in scenario.faults
       \/ /\ "database" \in scenario.faults
          /\ run[r].at \notin {"jobRoles", "jobMapping", "jobRole", "event", "send"}
       \/ run[r].at \in {"saveMapping", "saveStatus"} /\ run[r].user \notin users
       \/ run[r].at = "deleteUser" /\ MappingsOf(run[r].user) # {}
    /\ End(r)
    /\ FailHalfWay(r)
    /\ halfway' = IF At(r, "deleteRole", "rows") THEN halfway \cup run[r].op.roles ELSE halfway
    /\ UNCHANGED <<tables, told, granted, raced, doubled, scenario>>

Next ==
    \E r \in Requests :
        \/ \E o \in scenario.ops : Start(r, o)
        \/ ValidateNew(r) \/ CreateUser(r) \/ Validate(r) \/ HasRole(r) \/ NothingFound(r)
        \/ FindRole(r) \/ SaveRole(r) \/ FindMapping(r) \/ FindPair(r) \/ SaveMapping(r)
        \/ FindStatus(r) \/ SaveStatus(r) \/ ReadForEvent(r) \/ ReadFails(r)
        \/ Send(r) \/ SendFails(r)
        \/ CheckRole(r) \/ InsertRole(r) \/ RolesDone(r) \/ FindAssigned(r) \/ DeleteAssigned(r)
        \/ BulkFind(r) \/ BulkUpdate(r) \/ LoopDone(r)
        \/ FindRoleToDelete(r) \/ DeleteRole(r) \/ DeleteRoleRows(r)
        \/ FindUser(r) \/ DeleteMappings(r) \/ DeleteRows(r) \/ DeleteUser(r)
        \/ JobUser(r) \/ JobRoles(r) \/ JobMapping(r) \/ JobRole(r) \/ JobFails(r) \/ Abort(r)

Spec == Init /\ [][Next]_vars

-----------------------------------------------------------------------------
(* Properties. *)

\* The types of the variables.
TypeOK ==
    /\ users \subseteq Users /\ roles \subseteq Roles
    /\ roleRows \in [RowIds -> RoleRow \cup {None}]
    /\ tenantRows \in [RowIds -> TenantRow \cup {None}]
    /\ told \in [Users \X Tenants -> Statuses \cup {None}]
    /\ granted \subseteq Users \X Tenants \X Roles
    /\ raced \subseteq Users /\ failed \subseteq Users /\ doubled \subseteq Users
    /\ halfway \subseteq Roles
    /\ \A r \in Requests : run[r].entity \in RoleRow \cup TenantRow \cup {None}

Busy(u) == \E r \in Requests : run[r].user = u

\* What a user was assigned, and nobody has taken away, the user has: the role and
\* the mapping to its tenant.  Only two requests of which one writes what the other
\* has read, or one that failed half way, lose either.
GrantsStay ==
    \A g \in granted :
        ~Busy(g[1]) /\ g[1] \notin raced \cup failed =>
            Assigned(g[1], g[2], g[3]) /\ MappingsTo(g[1], g[2]) # {}

\* A role in a tenant that is not a root comes with a mapping to that tenant, unless
\* it was assigned by hand.
RolesHaveMappings ==
    \A m \in Present(roleRows) :
        LET row == roleRows[m] IN
        /\ row.tenant \notin Roots /\ ~row.hand
        /\ ~Busy(row.user) /\ row.user \notin raced \cup failed
        => MappingsTo(row.user, row.tenant) # {}

\* No user has one mapping or one role twice, unless of two requests one wrote what the
\* other had read, or one of the two rows was written without a look for the other: by
\* the creation of a user, by the move of a root tenant's row, by the second assignment of
\* single sign-on or after its look failed, or by a bulk update.
RowsUnique ==
    /\ \A m, n \in Present(tenantRows) :
        /\ m # n /\ tenantRows[m].user = tenantRows[n].user
        /\ tenantRows[m].tenant = tenantRows[n].tenant
        /\ tenantRows[m].looked /\ tenantRows[n].looked
        => tenantRows[m].user \in raced
    /\ \A m, n \in Present(roleRows) :
        /\ m # n /\ roleRows[m].user = roleRows[n].user
        /\ roleRows[m].tenant = roleRows[n].tenant /\ roleRows[m].role = roleRows[n].role
        /\ "pair" \in roleRows[m].checked \cap roleRows[n].checked
        => roleRows[m].user \in raced

\* A row gives an existing role to an existing user, unless its writer did not look
\* them up, or the deletion of the role or the user failed half way or overlapped
\* with a request that uses it.
RowsRefer ==
    \A m \in Present(roleRows) :
        LET row == roleRows[m] IN
        /\ \/ row.role \in roles \cup halfway \/ "role" \notin row.checked
           \/ \E r \in Requests : At(r, "deleteRole", "rows") /\ row.role \in run[r].op.roles
        /\ row.user \in users \cup raced \cup failed \/ "user" \notin row.checked

\* The last event about a user in a tenant gives the status of the mapping, whatever
\* the order of the requests: an event reads the mapping again before it is sent.  Of
\* mappings that single sign-on or the creation of a user writes nothing is told.
EventsCatchUp ==
    \A m \in Present(tenantRows) :
        LET row == tenantRows[m] IN
        /\ ~row.quiet /\ ~Busy(row.user) /\ row.user \notin raced \cup failed \cup doubled
        => told[<<row.user, row.tenant>>] \in {row.status, None}
=============================================================================

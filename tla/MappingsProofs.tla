--------------------------- MODULE MappingsProofs ---------------------------
(***************************************************************************)
(* Proofs about the mappings and roles of users.                           *)
(*                                                                         *)
(* A handler looks at rows, awaits, and writes what it has made of them.   *)
(* The inductive invariant says of every request, per place of its         *)
(* handler, that what it has read is still so, unless the user is raced    *)
(* (Knows); that the row it will write is free or its own user's (Owned);  *)
(* and of every user, that the tables are right but for what a request     *)
(* under way is about to do (UserOK: Brought, Announced, Serving).         *)
(*                                                                         *)
(* First each action, then all of them by what they do: Reading changes    *)
(* the request alone, Failing gives up, Writing changes the rows of one    *)
(* user.  Then Owned, Known, AllUsers and Refers, one after the other.     *)
(***************************************************************************)
EXTENDS Mappings, FiniteSetTheorems, TLAPS

\* The places of the handlers, and a request with its fields typed.
Ats == {"idle", "validate", "create", "find", "loop", "role", "saveRole", "mapping", "pair",
        "saveMapping", "saveStatus", "event", "send", "insertRole", "deleteRoles", "bulkSave",
        "delete", "rows", "deleteMappings", "deleteRows", "deleteUser", "jobRoles", "jobMapping",
        "jobRole"}
RunRow == [at : Ats, op : Op \cup {NoOp}, user : Users \cup {None}, users : SUBSET Users,
        todo : Seq(Assignment), roles : SUBSET Roles, role : Roles \cup {None},
        row : RowIds \cup {None}, was : RoleRow \cup TenantRow \cup {None},
        entity : RoleRow \cup TenantRow \cup {None}, wrote : BOOLEAN, looked : BOOLEAN]

Assigns == Creators \cup Assigners
Assignings == {"role", "saveRole", "mapping", "pair", "saveMapping"}
Loops == {"bulkUpdateUserRoles", "mapPrathaUsersToTenant"}

\* Where a request may be, when it is not idle.
Place(f) ==
    \/ f.op.name \in Assigns /\ f.at \in Assignings
    \/ f.op.name \in Creators /\ f.at \in {"validate", "create"}
    \/ f.op.name = "userTenantMapping" /\ f.at \in {"validate", "event", "send"}
    \/ f.op.name = "handleExistingUser" /\ f.at = "find"
    \/ f.op.name = "updateAssignTenantStatus" /\ f.at \in {"find", "saveStatus", "event", "send"}
    \/ f.op.name = "createAssignRole" /\ f.at \in {"loop", "insertRole"}
    \/ f.op.name = "deleteAssignedRole" /\ f.at \in {"find", "deleteRoles"}
    \/ f.op.name = "bulkUpdateUserRoles" /\ f.at \in {"loop", "bulkSave"}
    \/ f.op.name = "deleteRole" /\ f.at \in {"find", "delete", "rows"}
    \/ f.op.name = "deleteUserById" /\ f.at \in {"find", "deleteMappings", "deleteRows", "deleteUser"}
    \/ f.op.name = "mapPrathaUsersToTenant"
         /\ f.at \in {"loop", "jobRoles", "jobMapping", "jobRole", "event", "send"}

\* What the event of a request is about.
About(f) == CASE f.op.name = "updateAssignTenantStatus" -> f.op.tenant
              [] f.op.name = "mapPrathaUsersToTenant" -> Home
              [] OTHER -> Head(f.todo).tenant

Empty(f) == f.row = None /\ f.was = None /\ f.entity = None

Shape(f) ==
    \/ f = Idle
    \/ /\ f.op \in Op /\ Asked(f.op)
       /\ Place(f)
       /\ (f.user = None) <=> (f.op.name = "deleteRole" \/ (f.op.name \in Loops /\ f.at = "loop"))
       /\ f.op.name \in Assigns => f.todo # <<>>
       /\ f.op.name \notin Assigns => f.todo = <<>>
       /\ f.op.name \in Creators => ~f.looked
       /\ f.op.name \in Assigners => f.todo = f.op.todo
       /\ f.at \in {"validate", "create"} => f.todo = f.op.todo
       /\ f.op.name \in Loops => f.roles = f.op.roles
       /\ f.at \in {"mapping", "pair", "saveMapping", "event", "send", "jobRole",
                    "deleteRows", "deleteUser"} => f.wrote
       /\ f.op.name \in {"createAssignRole", "bulkUpdateUserRoles", "deleteRole"} \/ f.at = "loop"
            => ~f.wrote
       /\ f.at \notin {"saveRole", "saveMapping", "saveStatus", "event", "send"} => Empty(f)
       /\ f.at = "saveRole" =>
            /\ f.entity \in RoleRow /\ f.entity.user = f.user /\ ~f.entity.hand
            /\ f.entity.tenant = Head(f.todo).tenant /\ f.entity.role = Head(f.todo).role
            /\ "pair" \in f.entity.checked => f.looked
            /\ f.was \in RoleRow \cup {None}
            /\ f.was = None <=> f.row = None
            /\ f.was # None => f.was.user = f.user /\ f.was.tenant \in Roots
       /\ f.at = "saveMapping" =>
            /\ f.entity \in TenantRow /\ f.entity.user = f.user
            /\ f.entity.tenant = Head(f.todo).tenant
            /\ f.entity.quiet = (f.op.name # "userTenantMapping")
            /\ f.was \in TenantRow \cup {None}
            /\ f.was # None => f.row # None /\ ~f.entity.looked
            /\ f.was # None => f.was.user = f.user /\ f.was.tenant \in Roots
       /\ f.at = "saveStatus" =>
            /\ f.entity \in TenantRow /\ f.entity.user = f.user /\ f.row # None /\ f.was = None
            /\ f.entity.tenant = f.op.tenant
       /\ f.at \in {"event", "send"} => f.row = None /\ f.was = None
       /\ f.at = "send" => f.entity \in TenantRow
       /\ f.role # None => f.at \in {"insertRole", "jobMapping", "jobRole", "event", "send"}
       /\ f.at = "insertRole" => f.role # None /\ f.role \in f.roles
       /\ f.op.name = "mapPrathaUsersToTenant" => f.role \in {None, Learner}
       /\ f.at = "jobRole" => f.role = Learner

Types ==
    /\ users \subseteq Users /\ roles \subseteq Roles
    /\ roleRows \in [RowIds -> RoleRow \cup {None}]
    /\ tenantRows \in [RowIds -> TenantRow \cup {None}]
    /\ told \in [Users \X Tenants -> Statuses \cup {None}]
    /\ run \in [Requests -> RunRow]
    /\ granted \subseteq Users \X Tenants \X Roles
    /\ raced \subseteq Users /\ failed \subseteq Users /\ doubled \subseteq Users
    /\ halfway \subseteq Roles /\ scenario \in Scenarios

Shapes == \A q \in Requests : Shape(run[q])

\* The row that a request will write is free or of its own user.
OwnedRole(q) == run[q].at = "saveRole" /\ run[q].row # None =>
    /\ roleRows[run[q].row] # None => roleRows[run[q].row].user = run[q].user
    /\ \A p \in Requests : run[p].at = "saveRole" /\ run[p].row = run[q].row
          => run[p].user = run[q].user
OwnedMapping(q) == run[q].at \in {"saveMapping", "saveStatus"} /\ run[q].row # None =>
    /\ tenantRows[run[q].row] # None => tenantRows[run[q].row].user = run[q].user
    /\ \A p \in Requests : run[p].at \in {"saveMapping", "saveStatus"} /\ run[p].row = run[q].row
          => run[p].user = run[q].user
Owned == \A q \in Requests : OwnedRole(q) /\ OwnedMapping(q)

\* What a request has read is still so.
Knows(q) ==
    LET f == run[q]
        u == f.user
    IN u \in raced \/
       /\ f.at \in {"role", "saveRole"} /\ f.looked
            => ~Assigned(u, Head(f.todo).tenant, Head(f.todo).role)
       /\ f.at = "saveRole" /\ f.row # None => f.row \in RolesOf(u) /\ roleRows[f.row] = f.was
       /\ f.at = "saveMapping" /\ f.was # None =>
            f.row \in MappingsOf(u) /\ tenantRows[f.row] = f.was
       /\ f.at = "saveMapping" /\ f.was = None =>
            /\ f.row # None => f.row \in MappingsTo(u, f.entity.tenant)
                                /\ (f.entity.looked => tenantRows[f.row].looked)
            /\ f.row = None /\ f.entity.looked => MappingsTo(u, f.entity.tenant) = {}
            /\ f.op.name \in Assigners =>
                 MappingsTo(u, f.entity.tenant) \subseteq {f.row} \/ u \in doubled
       /\ f.at = "saveStatus" =>
            /\ f.row \in MappingsTo(u, f.op.tenant)
            /\ f.entity.looked => tenantRows[f.row].looked
            /\ MappingsTo(u, f.op.tenant) \subseteq {f.row} \/ u \in doubled
       /\ f.at = "insertRole" => \A m \in RolesOf(u) : roleRows[m].role # f.role
       /\ f.at \in {"jobRoles", "jobMapping"} => MappingsTo(u, Home) = {}
       /\ f.at \in {"jobMapping", "jobRole"} /\ f.role # None => RolesIn(u, Home) = {}
       /\ f.at = "jobRole" => MappingsTo(u, Home) # {}
       /\ f.at = "send" => u \in doubled \cup failed \/
            \A m \in MappingsTo(u, About(f)) : tenantRows[m].status = f.entity.status
       /\ f.at = "deleteUser" => RolesOf(u) = {}
Known == \A q \in Requests : Knows(q)

Serving(u, at) == \E q \in Requests : run[q].user = u /\ run[q].at = at
Bringing(f, t) == f.at \in {"mapping", "pair", "saveMapping"} /\ Head(f.todo).tenant = t
Telling(f, t) == f.at \in {"jobRole", "event", "send"} /\ About(f) = t
Brought(u, t) == \E q \in Requests : run[q].user = u /\ Bringing(run[q], t)
Announced(u, t) == \E q \in Requests : run[q].user = u /\ Telling(run[q], t)

UniqueRows(u) == u \in raced \cup doubled \/
    \A m, n \in MappingsOf(u) : tenantRows[m].tenant = tenantRows[n].tenant => m = n

\* Of equal rows only one was looked for before it was written.
LookedOnce(u) == u \in raced \/
    /\ \A m, n \in MappingsOf(u) :
         tenantRows[m].tenant = tenantRows[n].tenant /\ tenantRows[m].looked /\ tenantRows[n].looked
         => m = n
    /\ \A m, n \in RolesOf(u) :
         /\ roleRows[m].tenant = roleRows[n].tenant /\ roleRows[m].role = roleRows[n].role
         /\ "pair" \in roleRows[m].checked /\ "pair" \in roleRows[n].checked
         => m = n

GrantsOf(u) == u \in raced \cup failed \/
    \A t \in Tenants, p \in Roles : <<u, t, p>> \in granted =>
        /\ \/ Assigned(u, t, p) \/ Serving(u, "deleteUser")
           \/ t = Home /\ p = Learner /\ Serving(u, "jobRole")
        /\ MappingsTo(u, t) # {} \/ Brought(u, t)

MappedRoles(u) == u \in raced \cup failed \/
    \A m \in RolesOf(u) :
        LET row == roleRows[m] IN
        row.tenant \notin Roots /\ ~row.hand =>
            MappingsTo(u, row.tenant) # {} \/ Brought(u, row.tenant) \/ Serving(u, "deleteRows")

ToldOf(u) == u \in raced \cup failed \cup doubled \/
    \A m \in MappingsOf(u) :
        LET row == tenantRows[m] IN
        row.quiet \/ told[<<u, row.tenant>>] \in {row.status, None} \/ Announced(u, row.tenant)

UserOK(u) == UniqueRows(u) /\ LookedOnce(u) /\ GrantsOf(u) /\ MappedRoles(u) /\ ToldOf(u)

\* The role of an assignment is looked up.
Vouched(o, a) == o.name \in {"createUser", "userTenantMapping"}
                 \/ (o.name = "handleNewUser" /\ ~a.update)

RowRefers(m) ==
    LET row == roleRows[m] IN
    /\ \/ row.role \in roles \cup halfway \/ "role" \notin row.checked
       \/ \E r \in Requests : At(r, "deleteRole", "rows") /\ row.role \in run[r].op.roles
    /\ row.user \in users \cup raced \cup failed \/ "user" \notin row.checked

Looked(q) ==
    LET f == run[q] IN
    /\ f.at \in {"create"} \cup Assignings => \A i \in DOMAIN f.todo :
         Vouched(f.op, f.todo[i]) => f.todo[i].role \in roles \cup halfway
    /\ f.at = "insertRole" => f.role \in roles \cup halfway
    /\ (f.at \in Assignings /\ f.op.name # "handleExistingUser") \/ f.at = "jobRole" =>
         f.user \in users \cup raced \cup failed
    /\ f.at = "saveRole" =>
         /\ "role" \in f.entity.checked => Vouched(f.op, Head(f.todo))
         /\ "user" \in f.entity.checked => f.op.name # "handleExistingUser"

Refers == (\A m \in Present(roleRows) : RowRefers(m)) /\ \A q \in Requests : Looked(q)

AllUsers == \A u \in Users : UserOK(u)
MappingsInv ==
    /\ Types /\ Shapes /\ Owned /\ Known /\ Refers
    /\ AllUsers

-----------------------------------------------------------------------------
(* What a step does to the requests. *)

Only(r) ==
    /\ run' \in [Requests -> RunRow] /\ scenario' = scenario
    /\ \A q \in Requests \ {r} : run'[q] = run[q]

LEMMA SetStep ==
    ASSUME Types, NEW r \in Requests, NEW g \in RunRow, Set(r, g), scenario' = scenario
    PROVE  Only(r) /\ run'[r] = g
BY DEF Types, Set, Only

LEMMA IdleRow == Idle \in RunRow /\ Empty(Idle)
<1>1. <<>> \in Seq(Assignment) OBVIOUS
<1>2. /\ NoOp \in Op \cup {NoOp} /\ None \in Users \cup {None} /\ None \in Roles \cup {None}
      /\ None \in RowIds \cup {None} /\ None \in RoleRow \cup TenantRow \cup {None}
      /\ {} \in SUBSET Users /\ {} \in SUBSET Roles
  OBVIOUS
<1>3. "idle" \in Ats BY DEF Ats
<1>5. FALSE \in BOOLEAN OBVIOUS
<1>4. Idle \in RunRow
  <2> USE <1>1, <1>2, <1>3, <1>5
  <2> HIDE DEF NoOp
  <2> QED BY Zenon DEF Idle, RunRow
<1> QED BY <1>4 DEF Idle, Empty

\* The request is as before but for where it is.
Keeps(f, g) ==
    /\ g.op = f.op /\ g.user = f.user /\ g.todo = f.todo /\ g.roles = f.roles
    /\ g.role = f.role /\ g.wrote = f.wrote /\ g.looked = f.looked

LEMMA ForgetIs ==
    ASSUME NEW f \in RunRow
    PROVE  /\ Forget(f) \in RunRow /\ Empty(Forget(f)) /\ Keeps(f, Forget(f))
           /\ Forget(f).at = f.at /\ Forget(f).users = f.users
BY DEF Forget, RunRow, Empty, Keeps

Goes(r, there) == Only(r) /\ run'[r].at = there /\ Keeps(run[r], run'[r]) /\ Empty(run'[r])
Ends(r) == Only(r) /\ run'[r] = Idle

\* On to the assignment, with or without a look.
Enters(r) ==
    /\ Only(r) /\ run'[r].at = "role" /\ Empty(run'[r])
    /\ run'[r].op = run[r].op /\ run'[r].user = run[r].user /\ run'[r].todo = run[r].todo
    /\ run'[r].roles = run[r].roles /\ run'[r].role = run[r].role /\ run'[r].wrote = run[r].wrote

LEMMA EndStep ==
    ASSUME Types, NEW r \in Requests, End(r), scenario' = scenario
    PROVE  Ends(r)
BY SetStep, IdleRow DEF End, Ends

LEMMA GoStep ==
    ASSUME Types, NEW r \in Requests, NEW there \in Ats, GoTo(r, there), scenario' = scenario
    PROVE  Goes(r, there)
<1> DEFINE g == [Forget(run[r]) EXCEPT !.at = there]
<1>1. run[r] \in RunRow BY DEF Types
<1>2. g \in RunRow /\ g.at = there /\ Keeps(run[r], g) /\ Empty(g)
  <2>1. PICK f \in RunRow : f = Forget(run[r]) BY <1>1, ForgetIs
  <2>2. Keeps(run[r], f) /\ Empty(f) BY <1>1, <2>1, ForgetIs
  <2>3. g = [f EXCEPT !.at = there] BY <2>1
  <2> HIDE DEF g
  <2> QED BY <2>1, <2>2, <2>3 DEF RunRow, Keeps, Empty
<1>3. Set(r, g) BY DEF GoTo
<1> HIDE DEF g
<1> QED BY <1>2, <1>3, SetStep DEF Goes

LEMMA EnterStep ==
    ASSUME Types, NEW r \in Requests, NEW b \in BOOLEAN, ToRole(r, b), scenario' = scenario
    PROVE  Enters(r) /\ run'[r].looked = b
<1> DEFINE g == [Forget(run[r]) EXCEPT !.at = "role", !.looked = b]
<1>1. run[r] \in RunRow BY DEF Types
<1>2. /\ g \in RunRow /\ g.at = "role" /\ Empty(g) /\ g.looked = b
      /\ g.op = run[r].op /\ g.user = run[r].user /\ g.todo = run[r].todo
      /\ g.roles = run[r].roles /\ g.role = run[r].role /\ g.wrote = run[r].wrote
  <2>1. PICK f \in RunRow : f = Forget(run[r]) BY <1>1, ForgetIs
  <2>2. Keeps(run[r], f) /\ Empty(f) BY <1>1, <2>1, ForgetIs
  <2>3. g = [f EXCEPT !.at = "role", !.looked = b] BY <2>1
  <2>4. "role" \in Ats BY DEF Ats
  <2> HIDE DEF g
  <2> QED BY <2>1, <2>2, <2>3, <2>4 DEF RunRow, Keeps, Empty
<1>3. Set(r, g) BY DEF ToRole
<1> HIDE DEF g
<1> QED BY <1>2, <1>3, SetStep DEF Enters

\* Only where the request is, and what it has read.
Reads(r, there, m, w, e) ==
    /\ Only(r) /\ run'[r].at = there /\ Keeps(run[r], run'[r])
    /\ run'[r].row = m /\ run'[r].was = w /\ run'[r].entity = e

LEMMA EntityStep ==
    ASSUME Types, NEW r \in Requests, NEW there \in Ats,
           NEW e \in RoleRow \cup TenantRow \cup {None}, scenario' = scenario,
           Set(r, [run[r] EXCEPT !.at = there, !.entity = e])
    PROVE  Reads(r, there, run[r].row, run[r].was, e)
<1> DEFINE g == [run[r] EXCEPT !.at = there, !.entity = e]
<1>1. run[r] \in RunRow BY DEF Types
<1>2. g \in RunRow /\ g.at = there /\ Keeps(run[r], g)
      /\ g.row = run[r].row /\ g.was = run[r].was /\ g.entity = e
  <2>1. g \in RunRow BY <1>1 DEF RunRow
  <2>2. g.at = there /\ Keeps(run[r], g) BY <1>1 DEF RunRow, Keeps
  <2>3. g.row = run[r].row /\ g.was = run[r].was /\ g.entity = e BY <1>1 DEF RunRow
  <2> QED BY <2>1, <2>2, <2>3
<1>3. Set(r, g) OBVIOUS
<1> HIDE DEF g
<1> QED BY <1>2, <1>3, SetStep DEF Reads

LEMMA RowStep ==
    ASSUME Types, NEW r \in Requests, NEW there \in Ats, NEW m \in RowIds,
           NEW w \in RoleRow \cup TenantRow \cup {None},
           NEW e \in RoleRow \cup TenantRow \cup {None}, scenario' = scenario,
           Set(r, [run[r] EXCEPT !.at = there, !.row = m, !.was = w, !.entity = e])
    PROVE  Reads(r, there, m, w, e)
<1> DEFINE g == [run[r] EXCEPT !.at = there, !.row = m, !.was = w, !.entity = e]
<1>1. run[r] \in RunRow BY DEF Types
<1>2. PICK f \in RunRow : f = run[r] BY <1>1
<1>3. PICK h : h = [f EXCEPT !.at = there, !.row = m] OBVIOUS
<1>4. /\ h \in RunRow /\ h.at = there /\ Keeps(f, h) /\ h.row = m
  BY <1>3 DEF RunRow, Keeps
<1>5. g = [h EXCEPT !.was = w, !.entity = e] BY <1>2, <1>3
<1>6. Set(r, g) OBVIOUS
<1> HIDE DEF g
<1>7. /\ g \in RunRow /\ g.at = there /\ Keeps(h, g) /\ g.row = m /\ g.was = w /\ g.entity = e
  BY <1>4, <1>5 DEF RunRow, Keeps
<1>8. Keeps(run[r], g) BY <1>2, <1>4, <1>7 DEF Keeps
<1> QED BY <1>6, <1>7, <1>8, SetStep DEF Reads

LEMMA AtStep ==
    ASSUME Types, NEW r \in Requests, NEW there \in Ats, scenario' = scenario,
           Set(r, [run[r] EXCEPT !.at = there])
    PROVE  Reads(r, there, run[r].row, run[r].was, run[r].entity)
<1> DEFINE g == [run[r] EXCEPT !.at = there]
<1>1. run[r] \in RunRow BY DEF Types
<1>2. g \in RunRow /\ g.at = there /\ Keeps(run[r], g)
      /\ g.row = run[r].row /\ g.was = run[r].was /\ g.entity = run[r].entity
  BY <1>1 DEF RunRow, Keeps
<1>3. Set(r, g) OBVIOUS
<1> HIDE DEF g
<1> QED BY <1>2, <1>3, SetStep DEF Reads

\* As before but for where it is, and that it has written.
Wrote(r, there) ==
    /\ Only(r) /\ run'[r].at = there /\ run'[r].wrote
    /\ run'[r].op = run[r].op /\ run'[r].user = run[r].user /\ run'[r].todo = run[r].todo
    /\ run'[r].roles = run[r].roles /\ run'[r].role = run[r].role
    /\ run'[r].row = None /\ run'[r].was = None /\ run'[r].looked = run[r].looked

LEMMA WroteStep ==
    ASSUME Types, NEW r \in Requests, NEW there \in Ats, scenario' = scenario, Empty(run[r]),
           Set(r, [run[r] EXCEPT !.at = there, !.wrote = TRUE])
    PROVE  Wrote(r, there) /\ Empty(run'[r])
<1> DEFINE g == [run[r] EXCEPT !.at = there, !.wrote = TRUE]
<1>1. run[r] \in RunRow BY DEF Types
<1>2. /\ g \in RunRow /\ g.at = there /\ g.wrote
      /\ g.op = run[r].op /\ g.user = run[r].user /\ g.todo = run[r].todo
      /\ g.roles = run[r].roles /\ g.role = run[r].role /\ g.looked = run[r].looked /\ Empty(g)
  BY <1>1 DEF RunRow, Empty
<1>3. Set(r, g) OBVIOUS
<1> HIDE DEF g
<1> QED BY <1>2, <1>3, SetStep DEF Wrote, Empty

\* What is known of the kind of a request by its place.
LEMMA Kinds ==
    ASSUME NEW f, Shape(f)
    PROVE  /\ f.at \in Assignings => f.op.name \in Assigns
           /\ f.at = "idle" => f = Idle
           /\ f # Idle => f.op \in Op /\ Asked(f.op) /\ f.at # "idle"
           /\ f.op.name \notin Creators \/ f.op.name \notin Assigners
BY DEF Shape, Place, Idle, Assignings, Assigns, Creators, Assigners

LEMMA HeadOfTodo ==
    ASSUME NEW f \in RunRow, Shape(f), f # Idle, f.op.name \in Assigns
    PROVE  /\ f.todo \in Seq(Assignment) /\ Len(f.todo) >= 1 /\ Len(f.todo) \in Nat
           /\ Head(f.todo) \in Assignment /\ Head(f.todo) = f.todo[1]
           /\ Head(f.todo).tenant \in Tenants /\ Head(f.todo).role \in Roles
           /\ Head(f.todo).status \in Statuses \cup {None} /\ Head(f.todo).update \in BOOLEAN
<1>1. f.todo \in Seq(Assignment) /\ f.todo # <<>>
  BY DEF RunRow, Shape
<1>2. Head(f.todo) \in Assignment /\ Len(f.todo) >= 1 /\ Len(f.todo) \in Nat /\ Head(f.todo) = f.todo[1]
  BY <1>1
<1> QED BY <1>1, <1>2 DEF Assignment

-----------------------------------------------------------------------------
(* Each action: where the request goes, and that it keeps its shape. *)

LEMMA OpsAsked ==
    ASSUME Types, NEW o \in scenario.ops
    PROVE  o \in Op /\ Asked(o)
BY MappingsAssumption DEF Types

LEMMA StartStep ==
    ASSUME Types, NEW r \in Requests, NEW o \in scenario.ops, Start(r, o)
    PROVE  /\ Only(r) /\ Shape(run'[r]) /\ run[r].at = "idle"
           /\ run'[r].at \in {"validate", "find", "loop"}
<1>1. o \in Op /\ Asked(o) BY OpsAsked
<1>2. PICK u \in IF o.name \in Loops \/ o.name = "deleteRole" THEN {None} ELSE o.users :
        Set(r, [Idle EXCEPT !.at = First(o), !.op = o, !.user = u, !.todo = o.todo,
                  !.users = IF o.name \in Loops THEN o.users ELSE {}, !.roles = o.roles])
  BY DEF Start, Loops
<1> DEFINE g == [Idle EXCEPT !.at = First(o), !.op = o, !.user = u, !.todo = o.todo,
                  !.users = IF o.name \in Loops THEN o.users ELSE {}, !.roles = o.roles]
<1>3. First(o) \in {"validate", "find", "loop"} /\ First(o) \in Ats BY DEF First, Ats
<1>4. /\ u \in Users \cup {None} /\ o.todo \in Seq(Assignment) /\ o.users \in SUBSET Users
      /\ o.roles \in SUBSET Roles
  BY <1>1, <1>2 DEF Op
<1>5. /\ g \in RunRow /\ g.at = First(o) /\ g.op = o /\ g.user = u /\ g.todo = o.todo
      /\ g.roles = o.roles /\ g.role = None /\ Empty(g) /\ ~g.wrote /\ ~g.looked
  BY <1>1, <1>3, <1>4, IdleRow DEF Idle, RunRow, Empty
<1>6. Set(r, g) BY <1>2
<1>7. scenario' = scenario BY DEF Start, OnlyRun, history
<1> HIDE DEF g
<1>8. Only(r) /\ run'[r] = g BY <1>5, <1>6, <1>7, SetStep
<1>9. Place(g)
  BY <1>1, <1>5 DEF Op, Names, First, Place, Creators, Assigners, Assigns
<1>10. /\ (u = None) <=> (o.name = "deleteRole" \/ o.name \in Loops)
       /\ o.name \in Loops => First(o) = "loop"
  BY <1>1, <1>2, MappingsAssumption DEF Op, First, Loops, Creators
<1>11. /\ o.name \in Assigns => o.todo # <<>>
       /\ o.name \notin Assigns => o.todo = <<>>
  BY <1>1 DEF Asked, Assigns, Creators, Assigners
<1>12. Shape(g)
  BY <1>1, <1>3, <1>5, <1>9, <1>10, <1>11 DEF Shape
<1>13. run[r].at = "idle" BY DEF Start
<1> QED BY <1>3, <1>5, <1>8, <1>12, <1>13

\* A request without a user, or at its end, keeps nothing of what it has read.
LEMMA ShapeGoes ==
    ASSUME Types, Shapes, NEW r \in Requests, NEW there, Goes(r, there), run[r] # Idle,
           there \in {"create", "deleteRoles", "delete", "deleteMappings", "rows"},
           run[r].at # "loop", run[r].role = None,
           there = "create" => run[r].op.name \in Creators /\ run[r].at = "validate",
           there = "deleteRoles" => run[r].op.name = "deleteAssignedRole",
           there \in {"delete", "rows"} => run[r].op.name = "deleteRole",
           there = "deleteMappings" => run[r].op.name = "deleteUserById"
    PROVE  Shape(run'[r])
<1> PICK f \in RunRow : f = run[r] BY DEF Types
<1> PICK g \in RunRow : g = run'[r] BY DEF Goes, Only
<1>1. Shape(f) /\ f # Idle BY DEF Shapes
<1>2. g.at = there /\ Keeps(f, g) /\ Empty(g) BY DEF Goes
<1>3. Place(g)
  BY <1>2 DEF Keeps, Place, Assignings
<1>4. (f.user = None) <=> (f.op.name = "deleteRole")
  BY <1>1 DEF Shape
<1> QED
  BY <1>1, <1>2, <1>3, <1>4 DEF Shape, Keeps

LEMMA ShapeEnters ==
    ASSUME Types, Shapes, NEW r \in Requests, Enters(r), run[r] # Idle, run[r].at # "loop",
           run[r].op.name \in Assigners, run[r].role = None
    PROVE  Shape(run'[r])
<1> PICK f \in RunRow : f = run[r] BY DEF Types
<1> PICK g \in RunRow : g = run'[r] BY DEF Enters, Only
<1>1. Shape(f) /\ f # Idle BY DEF Shapes
<1>2. /\ g.at = "role" /\ Empty(g) /\ g.op = f.op /\ g.user = f.user /\ g.todo = f.todo
      /\ g.roles = f.roles /\ g.role = f.role /\ g.wrote = f.wrote
  BY DEF Enters
<1>3. Place(g) BY <1>2 DEF Place, Assignings, Assigns
<1>4. f.user # None /\ f.op.name \notin Creators \cup Loops /\ f.op.name \in Assigns
  BY <1>1 DEF Shape, Assigns, Assigners, Creators, Loops
<1>5. f.op.name \notin {"createAssignRole", "bulkUpdateUserRoles", "deleteRole",
                      "mapPrathaUsersToTenant"}
  BY DEF Assigners
<1> QED
  BY <1>1, <1>2, <1>3, <1>4, <1>5 DEF Shape

\* The user does not have the role, as far as the request has looked.
Asks(r) ==
    /\ Validate(r) \/ HasRole(r)
    /\ Enters(r)
    /\ run'[r].looked =>
         ~Assigned(run[r].user, Head(run[r].todo).tenant, Head(run[r].todo).role)

LEMMA GoSteps ==
    ASSUME Types, Shapes, NEW r \in Requests,
           \/ ValidateNew(r) \/ Validate(r) \/ HasRole(r) \/ FindAssigned(r)
           \/ FindRoleToDelete(r) \/ FindUser(r)
    PROVE  /\ OnlyRun /\ Shape(run'[r]) /\ run[r].at \in {"validate", "find"}
           /\ \/ Ends(r)
              \/ ValidateNew(r) /\ Goes(r, "create")
              \/ Asks(r)
              \/ FindAssigned(r) /\ Goes(r, "deleteRoles")
              \/ FindRoleToDelete(r) /\ Goes(r, "delete")
              \/ FindUser(r) /\ Goes(r, "deleteMappings")
<1>1. OnlyRun /\ scenario' = scenario
  BY DEF ValidateNew, Validate, HasRole, FindAssigned, FindRoleToDelete, FindUser, OnlyRun, history
<1>2. run[r].at \in {"validate", "find"}
  BY DEF ValidateNew, Validate, HasRole, FindAssigned, FindRoleToDelete, FindUser, At
<1>3. Shape(run[r]) /\ run[r] # Idle /\ run[r].role = None /\ run[r].at # "loop"
  BY <1>2 DEF Shapes, Idle, Shape
<1>4. \/ Ends(r)
      \/ ValidateNew(r) /\ Goes(r, "create")
      \/ Asks(r)
      \/ FindAssigned(r) /\ Goes(r, "deleteRoles")
      \/ FindRoleToDelete(r) /\ Goes(r, "delete")
      \/ FindUser(r) /\ Goes(r, "deleteMappings")
  <2>0. {"create", "role", "deleteRoles", "delete", "deleteMappings"} \subseteq Ats BY DEF Ats
  <2>1. CASE ValidateNew(r) BY <1>1, <2>0, <2>1, EndStep, GoStep DEF ValidateNew
  <2>2. CASE Validate(r) BY <1>1, <2>2, EndStep, EnterStep DEF Validate, Asks
  <2>3. CASE HasRole(r)
    <3>1. CASE End(r) BY <1>1, <3>1, EndStep
    <3>2. CASE ToRole(r, TRUE) /\ ~Assigned(run[r].user, Head(run[r].todo).tenant, Head(run[r].todo).role)
      BY <1>1, <2>3, <3>2, EnterStep DEF Asks
    <3>3. CASE ToRole(r, FALSE) BY <1>1, <2>3, <3>3, EnterStep DEF Asks
    <3> QED BY <2>3, <3>1, <3>2, <3>3 DEF HasRole
  <2>4. CASE FindAssigned(r) BY <1>1, <2>0, <2>4, EndStep, GoStep DEF FindAssigned
  <2>5. CASE FindRoleToDelete(r) BY <1>1, <2>0, <2>5, EndStep, GoStep DEF FindRoleToDelete
  <2>6. CASE FindUser(r) BY <1>1, <2>0, <2>6, EndStep, GoStep DEF FindUser
  <2> QED BY <2>1, <2>2, <2>3, <2>4, <2>5, <2>6
<1>5. Shape(run'[r])
  <2>1. CASE Ends(r) BY <2>1 DEF Ends, Shape
  <2>2. CASE ValidateNew(r) /\ Goes(r, "create")
    BY <1>3, <2>2, ShapeGoes DEF ValidateNew
  <2>3. CASE Asks(r)
    BY <1>3, <2>3, ShapeEnters DEF Asks, Validate, HasRole, At, Assigners
  <2>4. CASE FindAssigned(r) /\ Goes(r, "deleteRoles")
    BY <1>3, <2>4, ShapeGoes DEF FindAssigned, At
  <2>5. CASE FindRoleToDelete(r) /\ Goes(r, "delete")
    BY <1>3, <2>5, ShapeGoes DEF FindRoleToDelete, At
  <2>6. CASE FindUser(r) /\ Goes(r, "deleteMappings")
    BY <1>3, <2>6, ShapeGoes DEF FindUser, At
  <2> QED BY <1>4, <2>1, <2>2, <2>3, <2>4, <2>5, <2>6
<1> QED BY <1>1, <1>2, <1>4, <1>5

LEMMA DoneSteps ==
    ASSUME Types, Shapes, NEW r \in Requests, RolesDone(r) \/ LoopDone(r)
    PROVE  OnlyRun /\ Ends(r) /\ Shape(run'[r]) /\ run[r].at = "loop"
<1>1. OnlyRun /\ scenario' = scenario /\ End(r) /\ run[r].at = "loop"
  BY DEF RolesDone, LoopDone, At, OnlyRun, history
<1>2. Ends(r) BY <1>1, EndStep
<1> QED BY <1>1, <1>2 DEF Ends, Shape

LEMMA CreateUserStep ==
    ASSUME Types, Shapes, NEW r \in Requests, CreateUser(r)
    PROVE  /\ Wrote(r, "role") /\ Empty(run'[r]) /\ Shape(run'[r])
           /\ run[r].op.name \in Creators /\ run[r].at = "create" /\ run[r].user \in Users
           /\ run[r].role = None
<1>1. run[r].op.name \in Creators /\ run[r].at = "create" /\ scenario' = scenario
      /\ Set(r, [run[r] EXCEPT !.at = "role", !.wrote = TRUE])
  BY DEF CreateUser, history
<1>2. Shape(run[r]) /\ run[r] # Idle /\ Empty(run[r]) /\ run[r].user # None /\ run[r].role = None
  BY <1>1 DEF Shapes, Idle, Shape, Creators, Loops
<1>3. Wrote(r, "role") /\ Empty(run'[r])
  BY <1>1, <1>2, WroteStep DEF Ats
<1> PICK f \in RunRow : f = run[r] BY DEF Types
<1> PICK g \in RunRow : g = run'[r] BY <1>3 DEF Wrote, Only
<1>4. Place(g) /\ g.at = "role" BY <1>1, <1>3 DEF Wrote, Place, Assigns, Assignings
<1>6. g.op.name \notin {"createAssignRole", "bulkUpdateUserRoles", "deleteRole"} \cup Loops
  BY <1>1, <1>3 DEF Wrote, Creators, Loops
<1>5. Shape(g)
  BY <1>1, <1>2, <1>3, <1>4, <1>6 DEF Wrote, Shape
<1> QED BY <1>1, <1>2, <1>3, <1>5 DEF RunRow

\* The request starts its next assignment, publishes or ends.
Advances(f, g) ==
    \/ g = Idle /\ f.op.name # "userTenantMapping"
    \/ /\ f.op.name = "userTenantMapping" /\ g.at = "event" /\ Keeps(f, g) /\ Empty(g)
    \/ /\ g.at = "role" /\ Len(f.todo) > 1 /\ g.todo = Tail(f.todo) /\ Empty(g)
       /\ g.op = f.op /\ g.user = f.user /\ g.roles = f.roles /\ g.role = f.role
       /\ g.wrote = f.wrote /\ g.looked = f.looked

LEMMA TodoIs ==
    ASSUME NEW k \in RunRow, NEW there \in Ats, NEW t \in Seq(Assignment)
    PROVE  [k EXCEPT !.at = there, !.todo = t] \in RunRow
<1> PICK S : S = Seq(Assignment) OBVIOUS
<1> PICK f : f = [k EXCEPT !.at = there, !.todo = t] OBVIOUS
<1>1. t \in S /\ k.todo \in S BY DEF RunRow
<1> QED BY <1>1 DEF RunRow

LEMMA NextIs ==
    ASSUME Types, Shapes, NEW r \in Requests, run[r] # Idle, run[r].op.name \in Assigns
    PROVE  NextAssignment(r) \in RunRow /\ Advances(run[r], NextAssignment(r))
<1> PICK f \in RunRow : f = run[r] BY DEF Types
<1> PICK k \in RunRow : k = Forget(f) BY ForgetIs
<1>1. Empty(k) /\ Keeps(f, k) BY ForgetIs
<1>2. f.todo \in Seq(Assignment) /\ Len(f.todo) \in Nat /\ Len(f.todo) >= 1
  BY HeadOfTodo DEF Shapes
<1>3. CASE Len(f.todo) > 1
  <2> DEFINE g == [k EXCEPT !.at = "role", !.todo = Tail(@)]
  <2>1. NextAssignment(r) = g BY <1>3 DEF NextAssignment
  <2>2. k.todo = f.todo BY <1>1 DEF Keeps
  <2> PICK t : t = Tail(f.todo) OBVIOUS
  <2>3. t \in Seq(Assignment) BY <1>2, <1>3
  <2>4. "role" \in Ats BY DEF Ats
  <2>5. g = [k EXCEPT !.at = "role", !.todo = t] BY <2>2 DEF RunRow
  <2>6. g \in RunRow
    <3> HIDE DEF g
    <3> QED BY <2>3, <2>4, <2>5, TodoIs
  <2>7. g.at = "role" /\ g.todo = Tail(f.todo) /\ Empty(g)
    BY <1>1, <2>2 DEF RunRow, Empty
  <2>8. /\ g.op = f.op /\ g.user = f.user /\ g.roles = f.roles /\ g.role = f.role
        /\ g.wrote = f.wrote /\ g.looked = f.looked
    BY <1>1 DEF RunRow, Keeps
  <2> HIDE DEF g
  <2> QED BY <1>3, <2>1, <2>6, <2>7, <2>8 DEF Advances
<1>4. CASE Len(f.todo) <= 1 /\ f.op.name = "userTenantMapping"
  <2> DEFINE g == [k EXCEPT !.at = "event"]
  <2>1. NextAssignment(r) = g BY <1>2, <1>4 DEF NextAssignment
  <2>2. g \in RunRow /\ g.at = "event" /\ Keeps(f, g) /\ Empty(g)
    BY <1>1 DEF RunRow, Keeps, Empty, Ats
  <2> HIDE DEF g
  <2> QED BY <1>4, <2>1, <2>2 DEF Advances
<1>5. CASE Len(f.todo) <= 1 /\ f.op.name # "userTenantMapping"
  BY <1>2, <1>5, IdleRow DEF NextAssignment, Advances
<1> QED BY <1>2, <1>3, <1>4, <1>5

LEMMA MoreThanOne ==
    ASSUME NEW n \in Nat, n > 1
    PROVE  n # 1 /\ n - 1 # 0
OBVIOUS

LEMMA ShapeAdvances ==
    ASSUME NEW f \in RunRow, NEW g \in RunRow, Shape(f), f # Idle, Advances(f, g),
           f.op.name \in Assigns, f.at \in {"mapping", "pair", "saveMapping"}
    PROVE  Shape(g)
<1>1. /\ f.user # None /\ f.role = None /\ f.todo \in Seq(Assignment) /\ Len(f.todo) \in Nat
      /\ f.op \in Op /\ Asked(f.op)
  BY HeadOfTodo DEF Shape, Assigns, Creators, Assigners, Loops
<1>2. CASE g = Idle BY <1>2 DEF Shape
<1>3. CASE f.op.name = "userTenantMapping" /\ g.at = "event" /\ Keeps(f, g) /\ Empty(g)
  <2>1. f.wrote BY DEF Shape
  <2>2. Place(g) BY <1>3 DEF Place, Keeps
  <2> QED BY <1>1, <1>3, <2>1, <2>2 DEF Shape, Keeps, Empty
<1>4. CASE g.at = "role" /\ Len(f.todo) > 1 /\ g.todo = Tail(f.todo) /\ Empty(g)
           /\ g.op = f.op /\ g.user = f.user /\ g.roles = f.roles /\ g.role = f.role
           /\ g.wrote = f.wrote /\ g.looked = f.looked
  <2>0. Len(f.todo) \in Nat /\ Len(f.todo) > 1 BY <1>1, <1>4
  <2>6. Len(f.todo) # 1 /\ Len(f.todo) - 1 # 0 BY <2>0, MoreThanOne, Zenon
  <2>1. g.todo # <<>>
    <3>1. Len(g.todo) = Len(f.todo) - 1 BY <1>1, <1>4
    <3>2. Len(f.todo) - 1 # 0 BY <2>6
    <3>3. Len(<<>>) = 0 OBVIOUS
    <3> QED BY <3>1, <3>2, <3>3, Zenon
  <2>2. f.op.name \notin Assigners
    <3>1. f.op.name \in Assigners => f.todo = f.op.todo BY DEF Shape
    <3>2. f.op.name \in Assigners => Len(f.op.todo) = 1 BY <1>1 DEF Asked
    <3>3. Len(f.todo) # 1 BY <2>6
    <3> QED BY <3>1, <3>2, <3>3, Zenon
  <2>3. Place(g) BY <1>4 DEF Place, Assignings
  <2> QED BY <1>1, <1>4, <2>1, <2>2, <2>3 DEF Shape, Empty
<1> QED BY <1>2, <1>3, <1>4 DEF Advances

LEMMA NewRoleIs ==
    ASSUME NEW r, NEW a \in Assignment, run[r].user \in Users
    PROVE  LET e == NewRole(r, a) IN
           /\ e \in RoleRow /\ e.user = run[r].user /\ e.tenant = a.tenant /\ e.role = a.role
           /\ ~e.hand
           /\ "role" \in e.checked => run[r].op.name # "handleExistingUser"
                /\ (run[r].op.name # "handleNewUser" \/ ~a.update)
           /\ "user" \in e.checked => run[r].op.name # "handleExistingUser"
           /\ "pair" \in e.checked => run[r].looked
<1> DEFINE c == (IF run[r].looked THEN {"pair"} ELSE {}) \cup
                (CASE run[r].op.name = "handleExistingUser" -> {}
                   [] run[r].op.name = "handleNewUser" /\ a.update -> {"user"}
                   [] OTHER -> {"user", "role"})
           e == NewRole(r, a)
<1>1. /\ c \in SUBSET {"user", "role", "pair"} /\ ("pair" \in c => run[r].looked)
      /\ "role" \in c => run[r].op.name # "handleExistingUser"
           /\ (run[r].op.name # "handleNewUser" \/ ~a.update)
      /\ "user" \in c => run[r].op.name # "handleExistingUser"
  OBVIOUS
<1>2. a.tenant \in Tenants /\ a.role \in Roles BY DEF Assignment
<1>3. e = [user |-> run[r].user, tenant |-> a.tenant, role |-> a.role, hand |-> FALSE, checked |-> c]
  BY DEF NewRole
<1> HIDE DEF c, e
<1>4. e \in RoleRow /\ e.user = run[r].user /\ e.tenant = a.tenant /\ e.role = a.role
      /\ ~e.hand /\ e.checked = c
  BY <1>1, <1>2, <1>3 DEF RoleRow
<1> QED BY <1>1, <1>4 DEF e

LEMMA NewMappingIs ==
    ASSUME NEW r, NEW a \in Assignment, run[r].user \in Users, NEW s \in Statuses,
           NEW b \in BOOLEAN
    PROVE  LET e == NewMapping(r, a, s, b) IN
           /\ e \in TenantRow /\ e.user = run[r].user /\ e.tenant = a.tenant /\ e.looked = b
           /\ e.quiet = (run[r].op.name # "userTenantMapping")
<1>1. (IF a.status = None THEN s ELSE a.status) \in Statuses
  BY DEF Assignment
<1>2. a.tenant \in Tenants BY DEF Assignment
<1>3. Silent(r) \in BOOLEAN /\ Silent(r) = (run[r].op.name # "userTenantMapping") BY DEF Silent
<1> QED BY <1>1, <1>2, <1>3 DEF NewMapping, TenantRow

\* A request that assigns, in what an action finds it with.
LEMMA AssigningIs ==
    ASSUME Types, Shapes, NEW r \in Requests, NEW here \in Assignings, Assigning(r, here)
    PROVE  /\ run[r] \in RunRow /\ Shape(run[r]) /\ run[r] # Idle
           /\ run[r].at = here /\ run[r].op.name \in Assigns
           /\ run[r].user \in Users /\ run[r].role = None
           /\ Head(run[r].todo) \in Assignment /\ Head(run[r].todo).update \in BOOLEAN
           /\ run[r].op.name \in Assigners => Head(run[r].todo).update
           /\ run[r].at \notin {"saveRole", "saveMapping"} => Empty(run[r])
<1>1. run[r] \in RunRow /\ Shape(run[r]) BY DEF Types, Shapes
<1>2. run[r].at = here /\ run[r].op.name \in Assigns BY DEF Assigning, Assigns
<1>3. run[r] # Idle BY <1>2 DEF Assignings, Idle
<1>4. run[r].user \in Users /\ run[r].role = None
  <2>1. run[r].user # None
    BY <1>1, <1>2, <1>3 DEF Shape, Assigns, Creators, Assigners, Loops
  <2>2. run[r].role = None
    BY <1>1, <1>2, <1>3 DEF Shape, Assignings
  <2> QED BY <1>1, <2>1, <2>2 DEF RunRow
<1>5. Head(run[r].todo) \in Assignment /\ Head(run[r].todo).update \in BOOLEAN
  BY <1>1, <1>2, <1>3, HeadOfTodo
<1>6. ASSUME run[r].op.name \in Assigners PROVE Head(run[r].todo).update
  <2>1. run[r].todo = run[r].op.todo /\ Asked(run[r].op) BY <1>1, <1>3, <1>6 DEF Shape
  <2>2. run[r].op.todo[1].update BY <1>6, <2>1 DEF Asked
  <2>3. Head(run[r].todo) = run[r].todo[1] BY <1>1, <1>2, <1>3, HeadOfTodo
  <2> QED BY <2>1, <2>2, <2>3
<1>7. run[r].at \notin {"saveRole", "saveMapping"} => Empty(run[r])
  BY <1>1, <1>2, <1>3 DEF Shape, Assignings
<1> QED BY <1>1, <1>2, <1>3, <1>4, <1>5, <1>6, <1>7

LEMMA FindRoleStep ==
    ASSUME Types, Shapes, NEW r \in Requests, FindRole(r)
    PROVE  LET g == run'[r] IN
           /\ OnlyRun /\ Assigning(r, "role") /\ Shape(g)
           /\ Only(r) /\ g.at = "saveRole" /\ Keeps(run[r], g)
           /\ g.entity = NewRole(r, Head(run[r].todo))
           /\ \/ g.row = None
              \/ g.row \in RolesOf(run[r].user) /\ g.was = roleRows[g.row]
<1> DEFINE a == Head(run[r].todo)
           e == NewRole(r, a)
<1>1. Assigning(r, "role") /\ OnlyRun /\ scenario' = scenario
  BY DEF FindRole, OnlyRun, history
<1>2. /\ run[r] \in RunRow /\ Shape(run[r]) /\ run[r] # Idle
      /\ run[r].at = "role" /\ run[r].op.name \in Assigns
      /\ run[r].user \in Users /\ run[r].role = None /\ a \in Assignment /\ Empty(run[r])
  BY <1>1, AssigningIs DEF Assignings
<1>3. e \in RoleRow /\ e.user = run[r].user /\ e.tenant = a.tenant /\ e.role = a.role /\ ~e.hand
      /\ ("pair" \in e.checked => run[r].looked)
  BY <1>2, NewRoleIs
<1>4. \/ Set(r, [run[r] EXCEPT !.at = "saveRole", !.entity = e])
      \/ \E m \in RolesOf(run[r].user) :
           /\ Set(r, [run[r] EXCEPT !.at = "saveRole", !.row = m, !.was = roleRows[m], !.entity = e])
           /\ roleRows[m].tenant \in Roots
  BY DEF FindRole, Moves
<1> HIDE DEF e, a
<1>5. Only(r) /\ run'[r].at = "saveRole" /\ Keeps(run[r], run'[r]) /\ run'[r].entity = e
      /\ (\/ run'[r].row = None /\ run'[r].was = None
          \/ \E m \in RolesOf(run[r].user) :
               run'[r].row = m /\ run'[r].was = roleRows[m] /\ roleRows[m].tenant \in Roots)
  <2>0. "saveRole" \in Ats BY DEF Ats
  <2>1. CASE Set(r, [run[r] EXCEPT !.at = "saveRole", !.entity = e])
    <3>1. Reads(r, "saveRole", run[r].row, run[r].was, e)
      BY <1>1, <1>3, <2>0, <2>1, EntityStep
    <3> QED BY <1>2, <3>1 DEF Reads, Empty
  <2>2. CASE \E m \in RolesOf(run[r].user) :
           /\ Set(r, [run[r] EXCEPT !.at = "saveRole", !.row = m, !.was = roleRows[m], !.entity = e])
           /\ roleRows[m].tenant \in Roots
    <3>1. PICK m \in RolesOf(run[r].user) :
           /\ Set(r, [run[r] EXCEPT !.at = "saveRole", !.row = m, !.was = roleRows[m], !.entity = e])
           /\ roleRows[m].tenant \in Roots
      BY <2>2
    <3>2. m \in RowIds /\ roleRows[m] \in RoleRow BY DEF RolesOf, Present, Types
    <3>3. Reads(r, "saveRole", m, roleRows[m], e)
      BY <1>1, <1>3, <2>0, <3>1, <3>2, RowStep
    <3> QED BY <3>1, <3>3 DEF Reads
  <2> QED BY <1>4, <2>1, <2>2
<1>6. Shape(run'[r])
  <2> PICK f \in RunRow : f = run[r] BY <1>2
  <2> PICK g \in RunRow : g = run'[r] BY <1>5 DEF Only
  <2>1. /\ g.was \in RoleRow \cup {None} /\ ((g.was = None) <=> (g.row = None))
        /\ g.was # None => g.was.user = f.user /\ g.was.tenant \in Roots
    BY <1>5, MappingsAssumption DEF RolesOf, Present, Types
  <2>2. Place(g) BY <1>2, <1>5 DEF Place, Keeps, Assignings
  <2>3. (f.user # None) /\ f.op.name \notin Loops
    BY <1>2, MappingsAssumption DEF Assigns, Creators, Assigners, Loops
  <2>4. /\ f.op \in Op /\ Asked(f.op)
        /\ f.op.name \in Assigns => f.todo # <<>>
        /\ f.op.name \in Assigners => f.todo = f.op.todo
        /\ f.op.name \in Creators => ~f.looked
    BY <1>2 DEF Shape
  <2> QED
    BY <1>2, <1>3, <1>5, <2>1, <2>2, <2>3, <2>4 DEF Shape, Keeps, a
<1> QED BY <1>1, <1>5, <1>6 DEF e, a

\* What the shape of an assigning request asks for besides what it has read.
LEMMA StillAssigning ==
    ASSUME NEW f \in RunRow, NEW g \in RunRow, Shape(f), f # Idle, f.op.name \in Assigns,
           f.at \in Assignings, g.at \in Assignings,
           g.op = f.op, g.user = f.user, g.todo = f.todo, g.roles = f.roles, g.role = f.role,
           g.looked = f.looked
    PROVE  /\ g.op.name \in Creators => ~g.looked
           /\ g.op \in Op /\ Asked(g.op) /\ Place(g) /\ g # Idle
           /\ g.user # None /\ g.role = None /\ g.op.name \notin Loops /\ g.op.name # "deleteRole"
           /\ g.op.name \in Assigns /\ g.todo # <<>>
           /\ g.op.name \in Assigners => g.todo = g.op.todo
           /\ g.op.name \notin {"createAssignRole", "bulkUpdateUserRoles", "deleteRole"}
<1>1. f.op \in Op /\ Asked(f.op) /\ f.todo # <<>> /\ (f.op.name \in Assigners => f.todo = f.op.todo)
      /\ (f.op.name \in Creators => ~f.looked)
  BY DEF Shape
<1>2. f.user # None /\ f.op.name \notin Loops /\ f.op.name # "deleteRole"
  BY DEF Shape, Assigns, Creators, Assigners, Loops
<1>3. f.role = None BY DEF Shape, Assignings
<1>4. Place(g) BY DEF Place
<1>5. g # Idle BY DEF Idle, Assignings
<1>6. g.op.name \notin {"createAssignRole", "bulkUpdateUserRoles", "deleteRole"}
  BY DEF Assigns, Creators, Assigners
<1> QED BY <1>1, <1>2, <1>3, <1>4, <1>5, <1>6

LEMMA ShapeAssigning ==
    ASSUME NEW f \in RunRow, NEW g \in RunRow, Shape(f), f # Idle, f.op.name \in Assigns,
           f.at \in Assignings, g.op = f.op, g.user = f.user, g.todo = f.todo, g.roles = f.roles,
           g.role = f.role, g.looked = f.looked, g.at \in {"mapping", "pair"}, g.wrote, Empty(g)
    PROVE  Shape(g)
<1>1. g.at \in Assignings BY DEF Assignings
<1> QED BY <1>1, StillAssigning DEF Shape

LEMMA ShapeToMapping ==
    ASSUME NEW f \in RunRow, NEW g \in RunRow, Shape(f), f # Idle, f.op.name \in Assigns,
           f.at \in {"mapping", "pair"}, Keeps(f, g), g.at = "saveMapping",
           g.entity \in TenantRow, g.entity.user = f.user, g.entity.tenant = Head(f.todo).tenant,
           g.entity.quiet = (f.op.name # "userTenantMapping"),
           \/ g.was = None
           \/ /\ g.was \in TenantRow /\ g.row # None /\ g.was.user = f.user /\ g.was.tenant \in Roots
              /\ ~g.entity.looked
    PROVE  Shape(g)
<1>1. f.at \in Assignings /\ g.at \in Assignings BY DEF Assignings
<1>2. f.wrote BY DEF Shape
<1>3. g.was \in TenantRow \cup {None} OBVIOUS
<1> QED BY <1>1, <1>2, <1>3, StillAssigning DEF Shape, Keeps

LEMMA NothingFoundStep ==
    ASSUME Types, Shapes, NEW r \in Requests, NothingFound(r)
    PROVE  Ends(r) /\ Shape(run'[r]) /\ run[r].at \in {"role", "mapping"} /\ run[r].user \in Users
<1>1. (Assigning(r, "role") \/ Assigning(r, "mapping")) /\ End(r) /\ scenario' = scenario
  BY DEF NothingFound
<1>2. run[r].at \in {"role", "mapping"} /\ run[r].user \in Users
  BY <1>1, AssigningIs DEF Assignings
<1>3. Ends(r) BY <1>1, EndStep
<1> QED BY <1>2, <1>3 DEF Ends, Shape

LEMMA SaveRoleStep ==
    ASSUME Types, Shapes, NEW r \in Requests, SaveRole(r)
    PROVE  /\ Assigning(r, "saveRole") /\ Shape(run'[r])
           /\ Wrote(r, "mapping") /\ Empty(run'[r])
<1>1. Assigning(r, "saveRole") /\ scenario' = scenario
      /\ Set(r, [Forget(run[r]) EXCEPT !.at = "mapping", !.wrote = TRUE])
  BY DEF SaveRole
<1>2. /\ run[r] \in RunRow /\ Shape(run[r]) /\ run[r] # Idle
      /\ run[r].at = "saveRole" /\ run[r].op.name \in Assigns
  BY <1>1, AssigningIs DEF Assignings
<1> PICK f \in RunRow : f = run[r] BY <1>2
<1> PICK k \in RunRow : k = Forget(f) BY ForgetIs
<1> DEFINE g == [k EXCEPT !.at = "mapping", !.wrote = TRUE]
<1>3. Empty(k) /\ Keeps(f, k) BY ForgetIs
<1>4. /\ g \in RunRow /\ g.at = "mapping" /\ g.wrote /\ Empty(g)
      /\ g.op = f.op /\ g.user = f.user /\ g.todo = f.todo /\ g.roles = f.roles /\ g.role = f.role
      /\ g.looked = f.looked
  <2>1. "mapping" \in Ats BY DEF Ats
  <2>2. g \in RunRow /\ g.at = "mapping" /\ g.wrote BY <2>1 DEF RunRow
  <2>3. Empty(g) BY <1>3 DEF RunRow, Empty
  <2>4. g.op = f.op /\ g.user = f.user /\ g.todo = f.todo /\ g.roles = f.roles /\ g.role = f.role
      /\ g.looked = f.looked
    BY <1>3 DEF RunRow, Keeps
  <2> QED BY <2>2, <2>3, <2>4
<1>5. Set(r, g) BY <1>1
<1> HIDE DEF g
<1>6. Only(r) /\ run'[r] = g BY <1>1, <1>4, <1>5, SetStep
<1>7. Shape(g)
  BY <1>2, <1>4, ShapeAssigning DEF Assignings
<1> QED BY <1>1, <1>4, <1>6, <1>7 DEF Wrote, Empty

\* The row that is found is moved, or the pair is looked for.
LEMMA FindMappingStep ==
    ASSUME Types, Shapes, NEW r \in Requests, FindMapping(r)
    PROVE  LET f == run[r]
               g == run'[r]
               a == Head(f.todo)
           IN
           /\ OnlyRun /\ Assigning(r, "mapping") /\ Shape(g)
           /\ Only(r) /\ Keeps(f, g)
           /\ \/ g.at = "pair" /\ Empty(g)
              \/ /\ g.at = "saveMapping" /\ g.row = None /\ g.was = None /\ ~a.update
                 /\ g.entity = NewMapping(r, a, "active", FALSE)
              \/ /\ g.at = "saveMapping" /\ g.row \in MappingsOf(f.user)
                 /\ g.was = tenantRows[g.row] /\ g.was # None
                 /\ g.entity = NewMapping(r, a, g.was.status, FALSE)
<1>1. Assigning(r, "mapping") /\ OnlyRun /\ scenario' = scenario
  BY DEF FindMapping, OnlyRun, history
<1> PICK a : a = Head(run[r].todo) OBVIOUS
<1>2. /\ run[r] \in RunRow /\ Shape(run[r]) /\ run[r] # Idle
      /\ run[r].at = "mapping" /\ run[r].op.name \in Assigns
      /\ run[r].user \in Users /\ run[r].role = None /\ a \in Assignment /\ Empty(run[r])
  BY <1>1, AssigningIs DEF Assignings
<1>3. \A s \in Statuses, b \in BOOLEAN : LET e == NewMapping(r, a, s, b) IN
           /\ e \in TenantRow /\ e.user = run[r].user /\ e.tenant = a.tenant /\ e.looked = b
           /\ e.quiet = (run[r].op.name # "userTenantMapping")
  BY <1>2, NewMappingIs
<1>4. \/ ~a.update /\ Set(r, [run[r] EXCEPT !.at = "saveMapping", !.entity = NewMapping(r, a, "active", FALSE)])
      \/ Set(r, [run[r] EXCEPT !.at = "pair"])
      \/ \E m \in MappingsOf(run[r].user) :
           /\ Set(r, [run[r] EXCEPT !.at = "saveMapping", !.row = m, !.was = tenantRows[m],
                        !.entity = NewMapping(r, a, tenantRows[m].status, FALSE)])
           /\ tenantRows[m].tenant \in Roots
  BY DEF FindMapping, Moves
<1>5. "saveMapping" \in Ats /\ "pair" \in Ats /\ "active" \in Statuses BY DEF Ats, Statuses
<1>6. CASE ~a.update /\ Set(r, [run[r] EXCEPT !.at = "saveMapping", !.entity = NewMapping(r, a, "active", FALSE)])
  <2> PICK e : e = NewMapping(r, a, "active", FALSE) OBVIOUS
  <2>1. Reads(r, "saveMapping", None, None, e) /\ e \in TenantRow
    BY <1>1, <1>2, <1>3, <1>5, <1>6, EntityStep DEF Empty
  <2>a. /\ e.user = run[r].user /\ e.tenant = a.tenant
        /\ e.quiet = (run[r].op.name # "userTenantMapping")
    BY <1>3, <1>5
  <2> PICK g : g = run'[r] OBVIOUS
  <2>b. /\ g \in RunRow /\ Keeps(run[r], g) /\ g.at = "saveMapping" /\ g.entity = e /\ g.was = None
    BY <2>1 DEF Reads, Only
  <2>2. Shape(run'[r])
    BY <1>2, <2>1, <2>a, <2>b, ShapeToMapping
  <2> QED BY <1>1, <1>6, <2>1, <2>2 DEF Reads
<1>7. CASE Set(r, [run[r] EXCEPT !.at = "pair"])
  <2>1. Reads(r, "pair", None, None, None)
    BY <1>1, <1>2, <1>5, <1>7, AtStep DEF Empty
  <2>2. run[r].wrote BY <1>2 DEF Shape
  <2>3. Shape(run'[r])
    BY <1>2, <2>1, <2>2, ShapeAssigning DEF Reads, Only, Empty, Keeps, Assignings
  <2> QED BY <1>1, <2>1, <2>3 DEF Reads, Empty
<1>8. CASE \E m \in MappingsOf(run[r].user) :
           /\ Set(r, [run[r] EXCEPT !.at = "saveMapping", !.row = m, !.was = tenantRows[m],
                        !.entity = NewMapping(r, a, tenantRows[m].status, FALSE)])
           /\ tenantRows[m].tenant \in Roots
  <2>1. PICK m \in MappingsOf(run[r].user) :
           /\ Set(r, [run[r] EXCEPT !.at = "saveMapping", !.row = m, !.was = tenantRows[m],
                        !.entity = NewMapping(r, a, tenantRows[m].status, FALSE)])
           /\ tenantRows[m].tenant \in Roots
    BY <1>8
  <2>2. m \in RowIds /\ tenantRows[m] \in TenantRow /\ tenantRows[m].user = run[r].user
        /\ tenantRows[m] # None
    BY DEF MappingsOf, Present, Types
  <2> PICK w \in TenantRow : w = tenantRows[m] BY <2>2
  <2>3. w.status \in Statuses BY DEF TenantRow
  <2> PICK e : e = NewMapping(r, a, w.status, FALSE) OBVIOUS
  <2>4. Reads(r, "saveMapping", m, w, e) /\ e \in TenantRow /\ ~e.looked
    BY <1>1, <1>3, <1>5, <2>1, <2>2, <2>3, RowStep
  <2>5. m # None /\ w # None BY <2>2, MappingsAssumption
  <2> PICK g \in RunRow : g = run'[r] BY <2>4 DEF Reads, Only
  <2>7. /\ Keeps(run[r], g) /\ g.at = "saveMapping" /\ g.entity = e
        /\ g.was = w /\ g.row = m /\ w.user = run[r].user /\ w.tenant \in Roots
    BY <2>1, <2>2, <2>4 DEF Reads
  <2>8. /\ e \in TenantRow /\ e.user = run[r].user /\ e.tenant = a.tenant /\ ~e.looked
        /\ e.quiet = (run[r].op.name # "userTenantMapping")
    BY <1>3, <2>3
  <2>6. Shape(run'[r])
    BY <1>2, <2>5, <2>7, <2>8, ShapeToMapping
  <2> QED BY <1>1, <2>1, <2>2, <2>4, <2>6 DEF Reads
<1> QED BY <1>4, <1>6, <1>7, <1>8

\* There is no mapping to the tenant, or an active one, or one to be made active.
LEMMA FindPairStep ==
    ASSUME Types, Shapes, NEW r \in Requests, FindPair(r)
    PROVE  LET f == run[r]
               g == run'[r]
               a == Head(f.todo)
           IN
           /\ OnlyRun /\ Assigning(r, "pair") /\ Shape(g) /\ Only(r)
           /\ \/ Advances(f, g) /\ MappingsTo(f.user, a.tenant) # {}
              \/ /\ g.at = "saveMapping" /\ Keeps(f, g) /\ g.was = None
                 /\ \/ g.row = None /\ MappingsTo(f.user, a.tenant) = {}
                    \/ /\ g.row \in MappingsTo(f.user, a.tenant)
                       /\ g.entity.looked = tenantRows[g.row].looked
                 /\ \E s \in Statuses, b \in BOOLEAN : g.entity = NewMapping(r, a, s, b)
<1>1. Assigning(r, "pair") /\ OnlyRun /\ scenario' = scenario
  BY DEF FindPair, OnlyRun, history
<1> PICK a : a = Head(run[r].todo) OBVIOUS
<1>2. /\ run[r] \in RunRow /\ Shape(run[r]) /\ run[r] # Idle
      /\ run[r].at = "pair" /\ run[r].op.name \in Assigns
      /\ run[r].user \in Users /\ run[r].role = None /\ a \in Assignment /\ Empty(run[r])
  BY <1>1, AssigningIs DEF Assignings
<1>3. \A s \in Statuses, b \in BOOLEAN : LET e == NewMapping(r, a, s, b) IN
           /\ e \in TenantRow /\ e.user = run[r].user /\ e.tenant = a.tenant /\ e.looked = b
           /\ e.quiet = (run[r].op.name # "userTenantMapping")
  BY <1>2, NewMappingIs
<1>4. \/ /\ MappingsTo(run[r].user, a.tenant) = {}
         /\ Set(r, [run[r] EXCEPT !.at = "saveMapping", !.entity = NewMapping(r, a, "active", TRUE)])
      \/ MappingsTo(run[r].user, a.tenant) # {} /\ Set(r, NextAssignment(r))
      \/ \E m \in MappingsTo(run[r].user, a.tenant) :
           Set(r, [run[r] EXCEPT !.at = "saveMapping", !.row = m,
                        !.entity = NewMapping(r, a, tenantRows[m].status, tenantRows[m].looked)])
  BY DEF FindPair
<1>5. "saveMapping" \in Ats /\ "active" \in Statuses BY DEF Ats, Statuses
<1>6. CASE /\ MappingsTo(run[r].user, a.tenant) = {}
           /\ Set(r, [run[r] EXCEPT !.at = "saveMapping", !.entity = NewMapping(r, a, "active", TRUE)])
  <2> PICK e : e = NewMapping(r, a, "active", TRUE) OBVIOUS
  <2>1. Reads(r, "saveMapping", None, None, e) /\ e \in TenantRow
    BY <1>1, <1>2, <1>3, <1>5, <1>6, EntityStep DEF Empty
  <2>a. /\ e.user = run[r].user /\ e.tenant = a.tenant
        /\ e.quiet = (run[r].op.name # "userTenantMapping")
    BY <1>3, <1>5
  <2> PICK g : g = run'[r] OBVIOUS
  <2>b. /\ g \in RunRow /\ Keeps(run[r], g) /\ g.at = "saveMapping" /\ g.entity = e /\ g.was = None
    BY <2>1 DEF Reads, Only
  <2>2. Shape(run'[r])
    BY <1>2, <2>1, <2>a, <2>b, ShapeToMapping
  <2>3. \E s \in Statuses, b \in BOOLEAN : e = NewMapping(r, a, s, b) BY <1>5
  <2> QED BY <1>1, <1>6, <2>1, <2>2, <2>3 DEF Reads
<1>7. CASE MappingsTo(run[r].user, a.tenant) # {} /\ Set(r, NextAssignment(r))
  <2>1. NextAssignment(r) \in RunRow /\ Advances(run[r], NextAssignment(r)) BY <1>2, NextIs
  <2>2. Only(r) /\ run'[r] = NextAssignment(r) BY <1>1, <1>7, <2>1, SetStep
  <2>3. Shape(run'[r]) BY <1>2, <2>1, <2>2, ShapeAdvances
  <2> QED BY <1>1, <1>7, <2>1, <2>2, <2>3
<1>8. CASE \E m \in MappingsTo(run[r].user, a.tenant) :
           Set(r, [run[r] EXCEPT !.at = "saveMapping", !.row = m,
                        !.entity = NewMapping(r, a, tenantRows[m].status, tenantRows[m].looked)])
  <2>1. PICK m \in MappingsTo(run[r].user, a.tenant) :
           Set(r, [run[r] EXCEPT !.at = "saveMapping", !.row = m,
                        !.entity = NewMapping(r, a, tenantRows[m].status, tenantRows[m].looked)])
    BY <1>8
  <2>2. m \in RowIds /\ tenantRows[m] \in TenantRow
    BY DEF MappingsTo, MappingsOf, Present, Types
  <2>3. tenantRows[m].status \in Statuses /\ tenantRows[m].looked \in BOOLEAN
    BY <2>2 DEF TenantRow
  <2> PICK s \in Statuses : s = tenantRows[m].status BY <2>3
  <2> PICK b \in BOOLEAN : b = tenantRows[m].looked BY <2>3
  <2> PICK e : e = NewMapping(r, a, s, b) OBVIOUS
  <2>4. e \in TenantRow /\ e.looked = b BY <1>3
  <2> DEFINE g == [run[r] EXCEPT !.at = "saveMapping", !.row = m, !.entity = e]
  <2>5. /\ g \in RunRow /\ g.at = "saveMapping" /\ Keeps(run[r], g) /\ g.row = m
        /\ g.was = None /\ g.entity = e
    BY <1>2, <1>5, <2>2, <2>4 DEF RunRow, Keeps, Empty
  <2>6. Set(r, g) BY <2>1
  <2> HIDE DEF g
  <2>7. Only(r) /\ run'[r] = g BY <1>1, <2>5, <2>6, SetStep
  <2>8. Shape(run'[r])
    BY <1>2, <1>3, <2>4, <2>5, <2>7, ShapeToMapping
  <2> QED BY <1>1, <2>1, <2>4, <2>5, <2>7, <2>8
<1> QED BY <1>4, <1>6, <1>7, <1>8

LEMMA SaveMappingStep ==
    ASSUME Types, Shapes, NEW r \in Requests, SaveMapping(r)
    PROVE  /\ Assigning(r, "saveMapping") /\ Shape(run'[r]) /\ Only(r)
           /\ Advances(run[r], run'[r])
<1>1. Assigning(r, "saveMapping") /\ Set(r, NextAssignment(r)) /\ scenario' = scenario
  BY DEF SaveMapping
<1>2. /\ run[r] \in RunRow /\ Shape(run[r]) /\ run[r] # Idle
      /\ run[r].at = "saveMapping" /\ run[r].op.name \in Assigns
  BY <1>1, AssigningIs DEF Assignings
<1>3. NextAssignment(r) \in RunRow /\ Advances(run[r], NextAssignment(r)) BY <1>2, NextIs
<1>4. Only(r) /\ run'[r] = NextAssignment(r) BY <1>1, <1>3, SetStep
<1>5. Shape(run'[r]) BY <1>2, <1>3, <1>4, ShapeAdvances
<1> QED BY <1>1, <1>3, <1>4, <1>5

\* A request at a place that only one handler has.
LEMMA PlaceIs ==
    ASSUME Types, Shapes, NEW r \in Requests, run[r].at # "idle", run[r].at # "loop",
           run[r].at \notin {"find", "delete", "rows"}
    PROVE  run[r].user \in Users
<1> PICK f \in RunRow : f = run[r] BY DEF Types
<1>1. Shape(f) /\ f # Idle BY DEF Shapes, Idle
<1>2. f.user # None
  BY <1>1 DEF Shape, Place, Assigns, Creators, Assigners, Assignings, Loops
<1> QED BY <1>2 DEF RunRow

LEMMA FindStatusStep ==
    ASSUME Types, Shapes, NEW r \in Requests, FindStatus(r)
    PROVE  LET f == run[r]
               g == run'[r]
           IN
           /\ OnlyRun /\ run[r].at = "find" /\ Shape(g) /\ run[r].user \in Users
           /\ \/ Ends(r)
              \/ /\ Only(r) /\ g.at = "saveStatus" /\ Keeps(f, g)
                 /\ g.op.name = "updateAssignTenantStatus"
                 /\ g.row \in MappingsTo(f.user, f.op.tenant)
                 /\ g.entity.looked = tenantRows[g.row].looked
<1>1. At(r, "updateAssignTenantStatus", "find") /\ OnlyRun /\ scenario' = scenario
  BY DEF FindStatus, OnlyRun, history
<1> PICK f \in RunRow : f = run[r] BY DEF Types
<1>2. Shape(f) /\ f # Idle /\ f.at = "find" /\ f.op.name = "updateAssignTenantStatus"
  BY <1>1 DEF Shapes, At, Idle
<1>3. f.user \in Users /\ Empty(f) /\ f.op \in Op /\ Asked(f.op) /\ f.todo = <<>> /\ f.role = None
  <2>1. f.user # None BY <1>2 DEF Shape, Loops
  <2> QED BY <1>2, <2>1 DEF Shape, RunRow, Assigns, Creators, Assigners
<1>4. f.op.status \in Statuses /\ f.op.tenant \in Tenants BY <1>2, <1>3 DEF Asked
<1>5. CASE End(r)
  <2>1. Ends(r) BY <1>1, <1>5, EndStep
  <2> QED BY <1>1, <1>2, <1>3, <2>1 DEF Ends, Shape
<1>6. CASE \E m \in MappingsTo(f.user, f.op.tenant) :
            Set(r, [f EXCEPT !.at = "saveStatus", !.row = m,
                        !.entity = [tenantRows[m] EXCEPT !.status = f.op.status, !.quiet = FALSE]])
  <2>1. PICK m \in MappingsTo(f.user, f.op.tenant) :
            Set(r, [f EXCEPT !.at = "saveStatus", !.row = m,
                        !.entity = [tenantRows[m] EXCEPT !.status = f.op.status, !.quiet = FALSE]])
    BY <1>6
  <2>2. m \in RowIds /\ tenantRows[m] \in TenantRow
        /\ tenantRows[m].user = f.user /\ tenantRows[m].tenant = f.op.tenant
    BY DEF MappingsTo, MappingsOf, Present, Types
  <2> PICK e : e = [tenantRows[m] EXCEPT !.status = f.op.status, !.quiet = FALSE] OBVIOUS
  <2>3. e \in TenantRow /\ e.user = f.user /\ e.tenant = f.op.tenant
        /\ e.looked = tenantRows[m].looked
    BY <1>4, <2>2 DEF TenantRow
  <2> DEFINE g == [f EXCEPT !.at = "saveStatus", !.row = m, !.entity = e]
  <2>4. /\ g \in RunRow /\ g.at = "saveStatus" /\ Keeps(f, g) /\ g.row = m
        /\ g.was = None /\ g.entity = e
    BY <1>3, <2>2, <2>3 DEF RunRow, Keeps, Empty, Ats
  <2>5. Set(r, g) BY <2>1
  <2> HIDE DEF g
  <2>6. Only(r) /\ run'[r] = g BY <1>1, <2>4, <2>5, SetStep
  <2>7. Place(g) /\ m # None BY <1>2, <2>2, <2>4, MappingsAssumption DEF Place, Keeps
  <2>8. Shape(g)
    BY <1>2, <1>3, <2>3, <2>4, <2>7, MappingsAssumption DEF Shape, Keeps, Assigns, Creators, Assigners, Loops
  <2> QED BY <1>1, <1>2, <1>3, <2>1, <2>3, <2>4, <2>6, <2>8 DEF Keeps
<1> QED BY <1>5, <1>6 DEF FindStatus

\* The request is done with its user.
Released(r) == Only(r) /\ Shape(run'[r]) /\ run'[r].user = None /\ run'[r].at \in {"idle", "loop"}

LEMMA EndReleases ==
    ASSUME Types, NEW r \in Requests, End(r), scenario' = scenario
    PROVE  Released(r)
<1>1. Ends(r) BY EndStep
<1>2. Idle.user = None /\ Idle.at = "idle" BY DEF Idle
<1>3. Shape(Idle) BY DEF Shape
<1> QED BY <1>1, <1>2, <1>3 DEF Ends, Released

Leave(k) == [k EXCEPT !.at = "loop", !.user = None, !.role = None, !.wrote = FALSE]

LEMMA LeaveIs ==
    ASSUME NEW k \in RunRow
    PROVE  /\ Leave(k) \in RunRow /\ Leave(k).at = "loop" /\ Leave(k).user = None
           /\ Leave(k).role = None /\ ~Leave(k).wrote
           /\ Leave(k).op = k.op /\ Leave(k).todo = k.todo /\ Leave(k).roles = k.roles
           /\ Leave(k).row = k.row /\ Leave(k).was = k.was /\ Leave(k).entity = k.entity
<1>1. "loop" \in Ats BY DEF Ats
<1> QED BY <1>1 DEF Leave, RunRow

LEMMA NextUserStep ==
    ASSUME Types, Shapes, NEW r \in Requests, Set(r, NextUser(r)), scenario' = scenario,
           run[r].op.name = "mapPrathaUsersToTenant", run[r] # Idle
    PROVE  Released(r)
<1> PICK f \in RunRow : f = run[r] BY DEF Types
<1> PICK k \in RunRow : k = Forget(f) BY ForgetIs
<1> DEFINE g == [k EXCEPT !.at = "loop", !.user = None, !.role = None, !.wrote = FALSE]
<1>1. Empty(k) /\ Keeps(f, k) BY ForgetIs
<1>2. /\ g \in RunRow /\ g.at = "loop" /\ g.user = None /\ g.role = None /\ Empty(g)
      /\ g.op = f.op /\ g.todo = f.todo /\ g.roles = f.roles /\ ~g.wrote
  <2>1. g = Leave(k) BY DEF Leave
  <2>2. /\ Leave(k) \in RunRow /\ Leave(k).at = "loop" /\ Leave(k).user = None
        /\ Leave(k).role = None /\ ~Leave(k).wrote
        /\ Leave(k).op = k.op /\ Leave(k).todo = k.todo /\ Leave(k).roles = k.roles
        /\ Leave(k).row = k.row /\ Leave(k).was = k.was /\ Leave(k).entity = k.entity
    BY LeaveIs
  <2> HIDE DEF g
  <2>3. Empty(g) BY <1>1, <2>1, <2>2 DEF Empty
  <2>4. g.op = f.op /\ g.todo = f.todo /\ g.roles = f.roles BY <1>1, <2>1, <2>2 DEF Keeps
  <2> QED BY <2>1, <2>2, <2>3, <2>4
<1>3. Set(r, g) BY DEF NextUser
<1> HIDE DEF g
<1>4. Only(r) /\ run'[r] = g BY <1>2, <1>3, SetStep
<1>5. Place(g) BY <1>2 DEF Place
<1>6. Shape(f) /\ f # Idle BY DEF Shapes
<1>7. Shape(g)
  BY <1>2, <1>5, <1>6 DEF Shape, Loops, Assigns, Creators, Assigners
<1> QED BY <1>2, <1>4, <1>7 DEF Released

LEMMA AfterEventStep ==
    ASSUME Types, Shapes, NEW r \in Requests, Set(r, AfterEvent(r)), scenario' = scenario,
           run[r] # Idle
    PROVE  Released(r)
<1>1. CASE run[r].op.name = "mapPrathaUsersToTenant"
  BY <1>1, NextUserStep DEF AfterEvent
<1>2. CASE run[r].op.name # "mapPrathaUsersToTenant"
  BY <1>2, EndReleases DEF AfterEvent, End
<1> QED BY <1>1, <1>2

\* A request at "event" or "send".
LEMMA EventIs ==
    ASSUME Types, Shapes, NEW r \in Requests, run[r].at \in {"event", "send"}
    PROVE  /\ run[r] \in RunRow /\ Shape(run[r]) /\ run[r] # Idle /\ run[r].user \in Users
           /\ run[r].row = None /\ run[r].was = None /\ run[r].wrote
           /\ run[r].op.name \in {"userTenantMapping", "updateAssignTenantStatus",
                                  "mapPrathaUsersToTenant"}
           /\ Pair(r) = <<run[r].user, About(run[r])>> /\ About(run[r]) \in Tenants
<1> PICK f \in RunRow : f = run[r] BY DEF Types
<1>1. Shape(f) /\ f # Idle BY DEF Shapes, Idle
<1>2. f.row = None /\ f.was = None /\ f.wrote BY <1>1 DEF Shape
<1>3. f.op.name \in {"userTenantMapping", "updateAssignTenantStatus", "mapPrathaUsersToTenant"}
  BY <1>1 DEF Shape, Place, Assignings
<1>4. f.user \in Users BY <1>1, PlaceIs
<1>5. Pair(r) = <<f.user, About(f)>> BY <1>3 DEF Pair, About
<1>6. About(f) \in Tenants
  <2>1. CASE f.op.name = "userTenantMapping"
    BY <1>1, <2>1, HeadOfTodo DEF About, Assigns, Assigners
  <2>2. CASE f.op.name = "updateAssignTenantStatus"
    BY <1>1, <2>2 DEF About, Shape, Asked
  <2>3. CASE f.op.name = "mapPrathaUsersToTenant"
    BY <2>3, MappingsAssumption DEF About
  <2> QED BY <1>3, <2>1, <2>2, <2>3
<1> QED BY <1>1, <1>2, <1>3, <1>4, <1>5, <1>6

LEMMA ToSend ==
    ASSUME NEW f \in RunRow, NEW g \in RunRow, Shape(f), f # Idle, f.at = "event",
           f.row = None, f.was = None, Keeps(f, g), g.at = "send", g.row = f.row,
           g.was = f.was, g.entity \in TenantRow
    PROVE  Shape(g)
<1>1. Place(g) BY DEF Shape, Place, Keeps, Assignings
<1>2. f.wrote BY DEF Shape
<1>3. f.op \in Op /\ Asked(f.op) /\ g.op = f.op BY DEF Shape, Keeps
<1>4. /\ (g.user = None) <=> (g.op.name = "deleteRole" \/ (g.op.name \in Loops /\ g.at = "loop"))
      /\ g.op.name \in Assigns => g.todo # <<>>
      /\ g.op.name \notin Assigns => g.todo = <<>>
      /\ g.op.name \in Assigners => g.todo = g.op.todo
      /\ g.op.name \in Loops => g.roles = g.op.roles
      /\ g.op.name = "mapPrathaUsersToTenant" => g.role \in {None, Learner}
  BY DEF Shape, Keeps
<1> QED BY <1>1, <1>2, <1>3, <1>4 DEF Shape, Keeps

LEMMA ReadForEventStep ==
    ASSUME Types, Shapes, NEW r \in Requests, ReadForEvent(r)
    PROVE  /\ OnlyRun /\ run[r].at = "event"
           /\ \/ Released(r) /\ MappingsTo(run[r].user, About(run[r])) = {}
              \/ /\ Only(r) /\ run'[r].at = "send" /\ Keeps(run[r], run'[r]) /\ Shape(run'[r])
                 /\ \E m \in MappingsTo(run[r].user, About(run[r])) :
                      run'[r].entity = tenantRows[m]
<1>1. run[r].at = "event" /\ OnlyRun /\ scenario' = scenario
  BY DEF ReadForEvent, OnlyRun, history
<1>2. /\ run[r] \in RunRow /\ Shape(run[r]) /\ run[r] # Idle
      /\ run[r].row = None /\ run[r].was = None
      /\ Pair(r)[1] = run[r].user /\ Pair(r)[2] = About(run[r])
  BY <1>1, EventIs
<1> PICK t : t = About(run[r]) OBVIOUS
<1>3. CASE MappingsTo(run[r].user, t) = {} /\ Set(r, AfterEvent(r))
  BY <1>1, <1>2, <1>3, AfterEventStep
<1>4. CASE \E m \in MappingsTo(run[r].user, t) :
            Set(r, [run[r] EXCEPT !.at = "send", !.entity = tenantRows[m]])
  <2>1. PICK m \in MappingsTo(run[r].user, t) :
            Set(r, [run[r] EXCEPT !.at = "send", !.entity = tenantRows[m]])
    BY <1>4
  <2>2. tenantRows[m] \in TenantRow BY DEF MappingsTo, MappingsOf, Present, Types
  <2>3. Reads(r, "send", None, None, tenantRows[m])
    BY <1>1, <1>2, <2>1, <2>2, EntityStep DEF Ats
  <2>4. Shape(run'[r])
    BY <1>1, <1>2, <2>2, <2>3, ToSend DEF Reads, Only
  <2> QED BY <1>1, <2>3, <2>4 DEF Reads
<1> QED BY <1>2, <1>3, <1>4 DEF ReadForEvent

\* A step that fails leaves the tables alone.
Fails(r) ==
    UNCHANGED <<tables, told, granted, raced, doubled, scenario>>
    /\ failed \subseteq failed' /\ failed' \subseteq Users /\ halfway \subseteq halfway'

LEMMA ReadFailsStep ==
    ASSUME Types, Shapes, NEW r \in Requests, ReadFails(r)
    PROVE  /\ Fails(r) /\ halfway' = halfway /\ run[r].at = "event"
           /\ run[r].user \in Users /\ run[r].user \in failed'
           /\ \/ Released(r)
              \/ Only(r) /\ run'[r].at = "send" /\ Keeps(run[r], run'[r]) /\ Shape(run'[r])
<1>1. /\ run[r].at = "event" /\ failed' = failed \cup {run[r].user}
      /\ UNCHANGED <<tables, told, granted, raced, doubled, halfway, scenario>>
  BY DEF ReadFails
<1>2. /\ run[r] \in RunRow /\ Shape(run[r]) /\ run[r] # Idle /\ run[r].user \in Users
      /\ run[r].row = None /\ run[r].was = None /\ About(run[r]) \in Tenants
  BY <1>1, EventIs
<1>3. Fails(r) BY <1>1, <1>2 DEF Fails, Types
<1>4. CASE Set(r, AfterEvent(r))
  BY <1>1, <1>2, <1>3, <1>4, AfterEventStep
<1>5. CASE /\ run[r].op.name = "updateAssignTenantStatus"
           /\ Set(r, [run[r] EXCEPT !.at = "send", !.entity =
                [user |-> run[r].user, tenant |-> run[r].op.tenant,
                 status |-> run[r].op.status, quiet |-> FALSE, looked |-> TRUE]])
  <2> PICK e : e = [user |-> run[r].user, tenant |-> run[r].op.tenant,
                    status |-> run[r].op.status, quiet |-> FALSE, looked |-> TRUE]
    OBVIOUS
  <2>1. run[r].op.tenant \in Tenants /\ run[r].op.status \in Statuses
    BY <1>2, <1>5 DEF Shape, Asked
  <2>2. e \in TenantRow BY <1>2, <2>1 DEF TenantRow
  <2>3. Reads(r, "send", None, None, e)
    BY <1>1, <1>2, <1>5, <2>2, EntityStep DEF Ats
  <2>4. Shape(run'[r])
    BY <1>1, <1>2, <2>2, <2>3, ToSend DEF Reads, Only
  <2> QED BY <1>1, <1>2, <1>3, <2>3, <2>4 DEF Reads
<1> QED BY <1>4, <1>5 DEF ReadFails

LEMMA SendStep ==
    ASSUME Types, Shapes, NEW r \in Requests, Send(r) \/ SendFails(r)
    PROVE  /\ run[r].at = "send" /\ Released(r) /\ run[r].user \in Users
           /\ SendFails(r) => Fails(r) /\ halfway' = halfway /\ run[r].user \in failed'
<1>1. run[r].at = "send" /\ Set(r, AfterEvent(r)) /\ scenario' = scenario
  BY DEF Send, SendFails
<1>2. run[r] # Idle /\ run[r].user \in Users BY <1>1, EventIs
<1>3. Released(r) BY <1>1, <1>2, AfterEventStep
<1>4. SendFails(r) => Fails(r) /\ halfway' = halfway /\ run[r].user \in failed'
  BY <1>2 DEF SendFails, Fails, Types
<1> QED BY <1>1, <1>2, <1>3, <1>4

\* A request of a handler without assignments goes from one place to another.
LEMMA ShapePlain ==
    ASSUME NEW f \in RunRow, NEW g \in RunRow, Shape(f), f # Idle, f.op.name \notin Assigns,
           g.op = f.op, g.todo = f.todo, Place(g), Empty(g),
           g.at \notin {"validate", "create", "saveStatus", "send", "saveRole", "saveMapping"},
           (g.user = None) <=> (f.op.name = "deleteRole" \/ (f.op.name \in Loops /\ g.at = "loop")),
           f.op.name \in Loops => g.roles = f.roles,
           g.at \in {"event", "jobRole", "deleteRows", "deleteUser"} => g.wrote,
           f.op.name \in {"createAssignRole", "bulkUpdateUserRoles", "deleteRole"} \/ g.at = "loop"
             => ~g.wrote,
           g.role # None => g.at \in {"insertRole", "jobMapping", "jobRole", "event"},
           g.at = "insertRole" => g.role # None /\ g.role \in g.roles,
           f.op.name = "mapPrathaUsersToTenant" => g.role \in {None, Learner},
           g.at = "jobRole" => g.role = Learner
    PROVE  Shape(g)
<1>1. f.op \in Op /\ Asked(f.op) /\ f.todo = <<>> BY DEF Shape
<1>2. f.op.name \in Loops => f.roles = f.op.roles BY DEF Shape
<1>3. g.at \notin {"mapping", "pair"} BY DEF Place, Assignings
<1>4. f.op.name \notin Assigners /\ f.op.name \notin Creators BY DEF Assigns
<1>5. g.op \in Op /\ Asked(g.op) /\ g.todo = <<>> /\ g.op.name \notin Assigns /\ g.op.name \notin Assigners
      /\ g.op.name \notin Creators
      /\ (g.op.name \in Loops => g.roles = g.op.roles)
  BY <1>1, <1>2, <1>4
<1>6. /\ (g.user = None) <=> (g.op.name = "deleteRole" \/ (g.op.name \in Loops /\ g.at = "loop"))
      /\ g.op.name = "mapPrathaUsersToTenant" => g.role \in {None, Learner}
  OBVIOUS
<1>7. g.at \in {"mapping", "pair", "saveMapping", "event", "send", "jobRole",
                "deleteRows", "deleteUser"} => g.wrote
  BY <1>3
<1>10. g.op.name \in {"createAssignRole", "bulkUpdateUserRoles", "deleteRole"} \/ g.at = "loop"
             => ~g.wrote
  OBVIOUS
<1>8. g.row = None /\ g.was = None BY DEF Empty
<1>9. g.role # None => g.at \in {"insertRole", "jobMapping", "jobRole", "event", "send"}
  OBVIOUS
<1> HIDE DEF Empty, Place
<1> QED BY <1>3, <1>5, <1>6, <1>7, <1>8, <1>9, <1>10 DEF Shape

\* A request of such a handler, at one of the places that read nothing for a write.
LEMMA PlainIs ==
    ASSUME Types, Shapes, NEW r \in Requests, run[r] # Idle,
           run[r].op.name \in {"createAssignRole", "deleteAssignedRole", "bulkUpdateUserRoles",
                               "deleteRole", "deleteUserById", "mapPrathaUsersToTenant"},
           run[r].at # "send", run[r].at # "event"
    PROVE  /\ run[r] \in RunRow /\ Shape(run[r]) /\ Empty(run[r])
           /\ run[r].op.name \notin Assigns /\ run[r].todo = <<>>
           /\ run[r].role # None => run[r].at \in {"insertRole", "jobMapping", "jobRole"}
           /\ run[r].at # "loop" /\ run[r].op.name # "deleteRole" => run[r].user \in Users
           /\ run[r].at \in {"jobRole", "deleteRows", "deleteUser"} => run[r].wrote
           /\ \/ run[r].op.name \in {"createAssignRole", "bulkUpdateUserRoles", "deleteRole"}
              \/ run[r].at = "loop"
              => ~run[r].wrote
<1> PICK f \in RunRow : f = run[r] BY DEF Types
<1>1. Shape(f) /\ f # Idle BY DEF Shapes
<1>2. f.op.name \notin Assigns BY DEF Assigns, Creators, Assigners
<1>3. f.at \notin {"saveRole", "saveMapping", "saveStatus"}
  BY <1>1, <1>2 DEF Shape, Place
<1>4. Empty(f) /\ f.todo = <<>>
  BY <1>1, <1>2, <1>3 DEF Shape
<1>5. f.role # None => f.at \in {"insertRole", "jobMapping", "jobRole"}
  BY <1>1 DEF Shape
<1>6. f.at # "loop" /\ f.op.name # "deleteRole" => f.user \in Users
  BY <1>1 DEF Shape, RunRow
<1>7. f.at \in {"jobRole", "deleteRows", "deleteUser"} => f.wrote
  BY <1>1 DEF Shape
<1>8. f.op.name \in {"createAssignRole", "bulkUpdateUserRoles", "deleteRole"} \/ f.at = "loop"
        => ~f.wrote
  BY <1>1 DEF Shape
<1> QED BY <1>1, <1>2, <1>4, <1>5, <1>6, <1>7, <1>8

\* A role that fits is inserted next.
LEMMA CheckRoleStep ==
    ASSUME Types, Shapes, NEW r \in Requests, CheckRole(r)
    PROVE  LET f == run[r]
               g == run'[r]
           IN
           /\ OnlyRun /\ Only(r) /\ Shape(g) /\ f.at = "loop" /\ f.user \in Users
           /\ g.user = f.user /\ g.op = f.op
           /\ \/ g.at = "loop"
              \/ /\ g.at = "insertRole" /\ g.role \in roles
                 /\ \A m \in RolesOf(f.user) : roleRows[m].role # g.role
<1>1. At(r, "createAssignRole", "loop") /\ OnlyRun /\ scenario' = scenario
  BY DEF CheckRole, OnlyRun, history
<1> PICK f \in RunRow : f = run[r] BY DEF Types
<1>2. f.at = "loop" /\ f.op.name = "createAssignRole" /\ f # Idle BY <1>1 DEF At, Idle
<1>3. Shape(f) /\ Empty(f) /\ f.op.name \notin Assigns /\ f.role = None /\ ~f.wrote
  BY <1>2, PlainIs
<1>4. f.user \in Users BY <1>2, <1>3 DEF Shape, RunRow, Loops
<1>5. PICK p \in f.roles :
        \/ Set(r, [f EXCEPT !.roles = @ \ {p}])
        \/ /\ Set(r, [f EXCEPT !.at = "insertRole", !.role = p])
           /\ p \in roles /\ \A m \in RolesOf(f.user) : roleRows[m].role # p
  BY DEF CheckRole
<1>6. p \in Roles /\ p # None BY MappingsAssumption DEF RunRow
<1>7. CASE Set(r, [f EXCEPT !.roles = @ \ {p}])
  <2> DEFINE g == [f EXCEPT !.roles = @ \ {p}]
  <2>1. /\ g \in RunRow /\ g.op = f.op /\ g.user = f.user /\ g.todo = f.todo /\ g.at = f.at
        /\ g.role = f.role /\ Empty(g) /\ g.wrote = f.wrote
    BY <1>3 DEF RunRow, Empty
  <2>2. Set(r, g) BY <1>7
  <2> HIDE DEF g
  <2>3. Only(r) /\ run'[r] = g BY <1>1, <2>1, <2>2, SetStep
  <2>4. Place(g) BY <1>2, <2>1 DEF Place
  <2>5. Shape(g)
    BY <1>2, <1>3, <1>4, <2>1, <2>4, ShapePlain, MappingsAssumption DEF Loops
  <2> QED BY <1>1, <1>2, <1>4, <2>1, <2>3, <2>5
<1>8. CASE /\ Set(r, [f EXCEPT !.at = "insertRole", !.role = p])
           /\ p \in roles /\ \A m \in RolesOf(f.user) : roleRows[m].role # p
  <2> DEFINE g == [f EXCEPT !.at = "insertRole", !.role = p]
  <2>1. /\ g \in RunRow /\ g.op = f.op /\ g.user = f.user /\ g.todo = f.todo
        /\ g.at = "insertRole" /\ g.role = p /\ g.roles = f.roles /\ Empty(g) /\ g.wrote = f.wrote
    BY <1>3, <1>6 DEF RunRow, Empty, Ats
  <2>2. Set(r, g) BY <1>8
  <2> HIDE DEF g
  <2>3. Only(r) /\ run'[r] = g BY <1>1, <2>1, <2>2, SetStep
  <2>4. Place(g) BY <1>2, <2>1 DEF Place
  <2>5. Shape(g)
    BY <1>2, <1>3, <1>4, <1>6, <2>1, <2>4, ShapePlain, MappingsAssumption DEF Loops
  <2> QED BY <1>1, <1>2, <1>4, <1>8, <2>1, <2>3, <2>5
<1> QED BY <1>5, <1>7, <1>8

LEMMA InsertRoleStep ==
    ASSUME Types, Shapes, NEW r \in Requests, InsertRole(r)
    PROVE  LET f == run[r]
               g == run'[r]
           IN
           /\ Only(r) /\ Shape(g) /\ f.at = "insertRole" /\ f.user \in Users /\ Empty(f)
           /\ f.role \in Roles /\ f.op.tenant \in Tenants
           /\ g.user = f.user /\ g.at = "loop"
<1>1. /\ At(r, "createAssignRole", "insertRole") /\ scenario' = scenario
      /\ Set(r, [run[r] EXCEPT !.at = "loop", !.roles = @ \ {run[r].role}, !.role = None])
  BY DEF InsertRole
<1> PICK f \in RunRow : f = run[r] BY DEF Types
<1>2. f.at = "insertRole" /\ f.op.name = "createAssignRole" /\ f # Idle BY <1>1 DEF At, Idle
<1>3. Shape(f) /\ Empty(f) /\ f.op.name \notin Assigns /\ f.user \in Users /\ ~f.wrote
  BY <1>2, PlainIs
<1>4. f.role \in Roles /\ f.op.tenant \in Tenants
  BY <1>2, <1>3 DEF Shape, RunRow, Asked
<1> DEFINE g == [f EXCEPT !.at = "loop", !.roles = @ \ {f.role}, !.role = None]
<1>5. /\ g \in RunRow /\ g.op = f.op /\ g.user = f.user /\ g.todo = f.todo /\ g.at = "loop"
      /\ g.role = None /\ Empty(g) /\ g.wrote = f.wrote
  BY <1>3 DEF RunRow, Empty, Ats
<1>6. Set(r, g) BY <1>1
<1> HIDE DEF g
<1>7. Only(r) /\ run'[r] = g BY <1>1, <1>5, <1>6, SetStep
<1>8. Place(g) BY <1>2, <1>5 DEF Place
<1>9. Shape(g)
  BY <1>2, <1>3, <1>5, <1>8, ShapePlain, MappingsAssumption DEF Loops
<1> QED BY <1>2, <1>3, <1>4, <1>5, <1>7, <1>9

LEMMA SaveStatusStep ==
    ASSUME Types, Shapes, NEW r \in Requests, SaveStatus(r)
    PROVE  /\ run[r].at = "saveStatus" /\ run[r].op.name = "updateAssignTenantStatus"
           /\ run[r].user \in Users /\ Wrote(r, "event") /\ Shape(run'[r])
           /\ run[r].row \in RowIds /\ run[r].entity \in TenantRow
           /\ run[r].entity.user = run[r].user /\ run[r].entity.tenant = run[r].op.tenant
<1>1. /\ At(r, "updateAssignTenantStatus", "saveStatus") /\ scenario' = scenario
      /\ Set(r, [run[r] EXCEPT !.at = "event", !.row = None, !.wrote = TRUE])
  BY DEF SaveStatus
<1> PICK f \in RunRow : f = run[r] BY DEF Types
<1>2. f.at = "saveStatus" /\ f.op.name = "updateAssignTenantStatus" /\ f # Idle BY <1>1 DEF At, Idle
<1>3. Shape(f) BY DEF Shapes
<1>4. /\ f.user # None /\ f.entity \in TenantRow /\ f.entity.user = f.user /\ f.row # None
      /\ f.was = None /\ f.entity.tenant = f.op.tenant /\ f.role = None
      /\ f.op \in Op /\ Asked(f.op) /\ f.todo = <<>>
  BY <1>2, <1>3 DEF Shape, Loops, Assigns, Creators, Assigners
<1> DEFINE g == [f EXCEPT !.at = "event", !.row = None, !.wrote = TRUE]
<1>5. /\ g \in RunRow /\ g.at = "event" /\ g.op = f.op /\ g.user = f.user /\ g.todo = f.todo
      /\ g.roles = f.roles /\ g.role = f.role /\ g.row = None /\ g.was = None /\ g.wrote
      /\ g.looked = f.looked
  BY <1>4 DEF RunRow, Ats
<1>6. Set(r, g) BY <1>1
<1> HIDE DEF g
<1>7. Only(r) /\ run'[r] = g BY <1>1, <1>5, <1>6, SetStep
<1>8. Place(g) BY <1>2, <1>5 DEF Place
<1>9. Shape(g)
  <2>1. g.op.name \notin Loops /\ g.op.name \notin Assigns /\ g.op.name \notin Assigners
        /\ g.op.name \notin Creators
    BY <1>2, <1>5 DEF Loops, Assigns, Creators, Assigners
  <2> QED BY <1>2, <1>4, <1>5, <1>8, <2>1 DEF Shape
<1> QED BY <1>2, <1>4, <1>5, <1>7, <1>9 DEF RunRow, Wrote

LEMMA BulkFindStep ==
    ASSUME Types, Shapes, NEW r \in Requests, BulkFind(r)
    PROVE  /\ OnlyRun /\ Only(r) /\ Shape(run'[r]) /\ run[r].at = "loop"
           /\ \/ run'[r].at = "loop" /\ run'[r].user = None
              \/ run'[r].at = "bulkSave" /\ run'[r].user \in Users
<1>1. At(r, "bulkUpdateUserRoles", "loop") /\ OnlyRun /\ scenario' = scenario
  BY DEF BulkFind, OnlyRun, history
<1> PICK f \in RunRow : f = run[r] BY DEF Types
<1>2. f.at = "loop" /\ f.op.name = "bulkUpdateUserRoles" /\ f # Idle BY <1>1 DEF At, Idle
<1>3. Shape(f) /\ Empty(f) /\ f.op.name \notin Assigns /\ f.role = None /\ ~f.wrote
  BY <1>2, PlainIs
<1>4. f.user = None BY <1>2, <1>3 DEF Shape, Loops
<1>5. PICK u \in f.users :
        \/ Set(r, [f EXCEPT !.users = @ \ {u}])
        \/ Set(r, [f EXCEPT !.users = @ \ {u}, !.user = u, !.at = "bulkSave"])
  BY DEF BulkFind
<1>6. u \in Users /\ u # None BY MappingsAssumption DEF RunRow
<1>7. CASE Set(r, [f EXCEPT !.users = @ \ {u}])
  <2> DEFINE g == [f EXCEPT !.users = @ \ {u}]
  <2>1. /\ g \in RunRow /\ g.op = f.op /\ g.user = f.user /\ g.todo = f.todo /\ g.at = f.at
        /\ g.role = f.role /\ g.roles = f.roles /\ Empty(g) /\ g.wrote = f.wrote
    BY <1>3 DEF RunRow, Empty
  <2>2. Set(r, g) BY <1>7
  <2> HIDE DEF g
  <2>3. Only(r) /\ run'[r] = g BY <1>1, <2>1, <2>2, SetStep
  <2>4. Place(g) BY <1>2, <2>1 DEF Place
  <2>5. Shape(g)
    BY <1>2, <1>3, <1>4, <2>1, <2>4, ShapePlain DEF Loops
  <2> QED BY <1>1, <1>2, <1>4, <2>1, <2>3, <2>5
<1>8. CASE Set(r, [f EXCEPT !.users = @ \ {u}, !.user = u, !.at = "bulkSave"])
  <2> DEFINE g == [f EXCEPT !.users = @ \ {u}, !.user = u, !.at = "bulkSave"]
  <2>1. /\ g \in RunRow /\ g.op = f.op /\ g.user = u /\ g.todo = f.todo /\ g.at = "bulkSave"
        /\ g.role = f.role /\ g.roles = f.roles /\ Empty(g) /\ g.wrote = f.wrote
    BY <1>3, <1>6 DEF RunRow, Empty, Ats
  <2>2. Set(r, g) BY <1>8
  <2> HIDE DEF g
  <2>3. Only(r) /\ run'[r] = g BY <1>1, <2>1, <2>2, SetStep
  <2>4. Place(g) BY <1>2, <2>1 DEF Place
  <2>5. Shape(g)
    BY <1>2, <1>3, <1>6, <2>1, <2>4, ShapePlain DEF Loops
  <2> QED BY <1>1, <1>2, <1>6, <2>1, <2>3, <2>5
<1> QED BY <1>5, <1>7, <1>8

LEMMA BulkUpdateStep ==
    ASSUME Types, Shapes, NEW r \in Requests, BulkUpdate(r)
    PROVE  /\ Released(r) /\ run[r].at = "bulkSave" /\ run[r].user \in Users
           /\ run[r].op.tenant \in Tenants /\ (CHOOSE p \in run[r].op.roles : TRUE) \in Roles
<1>1. At(r, "bulkUpdateUserRoles", "bulkSave") /\ scenario' = scenario
      /\ Set(r, [run[r] EXCEPT !.at = "loop", !.user = None])
  BY DEF BulkUpdate
<1> PICK f \in RunRow : f = run[r] BY DEF Types
<1>2. f.at = "bulkSave" /\ f.op.name = "bulkUpdateUserRoles" /\ f # Idle BY <1>1 DEF At, Idle
<1>3. Shape(f) /\ Empty(f) /\ f.op.name \notin Assigns /\ f.role = None /\ f.user \in Users /\ ~f.wrote
  BY <1>2, PlainIs
<1>4. f.op.tenant \in Tenants /\ Cardinality(f.op.roles) = 1 /\ f.op.roles \subseteq Roles
  BY <1>2, <1>3 DEF Shape, Asked, Op
<1>5. f.op.roles # {} BY <1>4, FS_EmptySet
<1>6. (CHOOSE p \in f.op.roles : TRUE) \in Roles BY <1>4, <1>5
<1> DEFINE g == [f EXCEPT !.at = "loop", !.user = None]
<1>7. /\ g \in RunRow /\ g.op = f.op /\ g.user = None /\ g.todo = f.todo /\ g.at = "loop"
      /\ g.role = f.role /\ g.roles = f.roles /\ Empty(g) /\ g.wrote = f.wrote
  BY <1>3 DEF RunRow, Empty, Ats
<1>8. Set(r, g) BY <1>1
<1> HIDE DEF g
<1>9. Only(r) /\ run'[r] = g BY <1>1, <1>7, <1>8, SetStep
<1>10. Place(g) BY <1>2, <1>7 DEF Place
<1>11. Shape(g)
  BY <1>2, <1>3, <1>7, <1>10, ShapePlain DEF Loops
<1> QED BY <1>2, <1>3, <1>4, <1>6, <1>7, <1>9, <1>11 DEF Released

LEMMA DeleteRoleStep ==
    ASSUME Types, Shapes, NEW r \in Requests, DeleteRole(r)
    PROVE  /\ Goes(r, "rows") /\ Shape(run'[r]) /\ run[r].at = "delete" /\ run[r].user = None
           /\ run[r].op.name = "deleteRole" /\ run[r].op.roles \subseteq Roles
<1>1. At(r, "deleteRole", "delete") /\ scenario' = scenario /\ GoTo(r, "rows")
  BY DEF DeleteRole
<1> PICK f \in RunRow : f = run[r] BY DEF Types
<1>2. f.at = "delete" /\ f.op.name = "deleteRole" /\ f # Idle BY <1>1 DEF At, Idle
<1>3. Shape(f) /\ f.role = None BY <1>2, PlainIs
<1>4. Goes(r, "rows") BY <1>1, GoStep DEF Ats
<1>5. Shape(run'[r]) BY <1>2, <1>3, <1>4, ShapeGoes
<1>6. f.user = None /\ f.op \in Op BY <1>2, <1>3 DEF Shape
<1> QED BY <1>2, <1>4, <1>5, <1>6 DEF Op

LEMMA DeleteMappingsStep ==
    ASSUME Types, Shapes, NEW r \in Requests, DeleteMappings(r)
    PROVE  /\ Wrote(r, "deleteRows") /\ Empty(run'[r]) /\ Shape(run'[r])
           /\ run[r].at = "deleteMappings" /\ run[r].user \in Users
<1>1. At(r, "deleteUserById", "deleteMappings") /\ scenario' = scenario
      /\ Set(r, [run[r] EXCEPT !.at = "deleteRows", !.wrote = TRUE])
  BY DEF DeleteMappings
<1> PICK f \in RunRow : f = run[r] BY DEF Types
<1>2. f.at = "deleteMappings" /\ f.op.name = "deleteUserById" /\ f # Idle BY <1>1 DEF At, Idle
<1>3. Shape(f) /\ Empty(f) /\ f.op.name \notin Assigns /\ f.role = None /\ f.user \in Users
  BY <1>2, PlainIs
<1>4. Wrote(r, "deleteRows") /\ Empty(run'[r]) BY <1>1, <1>3, WroteStep DEF Ats
<1> PICK g \in RunRow : g = run'[r] BY <1>4 DEF Wrote, Only
<1>5. Place(g) BY <1>2, <1>4 DEF Wrote, Place
<1>6. f.user # None BY <1>3, MappingsAssumption
<1>7. Shape(g)
  BY <1>2, <1>3, <1>4, <1>5, <1>6, ShapePlain DEF Wrote, Loops
<1> QED BY <1>2, <1>3, <1>4, <1>7

LEMMA DeleteRowsStep ==
    ASSUME Types, Shapes, NEW r \in Requests, DeleteRows(r)
    PROVE  /\ Goes(r, "deleteUser") /\ Shape(run'[r])
           /\ run[r].at = "deleteRows" /\ run[r].user \in Users
<1>1. At(r, "deleteUserById", "deleteRows") /\ scenario' = scenario /\ GoTo(r, "deleteUser")
  BY DEF DeleteRows
<1> PICK f \in RunRow : f = run[r] BY DEF Types
<1>2. f.at = "deleteRows" /\ f.op.name = "deleteUserById" /\ f # Idle BY <1>1 DEF At, Idle
<1>3. Shape(f) /\ f.op.name \notin Assigns /\ f.role = None /\ f.user \in Users /\ f.wrote
  BY <1>2, PlainIs
<1>4. Goes(r, "deleteUser") BY <1>1, GoStep DEF Ats
<1> PICK g \in RunRow : g = run'[r] BY <1>4 DEF Goes, Only
<1>5. Place(g) BY <1>2, <1>4 DEF Goes, Keeps, Place
<1>6. f.user # None BY <1>3, MappingsAssumption
<1>7. Shape(g)
  BY <1>2, <1>3, <1>4, <1>5, <1>6, ShapePlain DEF Goes, Keeps, Loops
<1> QED BY <1>2, <1>3, <1>4, <1>7

LEMMA JobUserStep ==
    ASSUME Types, Shapes, NEW r \in Requests, JobUser(r)
    PROVE  /\ OnlyRun /\ Only(r) /\ Shape(run'[r]) /\ run[r].at = "loop"
           /\ \/ run'[r].at = "loop" /\ run'[r].user = None
              \/ run'[r].at = "jobRoles" /\ MappingsTo(run'[r].user, Home) = {}
<1>1. At(r, "mapPrathaUsersToTenant", "loop") /\ OnlyRun /\ scenario' = scenario
  BY DEF JobUser, OnlyRun, history
<1> PICK f \in RunRow : f = run[r] BY DEF Types
<1>2. f.at = "loop" /\ f.op.name = "mapPrathaUsersToTenant" /\ f # Idle BY <1>1 DEF At, Idle
<1>3. Shape(f) /\ Empty(f) /\ f.op.name \notin Assigns /\ f.role = None /\ ~f.wrote
  BY <1>2, PlainIs
<1>4. f.user = None BY <1>2, <1>3 DEF Shape, Loops
<1>5. PICK u \in f.users :
        \/ Set(r, [f EXCEPT !.users = @ \ {u}])
        \/ /\ MappingsTo(u, Home) = {}
           /\ Set(r, [f EXCEPT !.users = @ \ {u}, !.user = u, !.at = "jobRoles"])
  BY DEF JobUser
<1>6. u \in Users /\ u # None BY MappingsAssumption DEF RunRow
<1>7. CASE Set(r, [f EXCEPT !.users = @ \ {u}])
  <2> DEFINE g == [f EXCEPT !.users = @ \ {u}]
  <2>1. /\ g \in RunRow /\ g.op = f.op /\ g.user = f.user /\ g.todo = f.todo /\ g.at = f.at
        /\ g.role = f.role /\ g.roles = f.roles /\ Empty(g) /\ g.wrote = f.wrote
    BY <1>3 DEF RunRow, Empty
  <2>2. Set(r, g) BY <1>7
  <2> HIDE DEF g
  <2>3. Only(r) /\ run'[r] = g BY <1>1, <2>1, <2>2, SetStep
  <2>4. Place(g) BY <1>2, <2>1 DEF Place
  <2>5. Shape(g)
    BY <1>2, <1>3, <1>4, <2>1, <2>4, ShapePlain DEF Loops
  <2> QED BY <1>1, <1>2, <1>4, <2>1, <2>3, <2>5
<1>8. CASE /\ MappingsTo(u, Home) = {}
           /\ Set(r, [f EXCEPT !.users = @ \ {u}, !.user = u, !.at = "jobRoles"])
  <2> DEFINE g == [f EXCEPT !.users = @ \ {u}, !.user = u, !.at = "jobRoles"]
  <2>1. /\ g \in RunRow /\ g.op = f.op /\ g.user = u /\ g.todo = f.todo /\ g.at = "jobRoles"
        /\ g.role = f.role /\ g.roles = f.roles /\ Empty(g) /\ g.wrote = f.wrote
    BY <1>3, <1>6 DEF RunRow, Empty, Ats
  <2>2. Set(r, g) BY <1>8
  <2> HIDE DEF g
  <2>3. Only(r) /\ run'[r] = g BY <1>1, <2>1, <2>2, SetStep
  <2>4. Place(g) BY <1>2, <2>1 DEF Place
  <2>5. Shape(g)
    BY <1>2, <1>3, <1>6, <2>1, <2>4, ShapePlain DEF Loops
  <2> QED BY <1>1, <1>2, <1>8, <2>1, <2>3, <2>5
<1> QED BY <1>5, <1>7, <1>8

LEMMA JobRolesStep ==
    ASSUME Types, Shapes, NEW r \in Requests, JobRoles(r)
    PROVE  LET g == run'[r] IN
           /\ OnlyRun /\ Only(r) /\ Shape(g) /\ run[r].at = "jobRoles" /\ run[r].user \in Users
           /\ g.at = "jobMapping" /\ g.user = run[r].user
           /\ g.role # None => RolesIn(g.user, Home) = {}
<1>1. At(r, "mapPrathaUsersToTenant", "jobRoles") /\ OnlyRun /\ scenario' = scenario
  BY DEF JobRoles, OnlyRun, history
<1> PICK f \in RunRow : f = run[r] BY DEF Types
<1>2. f.at = "jobRoles" /\ f.op.name = "mapPrathaUsersToTenant" /\ f # Idle BY <1>1 DEF At, Idle
<1>3. Shape(f) /\ Empty(f) /\ f.op.name \notin Assigns /\ f.role = None /\ f.user \in Users
  BY <1>2, PlainIs
<1> PICK p : p = IF RolesIn(f.user, Home) = {} THEN Learner ELSE None OBVIOUS
<1>4. p \in Roles \cup {None} /\ p \in {None, Learner} BY MappingsAssumption
<1> DEFINE g == [f EXCEPT !.at = "jobMapping", !.role = p]
<1>5. /\ g \in RunRow /\ g.op = f.op /\ g.user = f.user /\ g.todo = f.todo /\ g.at = "jobMapping"
      /\ g.role = p /\ g.roles = f.roles /\ Empty(g)
  <2>1. "jobMapping" \in Ats BY DEF Ats
  <2>2. g \in RunRow
    <3>1. PICK h : h = [f EXCEPT !.at = "jobMapping"] OBVIOUS
    <3>2. h \in RunRow BY <2>1, <3>1 DEF RunRow
    <3>3. g = [h EXCEPT !.role = p] BY <3>1
    <3> HIDE DEF g
    <3> QED BY SMTT(60), <1>4, <3>2, <3>3 DEF RunRow
  <2>3. g.op = f.op /\ g.user = f.user /\ g.todo = f.todo /\ g.at = "jobMapping"
    BY DEF RunRow
  <2>4. g.role = p /\ g.roles = f.roles /\ Empty(g) BY <1>3 DEF RunRow, Empty
  <2> QED BY <2>2, <2>3, <2>4
<1>6. Set(r, g) BY DEF JobRoles
<1> HIDE DEF g
<1>7. Only(r) /\ run'[r] = g BY <1>1, <1>5, <1>6, SetStep
<1>8. Place(g) /\ f.user # None BY <1>2, <1>3, <1>5, MappingsAssumption DEF Place
<1>9. Shape(g)
  BY <1>2, <1>3, <1>4, <1>5, <1>8, ShapePlain DEF Loops
<1> QED BY <1>1, <1>2, <1>3, <1>5, <1>7, <1>9

LEMMA JobMappingStep ==
    ASSUME Types, Shapes, NEW r \in Requests, JobMapping(r)
    PROVE  LET f == run[r]
               g == run'[r]
           IN
           /\ Only(r) /\ Shape(g) /\ f.at = "jobMapping" /\ f.user \in Users /\ Empty(f)
           /\ f.op.name = "mapPrathaUsersToTenant" /\ g.op = f.op
           /\ g.user = f.user /\ g.role = f.role /\ f.role \in {None, Learner}
           /\ g.at = IF f.role = None THEN "event" ELSE "jobRole"
<1>1. /\ At(r, "mapPrathaUsersToTenant", "jobMapping") /\ scenario' = scenario
      /\ Set(r, [run[r] EXCEPT !.wrote = TRUE,
                             !.at = IF run[r].role = None THEN "event" ELSE "jobRole"])
  BY DEF JobMapping
<1> PICK f \in RunRow : f = run[r] BY DEF Types
<1>2. f.at = "jobMapping" /\ f.op.name = "mapPrathaUsersToTenant" /\ f # Idle BY <1>1 DEF At, Idle
<1>3. Shape(f) /\ Empty(f) /\ f.op.name \notin Assigns /\ f.user \in Users
  BY <1>2, PlainIs
<1> PICK there : there = IF f.role = None THEN "event" ELSE "jobRole" OBVIOUS
<1>10. there \in Ats BY DEF Ats
<1> DEFINE g == [f EXCEPT !.wrote = TRUE, !.at = there]
<1>4. /\ g \in RunRow /\ g.op = f.op /\ g.user = f.user /\ g.todo = f.todo /\ g.at = there
      /\ g.role = f.role /\ g.roles = f.roles /\ Empty(g) /\ g.wrote
  BY <1>3, <1>10 DEF RunRow, Empty
<1>5. Set(r, g) BY <1>1
<1> HIDE DEF g
<1>6. Only(r) /\ run'[r] = g BY <1>1, <1>4, <1>5, SetStep
<1>7. Place(g) /\ f.user # None BY <1>2, <1>3, <1>4, MappingsAssumption DEF Place
<1>8. f.role \in {None, Learner} BY <1>2, <1>3 DEF Shape
<1>9. Shape(g)
  BY <1>2, <1>3, <1>4, <1>7, <1>8, ShapePlain DEF Loops
<1> QED BY <1>2, <1>3, <1>4, <1>6, <1>8, <1>9

LEMMA JobRoleStep ==
    ASSUME Types, Shapes, NEW r \in Requests, JobRole(r)
    PROVE  LET f == run[r]
               g == run'[r]
           IN
           /\ Only(r) /\ Shape(g) /\ f.at = "jobRole" /\ f.user \in Users /\ Empty(f)
           /\ f.op.name = "mapPrathaUsersToTenant" /\ g.op = f.op
           /\ g.user = f.user /\ f.role = Learner /\ g.at = "event"
<1>1. /\ At(r, "mapPrathaUsersToTenant", "jobRole") /\ scenario' = scenario
      /\ Set(r, [run[r] EXCEPT !.at = "event"])
  BY DEF JobRole
<1> PICK f \in RunRow : f = run[r] BY DEF Types
<1>2. f.at = "jobRole" /\ f.op.name = "mapPrathaUsersToTenant" /\ f # Idle BY <1>1 DEF At, Idle
<1>3. Shape(f) /\ Empty(f) /\ f.op.name \notin Assigns /\ f.user \in Users /\ f.wrote
  BY <1>2, PlainIs
<1> DEFINE g == [f EXCEPT !.at = "event"]
<1>4. /\ g \in RunRow /\ g.op = f.op /\ g.user = f.user /\ g.todo = f.todo /\ g.at = "event"
      /\ g.role = f.role /\ g.roles = f.roles /\ Empty(g) /\ g.wrote
  BY <1>3 DEF RunRow, Empty, Ats
<1>5. Set(r, g) BY <1>1
<1> HIDE DEF g
<1>6. Only(r) /\ run'[r] = g BY <1>1, <1>4, <1>5, SetStep
<1>7. Place(g) /\ f.user # None BY <1>2, <1>3, <1>4, MappingsAssumption DEF Place
<1>8. f.role = Learner BY <1>2, <1>3 DEF Shape
<1>9. Shape(g)
  BY <1>2, <1>3, <1>4, <1>7, <1>8, ShapePlain DEF Loops
<1> QED BY <1>2, <1>3, <1>4, <1>6, <1>8, <1>9

\* Deletions that end a request.
LEMMA DeletesStep ==
    ASSUME Types, Shapes, NEW r \in Requests,
           DeleteAssigned(r) \/ DeleteRoleRows(r) \/ DeleteUser(r)
    PROVE  /\ Released(r)
           /\ DeleteAssigned(r) => run[r].at = "deleteRoles" /\ run[r].user \in Users
           /\ DeleteUser(r) => run[r].at = "deleteUser" /\ run[r].user \in Users
<1>1. End(r) /\ scenario' = scenario
  BY DEF DeleteAssigned, DeleteRoleRows, DeleteUser
<1>2. Released(r) BY <1>1, EndReleases
<1>3. ASSUME DeleteAssigned(r) PROVE run[r].at = "deleteRoles" /\ run[r].user \in Users
  BY <1>3, PlaceIs DEF DeleteAssigned, At
<1>4. ASSUME DeleteUser(r) PROVE run[r].at = "deleteUser" /\ run[r].user \in Users
  BY <1>4, PlaceIs DEF DeleteUser, At
<1> QED BY <1>2, <1>3, <1>4

\* A failure after a write is remembered with the user it is about.
FailsWith(r) ==
    /\ Fails(r) /\ Released(r) /\ run[r].user \in Users \cup {None}
    /\ run[r].wrote => run[r].user = None \/ run[r].user \in failed'

LEMMA FailureStep ==
    ASSUME Types, Shapes, NEW r \in Requests, NothingFound(r) \/ JobFails(r)
    PROVE  FailsWith(r) /\ halfway' = halfway /\ run[r].user \in Users
           /\ run[r].at \in {"role", "mapping", "jobRoles", "jobMapping", "jobRole"}
<1>0. run[r].user \in Users
      /\ run[r].at \in {"role", "mapping", "jobRoles", "jobMapping", "jobRole"}
  BY NothingFoundStep, PlaceIs DEF JobFails
<1>1. /\ FailHalfWay(r) /\ scenario' = scenario
      /\ UNCHANGED <<tables, told, granted, raced, doubled, halfway, scenario>>
  BY DEF NothingFound, JobFails
<1>2. Fails(r) /\ (run[r].wrote => run[r].user \in failed')
  BY <1>0, <1>1 DEF Fails, FailHalfWay, Types
<1>3. Released(r)
  <2>1. CASE NothingFound(r) BY <1>1, <2>1, EndReleases DEF NothingFound
  <2>2. CASE JobFails(r)
    <3>1. run[r] # Idle BY <1>0 DEF Idle
    <3> QED BY <1>1, <2>2, <3>1, NextUserStep DEF JobFails
  <2> QED BY <2>1, <2>2
<1> QED BY <1>0, <1>1, <1>2, <1>3 DEF FailsWith

LEMMA AbortStep ==
    ASSUME Types, Shapes, NEW r \in Requests, Abort(r)
    PROVE  /\ Fails(r) /\ Released(r) /\ run[r] # Idle
           /\ run[r].wrote => run[r].user \in Users /\ run[r].user \in failed'
           /\ At(r, "deleteRole", "rows") => run[r].op.roles \subseteq halfway'
<1>1. /\ run[r].at # "idle" /\ End(r) /\ FailHalfWay(r)
      /\ halfway' = IF At(r, "deleteRole", "rows") THEN halfway \cup run[r].op.roles ELSE halfway
      /\ UNCHANGED <<tables, told, granted, raced, doubled, scenario>>
  BY DEF Abort
<1> PICK f \in RunRow : f = run[r] BY DEF Types
<1>2. Shape(f) /\ f # Idle BY <1>1 DEF Shapes, Idle
<1>3. f.wrote => f.user \in Users
  BY <1>2 DEF Shape, RunRow
<1>4. f.wrote => failed' = failed \cup {f.user} BY <1>1 DEF FailHalfWay
<1>5. ~f.wrote => failed' = failed BY <1>1 DEF FailHalfWay
<1>6. Fails(r) BY <1>1, <1>3, <1>4, <1>5 DEF Fails, Types
<1>7. Released(r) BY <1>1, EndReleases
<1>8. At(r, "deleteRole", "rows") => f.op.roles \subseteq halfway' BY <1>1
<1> QED BY <1>2, <1>3, <1>4, <1>6, <1>7, <1>8

-----------------------------------------------------------------------------
(* The steps, by what they do: read, fail or write. *)

Reading(r) ==
    \/ \E o \in scenario.ops : Start(r, o)
    \/ ValidateNew(r) \/ Validate(r) \/ HasRole(r) \/ FindAssigned(r) \/ FindRoleToDelete(r)
    \/ FindUser(r) \/ RolesDone(r) \/ LoopDone(r)
    \/ FindRole(r) \/ FindMapping(r) \/ FindPair(r) \/ FindStatus(r) \/ ReadForEvent(r)
    \/ CheckRole(r) \/ BulkFind(r) \/ JobUser(r) \/ JobRoles(r)

Failing(r) == NothingFound(r) \/ JobFails(r) \/ ReadFails(r) \/ SendFails(r) \/ Abort(r)

Putting(r) == SaveRole(r) \/ InsertRole(r) \/ JobRole(r)
Mapping(r) == SaveMapping(r) \/ SaveStatus(r) \/ JobMapping(r)
Deleting(r) == DeleteAssigned(r) \/ DeleteRoleRows(r) \/ DeleteUser(r)
               \/ DeleteMappings(r) \/ DeleteRows(r)
Writing(r) == Putting(r) \/ Mapping(r) \/ Deleting(r)
              \/ CreateUser(r) \/ Send(r) \/ BulkUpdate(r) \/ DeleteRole(r)

LEMMA NextIsStep ==
    Next => \E r \in Requests : Reading(r) \/ Failing(r) \/ Writing(r)
<1> SUFFICES ASSUME Next PROVE \E r \in Requests : Reading(r) \/ Failing(r) \/ Writing(r)
  OBVIOUS
<1>1. PICK r \in Requests :
        \/ \E o \in scenario.ops : Start(r, o)
        \/ ValidateNew(r) \/ CreateUser(r) \/ Validate(r) \/ HasRole(r) \/ NothingFound(r)
        \/ FindRole(r) \/ SaveRole(r) \/ FindMapping(r) \/ FindPair(r) \/ SaveMapping(r)
        \/ FindStatus(r) \/ SaveStatus(r) \/ ReadForEvent(r) \/ ReadFails(r)
        \/ Send(r) \/ SendFails(r)
        \/ CheckRole(r) \/ InsertRole(r) \/ RolesDone(r) \/ FindAssigned(r) \/ DeleteAssigned(r)
        \/ BulkFind(r) \/ BulkUpdate(r) \/ LoopDone(r)
        \/ FindRoleToDelete(r) \/ DeleteRole(r) \/ DeleteRoleRows(r)
        \/ FindUser(r) \/ DeleteMappings(r) \/ DeleteRows(r) \/ DeleteUser(r)
        \/ JobUser(r) \/ JobRoles(r) \/ JobMapping(r) \/ JobRole(r) \/ JobFails(r) \/ Abort(r)
  BY DEF Next
<1>2. Reading(r) \/ Failing(r) \/ Writing(r)
  BY <1>1, Zenon DEF Reading, Failing, Writing, Putting, Mapping, Deleting
<1> QED BY <1>2

LEMMA ReadingStep ==
    ASSUME Types, Shapes, NEW r \in Requests, Reading(r)
    PROVE  OnlyRun /\ Only(r) /\ Shape(run'[r])
<1>0. ASSUME Ends(r) PROVE Only(r) BY <1>0 DEF Ends
<1>1. CASE \E o \in scenario.ops : Start(r, o) BY <1>1, StartStep DEF Start
<1>2. CASE \/ ValidateNew(r) \/ Validate(r) \/ HasRole(r) \/ FindAssigned(r)
           \/ FindRoleToDelete(r) \/ FindUser(r)
  BY <1>2, GoSteps DEF Ends, Goes, Asks, Enters
<1>3. CASE RolesDone(r) \/ LoopDone(r) BY <1>3, DoneSteps DEF Ends
<1>4. CASE FindRole(r) BY <1>4, FindRoleStep
<1>5. CASE FindMapping(r) BY <1>5, FindMappingStep
<1>6. CASE FindPair(r) BY <1>6, FindPairStep
<1>7. CASE FindStatus(r) BY <1>7, FindStatusStep DEF Ends
<1>8. CASE ReadForEvent(r) BY <1>8, ReadForEventStep DEF Released
<1>9. CASE CheckRole(r) BY <1>9, CheckRoleStep
<1>10. CASE BulkFind(r) BY <1>10, BulkFindStep
<1>11. CASE JobUser(r) BY <1>11, JobUserStep
<1>12. CASE JobRoles(r) BY <1>12, JobRolesStep
<1> QED
  BY <1>1, <1>2, <1>3, <1>4, <1>5, <1>6, <1>7, <1>8, <1>9, <1>10, <1>11, <1>12 DEF Reading

LEMMA FailingStep ==
    ASSUME Types, Shapes, NEW r \in Requests, Failing(r)
    PROVE  Fails(r) /\ Only(r) /\ Shape(run'[r]) /\ halfway' \subseteq Roles
<1>1. CASE NothingFound(r) \/ JobFails(r) BY <1>1, FailureStep DEF FailsWith, Released, Types
<1>2. CASE ReadFails(r) BY <1>2, ReadFailsStep DEF Released, Types
<1>3. CASE SendFails(r) BY <1>3, SendStep DEF Released, Types
<1>4. CASE Abort(r)
  <2>1. Fails(r) /\ Only(r) /\ Shape(run'[r]) BY <1>4, AbortStep DEF Released
  <2>2. At(r, "deleteRole", "rows") => run[r].op.roles \subseteq Roles
    <3> HAVE At(r, "deleteRole", "rows")
    <3>1. Shape(run[r]) /\ run[r] # Idle BY DEF Shapes, At, Idle
    <3> QED BY <3>1 DEF Shape, Op
  <2>3. halfway' \subseteq Roles BY <1>4, <2>2 DEF Abort, Types
  <2> QED BY <2>1, <2>3
<1> QED BY <1>1, <1>2, <1>3, <1>4 DEF Failing

LEMMA WritingStep ==
    ASSUME Types, Shapes, NEW r \in Requests, Writing(r)
    PROVE  Only(r) /\ Shape(run'[r])
<1>1. CASE SaveRole(r) BY <1>1, SaveRoleStep DEF Wrote
<1>2. CASE InsertRole(r) BY <1>2, InsertRoleStep
<1>3. CASE JobRole(r) BY <1>3, JobRoleStep
<1>4. CASE SaveMapping(r) BY <1>4, SaveMappingStep
<1>5. CASE SaveStatus(r) BY <1>5, SaveStatusStep DEF Wrote
<1>6. CASE JobMapping(r) BY <1>6, JobMappingStep
<1>7. CASE DeleteAssigned(r) \/ DeleteRoleRows(r) \/ DeleteUser(r)
  BY <1>7, DeletesStep DEF Released
<1>8. CASE DeleteMappings(r) BY <1>8, DeleteMappingsStep DEF Wrote
<1>9. CASE DeleteRows(r) BY <1>9, DeleteRowsStep DEF Goes
<1>10. CASE CreateUser(r) BY <1>10, CreateUserStep DEF Wrote
<1>11. CASE Send(r) BY <1>11, SendStep DEF Released
<1>12. CASE BulkUpdate(r) BY <1>12, BulkUpdateStep DEF Released
<1>13. CASE DeleteRole(r) BY <1>13, DeleteRoleStep DEF Goes
<1> QED
  BY <1>1, <1>2, <1>3, <1>4, <1>5, <1>6, <1>7, <1>8, <1>9, <1>10, <1>11, <1>12, <1>13
     DEF Writing, Putting, Mapping, Deleting

LEMMA ShapesStay ==
    ASSUME Types, Shapes, NEW r \in Requests, Only(r), Shape(run'[r])
    PROVE  Shapes'
BY DEF Shapes, Only

-----------------------------------------------------------------------------
(* The tables. *)

LEMMA SlotIs ==
    ASSUME Types, NEW r \in Requests, NEW table, NEW m \in Slots(r, table)
    PROVE  /\ m \in RowIds
           /\ \/ m = run[r].row
              \/ table[m] = None /\ run[r].row = None /\ \A q \in Requests : run[q].row # m
BY DEF Slots, Types, RunRow

\* One role row of its user is written: at a free id, or where it was read.
Puts(r, m, e) ==
    /\ m \in RowIds /\ e \in RoleRow /\ e.user = run[r].user /\ run[r].user \in Users
    /\ roleRows' = [roleRows EXCEPT ![m] = e]
    /\ \/ run[r].at = "saveRole" /\ m = run[r].row
       \/ roleRows[m] = None /\ run[r].row = None /\ \A q \in Requests : run[q].row # m
    /\ Writes(r, run[r].user)
    /\ UNCHANGED <<users, roles, tenantRows, told, failed, halfway, scenario>>

LEMMA SaveRoleIs ==
    ASSUME Types, Shapes, NEW r \in Requests, SaveRole(r)
    PROVE  LET e == run[r].entity
               was == run[r].was
               gone == IF was = None THEN {} ELSE {<<was.user, was.tenant, was.role>>}
           IN
           /\ \E m \in RowIds : Puts(r, m, e)
           /\ UNCHANGED doubled
           /\ granted' = (granted \ gone) \cup {<<e.user, e.tenant, e.role>>}
<1>1. Assigning(r, "saveRole") BY SaveRoleStep
<1>2. run[r].at = "saveRole" /\ run[r].user \in Users /\ Shape(run[r]) /\ run[r] # Idle
  BY <1>1, AssigningIs DEF Assignings
<1>3. run[r].entity \in RoleRow /\ run[r].entity.user = run[r].user
  BY <1>2 DEF Shape
<1> PICK e : e = run[r].entity OBVIOUS
<1>4. PICK m \in Slots(r, roleRows) : roleRows' = [roleRows EXCEPT ![m] = e]
  BY DEF SaveRole
<1>6. Writes(r, e.user) /\ UNCHANGED <<users, roles, tenantRows, told, failed, halfway, scenario>>
  BY DEF SaveRole
<1>7. Writes(r, run[r].user) BY <1>3, <1>6
<1>8. /\ m \in RowIds
      /\ \/ m = run[r].row
         \/ roleRows[m] = None /\ run[r].row = None /\ \A q \in Requests : run[q].row # m
  BY <1>4, SlotIs
<1>5. Puts(r, m, e)
  BY <1>2, <1>3, <1>4, <1>6, <1>7, <1>8 DEF Puts
<1> QED BY <1>4, <1>5, SlotIs DEF SaveRole

LEMMA InsertRoleIs ==
    ASSUME Types, Shapes, NEW r \in Requests, InsertRole(r)
    PROVE  /\ \E m \in RowIds : Puts(r, m,
                [user |-> run[r].user, tenant |-> run[r].op.tenant, role |-> run[r].role,
                 hand |-> TRUE, checked |-> {"role", "pair"}])
           /\ UNCHANGED <<granted, doubled>>
<1>1. run[r].user \in Users /\ Empty(run[r]) /\ run[r].role \in Roles /\ run[r].op.tenant \in Tenants
  BY InsertRoleStep
<1> PICK e : e = [user |-> run[r].user, tenant |-> run[r].op.tenant, role |-> run[r].role,
                  hand |-> TRUE, checked |-> {"role", "pair"}]
  OBVIOUS
<1>2. e \in RoleRow /\ e.user = run[r].user BY <1>1 DEF RoleRow
<1>3. PICK m \in Slots(r, roleRows) : roleRows' = [roleRows EXCEPT ![m] = e]
  BY DEF InsertRole
<1>4. m \in RowIds /\ roleRows[m] = None /\ run[r].row = None /\ \A q \in Requests : run[q].row # m
  BY <1>1, <1>3, SlotIs, MappingsAssumption DEF Empty
<1>5. Puts(r, m, e) BY <1>1, <1>2, <1>3, <1>4 DEF Puts, InsertRole
<1> QED BY <1>4, <1>5 DEF InsertRole

LEMMA JobRoleIs ==
    ASSUME Types, Shapes, NEW r \in Requests, JobRole(r)
    PROVE  /\ \E m \in RowIds : Puts(r, m,
                [user |-> run[r].user, tenant |-> Home, role |-> Learner,
                 hand |-> FALSE, checked |-> {"user", "pair"}])
           /\ UNCHANGED <<granted, doubled>>
<1>1. run[r].user \in Users /\ Empty(run[r]) BY JobRoleStep
<1> PICK e : e = [user |-> run[r].user, tenant |-> Home, role |-> Learner,
                  hand |-> FALSE, checked |-> {"user", "pair"}]
  OBVIOUS
<1>2. e \in RoleRow /\ e.user = run[r].user BY <1>1, MappingsAssumption DEF RoleRow
<1>3. PICK m \in Slots(r, roleRows) : roleRows' = [roleRows EXCEPT ![m] = e]
  BY DEF JobRole
<1>4. m \in RowIds /\ roleRows[m] = None /\ run[r].row = None /\ \A q \in Requests : run[q].row # m
  BY <1>1, <1>3, SlotIs, MappingsAssumption DEF Empty
<1>5. Puts(r, m, e) BY <1>1, <1>2, <1>3, <1>4 DEF Puts, JobRole
<1> QED BY <1>4, <1>5 DEF JobRole

\* The same for a mapping.
Maps(r, m, e) ==
    /\ m \in RowIds /\ e \in TenantRow /\ e.user = run[r].user /\ run[r].user \in Users
    /\ e.user \in users
    /\ tenantRows' = [tenantRows EXCEPT ![m] = e]
    /\ \/ run[r].at \in {"saveMapping", "saveStatus"} /\ m = run[r].row
       \/ tenantRows[m] = None /\ run[r].row = None /\ \A q \in Requests : run[q].row # m
    /\ Writes(r, run[r].user)
    /\ UNCHANGED <<users, roles, roleRows, told, failed, halfway, scenario>>

LEMMA SaveMappingIs ==
    ASSUME Types, Shapes, NEW r \in Requests, SaveMapping(r)
    PROVE  LET e == run[r].entity
               was == run[r].was
           IN
           /\ \E m \in RowIds :
                /\ Maps(r, m, e)
                /\ doubled' = IF /\ was # None \/ run[r].op.name \in Creators
                                 /\ MappingsTo(e.user, e.tenant) \ {m} # {}
                              THEN doubled \cup {e.user} ELSE doubled
           /\ granted' = {g \in granted : was = None \/ was.tenant = e.tenant
                                         \/ g[1] # e.user \/ g[2] # was.tenant}
<1>1. Assigning(r, "saveMapping") BY SaveMappingStep
<1>2. run[r].at = "saveMapping" /\ run[r].user \in Users /\ Shape(run[r]) /\ run[r] # Idle
  BY <1>1, AssigningIs DEF Assignings
<1>3. run[r].entity \in TenantRow /\ run[r].entity.user = run[r].user
  BY <1>2 DEF Shape
<1> PICK e : e = run[r].entity OBVIOUS
<1> PICK was : was = run[r].was OBVIOUS
<1>4. PICK m \in Slots(r, tenantRows) :
        /\ tenantRows' = [tenantRows EXCEPT ![m] = e]
        /\ doubled' = IF /\ was # None \/ run[r].op.name \in Creators
                         /\ MappingsTo(e.user, e.tenant) \ {m} # {}
                      THEN doubled \cup {e.user} ELSE doubled
  BY DEF SaveMapping
<1>6. Writes(r, e.user) /\ e.user \in users
      /\ UNCHANGED <<users, roles, roleRows, told, failed, halfway, scenario>>
  BY DEF SaveMapping
<1>7. Writes(r, run[r].user) BY <1>3, <1>6
<1>8. /\ m \in RowIds
      /\ \/ m = run[r].row
         \/ tenantRows[m] = None /\ run[r].row = None /\ \A q \in Requests : run[q].row # m
  BY <1>4, SlotIs
<1>5. Maps(r, m, e)
  BY <1>2, <1>3, <1>4, <1>6, <1>7, <1>8 DEF Maps
<1> QED BY <1>4, <1>5, SlotIs DEF SaveMapping

LEMMA SaveStatusIs ==
    ASSUME Types, Shapes, NEW r \in Requests, SaveStatus(r)
    PROVE  Maps(r, run[r].row, run[r].entity) /\ UNCHANGED <<granted, doubled>>
BY SaveStatusStep DEF Maps, SaveStatus

LEMMA JobMappingIs ==
    ASSUME Types, Shapes, NEW r \in Requests, JobMapping(r)
    PROVE  /\ \E m \in RowIds : Maps(r, m,
                [user |-> run[r].user, tenant |-> Home, status |-> "active", quiet |-> FALSE, looked |-> TRUE])
           /\ granted' = IF run[r].role = None THEN granted
                         ELSE granted \cup {<<run[r].user, Home, Learner>>}
           /\ UNCHANGED doubled
<1>1. run[r].user \in Users /\ Empty(run[r]) BY JobMappingStep
<1> PICK e : e = [user |-> run[r].user, tenant |-> Home, status |-> "active", quiet |-> FALSE, looked |-> TRUE]
  OBVIOUS
<1>2. e \in TenantRow /\ e.user = run[r].user BY <1>1, MappingsAssumption DEF TenantRow, Statuses
<1>3. PICK m \in Slots(r, tenantRows) : tenantRows' = [tenantRows EXCEPT ![m] = e]
  BY DEF JobMapping
<1>4. m \in RowIds /\ tenantRows[m] = None /\ run[r].row = None /\ \A q \in Requests : run[q].row # m
  BY <1>1, <1>3, SlotIs, MappingsAssumption DEF Empty
<1>5. Maps(r, m, e) BY <1>1, <1>2, <1>3, <1>4 DEF Maps, JobMapping
<1> QED BY <1>4, <1>5 DEF JobMapping

-----------------------------------------------------------------------------
LEMMA RacedType ==
    ASSUME Types, NEW r \in Requests, NEW u \in Users, Writes(r, u)
    PROVE  raced' \subseteq Users /\ raced \subseteq raced'
BY DEF Writes, Types

LEMMA PutsType ==
    ASSUME Types, NEW r \in Requests, NEW m, NEW e, Puts(r, m, e)
    PROVE  /\ roleRows' \in [RowIds -> RoleRow \cup {None}] /\ raced' \subseteq Users
           /\ UNCHANGED <<users, roles, tenantRows, told, failed, halfway, scenario>>
BY RacedType DEF Puts, Types

LEMMA MapsType ==
    ASSUME Types, NEW r \in Requests, NEW m, NEW e, Maps(r, m, e)
    PROVE  /\ tenantRows' \in [RowIds -> TenantRow \cup {None}] /\ raced' \subseteq Users
           /\ UNCHANGED <<users, roles, roleRows, told, failed, halfway, scenario>>
BY RacedType DEF Maps, Types

LEMMA PutsTypes ==
    ASSUME Types, Shapes, NEW r \in Requests, Putting(r), Only(r)
    PROVE  Types'
<1>1. CASE SaveRole(r)
  <2> PICK e : e = run[r].entity OBVIOUS
  <2>1. PICK m : Puts(r, m, e) BY <1>1, SaveRoleIs
  <2>2. e \in RoleRow /\ e.user \in Users BY <2>1 DEF Puts
  <2>3. <<e.user, e.tenant, e.role>> \in Users \X Tenants \X Roles
    BY <2>2 DEF RoleRow
  <2>4. granted' \subseteq Users \X Tenants \X Roles
    BY <1>1, <2>3, SaveRoleIs DEF Types
  <2>5. doubled' \subseteq Users BY <1>1, <2>2, SaveRoleIs DEF Types
  <2> QED BY <2>1, <2>4, <2>5, PutsType DEF Types, Only
<1>2. CASE InsertRole(r)
  <2>1. UNCHANGED <<granted, doubled>> BY <1>2, InsertRoleIs
  <2> PICK e : e = [user |-> run[r].user, tenant |-> run[r].op.tenant, role |-> run[r].role,
                 hand |-> TRUE, checked |-> {"role", "pair"}] OBVIOUS
  <2>2. PICK m : Puts(r, m, e) BY <1>2, InsertRoleIs
  <2> QED BY <2>1, <2>2, PutsType DEF Types, Only
<1>3. CASE JobRole(r)
  <2>1. UNCHANGED <<granted, doubled>> BY <1>3, JobRoleIs
  <2> PICK e : e = [user |-> run[r].user, tenant |-> Home, role |-> Learner,
                 hand |-> FALSE, checked |-> {"user", "pair"}] OBVIOUS
  <2>2. PICK m : Puts(r, m, e) BY <1>3, JobRoleIs
  <2> QED BY <2>1, <2>2, PutsType DEF Types, Only
<1> QED BY <1>1, <1>2, <1>3 DEF Putting

LEMMA MapsTypes ==
    ASSUME Types, Shapes, NEW r \in Requests, Mapping(r), Only(r)
    PROVE  Types'
<1>1. CASE SaveMapping(r)
  <2> PICK e : e = run[r].entity OBVIOUS
  <2>1. PICK m : Maps(r, m, e) BY <1>1, SaveMappingIs
  <2>2. e.user \in Users BY <2>1 DEF Maps
  <2>3. granted' \subseteq granted BY <1>1, SaveMappingIs
  <2>4. doubled' \subseteq Users BY <1>1, <2>2, SaveMappingIs DEF Types
  <2> QED BY <2>1, <2>3, <2>4, MapsType DEF Types, Only
<1>2. CASE SaveStatus(r)
  <2> QED BY <1>2, SaveStatusIs, MapsType DEF Types, Only
<1>3. CASE JobMapping(r)
  <2> PICK e : e = [user |-> run[r].user, tenant |-> Home, status |-> "active", quiet |-> FALSE, looked |-> TRUE]
    OBVIOUS
  <2>1. PICK m : Maps(r, m, e) BY <1>3, JobMappingIs
  <2>2. <<run[r].user, Home, Learner>> \in Users \X Tenants \X Roles
    BY <2>1, MappingsAssumption DEF Maps
  <2>3. granted' \subseteq Users \X Tenants \X Roles /\ UNCHANGED doubled
    BY <1>3, <2>2, JobMappingIs DEF Types
  <2> QED BY <2>1, <2>3, MapsType DEF Types, Only
<1> QED BY <1>1, <1>2, <1>3 DEF Mapping

LEMMA DeletesTypes ==
    ASSUME Types, Shapes, NEW r \in Requests, Deleting(r), Only(r)
    PROVE  Types' /\ raced \subseteq raced'
<1>1. CASE DeleteAssigned(r)
  <2>1. run[r].user \in Users BY <1>1, DeletesStep
  <2>2. raced' \subseteq Users /\ raced \subseteq raced'
    BY <1>1, <2>1, RacedType DEF DeleteAssigned
  <2>3. roleRows' \in [RowIds -> RoleRow \cup {None}] /\ granted' \subseteq granted
        /\ UNCHANGED <<users, roles, tenantRows, told, failed, doubled, halfway, scenario>>
    BY <1>1 DEF DeleteAssigned, Types
  <2> QED BY <2>2, <2>3 DEF Types, Only
<1>2. CASE DeleteRoleRows(r)
  <2>1. \A m \in Present(roleRows) : roleRows[m].user \in Users
    BY DEF Present, Types, RoleRow
  <2>2. raced' \subseteq Users /\ raced \subseteq raced'
    BY <1>2, <2>1 DEF DeleteRoleRows, Types
  <2>3. roleRows' \in [RowIds -> RoleRow \cup {None}] /\ granted' \subseteq granted
        /\ UNCHANGED <<users, roles, tenantRows, told, failed, doubled, halfway, scenario>>
    BY <1>2 DEF DeleteRoleRows, Types
  <2> QED BY <2>2, <2>3 DEF Types, Only
<1>3. CASE DeleteUser(r)
  <2>1. run[r].user \in Users BY <1>3, DeletesStep
  <2> QED BY <1>3, <2>1 DEF DeleteUser, Types, Only
<1>4. CASE DeleteMappings(r)
  <2>1. run[r].user \in Users BY <1>4, DeleteMappingsStep
  <2>2. raced' \subseteq Users /\ raced \subseteq raced'
    BY <1>4, <2>1, RacedType DEF DeleteMappings
  <2>3. tenantRows' \in [RowIds -> TenantRow \cup {None}] /\ granted' \subseteq granted
        /\ UNCHANGED <<users, roles, roleRows, told, failed, doubled, halfway, scenario>>
    BY <1>4 DEF DeleteMappings, Types
  <2> QED BY <2>2, <2>3 DEF Types, Only
<1>5. CASE DeleteRows(r)
  <2>1. run[r].user \in Users BY <1>5, DeleteRowsStep
  <2>2. raced' \subseteq Users /\ raced \subseteq raced'
    BY <1>5, <2>1, RacedType DEF DeleteRows
  <2>3. roleRows' \in [RowIds -> RoleRow \cup {None}]
        /\ UNCHANGED <<users, roles, tenantRows, told, granted, failed, doubled, halfway, scenario>>
    BY <1>5 DEF DeleteRows, Types
  <2> QED BY <2>2, <2>3 DEF Types, Only
<1> QED BY <1>1, <1>2, <1>3, <1>4, <1>5 DEF Deleting

\* A bulk update changes the roles of a user in a tenant, and who was checked for them.
LEMMA BulkUpdateIs ==
    ASSUME Types, Shapes, NEW r \in Requests, BulkUpdate(r)
    PROVE  LET u == run[r].user
               t == run[r].op.tenant
           IN
           /\ roleRows' \in [RowIds -> RoleRow \cup {None}]
           /\ \A m \in RowIds : m \notin RolesIn(u, t) => roleRows'[m] = roleRows[m]
           /\ \A m \in RolesIn(u, t) :
                /\ roleRows'[m] \in RoleRow /\ roleRows'[m] # None
                /\ roleRows'[m].user = u /\ roleRows'[m].tenant = t
                /\ roleRows'[m].hand = roleRows[m].hand
                /\ roleRows'[m].checked \subseteq roleRows[m].checked
                /\ roleRows'[m].checked \cap {"role", "pair"} = {}
<1> PICK u : u = run[r].user OBVIOUS
<1> PICK t : t = run[r].op.tenant OBVIOUS
<1>1. PICK p \in Roles :
        roleRows' = [m \in RowIds |-> IF m \notin RolesIn(u, t) THEN roleRows[m]
                    ELSE [roleRows[m] EXCEPT !.role = p, !.checked = @ \ {"role", "pair"}]]
  <2> DEFINE p == CHOOSE q \in run[r].op.roles : TRUE
  <2>1. p \in Roles BY BulkUpdateStep
  <2>2. roleRows' = [m \in RowIds |-> IF m \notin RolesIn(run[r].user, run[r].op.tenant)
                    THEN roleRows[m] ELSE [roleRows[m] EXCEPT !.role = p, !.checked = @ \ {"role", "pair"}]]
    BY DEF BulkUpdate
  <2> HIDE DEF p
  <2> QED BY <2>1, <2>2
<1>2. ASSUME NEW m \in RowIds, m \notin RolesIn(u, t)
      PROVE  roleRows'[m] = roleRows[m] /\ roleRows'[m] \in RoleRow \cup {None}
  BY <1>1, <1>2 DEF Types
<1>3. ASSUME NEW m \in RolesIn(u, t)
      PROVE  /\ m \in RowIds /\ roleRows'[m] \in RoleRow /\ roleRows'[m] # None
             /\ roleRows'[m].user = u /\ roleRows'[m].tenant = t
             /\ roleRows'[m].hand = roleRows[m].hand
             /\ roleRows'[m].checked \subseteq roleRows[m].checked
             /\ roleRows'[m].checked \cap {"role", "pair"} = {}
  <2>1. m \in RowIds /\ roleRows[m] \in RoleRow /\ roleRows[m].user = u /\ roleRows[m].tenant = t
    BY DEF RolesIn, RolesOf, Present, Types
  <2> PICK w \in RoleRow : w = roleRows[m] BY <2>1
  <2> PICK g : g = [w EXCEPT !.role = p, !.checked = @ \ {"role", "pair"}] OBVIOUS
  <2>2. roleRows'[m] = g BY <1>1, <2>1
  <2>3. w.checked \ {"role", "pair"} \in SUBSET {"user", "role", "pair"} BY DEF RoleRow
  <2>4. g \in RoleRow /\ g.user = w.user /\ g.tenant = w.tenant /\ g.hand = w.hand
        /\ g.checked = w.checked \ {"role", "pair"}
    BY <2>3 DEF RoleRow
  <2>5. g # None BY <2>4, MappingsAssumption
  <2> QED BY <2>1, <2>2, <2>4, <2>5
<1>4. roleRows' \in [RowIds -> RoleRow \cup {None}]
  <2>1. \A m \in RowIds : roleRows'[m] \in RoleRow \cup {None} BY <1>2, <1>3
  <2> QED BY <1>1, <2>1
<1> QED BY <1>2, <1>3, <1>4

LEMMA OthersTypes ==
    ASSUME Types, Shapes, NEW r \in Requests, Only(r),
           CreateUser(r) \/ Send(r) \/ BulkUpdate(r) \/ DeleteRole(r)
    PROVE  Types'
<1>1. CASE CreateUser(r)
  BY <1>1, CreateUserStep DEF CreateUser, Types, Only, history
<1>2. CASE Send(r)
  <2>1. run[r].user \in Users /\ Pair(r) \in Users \X Tenants BY <1>2, SendStep, EventIs
  <2>2. run[r].entity.status \in Statuses
    <3>1. run[r].at = "send" /\ Shape(run[r]) /\ run[r] # Idle BY <1>2, SendStep, EventIs
    <3>2. run[r].entity \in TenantRow BY <3>1 DEF Shape
    <3> QED BY <3>2 DEF TenantRow
  <2>3. raced' \subseteq Users BY <1>2, <2>1, RacedType DEF Send
  <2>4. told' \in [Users \X Tenants -> Statuses \cup {None}]
    BY <1>2, <2>1, <2>2 DEF Send, Types
  <2> QED BY <1>2, <2>3, <2>4 DEF Send, Types, Only, tables
<1>3. CASE BulkUpdate(r)
  <2>1. run[r].user \in Users /\ roleRows' \in [RowIds -> RoleRow \cup {None}]
    BY <1>3, BulkUpdateStep, BulkUpdateIs
  <2>2. raced' \subseteq Users BY <1>3, <2>1, RacedType DEF BulkUpdate
  <2>3. granted' \subseteq granted /\ doubled' \subseteq Users
    BY <1>3, <2>1 DEF BulkUpdate, Types
  <2> QED BY <1>3, <2>1, <2>2, <2>3 DEF BulkUpdate, Types, Only
<1>4. CASE DeleteRole(r)
  <2>1. run[r].op.roles \subseteq Roles BY <1>4, DeleteRoleStep
  <2> QED BY <1>4, <2>1 DEF DeleteRole, Types, Only
<1> QED BY <1>1, <1>2, <1>3, <1>4

LEMMA TypesStay ==
    ASSUME Types, Shapes, NEW r \in Requests, Reading(r) \/ Failing(r) \/ Writing(r)
    PROVE  Types' /\ Shapes' /\ Only(r)
<1>1. CASE Reading(r)
  BY <1>1, ReadingStep, ShapesStay DEF OnlyRun, tables, history, Types, Only
<1>2. CASE Failing(r)
  BY <1>2, FailingStep, ShapesStay DEF Fails, tables, Types, Only
<1>3. CASE Writing(r)
  <2>1. Only(r) /\ Shapes' BY <1>3, WritingStep, ShapesStay
  <2>2. Types'
    BY <1>3, <2>1, PutsTypes, MapsTypes, DeletesTypes, OthersTypes DEF Writing
  <2> QED BY <2>1, <2>2
<1> QED BY <1>1, <1>2, <1>3

-----------------------------------------------------------------------------
(* What a step leaves as it is. *)

LEMMA HistoryGrows ==
    ASSUME Types, Shapes, NEW r \in Requests, Reading(r) \/ Failing(r) \/ Writing(r)
    PROVE  raced \subseteq raced' /\ failed \subseteq failed' /\ doubled \subseteq doubled'
           /\ halfway \subseteq halfway'
<1>1. CASE Reading(r) BY <1>1, ReadingStep DEF OnlyRun, history
<1>2. CASE Failing(r) BY <1>2, FailingStep DEF Fails
<1>3. CASE SaveRole(r) BY <1>3 DEF SaveRole, Writes
<1>4. CASE InsertRole(r) BY <1>4 DEF InsertRole, Writes
<1>5. CASE JobRole(r) BY <1>5 DEF JobRole, Writes
<1>6. CASE SaveMapping(r) BY <1>6 DEF SaveMapping, Writes
<1>7. CASE SaveStatus(r) BY <1>7 DEF SaveStatus, Writes
<1>8. CASE JobMapping(r) BY <1>8 DEF JobMapping, Writes
<1>9. CASE Deleting(r)
  BY <1>9, DeletesTypes, WritingStep
     DEF Deleting, Writing, DeleteAssigned, DeleteRoleRows, DeleteUser, DeleteMappings, DeleteRows
<1>10. CASE CreateUser(r) BY <1>10 DEF CreateUser, history
<1>11. CASE Send(r) BY <1>11 DEF Send, Writes
<1>12. CASE BulkUpdate(r) BY <1>12 DEF BulkUpdate, Writes
<1>13. CASE DeleteRole(r) BY <1>13 DEF DeleteRole
<1> QED
  BY <1>1, <1>2, <1>3, <1>4, <1>5, <1>6, <1>7, <1>8, <1>9, <1>10, <1>11, <1>12, <1>13
     DEF Writing, Putting, Mapping

SameRoles(v) == RolesOf(v)' = RolesOf(v) /\ \A m \in RolesOf(v) : roleRows'[m] = roleRows[m]
SameMappings(v) ==
    MappingsOf(v)' = MappingsOf(v) /\ \A m \in MappingsOf(v) : tenantRows'[m] = tenantRows[m]
SameRest(v) ==
    /\ \A t \in Tenants, p \in Roles : <<v, t, p>> \in granted' <=> <<v, t, p>> \in granted
    /\ \A t \in Tenants : told'[<<v, t>>] = told[<<v, t>>]
Leaves(v) == SameRoles(v) /\ SameMappings(v) /\ SameRest(v)

LEMMA RolesUntouched ==
    ASSUME NEW v, roleRows' = roleRows PROVE SameRoles(v)
BY DEF SameRoles, RolesOf, Present
LEMMA MappingsUntouched ==
    ASSUME NEW v, tenantRows' = tenantRows PROVE SameMappings(v)
BY DEF SameMappings, MappingsOf, Present
LEMMA Untouched ==
    ASSUME NEW v, UNCHANGED <<roleRows, tenantRows, granted, told>> PROVE Leaves(v)
BY RolesUntouched, MappingsUntouched DEF Leaves, SameRest

\* The row that is written was free or of the same user.
LEMMA PutsIs ==
    ASSUME Types, Owned, NEW r \in Requests, NEW m, NEW e, Puts(r, m, e), NEW u, u = run[r].user
    PROVE  /\ roleRows[m] # None => roleRows[m].user = u
           /\ RolesOf(u)' = RolesOf(u) \cup {m}
           /\ roleRows'[m] = e
           /\ \A n \in RowIds \ {m} : roleRows'[n] = roleRows[n]
           /\ \A v : v # u => SameRoles(v)
<1>1. m \in RowIds /\ e \in RoleRow /\ e.user = u /\ e # None
      /\ roleRows' = [roleRows EXCEPT ![m] = e]
  BY MappingsAssumption DEF Puts
<1>2. roleRows[m] # None => roleRows[m].user = u
  BY <1>1, MappingsAssumption DEF Puts, Owned, OwnedRole
<1>3. roleRows'[m] = e /\ \A n \in RowIds \ {m} : roleRows'[n] = roleRows[n]
  BY <1>1 DEF Types
<1>4. RolesOf(u)' = RolesOf(u) \cup {m}
  BY <1>1, <1>3 DEF RolesOf, Present
<1>5. ASSUME NEW v, v # u PROVE SameRoles(v)
  BY <1>1, <1>2, <1>3, <1>5 DEF SameRoles, RolesOf, Present
<1> QED BY <1>2, <1>3, <1>4, <1>5

LEMMA MapsIs ==
    ASSUME Types, Owned, NEW r \in Requests, NEW m, NEW e, Maps(r, m, e), NEW u, u = run[r].user
    PROVE  /\ tenantRows[m] # None => tenantRows[m].user = u
           /\ MappingsOf(u)' = MappingsOf(u) \cup {m}
           /\ tenantRows'[m] = e
           /\ \A n \in RowIds \ {m} : tenantRows'[n] = tenantRows[n]
           /\ \A v : v # u => SameMappings(v)
<1>1. m \in RowIds /\ e \in TenantRow /\ e.user = u /\ e # None
      /\ tenantRows' = [tenantRows EXCEPT ![m] = e]
  BY MappingsAssumption DEF Maps
<1>2. tenantRows[m] # None => tenantRows[m].user = u
  BY <1>1, MappingsAssumption DEF Maps, Owned, OwnedMapping
<1>3. tenantRows'[m] = e /\ \A n \in RowIds \ {m} : tenantRows'[n] = tenantRows[n]
  BY <1>1 DEF Types
<1>4. MappingsOf(u)' = MappingsOf(u) \cup {m}
  BY <1>1, <1>3 DEF MappingsOf, Present
<1>5. ASSUME NEW v, v # u PROVE SameMappings(v)
  BY <1>1, <1>2, <1>3, <1>5 DEF SameMappings, MappingsOf, Present
<1> QED BY <1>2, <1>3, <1>4, <1>5

\* Only the deletion of a role writes rows of other users than the request's own.
LEMMA Elsewhere ==
    ASSUME Types, Shapes, Owned, NEW r \in Requests, Writing(r), ~DeleteRoleRows(r),
           NEW v \in Users, v # run[r].user
    PROVE  Leaves(v)
<1> PICK u : u = run[r].user OBVIOUS
<1>1. CASE SaveRole(r)
  <2>1. PICK m : Puts(r, m, run[r].entity) BY <1>1, SaveRoleIs
  <2>2. SameRoles(v) BY <2>1, PutsIs
  <2>3. SameMappings(v) BY <2>1, MappingsUntouched DEF Puts
  <2>4. run[r].was # None => run[r].was.user = u
    BY <1>1, SaveRoleStep, AssigningIs DEF Shape, Assignings
  <2>5. run[r].entity.user = u BY <2>1 DEF Puts
  <2>6. \A t \in Tenants, p \in Roles : <<v, t, p>> \in granted' <=> <<v, t, p>> \in granted
    BY <1>1, <2>4, <2>5, SaveRoleIs
  <2> QED BY <2>1, <2>2, <2>3, <2>6 DEF Leaves, SameRest, Puts
<1>2. CASE InsertRole(r)
  <2> PICK e : e = [user |-> run[r].user, tenant |-> run[r].op.tenant, role |-> run[r].role,
                 hand |-> TRUE, checked |-> {"role", "pair"}] OBVIOUS
  <2>1. PICK m : Puts(r, m, e) BY <1>2, InsertRoleIs
  <2>2. SameRoles(v) BY <2>1, PutsIs
  <2>3. SameMappings(v) BY <2>1, MappingsUntouched DEF Puts
  <2> QED BY <1>2, <2>1, <2>2, <2>3, InsertRoleIs DEF Leaves, SameRest, Puts
<1>3. CASE JobRole(r)
  <2> PICK e : e = [user |-> run[r].user, tenant |-> Home, role |-> Learner,
                 hand |-> FALSE, checked |-> {"user", "pair"}] OBVIOUS
  <2>1. PICK m : Puts(r, m, e) BY <1>3, JobRoleIs
  <2>2. SameRoles(v) BY <2>1, PutsIs
  <2>3. SameMappings(v) BY <2>1, MappingsUntouched DEF Puts
  <2> QED BY <1>3, <2>1, <2>2, <2>3, JobRoleIs DEF Leaves, SameRest, Puts
<1>4. CASE SaveMapping(r)
  <2>1. PICK m : Maps(r, m, run[r].entity) BY <1>4, SaveMappingIs
  <2>2. SameMappings(v) BY <2>1, MapsIs
  <2>3. SameRoles(v) BY <2>1, RolesUntouched DEF Maps
  <2>5. run[r].entity.user = u BY <2>1 DEF Maps
  <2>6. \A t \in Tenants, p \in Roles : <<v, t, p>> \in granted' <=> <<v, t, p>> \in granted
    BY <1>4, <2>5, SaveMappingIs
  <2> QED BY <2>1, <2>2, <2>3, <2>6 DEF Leaves, SameRest, Maps
<1>5. CASE SaveStatus(r)
  <2>1. PICK m, e : Maps(r, m, e) BY <1>5, SaveStatusIs
  <2>2. SameMappings(v) BY <2>1, MapsIs
  <2>3. SameRoles(v) BY <2>1, RolesUntouched DEF Maps
  <2> QED BY <1>5, <2>1, <2>2, <2>3, SaveStatusIs DEF Leaves, SameRest, Maps
<1>6. CASE JobMapping(r)
  <2> PICK e : e = [user |-> run[r].user, tenant |-> Home, status |-> "active", quiet |-> FALSE, looked |-> TRUE]
    OBVIOUS
  <2>1. PICK m : Maps(r, m, e) BY <1>6, JobMappingIs
  <2>2. SameMappings(v) BY <2>1, MapsIs
  <2>3. SameRoles(v) BY <2>1, RolesUntouched DEF Maps
  <2>6. \A t \in Tenants, p \in Roles : <<v, t, p>> \in granted' <=> <<v, t, p>> \in granted
    BY <1>6, JobMappingIs
  <2> QED BY <2>1, <2>2, <2>3, <2>6 DEF Leaves, SameRest, Maps
<1>7. CASE DeleteAssigned(r)
  <2>1. SameRoles(v) BY <1>7 DEF DeleteAssigned, SameRoles, RolesOf, Present
  <2>2. SameMappings(v) BY <1>7, MappingsUntouched DEF DeleteAssigned
  <2>3. SameRest(v) BY <1>7 DEF DeleteAssigned, SameRest
  <2> QED BY <2>1, <2>2, <2>3 DEF Leaves
<1>8. CASE DeleteUser(r) BY <1>8, Untouched DEF DeleteUser
<1>9. CASE DeleteMappings(r)
  <2>1. SameMappings(v) BY <1>9 DEF DeleteMappings, SameMappings, MappingsOf, Present
  <2>2. SameRoles(v) BY <1>9, RolesUntouched DEF DeleteMappings
  <2>3. SameRest(v) BY <1>9 DEF DeleteMappings, SameRest
  <2> QED BY <2>1, <2>2, <2>3 DEF Leaves
<1>10. CASE DeleteRows(r)
  <2>1. SameRoles(v) BY <1>10 DEF DeleteRows, SameRoles, RolesOf, Present
  <2>2. SameMappings(v) BY <1>10, MappingsUntouched DEF DeleteRows
  <2>3. SameRest(v) BY <1>10 DEF DeleteRows, SameRest
  <2> QED BY <2>1, <2>2, <2>3 DEF Leaves
<1>11. CASE CreateUser(r) BY <1>11, Untouched DEF CreateUser, history
<1>12. CASE Send(r)
  <2>1. Pair(r) = <<u, About(run[r])>> BY <1>12, SendStep, EventIs
  <2>2. \A t \in Tenants : told'[<<v, t>>] = told[<<v, t>>]
    BY <1>12, <2>1 DEF Send, Types
  <2> QED BY <1>12, <2>2, RolesUntouched, MappingsUntouched DEF Send, Leaves, SameRest, tables
<1>13. CASE BulkUpdate(r)
  <2> PICK t : t = run[r].op.tenant OBVIOUS
  <2>1. /\ \A m \in RowIds : m \notin RolesIn(u, t) => roleRows'[m] = roleRows[m]
        /\ \A m \in RolesIn(u, t) : roleRows'[m].user = u
    BY <1>13, BulkUpdateIs
  <2>2. SameRoles(v)
    BY <2>1 DEF SameRoles, RolesIn, RolesOf, Present
  <2>3. SameMappings(v) BY <1>13, MappingsUntouched DEF BulkUpdate
  <2>4. SameRest(v) BY <1>13 DEF BulkUpdate, SameRest
  <2> QED BY <2>2, <2>3, <2>4 DEF Leaves
<1>14. CASE DeleteRole(r) BY <1>14, Untouched DEF DeleteRole
<1> QED
  BY <1>1, <1>2, <1>3, <1>4, <1>5, <1>6, <1>7, <1>8, <1>9, <1>10, <1>11, <1>12, <1>13, <1>14
     DEF Writing, Putting, Mapping, Deleting

\* A user whom the deleted role's rows do not concern.
LEMMA DeleteRoleRowsLeaves ==
    ASSUME Types, NEW r \in Requests, DeleteRoleRows(r), NEW v,
           \A m \in RolesOf(v) : roleRows[m].role \notin run[r].op.roles
    PROVE  SameRoles(v) /\ SameMappings(v)
<1>1. SameRoles(v) BY DEF DeleteRoleRows, SameRoles, RolesOf, Present
<1>2. SameMappings(v) BY MappingsUntouched DEF DeleteRoleRows
<1> QED BY <1>1, <1>2

\* A request that holds what it has read of a user has it still, or the user is raced.
LEMMA Noticed ==
    ASSUME Types, Shapes, Owned, NEW r \in Requests, Writing(r), NEW v \in Users,
           NEW q \in Requests \ {r}, Holds(q, v)
    PROVE  v \in raced' \/ (SameRoles(v) /\ SameMappings(v))
<1>1. CASE DeleteRoleRows(r)
  <2>1. CASE \A m \in RolesOf(v) : roleRows[m].role \notin run[r].op.roles
    BY <1>1, <2>1, DeleteRoleRowsLeaves
  <2>2. CASE \E m \in RolesOf(v) : roleRows[m].role \in run[r].op.roles
    <3>1. PICK m \in RolesOf(v) : roleRows[m].role \in run[r].op.roles BY <2>2
    <3>2. m \in Present(roleRows) /\ roleRows[m].user = v BY DEF RolesOf
    <3>3. v \in raced' BY <1>1, <3>1, <3>2 DEF DeleteRoleRows
    <3> QED BY <3>3
  <2> QED BY <2>1, <2>2
<1>2. CASE ~DeleteRoleRows(r) /\ v # run[r].user
  BY <1>2, Elsewhere DEF Leaves
<1>3. CASE ~DeleteRoleRows(r) /\ v = run[r].user
  <2>1. CASE CreateUser(r)
    BY <2>1, Untouched DEF CreateUser, history, Leaves
  <2>2. CASE DeleteRole(r)
    BY <2>2, Untouched DEF DeleteRole, Leaves
  <2>3. CASE DeleteUser(r)
    BY <1>3, <2>3 DEF DeleteUser, Holds
  <2>4. CASE Writes(r, run[r].user)
    BY <1>3, <2>4 DEF Writes
  <2>5. CASE SaveRole(r)
    <3>1. PICK m : Puts(r, m, run[r].entity) BY <2>5, SaveRoleIs
    <3> QED BY <2>4, <3>1 DEF Puts
  <2>6. CASE SaveMapping(r)
    <3>1. PICK m : Maps(r, m, run[r].entity) BY <2>6, SaveMappingIs
    <3> QED BY <2>4, <3>1 DEF Maps
  <2> QED
    BY <1>3, <2>1, <2>2, <2>3, <2>4, <2>5, <2>6
       DEF Writing, Putting, Mapping, Deleting, InsertRole, JobRole, SaveStatus, JobMapping,
           DeleteAssigned, DeleteMappings, DeleteRows, Send, BulkUpdate
<1> QED BY <1>1, <1>2, <1>3

-----------------------------------------------------------------------------
(* Which step brings a request to a place. *)

Arrives(r) ==
    LET g == run'[r] IN
    /\ g.at = "create" => ValidateNew(r)
    /\ g.at = "role" => Asks(r) \/ CreateUser(r)
                        \/ ((FindPair(r) \/ SaveMapping(r)) /\ Advances(run[r], g))
    /\ g.at = "saveRole" => FindRole(r)
    /\ g.at = "mapping" => SaveRole(r)
    /\ g.at = "pair" => FindMapping(r)
    /\ g.at = "saveMapping" => FindMapping(r) \/ FindPair(r)
    /\ g.at = "saveStatus" => FindStatus(r)
    /\ g.at = "insertRole" => CheckRole(r)
    /\ g.at = "jobRoles" => JobUser(r)
    /\ g.at = "jobMapping" => JobRoles(r)
    /\ g.at = "jobRole" => JobMapping(r)
    /\ g.at = "send" => ReadForEvent(r) \/ ReadFails(r)
    /\ g.at = "deleteUser" => DeleteRows(r)

LEMMA ArrivesReading ==
    ASSUME Types, Shapes, NEW r \in Requests, Reading(r)
    PROVE  Arrives(r)
<1>0. Idle.at = "idle" BY DEF Idle
<1>1. CASE \E o \in scenario.ops : Start(r, o)
  BY <1>1, StartStep DEF Arrives
<1>2. CASE \/ ValidateNew(r) \/ Validate(r) \/ HasRole(r) \/ FindAssigned(r)
           \/ FindRoleToDelete(r) \/ FindUser(r)
  <2>1. CASE Ends(r) BY <1>0, <2>1 DEF Ends, Arrives
  <2>2. CASE ValidateNew(r) /\ Goes(r, "create") BY <2>2 DEF Goes, Arrives
  <2>3. CASE Asks(r) BY <2>3 DEF Asks, Enters, Arrives
  <2>4. CASE run'[r].at \in {"deleteRoles", "delete", "deleteMappings"} BY <2>4 DEF Arrives
  <2> QED BY <1>2, <2>1, <2>2, <2>3, <2>4, GoSteps DEF Goes
<1>3. CASE RolesDone(r) \/ LoopDone(r) BY <1>0, <1>3, DoneSteps DEF Ends, Arrives
<1>4. CASE FindRole(r) BY <1>4, FindRoleStep DEF Arrives
<1>5. CASE FindMapping(r) BY <1>5, FindMappingStep DEF Arrives
<1>6. CASE FindPair(r)
  <2>1. run'[r].at \in {"idle", "event", "role", "saveMapping"}
        /\ (run'[r].at = "role" => Advances(run[r], run'[r]))
    BY <1>0, <1>6, FindPairStep DEF Advances
  <2> QED BY <1>6, <2>1 DEF Arrives
<1>7. CASE FindStatus(r) BY <1>0, <1>7, FindStatusStep DEF Ends, Arrives
<1>8. CASE ReadForEvent(r) BY <1>8, ReadForEventStep DEF Released, Arrives
<1>9. CASE CheckRole(r) BY <1>9, CheckRoleStep DEF Arrives
<1>10. CASE BulkFind(r) BY <1>10, BulkFindStep DEF Arrives
<1>11. CASE JobUser(r) BY <1>11, JobUserStep DEF Arrives
<1>12. CASE JobRoles(r) BY <1>12, JobRolesStep DEF Arrives
<1> QED
  BY <1>1, <1>2, <1>3, <1>4, <1>5, <1>6, <1>7, <1>8, <1>9, <1>10, <1>11, <1>12 DEF Reading

LEMMA ArrivesFailing ==
    ASSUME Types, Shapes, NEW r \in Requests, Failing(r)
    PROVE  Arrives(r)
<1>1. CASE NothingFound(r) \/ JobFails(r)
  BY <1>1, FailureStep DEF FailsWith, Released, Arrives
<1>2. CASE ReadFails(r) BY <1>2, ReadFailsStep DEF Released, Arrives
<1>3. CASE SendFails(r) BY <1>3, SendStep DEF Released, Arrives
<1>4. CASE Abort(r) BY <1>4, AbortStep DEF Released, Arrives
<1> QED BY <1>1, <1>2, <1>3, <1>4 DEF Failing

LEMMA ArrivesWriting ==
    ASSUME Types, Shapes, NEW r \in Requests, Writing(r)
    PROVE  Arrives(r)
<1>0. Idle.at = "idle" BY DEF Idle
<1>1. CASE SaveRole(r) BY <1>1, SaveRoleStep DEF Wrote, Arrives
<1>2. CASE InsertRole(r) BY <1>2, InsertRoleStep DEF Arrives
<1>3. CASE JobRole(r) BY <1>3, JobRoleStep DEF Arrives
<1>4. CASE SaveMapping(r)
  <2>1. run'[r].at \in {"idle", "event", "role"}
        /\ (run'[r].at = "role" => Advances(run[r], run'[r]))
    BY <1>0, <1>4, SaveMappingStep DEF Advances
  <2> QED BY <1>4, <2>1 DEF Arrives
<1>5. CASE SaveStatus(r) BY <1>5, SaveStatusStep DEF Wrote, Arrives
<1>6. CASE JobMapping(r) BY <1>6, JobMappingStep DEF Arrives
<1>7. CASE DeleteAssigned(r) \/ DeleteRoleRows(r) \/ DeleteUser(r)
  BY <1>7, DeletesStep DEF Released, Arrives
<1>8. CASE DeleteMappings(r) BY <1>8, DeleteMappingsStep DEF Wrote, Arrives
<1>9. CASE DeleteRows(r) BY <1>9, DeleteRowsStep DEF Goes, Arrives
<1>10. CASE CreateUser(r) BY <1>10, CreateUserStep DEF Wrote, Arrives
<1>11. CASE Send(r) BY <1>11, SendStep DEF Released, Arrives
<1>12. CASE BulkUpdate(r) BY <1>12, BulkUpdateStep DEF Released, Arrives
<1>13. CASE DeleteRole(r) BY <1>13, DeleteRoleStep DEF Goes, Arrives
<1> QED
  BY <1>1, <1>2, <1>3, <1>4, <1>5, <1>6, <1>7, <1>8, <1>9, <1>10, <1>11, <1>12, <1>13
     DEF Writing, Putting, Mapping, Deleting

LEMMA ArrivesBy ==
    ASSUME Types, Shapes, NEW r \in Requests, Reading(r) \/ Failing(r) \/ Writing(r)
    PROVE  Arrives(r)
BY ArrivesReading, ArrivesFailing, ArrivesWriting

-----------------------------------------------------------------------------
(* The rows that requests will write stay free or their user's. *)

LEMMA RoleOwners ==
    ASSUME Types, Shapes, Owned, NEW r \in Requests, Reading(r) \/ Failing(r) \/ Writing(r),
           NEW m \in RowIds, roleRows'[m] # None
    PROVE  \/ roleRows[m] # None /\ roleRows'[m].user = roleRows[m].user
           \/ /\ roleRows'[m].user = run[r].user
              /\ \/ run[r].at = "saveRole" /\ m = run[r].row
                 \/ \A q \in Requests : run[q].row # m
<1>0. CASE roleRows' = roleRows BY <1>0
<1>1. ASSUME NEW n, NEW e, Puts(r, n, e)
      PROVE  \/ roleRows[m] # None /\ roleRows'[m].user = roleRows[m].user
             \/ /\ roleRows'[m].user = run[r].user
                /\ \/ run[r].at = "saveRole" /\ m = run[r].row
                   \/ \A q \in Requests : run[q].row # m
  <2> PICK u : u = run[r].user OBVIOUS
  <2>0. n \in RowIds /\ roleRows' = [roleRows EXCEPT ![n] = e] /\ e.user = u BY <1>1 DEF Puts
  <2>1. roleRows'[n] = e /\ (\A k \in RowIds \ {n} : roleRows'[k] = roleRows[k]) /\ e.user = u
    BY <2>0 DEF Types
  <2>2. (run[r].at = "saveRole" /\ n = run[r].row) \/ \A q \in Requests : run[q].row # n
    BY <1>1 DEF Puts
  <2>3. CASE m = n BY <2>1, <2>2, <2>3
  <2>4. CASE m # n
    <3>1. roleRows'[m] = roleRows[m] BY <2>1, <2>4
    <3> QED BY <3>1
  <2> QED BY <2>3, <2>4
<1>2. CASE Reading(r) BY <1>0, <1>2, ReadingStep DEF OnlyRun, tables
<1>3. CASE Failing(r) BY <1>0, <1>3, FailingStep DEF Fails, tables
<1>4. CASE SaveRole(r)
  <2>1. \E n, e : Puts(r, n, e) BY <1>4, SaveRoleIs
  <2> QED BY <1>1, <2>1
<1>5. CASE InsertRole(r)
  <2>1. \E n, e : Puts(r, n, e) BY <1>5, InsertRoleIs
  <2> QED BY <1>1, <2>1
<1>6. CASE JobRole(r)
  <2>1. \E n, e : Puts(r, n, e) BY <1>6, JobRoleIs
  <2> QED BY <1>1, <2>1
<1>7. CASE Deleting(r)
  <2>1. roleRows'[m] = roleRows[m]
    BY <1>7 DEF Deleting, DeleteAssigned, DeleteRoleRows, DeleteUser, DeleteMappings, DeleteRows
  <2> QED BY <2>1
<1>8. CASE BulkUpdate(r)
  <2>1. CASE m \in RolesIn(run[r].user, run[r].op.tenant)
    BY <1>8, <2>1, BulkUpdateIs DEF RolesIn, RolesOf, Present
  <2>2. CASE m \notin RolesIn(run[r].user, run[r].op.tenant)
    BY <1>8, <2>2, BulkUpdateIs
  <2> QED BY <2>1, <2>2
<1>9. CASE Mapping(r) \/ CreateUser(r) \/ Send(r) \/ DeleteRole(r)
  BY <1>0, <1>9 DEF Mapping, SaveMapping, SaveStatus, JobMapping, CreateUser, Send, DeleteRole, tables
<1> QED BY <1>2, <1>3, <1>4, <1>5, <1>6, <1>7, <1>8, <1>9 DEF Writing, Putting

LEMMA MappingOwners ==
    ASSUME Types, Shapes, Owned, NEW r \in Requests, Reading(r) \/ Failing(r) \/ Writing(r),
           NEW m \in RowIds, tenantRows'[m] # None
    PROVE  \/ tenantRows[m] # None /\ tenantRows'[m].user = tenantRows[m].user
           \/ /\ tenantRows'[m].user = run[r].user
              /\ \/ run[r].at \in {"saveMapping", "saveStatus"} /\ m = run[r].row
                 \/ \A q \in Requests : run[q].row # m
<1>0. CASE tenantRows' = tenantRows BY <1>0
<1>1. ASSUME NEW n, NEW e, Maps(r, n, e)
      PROVE  \/ tenantRows[m] # None /\ tenantRows'[m].user = tenantRows[m].user
             \/ /\ tenantRows'[m].user = run[r].user
                /\ \/ run[r].at \in {"saveMapping", "saveStatus"} /\ m = run[r].row
                   \/ \A q \in Requests : run[q].row # m
  <2> PICK u : u = run[r].user OBVIOUS
  <2>3. e.user = u BY <1>1 DEF Maps
  <2>4. tenantRows'[n] = e /\ \A k \in RowIds \ {n} : tenantRows'[k] = tenantRows[k]
    BY <1>1, MapsIs
  <2>1. tenantRows'[n] = e /\ (\A k \in RowIds \ {n} : tenantRows'[k] = tenantRows[k]) /\ e.user = u
    BY <2>3, <2>4
  <2>2. (run[r].at \in {"saveMapping", "saveStatus"} /\ n = run[r].row)
        \/ \A q \in Requests : run[q].row # n
    BY <1>1 DEF Maps
  <2> QED BY <2>1, <2>2
<1>2. CASE Reading(r) BY <1>0, <1>2, ReadingStep DEF OnlyRun, tables
<1>3. CASE Failing(r) BY <1>0, <1>3, FailingStep DEF Fails, tables
<1>4. CASE SaveMapping(r)
  <2>1. \E n, e : Maps(r, n, e) BY <1>4, SaveMappingIs
  <2> QED BY <1>1, <2>1
<1>5. CASE SaveStatus(r)
  <2>1. \E n, e : Maps(r, n, e) BY <1>5, SaveStatusIs
  <2> QED BY <1>1, <2>1
<1>6. CASE JobMapping(r)
  <2>1. \E n, e : Maps(r, n, e) BY <1>6, JobMappingIs
  <2> QED BY <1>1, <2>1
<1>7. CASE DeleteMappings(r)
  <2>1. tenantRows'[m] = tenantRows[m] BY <1>7 DEF DeleteMappings
  <2> QED BY <2>1
<1>8. CASE Putting(r) \/ CreateUser(r) \/ Send(r) \/ BulkUpdate(r) \/ DeleteRole(r)
           \/ DeleteAssigned(r) \/ DeleteRoleRows(r) \/ DeleteUser(r) \/ DeleteRows(r)
  BY <1>0, <1>8 DEF Putting, SaveRole, InsertRole, JobRole, CreateUser, Send, BulkUpdate,
     DeleteRole, DeleteAssigned, DeleteRoleRows, DeleteUser, DeleteRows, tables
<1> QED BY <1>2, <1>3, <1>4, <1>5, <1>6, <1>7, <1>8 DEF Writing, Mapping, Deleting

LEMMA OwnedRolesStay ==
    ASSUME Types, Shapes, Owned, NEW r \in Requests, Reading(r) \/ Failing(r) \/ Writing(r),
           NEW q \in Requests
    PROVE  OwnedRole(q)'
<1>0. Only(r) /\ Types' BY TypesStay
<1> SUFFICES ASSUME run'[q].at = "saveRole", run'[q].row # None
             PROVE  /\ roleRows'[run'[q].row] # None => roleRows'[run'[q].row].user = run'[q].user
                    /\ \A p \in Requests : run'[p].at = "saveRole" /\ run'[p].row = run'[q].row
                          => run'[p].user = run'[q].user
  BY DEF OwnedRole
<1> PICK g \in RunRow : g = run'[q] BY <1>0 DEF Only
<1>1. g.row \in RowIds BY DEF RunRow
\* A request that has just read its row has read one of its user.
<1>2. ASSUME run'[r].at = "saveRole", run'[r].row # None
      PROVE  /\ run'[r].row \in RolesOf(run[r].user) /\ run'[r].user = run[r].user
             /\ roleRows' = roleRows
  <2>1. FindRole(r) BY <1>2, ArrivesBy DEF Arrives
  <2> QED BY <1>2, <2>1, FindRoleStep DEF Keeps, OnlyRun, tables
<1>3. CASE q = r
  <2>1. g.row \in RolesOf(run[r].user) /\ g.user = run[r].user /\ roleRows' = roleRows
    BY <1>2, <1>3
  <2>2. roleRows[g.row] # None /\ roleRows[g.row].user = g.user
    BY <2>1 DEF RolesOf, Present
  <2>3. ASSUME NEW p \in Requests, run'[p].at = "saveRole", run'[p].row = g.row, p # r
        PROVE  run'[p].user = g.user
    BY <1>0, <1>1, <2>2, <2>3, MappingsAssumption DEF Only, Owned, OwnedRole
  <2> QED BY <1>3, <2>1, <2>2, <2>3
<1>4. CASE q # r
  <2>1. run[q] = g BY <1>0, <1>4 DEF Only
  <2>2. OwnedRole(q) BY DEF Owned
  <2>3. roleRows'[g.row] # None => roleRows'[g.row].user = g.user
    BY <1>1, <2>1, <2>2, RoleOwners DEF OwnedRole
  <2>4. ASSUME NEW p \in Requests, run'[p].at = "saveRole", run'[p].row = g.row, p # r
        PROVE  run'[p].user = g.user
    BY <1>0, <2>1, <2>2, <2>4 DEF Only, OwnedRole
  <2>5. ASSUME run'[r].at = "saveRole", run'[r].row = g.row
        PROVE  run'[r].user = g.user
    BY <1>1, <1>2, <2>1, <2>2, <2>5, MappingsAssumption DEF OwnedRole, RolesOf, Present
  <2> QED BY <2>3, <2>4, <2>5
<1> QED BY <1>3, <1>4

LEMMA OwnedMappingsStay ==
    ASSUME Types, Shapes, Owned, NEW r \in Requests, Reading(r) \/ Failing(r) \/ Writing(r),
           NEW q \in Requests
    PROVE  OwnedMapping(q)'
<1>0. Only(r) /\ Types' BY TypesStay
<1> DEFINE Saves == {"saveMapping", "saveStatus"}
<1> SUFFICES ASSUME run'[q].at \in Saves, run'[q].row # None
             PROVE  /\ tenantRows'[run'[q].row] # None
                         => tenantRows'[run'[q].row].user = run'[q].user
                    /\ \A p \in Requests : run'[p].at \in Saves /\ run'[p].row = run'[q].row
                          => run'[p].user = run'[q].user
  BY DEF OwnedMapping
<1> PICK g \in RunRow : g = run'[q] BY <1>0 DEF Only
<1>1. g.row \in RowIds BY DEF RunRow
<1>2. ASSUME run'[r].at \in Saves, run'[r].row # None
      PROVE  /\ run'[r].row \in MappingsOf(run[r].user) /\ run'[r].user = run[r].user
             /\ tenantRows' = tenantRows
  <2>1. FindMapping(r) \/ FindPair(r) \/ FindStatus(r) BY <1>2, ArrivesBy DEF Arrives
  <2>2. CASE FindMapping(r)
    BY <1>2, <2>2, FindMappingStep DEF Keeps, OnlyRun, tables
  <2>3. CASE FindPair(r)
    <3>1. ~Advances(run[r], run'[r]) BY <1>2 DEF Advances, Idle
    <3> QED BY <1>2, <2>3, <3>1, FindPairStep DEF Keeps, OnlyRun, tables, MappingsTo
  <2>4. CASE FindStatus(r)
    BY <1>2, <2>4, FindStatusStep DEF Ends, Idle, Keeps, OnlyRun, tables, MappingsTo
  <2> QED BY <2>1, <2>2, <2>3, <2>4
<1> HIDE DEF Saves
<1>3. CASE q = r
  <2>1. g.row \in MappingsOf(run[r].user) /\ g.user = run[r].user /\ tenantRows' = tenantRows
    BY <1>2, <1>3
  <2>2. tenantRows[g.row] # None /\ tenantRows[g.row].user = g.user
    BY <2>1 DEF MappingsOf, Present
  <2>3. ASSUME NEW p \in Requests, run'[p].at \in Saves, run'[p].row = g.row, p # r
        PROVE  run'[p].user = g.user
    BY <1>0, <1>1, <2>2, <2>3, MappingsAssumption DEF Only, Owned, OwnedMapping, Saves
  <2> QED BY <1>3, <2>1, <2>2, <2>3
<1>4. CASE q # r
  <2>1. run[q] = g BY <1>0, <1>4 DEF Only
  <2>2. OwnedMapping(q) BY DEF Owned
  <2>3. tenantRows'[g.row] # None => tenantRows'[g.row].user = g.user
    BY <1>1, <2>1, <2>2, MappingOwners DEF OwnedMapping, Saves
  <2>4. ASSUME NEW p \in Requests, run'[p].at \in Saves, run'[p].row = g.row, p # r
        PROVE  run'[p].user = g.user
    BY <1>0, <2>1, <2>2, <2>4 DEF Only, OwnedMapping, Saves
  <2>5. ASSUME run'[r].at \in Saves, run'[r].row = g.row
        PROVE  run'[r].user = g.user
    BY <1>1, <1>2, <2>1, <2>2, <2>5, MappingsAssumption DEF OwnedMapping, MappingsOf, Present, Saves
  <2> QED BY <2>3, <2>4, <2>5
<1> QED BY <1>3, <1>4

LEMMA OwnedStay ==
    ASSUME Types, Shapes, Owned, NEW r \in Requests, Reading(r) \/ Failing(r) \/ Writing(r)
    PROVE  Owned'
BY OwnedRolesStay, OwnedMappingsStay DEF Owned

-----------------------------------------------------------------------------
(* What requests have read is still so. *)

KnowAts == {"role", "saveRole", "saveMapping", "saveStatus", "insertRole", "jobRoles",
            "jobMapping", "jobRole", "send", "deleteUser"}

LEMMA KnowsNothing ==
    ASSUME NEW q, run'[q].at \notin KnowAts
    PROVE  Knows(q)'
BY DEF Knows, KnowAts

\* What is seen of a user whose rows a step leaves alone.
LEMMA SeenAgain ==
    ASSUME NEW v, SameRoles(v), SameMappings(v)
    PROVE  /\ RolesOf(v)' = RolesOf(v) /\ MappingsOf(v)' = MappingsOf(v)
           /\ \A t : RolesIn(v, t)' = RolesIn(v, t) /\ MappingsTo(v, t)' = MappingsTo(v, t)
           /\ \A t, p : Assigned(v, t, p)' <=> Assigned(v, t, p)
<1>1. RolesOf(v)' = RolesOf(v) /\ \A m \in RolesOf(v) : roleRows'[m] = roleRows[m]
  BY DEF SameRoles
<1>2. MappingsOf(v)' = MappingsOf(v) /\ \A m \in MappingsOf(v) : tenantRows'[m] = tenantRows[m]
  BY DEF SameMappings
<1>3. ASSUME NEW t PROVE RolesIn(v, t)' = RolesIn(v, t) /\ MappingsTo(v, t)' = MappingsTo(v, t)
  BY <1>1, <1>2 DEF RolesIn, MappingsTo
<1>4. ASSUME NEW t, NEW p PROVE Assigned(v, t, p)' <=> Assigned(v, t, p)
  BY <1>1, <1>3 DEF Assigned, RolesIn
<1> QED BY <1>1, <1>2, <1>3, <1>4

LEMMA KnowsKept ==
    ASSUME Types, Shapes, NEW r \in Requests, Reading(r) \/ Failing(r) \/ Writing(r),
           NEW q \in Requests, run'[q] = run[q], Knows(q), NEW v, v = run[q].user,
           SameRoles(v), SameMappings(v)
    PROVE  Knows(q)'
<1>1. /\ RolesOf(v)' = RolesOf(v) /\ MappingsOf(v)' = MappingsOf(v)
      /\ \A t : RolesIn(v, t)' = RolesIn(v, t) /\ MappingsTo(v, t)' = MappingsTo(v, t)
      /\ \A t, p : Assigned(v, t, p)' <=> Assigned(v, t, p)
  BY SeenAgain
<1>2. (\A m \in RolesOf(v) : roleRows'[m] = roleRows[m])
      /\ \A m \in MappingsOf(v) : tenantRows'[m] = tenantRows[m]
  BY DEF SameRoles, SameMappings
<1>3. \A t : MappingsTo(v, t) \subseteq MappingsOf(v) BY DEF MappingsTo
<1>4. raced \subseteq raced' /\ failed \subseteq failed' /\ doubled \subseteq doubled'
  BY HistoryGrows
<1> PICK f : f = run[q] OBVIOUS
<1>5. run'[q] = f /\ f.user = v OBVIOUS
<1>6. CASE v \in raced BY <1>4, <1>5, <1>6 DEF Knows
<1>7. CASE v \notin raced
  <2>1. f.at \in {"role", "saveRole"} /\ f.looked
            => ~Assigned(v, Head(f.todo).tenant, Head(f.todo).role)'
    BY <1>1, <1>5, <1>7 DEF Knows
  <2>2. f.at = "saveRole" /\ f.row # None => f.row \in RolesOf(v)' /\ roleRows'[f.row] = f.was
    BY <1>1, <1>2, <1>5, <1>7 DEF Knows
  <2>3. f.at = "saveMapping" /\ f.was # None =>
            f.row \in MappingsOf(v)' /\ tenantRows'[f.row] = f.was
    BY <1>1, <1>2, <1>5, <1>7 DEF Knows
  <2>4. f.at = "saveMapping" /\ f.was = None =>
            /\ f.row # None => f.row \in MappingsTo(v, f.entity.tenant)'
                                /\ (f.entity.looked => tenantRows'[f.row].looked)
            /\ f.row = None /\ f.entity.looked => MappingsTo(v, f.entity.tenant)' = {}
            /\ f.op.name \in Assigners =>
                 MappingsTo(v, f.entity.tenant)' \subseteq {f.row} \/ v \in doubled'
    BY <1>1, <1>2, <1>3, <1>4, <1>5, <1>7 DEF Knows
  <2>5. f.at = "saveStatus" =>
            /\ f.row \in MappingsTo(v, f.op.tenant)'
            /\ f.entity.looked => tenantRows'[f.row].looked
            /\ MappingsTo(v, f.op.tenant)' \subseteq {f.row} \/ v \in doubled'
    BY <1>1, <1>2, <1>3, <1>4, <1>5, <1>7 DEF Knows
  <2>6. f.at = "insertRole" => \A m \in RolesOf(v)' : roleRows'[m].role # f.role
    BY <1>1, <1>2, <1>5, <1>7 DEF Knows
  <2>7. /\ f.at \in {"jobRoles", "jobMapping"} => MappingsTo(v, Home)' = {}
        /\ f.at \in {"jobMapping", "jobRole"} /\ f.role # None => RolesIn(v, Home)' = {}
        /\ f.at = "jobRole" => MappingsTo(v, Home)' # {}
        /\ f.at = "deleteUser" => RolesOf(v)' = {}
    BY <1>1, <1>5, <1>7 DEF Knows
  <2>8. f.at = "send" => v \in doubled' \cup failed' \/
            \A m \in MappingsTo(v, About(f))' : tenantRows'[m].status = f.entity.status
    BY <1>1, <1>2, <1>3, <1>4, <1>5, <1>7 DEF Knows
  <2>9. Head(f.todo).tenant = Head(run'[q].todo).tenant BY <1>5
  <2> HIDE DEF Assigned, RolesOf, MappingsOf, RolesIn, MappingsTo, About
  <2> QED BY <1>5, <2>1, <2>2, <2>3, <2>4, <2>5, <2>6, <2>7, <2>8 DEF Knows
<1> QED BY <1>6, <1>7

\* Who knows something holds it.
LEMMA KnowersHold ==
    ASSUME Types, Shapes, NEW q \in Requests, run[q].at \in KnowAts
    PROVE  Holds(q, run[q].user) /\ run[q].user \in Users
BY PlaceIs DEF KnowAts, Holds

LEMMA OthersKnow ==
    ASSUME Types, Shapes, Owned, Known, NEW r \in Requests,
           Reading(r) \/ Failing(r) \/ Writing(r), NEW q \in Requests \ {r}
    PROVE  Knows(q)'
<1>1. run'[q] = run[q] BY TypesStay DEF Only
<1>2. CASE run[q].at \notin KnowAts BY <1>1, <1>2, KnowsNothing
<1>3. CASE run[q].at \in KnowAts
  <2> PICK v \in Users : v = run[q].user BY <1>3, KnowersHold
  <2>1. Holds(q, v) BY <1>3, KnowersHold
  <2>2. v \in raced' \/ (SameRoles(v) /\ SameMappings(v))
    <3>1. CASE Reading(r)
      BY <3>1, ReadingStep, RolesUntouched, MappingsUntouched DEF OnlyRun, tables
    <3>2. CASE Failing(r)
      BY <3>2, FailingStep, RolesUntouched, MappingsUntouched DEF Fails, tables
    <3>3. CASE Writing(r) BY <2>1, <3>3, Noticed
    <3> QED BY <3>1, <3>2, <3>3
  <2>3. CASE v \in raced' BY <1>1, <2>3 DEF Knows
  <2>4. CASE SameRoles(v) /\ SameMappings(v) BY <1>1, <2>4, KnowsKept DEF Known
  <2> QED BY <2>2, <2>3, <2>4
<1> QED BY <1>2, <1>3

\* A pair of user and tenant has one row.
LEMMA OneMapping ==
    ASSUME NEW u, UniqueRows(u), u \notin raced \cup doubled, NEW t,
           NEW m \in MappingsTo(u, t), NEW n \in MappingsTo(u, t)
    PROVE  m = n
BY DEF UniqueRows, MappingsTo

LEMMA KnowsToSaveRole ==
    ASSUME Types, Shapes, Known, NEW r \in Requests, FindRole(r)
    PROVE  Knows(r)'
<1>1. OnlyRun /\ Assigning(r, "role") /\ run'[r].at = "saveRole" /\ Keeps(run[r], run'[r])
      /\ (run'[r].row = None
          \/ (run'[r].row \in RolesOf(run[r].user) /\ run'[r].was = roleRows[run'[r].row]))
  <2>1. OnlyRun /\ Assigning(r, "role") BY FindRoleStep
  <2>2. run'[r].at = "saveRole" /\ Keeps(run[r], run'[r]) BY FindRoleStep
  <2>3. (run'[r].row = None)
          \/ (run'[r].row \in RolesOf(run[r].user) /\ run'[r].was = roleRows[run'[r].row])
    BY FindRoleStep
  <2> QED BY <2>1, <2>2, <2>3
<1> PICK f : f = run[r] OBVIOUS
<1> PICK g : g = run'[r] OBVIOUS
<1> PICK u : u = f.user OBVIOUS
<1>2. /\ g.user = u /\ g.op = f.op /\ g.todo = f.todo /\ g.looked = f.looked
      /\ f.at = "role" /\ raced' = raced
  BY <1>1 DEF Keeps, Assigning, OnlyRun, history
<1>3. SameRoles(u) /\ SameMappings(u)
  BY <1>1, RolesUntouched, MappingsUntouched DEF OnlyRun, tables
<1>4. u \in raced \/ (f.looked => ~Assigned(u, Head(f.todo).tenant, Head(f.todo).role))
  BY <1>2 DEF Known, Knows
<1>5. u \in raced' \/ (g.looked => ~Assigned(u, Head(g.todo).tenant, Head(g.todo).role)')
  BY <1>2, <1>3, <1>4, SeenAgain
<1>6. g.row # None => g.row \in RolesOf(u)' /\ roleRows'[g.row] = g.was
  BY <1>1, <1>3 DEF SameRoles
<1> HIDE DEF Assigned, RolesOf
<1> QED BY <1>1, <1>2, <1>5, <1>6 DEF Knows

LEMMA KnowsToSaveMapping ==
    ASSUME Types, Shapes, Known, AllUsers, NEW r \in Requests,
           FindMapping(r) \/ FindPair(r), run'[r].at = "saveMapping"
    PROVE  Knows(r)'
<1> PICK f : f = run[r] OBVIOUS
<1> PICK g : g = run'[r] OBVIOUS
<1>0. OnlyRun /\ Assigning(r, f.at) /\ Keeps(f, g) /\ f.at \in Assignings
      /\ g.entity.tenant = Head(f.todo).tenant /\ Shape(g)
  <2>1. ~Advances(run[r], run'[r]) BY DEF Advances, Idle
  <2>2. OnlyRun /\ Assigning(r, f.at) /\ Keeps(f, g) /\ f.at \in Assignings /\ Shape(g)
    BY <2>1, FindMappingStep, FindPairStep DEF Assigning, Assignings
  <2>3. g # Idle BY DEF Idle
  <2> QED BY <2>2, <2>3 DEF Shape, Keeps
<1>1. f.user \in Users /\ (f.op.name \in Assigners => Head(f.todo).update)
  BY <1>0, AssigningIs
<1> PICK u \in Users : u = f.user BY <1>1
<1> PICK t : t = Head(f.todo).tenant OBVIOUS
<1>2. g.user = u /\ g.op = f.op /\ g.todo = f.todo /\ raced' = raced /\ doubled' = doubled
  BY <1>0 DEF Keeps, OnlyRun, history
<1>3. /\ MappingsOf(u)' = MappingsOf(u) /\ MappingsTo(u, t)' = MappingsTo(u, t)
      /\ tenantRows' = tenantRows
  BY <1>0, RolesUntouched, MappingsUntouched, SeenAgain DEF OnlyRun, tables
<1>4. CASE FindMapping(r)
  <2>1. \/ g.row = None /\ g.was = None /\ ~Head(f.todo).update
        \/ g.row \in MappingsOf(u) /\ g.was = tenantRows[g.row] /\ g.was # None
    BY <1>4, FindMappingStep
  <2>2. g.was # None => g.row \in MappingsOf(u)' /\ tenantRows'[g.row] = g.was
    BY <1>3, <2>1
  <2>3. g.was = None => g.row = None /\ g.op.name \notin Assigners /\ ~g.entity.looked
    <3>1. ASSUME g.was = None PROVE g.row = None /\ g.entity = NewMapping(r, Head(f.todo), "active", FALSE)
      BY <1>4, <2>1, <3>1, FindMappingStep
    <3>2. Head(f.todo) \in Assignment /\ "active" \in Statuses BY <1>0, AssigningIs DEF Statuses
    <3>3. ~NewMapping(r, Head(f.todo), "active", FALSE).looked BY <1>1, <3>2, NewMappingIs
    <3> QED BY <1>1, <1>2, <2>1, <3>1, <3>3
  <2> HIDE DEF MappingsOf, MappingsTo
  <2> QED BY <1>2, <2>2, <2>3 DEF Knows
<1>5. CASE FindPair(r)
  <2>1. g.was = None
        /\ \/ g.row = None /\ MappingsTo(u, t) = {}
           \/ g.row \in MappingsTo(u, t) /\ g.entity.looked = tenantRows[g.row].looked
    <3>1. ~Advances(run[r], run'[r]) BY DEF Advances, Idle
    <3> QED BY <1>5, <3>1, FindPairStep
  <2>2. UniqueRows(u) BY DEF AllUsers, UserOK
  <2>3. u \in raced \cup doubled \/ MappingsTo(u, t) \subseteq {g.row}
    BY <2>1, <2>2, OneMapping
  <2>4. u \in raced' \cup doubled' \/ MappingsTo(u, t)' \subseteq {g.row}
    BY <1>2, <1>3, <2>3
  <2>5. /\ g.row # None => g.row \in MappingsTo(u, t)'
                            /\ (g.entity.looked => tenantRows'[g.row].looked)
        /\ g.row = None => MappingsTo(u, t)' = {}
    <3>1. None \notin MappingsTo(u, t)
      BY MappingsAssumption DEF MappingsTo, MappingsOf, Present
    <3> QED BY <1>3, <2>1, <3>1
  <2>6. g.entity.tenant = t BY <1>0
  <2> HIDE DEF MappingsOf, MappingsTo
  <2> QED BY <1>2, <2>1, <2>4, <2>5, <2>6 DEF Knows
<1> QED BY <1>4, <1>5

LEMMA KnowsToSaveStatus ==
    ASSUME Types, Shapes, AllUsers, NEW r \in Requests,
           FindStatus(r), run'[r].at = "saveStatus"
    PROVE  Knows(r)'
<1> PICK f : f = run[r] OBVIOUS
<1> PICK g : g = run'[r] OBVIOUS
<1>0. OnlyRun /\ f.user \in Users /\ Keeps(f, g) /\ g.row \in MappingsTo(f.user, f.op.tenant)
      /\ g.entity.looked = tenantRows[g.row].looked
  BY FindStatusStep DEF Ends, Idle
<1> PICK u \in Users : u = f.user BY <1>0
<1> PICK t : t = f.op.tenant OBVIOUS
<1>2. g.user = u /\ g.op = f.op /\ raced' = raced /\ doubled' = doubled
  BY <1>0 DEF Keeps, OnlyRun, history
<1>3. MappingsTo(u, t)' = MappingsTo(u, t)
  BY <1>0, RolesUntouched, MappingsUntouched, SeenAgain DEF OnlyRun, tables
<1>4. UniqueRows(u) BY DEF AllUsers, UserOK
<1>5. u \in raced \cup doubled \/ MappingsTo(u, t) \subseteq {g.row}
  BY <1>0, <1>4, OneMapping
<1>6. u \in raced' \/ u \in doubled' \/ MappingsTo(u, t)' \subseteq {g.row}
  BY <1>2, <1>3, <1>5
<1>7. g.row \in MappingsTo(u, t)' /\ (g.entity.looked => tenantRows'[g.row].looked)
  BY <1>0, <1>3 DEF OnlyRun, tables
<1> HIDE DEF MappingsTo
<1> QED BY <1>2, <1>6, <1>7 DEF Knows

LEMMA KnowsToSend ==
    ASSUME Types, Shapes, AllUsers, NEW r \in Requests,
           ReadForEvent(r) \/ ReadFails(r), run'[r].at = "send"
    PROVE  Knows(r)'
<1> PICK f : f = run[r] OBVIOUS
<1> PICK g : g = run'[r] OBVIOUS
<1>1. CASE ReadFails(r)
  <2>1. Keeps(f, g) /\ f.user \in failed' BY <1>1, ReadFailsStep DEF Released
  <2>2. g.user \in failed' BY <2>1 DEF Keeps
  <2> HIDE DEF MappingsTo
  <2> QED BY <2>2 DEF Knows
<1>2. CASE ReadForEvent(r)
  <2>1. OnlyRun /\ f.at = "event" /\ Keeps(f, g)
        /\ \E m \in MappingsTo(f.user, About(f)) : g.entity = tenantRows[m]
    BY <1>2, ReadForEventStep DEF Released
  <2> PICK u \in Users : u = f.user BY <2>1, EventIs
  <2> PICK t : t = About(f) OBVIOUS
  <2>2. g.user = u /\ About(g) = t /\ raced' = raced /\ doubled' = doubled
    BY <2>1 DEF Keeps, OnlyRun, history, About
  <2>3. MappingsTo(u, t)' = MappingsTo(u, t) /\ tenantRows' = tenantRows
    BY <2>1, RolesUntouched, MappingsUntouched, SeenAgain DEF OnlyRun, tables
  <2>4. UniqueRows(u) BY DEF AllUsers, UserOK
  <2>5. u \in raced \cup doubled \/ \A m \in MappingsTo(u, t) : tenantRows[m] = g.entity
    BY <2>1, <2>4, OneMapping
  <2>6. u \in raced' \/ u \in doubled' \/ \A m \in MappingsTo(u, t)' : tenantRows'[m].status = g.entity.status
    BY <2>2, <2>3, <2>5
  <2> HIDE DEF MappingsTo
  <2> QED BY <2>2, <2>6 DEF Knows
<1> QED BY <1>1, <1>2

LEMMA KnowsToRole ==
    ASSUME Types, Shapes, NEW r \in Requests, Arrives(r), run'[r].at = "role"
    PROVE  Knows(r)'
<1> PICK f : f = run[r] OBVIOUS
<1> PICK g : g = run'[r] OBVIOUS
<1>1. CASE CreateUser(r)
  <2>1. g.op.name \in Creators /\ Shape(g) /\ g # Idle
    BY <1>1, CreateUserStep DEF Wrote, Idle
  <2>2. ~g.looked BY <2>1 DEF Shape
  <2> QED BY <2>2 DEF Knows
<1>2. CASE (FindPair(r) \/ SaveMapping(r)) /\ Advances(run[r], run'[r])
  <2>1. Shape(f) /\ f # Idle /\ f \in RunRow /\ f.op.name \in Assigns
    BY <1>2, FindPairStep, SaveMappingStep, AssigningIs DEF Assignings
  <2>2. g.op = f.op /\ Len(f.todo) > 1 BY <1>2 DEF Advances, Idle
  <2>3. f.op.name \in Assigners => Len(f.todo) = 1 BY <2>1 DEF Shape, Asked
  <2>5. Len(f.todo) \in Nat BY <2>1, HeadOfTodo
  <2>6. Len(f.todo) # 1 BY <2>2, <2>5, MoreThanOne, Zenon
  <2>4. g.op.name \notin Assigners BY <2>2, <2>3, <2>6, Zenon
  <2>7. g.op.name \in Creators BY <2>1, <2>2, <2>4 DEF Assigns
  <2>8. Shape(g) /\ g # Idle BY <1>2, FindPairStep, SaveMappingStep DEF Idle
  <2>9. ~g.looked BY <2>7, <2>8 DEF Shape
  <2> QED BY <2>9 DEF Knows
<1>3. CASE Asks(r)
  <2>1. Enters(r) /\ OnlyRun
        /\ (g.looked => ~Assigned(f.user, Head(f.todo).tenant, Head(f.todo).role))
    BY <1>3, GoSteps DEF Asks
  <2>2. g.user = f.user /\ g.todo = f.todo BY <2>1 DEF Enters
  <2>3. SameRoles(f.user) /\ SameMappings(f.user)
    BY <2>1, RolesUntouched, MappingsUntouched DEF OnlyRun, tables
  <2> PICK u : u = f.user OBVIOUS
  <2>4. g.looked => ~Assigned(u, Head(g.todo).tenant, Head(g.todo).role)'
    BY <2>1, <2>2, <2>3, SeenAgain
  <2> HIDE DEF Assigned
  <2> QED BY <2>2, <2>4 DEF Knows
<1> QED BY <1>1, <1>2, <1>3 DEF Arrives

LEMMA KnowsToInsertRole ==
    ASSUME Types, Shapes, NEW r \in Requests, CheckRole(r), run'[r].at = "insertRole"
    PROVE  Knows(r)'
<1> PICK g : g = run'[r] OBVIOUS
<1>1. OnlyRun /\ g.user = run[r].user /\ \A m \in RolesOf(run[r].user) : roleRows[m].role # g.role
  BY CheckRoleStep
<1> PICK u : u = run[r].user OBVIOUS
<1>2. RolesOf(u)' = RolesOf(u) /\ roleRows' = roleRows
  BY <1>1, RolesUntouched DEF SameRoles, OnlyRun, tables
<1>3. \A m \in RolesOf(u)' : roleRows'[m].role # g.role BY <1>1, <1>2
<1> HIDE DEF RolesOf
<1> QED BY <1>1, <1>3 DEF Knows

LEMMA KnowsOfJob ==
    ASSUME Types, Shapes, Owned, Known, NEW r \in Requests,
           \/ JobUser(r) /\ run'[r].at = "jobRoles"
           \/ JobRoles(r)
           \/ JobMapping(r) /\ run'[r].at = "jobRole"
    PROVE  Knows(r)'
<1> PICK f : f = run[r] OBVIOUS
<1> PICK g : g = run'[r] OBVIOUS
<1>1. CASE JobUser(r) /\ run'[r].at = "jobRoles"
  <2>1. OnlyRun /\ MappingsTo(g.user, Home) = {} BY <1>1, JobUserStep
  <2> PICK u : u = g.user OBVIOUS
  <2>2. MappingsTo(u, Home)' = {}
    BY <2>1, RolesUntouched, MappingsUntouched, SeenAgain DEF OnlyRun, tables
  <2> HIDE DEF MappingsTo
  <2> QED BY <1>1, <2>2 DEF Knows
<1>2. CASE JobRoles(r)
  <2>1. OnlyRun /\ g.at = "jobMapping" /\ g.user = f.user /\ f.at = "jobRoles"
        /\ (g.role # None => RolesIn(g.user, Home) = {})
    BY <1>2, JobRolesStep
  <2> PICK u : u = f.user OBVIOUS
  <2>2. u \in raced \/ MappingsTo(u, Home) = {} BY <2>1 DEF Known, Knows
  <2>3. raced' = raced /\ MappingsTo(u, Home)' = MappingsTo(u, Home)
        /\ RolesIn(u, Home)' = RolesIn(u, Home)
    BY <2>1, RolesUntouched, MappingsUntouched, SeenAgain DEF OnlyRun, tables, history
  <2>4. u \in raced' \/ MappingsTo(u, Home)' = {} BY <2>2, <2>3
  <2>5. g.role # None => RolesIn(u, Home)' = {} BY <2>1, <2>3
  <2> HIDE DEF MappingsTo, RolesIn
  <2> QED BY <2>1, <2>4, <2>5 DEF Knows
<1>3. CASE JobMapping(r) /\ run'[r].at = "jobRole"
  <2> PICK e : e = [user |-> run[r].user, tenant |-> Home, status |-> "active", quiet |-> FALSE, looked |-> TRUE]
    OBVIOUS
  <2>1. PICK m : Maps(r, m, e) BY <1>3, JobMappingIs
  <2>2. f.at = "jobMapping" /\ g.user = f.user /\ g.role = f.role
        /\ (g.at = IF f.role = None THEN "event" ELSE "jobRole")
    BY <1>3, JobMappingStep
  <2>3. f.role # None BY <1>3, <2>2
  <2> PICK u : u = f.user OBVIOUS
  <2>4. u \in raced \/ RolesIn(u, Home) = {} BY <2>2, <2>3 DEF Known, Knows
  <2>5. raced \subseteq raced' BY <2>1 DEF Maps, Writes
  <2>6. RolesIn(u, Home)' = RolesIn(u, Home)
    BY <2>1 DEF Maps, RolesIn, RolesOf, Present
  <2>7. m \in MappingsTo(u, Home)'
    <3>1. m \in MappingsOf(u)' /\ tenantRows'[m] = e BY <2>1, MapsIs
    <3>2. e.tenant = Home OBVIOUS
    <3> QED BY <3>1, <3>2 DEF MappingsTo
  <2>8. u \in raced' \/ RolesIn(u, Home)' = {} BY <2>4, <2>5, <2>6
  <2>9. MappingsTo(u, Home)' # {} BY <2>7
  <2> HIDE DEF MappingsTo, RolesIn
  <2> QED BY <1>3, <2>2, <2>8, <2>9 DEF Knows
<1> QED BY <1>1, <1>2, <1>3

LEMMA KnowsToDeleteUser ==
    ASSUME Types, Shapes, NEW r \in Requests, DeleteRows(r)
    PROVE  Knows(r)'
<1> PICK g : g = run'[r] OBVIOUS
<1>1. g.at = "deleteUser" /\ g.user = run[r].user BY DeleteRowsStep DEF Goes, Keeps
<1> PICK u : u = run[r].user OBVIOUS
<1>2. RolesOf(u)' = {}
  <2>1. roleRows' = [m \in RowIds |-> IF m \in RolesOf(u) THEN None ELSE roleRows[m]]
    BY DEF DeleteRows
  <2> QED BY <2>1 DEF RolesOf, Present
<1> HIDE DEF RolesOf
<1> QED BY <1>1, <1>2 DEF Knows

LEMMA KnownStay ==
    ASSUME Types, Shapes, Owned, Known, AllUsers, NEW r \in Requests,
           Reading(r) \/ Failing(r) \/ Writing(r)
    PROVE  Known'
<1>1. Knows(r)'
  <2>0. Arrives(r) BY ArrivesBy
  <2>1. CASE run'[r].at \notin KnowAts BY <2>1, KnowsNothing
  <2>2. CASE run'[r].at = "role" BY <2>0, <2>2, KnowsToRole
  <2>3. CASE run'[r].at = "saveRole" BY <2>0, <2>3, KnowsToSaveRole DEF Arrives
  <2>4. CASE run'[r].at = "saveMapping" BY <2>0, <2>4, KnowsToSaveMapping DEF Arrives
  <2>5. CASE run'[r].at = "saveStatus" BY <2>0, <2>5, KnowsToSaveStatus DEF Arrives
  <2>6. CASE run'[r].at = "insertRole" BY <2>0, <2>6, KnowsToInsertRole DEF Arrives
  <2>7. CASE run'[r].at \in {"jobRoles", "jobMapping", "jobRole"}
    BY <2>0, <2>7, KnowsOfJob DEF Arrives
  <2>8. CASE run'[r].at = "send" BY <2>0, <2>8, KnowsToSend DEF Arrives
  <2>9. CASE run'[r].at = "deleteUser" BY <2>0, <2>9, KnowsToDeleteUser DEF Arrives
  <2> QED BY <2>1, <2>2, <2>3, <2>4, <2>5, <2>6, <2>7, <2>8, <2>9 DEF KnowAts
<1> QED BY <1>1, OthersKnow DEF Known

-----------------------------------------------------------------------------
(* What holds of each user. *)

\* Who is excused stays so, but for what the request that steps excused itself.
LEMMA Excused ==
    ASSUME NEW r \in Requests, Only(r), NEW v
    PROVE  /\ \A t : Brought(v, t) => Brought(v, t)' \/ (run[r].user = v /\ Bringing(run[r], t))
           /\ \A t : Announced(v, t) => Announced(v, t)' \/ (run[r].user = v /\ Telling(run[r], t))
           /\ \A at : Serving(v, at) => Serving(v, at)' \/ (run[r].user = v /\ run[r].at = at)
<1>1. ASSUME NEW q \in Requests, q # r PROVE run'[q] = run[q] BY <1>1 DEF Only
<1>2. ASSUME NEW t, Brought(v, t) PROVE Brought(v, t)' \/ (run[r].user = v /\ Bringing(run[r], t))
  <2> PICK q \in Requests : run[q].user = v /\ Bringing(run[q], t) BY <1>2 DEF Brought
  <2>1. CASE q = r BY <2>1
  <2>2. CASE q # r BY <1>1, <2>2 DEF Brought, Bringing
  <2> QED BY <2>1, <2>2
<1>3. ASSUME NEW t, Announced(v, t)
      PROVE  Announced(v, t)' \/ (run[r].user = v /\ Telling(run[r], t))
  <2> PICK q \in Requests : run[q].user = v /\ Telling(run[q], t) BY <1>3 DEF Announced
  <2>1. CASE q = r BY <2>1
  <2>2. CASE q # r BY <1>1, <2>2 DEF Announced, Telling, About
  <2> QED BY <2>1, <2>2
<1>4. ASSUME NEW at, Serving(v, at) PROVE Serving(v, at)' \/ (run[r].user = v /\ run[r].at = at)
  BY <1>1, <1>4 DEF Serving
<1> QED BY <1>2, <1>3, <1>4

LEMMA Excuses ==
    ASSUME NEW r \in Requests, NEW v, run'[r].user = v
    PROVE  /\ \A t : Bringing(run[r], t)' => Brought(v, t)'
           /\ \A t : Telling(run[r], t)' => Announced(v, t)'
           /\ \A at : run'[r].at = at => Serving(v, at)'
BY DEF Brought, Announced, Serving

LEMMA UserKept ==
    ASSUME Types, Shapes, NEW r \in Requests, Reading(r) \/ Failing(r) \/ Writing(r),
           NEW v \in Users, Leaves(v), UserOK(v),
           \/ v \in failed'
           \/ /\ \A t : Brought(v, t) => Brought(v, t)' \/ MappingsTo(v, t) # {}
              /\ \A t : Announced(v, t) => Announced(v, t)' \/ MappingsTo(v, t) = {}
              /\ \A at \in {"deleteUser", "deleteRows", "jobRole"} :
                   Serving(v, at) => Serving(v, at)'
    PROVE  UserOK(v)'
<1>1. /\ RolesOf(v)' = RolesOf(v) /\ MappingsOf(v)' = MappingsOf(v)
      /\ \A t : RolesIn(v, t)' = RolesIn(v, t) /\ MappingsTo(v, t)' = MappingsTo(v, t)
      /\ \A t, p : Assigned(v, t, p)' <=> Assigned(v, t, p)
  BY SeenAgain DEF Leaves
<1>2. (\A m \in RolesOf(v) : roleRows'[m] = roleRows[m])
      /\ \A m \in MappingsOf(v) : tenantRows'[m] = tenantRows[m]
  BY DEF Leaves, SameRoles, SameMappings
<1>3. raced \subseteq raced' /\ failed \subseteq failed' /\ doubled \subseteq doubled'
  BY HistoryGrows
<1>4. UniqueRows(v)'
  BY <1>1, <1>2, <1>3 DEF UserOK, UniqueRows
<1>7. LookedOnce(v)'
  BY <1>1, <1>2, <1>3 DEF UserOK, LookedOnce
<1>5. CASE v \in failed' BY <1>4, <1>5, <1>7 DEF UserOK, GrantsOf, MappedRoles, ToldOf
<1>6. CASE v \notin failed'
  <2>1. GrantsOf(v)'
    BY <1>1, <1>3, <1>6 DEF UserOK, GrantsOf, Leaves, SameRest
  <2>2. MappedRoles(v)'
    BY <1>1, <1>2, <1>3, <1>6 DEF UserOK, MappedRoles
  <2>3. ToldOf(v)'
    <3> SUFFICES ASSUME v \notin raced' \cup failed' \cup doubled', NEW m \in MappingsOf(v)'
                 PROVE  \/ tenantRows'[m].quiet
                        \/ told'[<<v, tenantRows'[m].tenant>>] \in {tenantRows'[m].status, None}
                        \/ Announced(v, tenantRows[m].tenant)'
      BY DEF ToldOf
    <3> PICK t : t = tenantRows[m].tenant OBVIOUS
    <3>1. m \in MappingsOf(v) /\ tenantRows'[m] = tenantRows[m] BY <1>1, <1>2
    <3>2. \/ tenantRows[m].quiet \/ told[<<v, t>>] \in {tenantRows[m].status, None}
          \/ Announced(v, t)
      BY <1>3, <3>1 DEF UserOK, ToldOf
    <3>3. t \in Tenants BY <3>1 DEF MappingsOf, Present, Types, TenantRow
    <3>4. told'[<<v, t>>] = told[<<v, t>>] BY <3>3 DEF Leaves, SameRest
    <3>5. MappingsTo(v, t) # {} BY <3>1 DEF MappingsTo
    <3>6. Announced(v, t) => Announced(v, t)' BY <1>6, <3>5
    <3>7. Announced(v, t)' => Announced(v, tenantRows[m].tenant)'
      BY <3>1 DEF Announced, Telling
    <3> QED BY <3>1, <3>2, <3>4, <3>6, <3>7
  <2> QED BY <1>4, <1>7, <2>1, <2>2, <2>3 DEF UserOK
<1> QED BY <1>5, <1>6

\* Which steps leave a place where a request excuses its user.
LEMMA ReadingLeaves ==
    ASSUME Types, Shapes, NEW r \in Requests, Reading(r)
    PROVE  /\ run[r].at = "mapping" => FindMapping(r)
           /\ run[r].at = "pair" => FindPair(r)
           /\ run[r].at = "event" => ReadForEvent(r)
           /\ run[r].at \notin {"saveMapping", "deleteUser", "deleteRows", "jobRole", "send"}
<1>1. CASE \E o \in scenario.ops : Start(r, o) BY <1>1 DEF Start
<1>2. CASE \/ ValidateNew(r) \/ Validate(r) \/ HasRole(r) \/ FindAssigned(r)
           \/ FindRoleToDelete(r) \/ FindUser(r)
  BY <1>2, GoSteps
<1>3. CASE RolesDone(r) \/ LoopDone(r) BY <1>3, DoneSteps
<1>4. CASE FindRole(r) BY <1>4 DEF FindRole, Assigning
<1>5. CASE FindMapping(r) BY <1>5 DEF FindMapping, Assigning
<1>6. CASE FindPair(r) BY <1>6 DEF FindPair, Assigning
<1>7. CASE FindStatus(r) BY <1>7 DEF FindStatus, At
<1>8. CASE ReadForEvent(r) BY <1>8 DEF ReadForEvent
<1>9. CASE CheckRole(r) BY <1>9 DEF CheckRole, At
<1>10. CASE BulkFind(r) BY <1>10 DEF BulkFind, At
<1>11. CASE JobUser(r) BY <1>11 DEF JobUser, At
<1>12. CASE JobRoles(r) BY <1>12 DEF JobRoles, At
<1> QED
  BY <1>1, <1>2, <1>3, <1>4, <1>5, <1>6, <1>7, <1>8, <1>9, <1>10, <1>11, <1>12 DEF Reading

LEMMA ReadingUsers ==
    ASSUME Types, Shapes, NEW r \in Requests, Reading(r), NEW v \in Users, UserOK(v)
    PROVE  UserOK(v)'
<1>0. OnlyRun /\ Only(r) BY ReadingStep
<1>1. Leaves(v) BY <1>0, Untouched DEF OnlyRun, tables, history
<1> PICK f : f = run[r] OBVIOUS
<1> PICK g : g = run'[r] OBVIOUS
<1>2. ASSUME NEW t, Brought(v, t) PROVE Brought(v, t)' \/ MappingsTo(v, t) # {}
  <2>1. CASE f.user = v /\ Bringing(f, t)
    <3>1. f.at \in {"mapping", "pair", "saveMapping"} /\ Head(f.todo).tenant = t
      BY <2>1 DEF Bringing
    <3>2. FindMapping(r) \/ FindPair(r) BY <3>1, ReadingLeaves
    <3>3. CASE FindMapping(r)
      <4>1. g.at \in {"pair", "saveMapping"} /\ Keeps(f, g) BY <3>3, FindMappingStep
      <4>2. g.user = v /\ Bringing(g, t) BY <2>1, <3>1, <4>1 DEF Keeps, Bringing
      <4> QED BY <4>2, Excuses
    <3>4. CASE FindPair(r)
      <4>1. (Advances(f, g) /\ MappingsTo(f.user, t) # {}) \/ (g.at = "saveMapping" /\ Keeps(f, g))
        BY <3>1, <3>4, FindPairStep
      <4>2. CASE g.at = "saveMapping" /\ Keeps(f, g)
        <5>1. g.user = v /\ Bringing(g, t) BY <2>1, <3>1, <4>2 DEF Keeps, Bringing
        <5> QED BY <5>1, Excuses
      <4> QED BY <2>1, <4>1, <4>2
    <3> QED BY <3>2, <3>3, <3>4
  <2> QED BY <1>0, <1>2, <2>1, Excused
<1>3. ASSUME NEW t, Announced(v, t) PROVE Announced(v, t)' \/ MappingsTo(v, t) = {}
  <2>1. CASE f.user = v /\ Telling(f, t)
    <3>1. f.at = "event" /\ About(f) = t BY <2>1, ReadingLeaves DEF Telling
    <3>2. ReadForEvent(r) BY <3>1, ReadingLeaves
    <3>3. \/ MappingsTo(f.user, t) = {}
          \/ g.at = "send" /\ Keeps(f, g)
      BY <3>1, <3>2, ReadForEventStep
    <3>4. CASE g.at = "send" /\ Keeps(f, g)
      <4>1. g.user = v /\ Telling(g, t) BY <2>1, <3>1, <3>4 DEF Keeps, Telling, About
      <4> QED BY <4>1, Excuses
    <3> QED BY <2>1, <3>3, <3>4
  <2> QED BY <1>0, <1>3, <2>1, Excused
<1>4. ASSUME NEW at \in {"deleteUser", "deleteRows", "jobRole"}, Serving(v, at)
      PROVE  Serving(v, at)'
  BY <1>0, <1>4, Excused, ReadingLeaves
<1> QED BY <1>1, <1>2, <1>3, <1>4, UserKept

\* Who excuses its user has written something.
LEMMA ExcusersWrote ==
    ASSUME NEW f, Shape(f), ~f.wrote
    PROVE  /\ \A t : ~Bringing(f, t) /\ ~Telling(f, t)
           /\ f.at \notin {"deleteUser", "deleteRows", "jobRole"}
<1>1. f.at \notin {"mapping", "pair", "saveMapping", "event", "send", "jobRole",
                    "deleteRows", "deleteUser"}
  BY DEF Shape, Idle
<1> QED BY <1>1 DEF Bringing, Telling

LEMMA FailingUsers ==
    ASSUME Types, Shapes, NEW r \in Requests, Failing(r), NEW v \in Users, UserOK(v)
    PROVE  UserOK(v)'
<1>0. Fails(r) /\ Only(r) BY FailingStep
<1>1. Leaves(v) BY <1>0, Untouched DEF Fails, tables
<1>2. CASE v = run[r].user /\ run[r].wrote
  <2>1. v \in failed'
    <3>1. CASE NothingFound(r) \/ JobFails(r)
      BY <1>2, <3>1, FailureStep, MappingsAssumption DEF FailsWith
    <3>2. CASE ReadFails(r) BY <1>2, <3>2, ReadFailsStep
    <3>3. CASE SendFails(r) BY <1>2, <3>3, SendStep
    <3>4. CASE Abort(r) BY <1>2, <3>4, AbortStep
    <3> QED BY <3>1, <3>2, <3>3, <3>4 DEF Failing
  <2> QED BY <1>1, <2>1, UserKept
<1>3. CASE v # run[r].user \/ ~run[r].wrote
  <2>1. /\ \A t : ~(run[r].user = v /\ Bringing(run[r], t)) /\ ~(run[r].user = v /\ Telling(run[r], t))
        /\ \A at \in {"deleteUser", "deleteRows", "jobRole"} : ~(run[r].user = v /\ run[r].at = at)
    BY <1>3, ExcusersWrote DEF Shapes
  <2>2. /\ \A t : Brought(v, t) => Brought(v, t)'
        /\ \A t : Announced(v, t) => Announced(v, t)'
        /\ \A at \in {"deleteUser", "deleteRows", "jobRole"} : Serving(v, at) => Serving(v, at)'
    BY <1>0, <2>1, Excused
  <2> QED BY <1>1, <2>2, UserKept
<1> QED BY <1>2, <1>3

\* A request that is at none of the places that excuse.
LEMMA NoExcuse ==
    ASSUME Types, NEW r \in Requests, Only(r), NEW v,
           \/ v # run[r].user
           \/ run[r].at \notin {"mapping", "pair", "saveMapping", "event", "send", "jobRole",
                                "deleteRows", "deleteUser"}
    PROVE  /\ \A t : Brought(v, t) => Brought(v, t)'
           /\ \A t : Announced(v, t) => Announced(v, t)'
           /\ \A at \in {"deleteUser", "deleteRows", "jobRole"} : Serving(v, at) => Serving(v, at)'
<1>1. /\ \A t : ~(run[r].user = v /\ Bringing(run[r], t)) /\ ~(run[r].user = v /\ Telling(run[r], t))
      /\ \A at \in {"deleteUser", "deleteRows", "jobRole"} : ~(run[r].user = v /\ run[r].at = at)
  BY DEF Bringing, Telling
<1> QED BY <1>1, Excused

LEMMA ElsewhereUsers ==
    ASSUME Types, Shapes, Owned, NEW r \in Requests, Writing(r), ~DeleteRoleRows(r),
           NEW v \in Users, v # run[r].user, UserOK(v)
    PROVE  UserOK(v)'
BY Elsewhere, NoExcuse, UserKept, WritingStep

\* A role row is written: what has to be so for its user.
LEMMA PutRoleUser ==
    ASSUME Types, Shapes, Owned, NEW r \in Requests, Writing(r), NEW m, NEW e, Puts(r, m, e),
           NEW u \in Users, u = run[r].user, UserOK(u), u \notin raced',
           UNCHANGED doubled,
           "pair" \in e.checked => \A n \in RolesOf(u) \ {m} :
                ~(roleRows[n].tenant = e.tenant /\ roleRows[n].role = e.role),
           \A t \in Tenants, p \in Roles : <<u, t, p>> \in granted' =>
             \/ t = e.tenant /\ p = e.role
             \/ /\ <<u, t, p>> \in granted
                /\ roleRows[m] # None => ~(roleRows[m].tenant = t /\ roleRows[m].role = p),
           <<u, e.tenant, e.role>> \in granted' =>
             <<u, e.tenant, e.role>> \in granted \/ Brought(u, e.tenant)',
           e.hand \/ MappingsTo(u, e.tenant) # {} \/ Brought(u, e.tenant)',
           \A t : Brought(u, t) => Brought(u, t)',
           \A t : Announced(u, t) => Announced(u, t)',
           \A at \in {"deleteUser", "deleteRows"} : Serving(u, at) => Serving(u, at)',
           Serving(u, "jobRole") => Serving(u, "jobRole")' \/ (e.tenant = Home /\ e.role = Learner)
    PROVE  UserOK(u)'
<1>1. /\ roleRows[m] # None => roleRows[m].user = u
      /\ RolesOf(u)' = RolesOf(u) \cup {m}
      /\ roleRows'[m] = e
      /\ \A n \in RowIds \ {m} : roleRows'[n] = roleRows[n]
  BY PutsIs
<1>2. UNCHANGED <<tenantRows, told, failed>> BY DEF Puts
<1>3. /\ MappingsOf(u)' = MappingsOf(u) /\ \A t : MappingsTo(u, t)' = MappingsTo(u, t)
  BY <1>2 DEF MappingsTo, MappingsOf, Present
<1>4. raced \subseteq raced' /\ doubled \subseteq doubled' BY HistoryGrows
<1>5. \A n \in RolesOf(u) : n \in RowIds /\ roleRows[n] # None BY DEF RolesOf, Present
<1>6. m \in RowIds BY DEF Puts
<1>7. UniqueRows(u)' BY <1>2, <1>3, <1>4 DEF UserOK, UniqueRows
<1>14. LookedOnce(u)'
  <2>1. /\ \A k, n \in MappingsOf(u) :
             tenantRows[k].tenant = tenantRows[n].tenant /\ tenantRows[k].looked /\ tenantRows[n].looked
             => k = n
        /\ \A k, n \in RolesOf(u) :
             /\ roleRows[k].tenant = roleRows[n].tenant /\ roleRows[k].role = roleRows[n].role
             /\ "pair" \in roleRows[k].checked /\ "pair" \in roleRows[n].checked
             => k = n
    BY <1>4 DEF UserOK, LookedOnce
  <2>2. \A k, n \in MappingsOf(u)' :
          tenantRows'[k].tenant = tenantRows'[n].tenant /\ tenantRows'[k].looked /\ tenantRows'[n].looked
          => k = n
    BY <1>2, <1>3, <2>1
  <2>3. "pair" \in e.checked => \A n \in RolesOf(u) \ {m} :
          ~(roleRows'[n].tenant = e.tenant /\ roleRows'[n].role = e.role)
    BY <1>1, <1>5
  <2>4. ASSUME NEW k \in RolesOf(u)', NEW n \in RolesOf(u)',
               roleRows'[k].tenant = roleRows'[n].tenant /\ roleRows'[k].role = roleRows'[n].role,
               "pair" \in roleRows'[k].checked /\ "pair" \in roleRows'[n].checked
        PROVE  k = n
    <3>1. CASE k = m \/ n = m BY <1>1, <2>3, <2>4, <3>1
    <3>2. CASE k # m /\ n # m
      <4>1. k \in RolesOf(u) /\ n \in RolesOf(u) BY <1>1, <3>2
      <4>2. roleRows'[k] = roleRows[k] /\ roleRows'[n] = roleRows[n] BY <1>1, <1>5, <3>2, <4>1
      <4> QED BY <2>1, <2>4, <4>1, <4>2
    <3> QED BY <3>1, <3>2
  <2> QED BY <2>2, <2>4 DEF LookedOnce
<1>8. \A t, p : Assigned(u, t, p) =>
        \/ Assigned(u, t, p)'
        \/ roleRows[m] # None /\ roleRows[m].tenant = t /\ roleRows[m].role = p
  BY <1>1, <1>5 DEF Assigned, RolesIn
<1>9. Assigned(u, e.tenant, e.role)'
  BY <1>1 DEF Assigned, RolesIn
<1>10. GrantsOf(u)'
  <2> SUFFICES ASSUME u \notin failed', NEW t \in Tenants, NEW p \in Roles, <<u, t, p>> \in granted'
               PROVE  /\ \/ Assigned(u, t, p)' \/ Serving(u, "deleteUser")'
                         \/ (t = Home /\ p = Learner /\ Serving(u, "jobRole")')
                      /\ MappingsTo(u, t)' # {} \/ Brought(u, t)'
    BY DEF GrantsOf
  <2>1. u \notin raced \cup failed BY <1>2, <1>4
  <2>2. CASE <<u, t, p>> \in granted
    <3>1. /\ \/ Assigned(u, t, p) \/ Serving(u, "deleteUser")
             \/ (t = Home /\ p = Learner /\ Serving(u, "jobRole"))
          /\ MappingsTo(u, t) # {} \/ Brought(u, t)
      BY <2>1, <2>2 DEF UserOK, GrantsOf
    <3>2. MappingsTo(u, t)' # {} \/ Brought(u, t)' BY <1>3, <3>1
    <3>3. CASE t = e.tenant /\ p = e.role BY <1>9, <3>2, <3>3
    <3>4. CASE ~(t = e.tenant /\ p = e.role) BY <1>8, <3>1, <3>2, <3>4
    <3> QED BY <3>3, <3>4
  <2>3. CASE <<u, t, p>> \notin granted BY <1>9, <2>3
  <2> QED BY <2>2, <2>3
<1>11. MappedRoles(u)'
  <2> SUFFICES ASSUME u \notin failed', NEW n \in RolesOf(u)', roleRows'[n].tenant \notin Roots,
                      ~roleRows'[n].hand
               PROVE  \/ MappingsTo(u, roleRows[n].tenant)' # {} \/ Brought(u, roleRows[n].tenant)'
                      \/ Serving(u, "deleteRows")'
    BY DEF MappedRoles
  <2> PICK t : t = roleRows'[n].tenant OBVIOUS
  <2>0. (MappingsTo(u, t)' = MappingsTo(u, roleRows[n].tenant)')
        /\ (Brought(u, t)' <=> Brought(u, roleRows[n].tenant)')
    BY DEF MappingsTo, Brought, Bringing
  <2>1. CASE n = m BY <1>1, <1>3, <2>0, <2>1
  <2>2. CASE n # m
    <3>1. n \in RolesOf(u) /\ roleRows'[n] = roleRows[n] BY <1>1, <1>5, <2>2
    <3>2. MappingsTo(u, t) # {} \/ Brought(u, t) \/ Serving(u, "deleteRows")
      BY <1>2, <1>4, <3>1 DEF UserOK, MappedRoles
    <3> QED BY <1>3, <2>0, <3>2
  <2> QED BY <2>1, <2>2
<1>12. ToldOf(u)'
  BY <1>2, <1>3, <1>4 DEF UserOK, ToldOf
<1> QED BY <1>7, <1>10, <1>11, <1>12, <1>14 DEF UserOK

\* A mapping is written.
LEMMA PutMappingUser ==
    ASSUME Types, Shapes, Owned, NEW r \in Requests, Writing(r), NEW m, NEW e, Maps(r, m, e),
           NEW u \in Users, u = run[r].user, UserOK(u), u \notin raced',
           \/ u \in doubled'
           \/ \A n \in MappingsOf(u) \ {m} : tenantRows[n].tenant # e.tenant,
           e.looked => \A n \in MappingsOf(u) \ {m} :
                ~(tenantRows[n].tenant = e.tenant /\ tenantRows[n].looked),
           \A t \in Tenants, p \in Roles : <<u, t, p>> \in granted' =>
             \/ /\ <<u, t, p>> \in granted
                /\ tenantRows[m] # None /\ t # e.tenant => tenantRows[m].tenant # t
             \/ t = Home /\ e.tenant = Home /\ p = Learner /\ Serving(u, "jobRole")',
           tenantRows[m] # None => tenantRows[m].tenant \in Roots \cup {e.tenant},
           e.quiet \/ Announced(u, e.tenant)',
           \A t : Brought(u, t) => Brought(u, t)' \/ t = e.tenant,
           \A t : Announced(u, t) => Announced(u, t)',
           \A at \in {"deleteUser", "deleteRows", "jobRole"} : Serving(u, at) => Serving(u, at)'
    PROVE  UserOK(u)'
<1>1. /\ MappingsOf(u)' = MappingsOf(u) \cup {m}
      /\ tenantRows'[m] = e
      /\ \A n \in RowIds \ {m} : tenantRows'[n] = tenantRows[n]
  BY MapsIs
<1>2. UNCHANGED <<roleRows, told, failed>> BY DEF Maps
<1>3. RolesOf(u)' = RolesOf(u) /\ \A t, p : Assigned(u, t, p)' <=> Assigned(u, t, p)
  BY <1>2 DEF Assigned, RolesIn, RolesOf, Present
<1>4. raced \subseteq raced' /\ doubled \subseteq doubled' BY HistoryGrows
<1>5. \A n \in MappingsOf(u) : n \in RowIds /\ tenantRows[n] # None BY DEF MappingsOf, Present
<1>7. UniqueRows(u)'
  <2> SUFFICES ASSUME u \notin doubled' PROVE UniqueRows(u)' BY DEF UniqueRows
  <2>1. \A k, n \in MappingsOf(u) : tenantRows[k].tenant = tenantRows[n].tenant => k = n
    BY <1>4 DEF UserOK, UniqueRows
  <2>3. \A n \in MappingsOf(u) \ {m} : tenantRows'[n].tenant # e.tenant
    BY <1>1, <1>5
  <2>4. ASSUME NEW k \in MappingsOf(u)', NEW n \in MappingsOf(u)',
               tenantRows'[k].tenant = tenantRows'[n].tenant
        PROVE  k = n
    <3>1. CASE k = m \/ n = m BY <1>1, <2>3, <2>4, <3>1
    <3>2. CASE k # m /\ n # m
      <4>1. k \in MappingsOf(u) /\ n \in MappingsOf(u) BY <1>1, <3>2
      <4>2. tenantRows'[k] = tenantRows[k] /\ tenantRows'[n] = tenantRows[n]
        BY <1>1, <1>5, <3>2, <4>1
      <4> QED BY <2>1, <2>4, <4>1, <4>2
    <3> QED BY <3>1, <3>2
  <2> QED BY <2>4 DEF UniqueRows
<1>14. LookedOnce(u)'
  <2>1. /\ \A k, n \in MappingsOf(u) :
             tenantRows[k].tenant = tenantRows[n].tenant /\ tenantRows[k].looked /\ tenantRows[n].looked
             => k = n
        /\ \A k, n \in RolesOf(u) :
             /\ roleRows[k].tenant = roleRows[n].tenant /\ roleRows[k].role = roleRows[n].role
             /\ "pair" \in roleRows[k].checked /\ "pair" \in roleRows[n].checked
             => k = n
    BY <1>4 DEF UserOK, LookedOnce
  <2>2. \A k, n \in RolesOf(u)' :
          /\ roleRows'[k].tenant = roleRows'[n].tenant /\ roleRows'[k].role = roleRows'[n].role
          /\ "pair" \in roleRows'[k].checked /\ "pair" \in roleRows'[n].checked
          => k = n
    BY <1>2, <1>3, <2>1
  <2>3. e.looked => \A n \in MappingsOf(u) \ {m} :
          ~(tenantRows'[n].tenant = e.tenant /\ tenantRows'[n].looked)
    BY <1>1, <1>5
  <2>4. ASSUME NEW k \in MappingsOf(u)', NEW n \in MappingsOf(u)',
               tenantRows'[k].tenant = tenantRows'[n].tenant,
               tenantRows'[k].looked /\ tenantRows'[n].looked
        PROVE  k = n
    <3>1. CASE k = m \/ n = m BY <1>1, <2>3, <2>4, <3>1
    <3>2. CASE k # m /\ n # m
      <4>1. k \in MappingsOf(u) /\ n \in MappingsOf(u) BY <1>1, <3>2
      <4>2. tenantRows'[k] = tenantRows[k] /\ tenantRows'[n] = tenantRows[n]
        BY <1>1, <1>5, <3>2, <4>1
      <4> QED BY <2>1, <2>4, <4>1, <4>2
    <3> QED BY <3>1, <3>2
  <2> QED BY <2>2, <2>4 DEF LookedOnce
<1>8. \A t : MappingsTo(u, t) # {} =>
        \/ MappingsTo(u, t)' # {} \/ (tenantRows[m] # None /\ tenantRows[m].tenant = t)
  BY <1>1, <1>5 DEF MappingsTo
<1>9. MappingsTo(u, e.tenant)' # {}
  <2>1. m \in MappingsTo(u, e.tenant)' BY <1>1 DEF MappingsTo
  <2> QED BY <2>1
<1>10. GrantsOf(u)'
  <2> SUFFICES ASSUME u \notin failed', NEW t \in Tenants, NEW p \in Roles, <<u, t, p>> \in granted'
               PROVE  /\ \/ Assigned(u, t, p)' \/ Serving(u, "deleteUser")'
                         \/ (t = Home /\ p = Learner /\ Serving(u, "jobRole")')
                      /\ MappingsTo(u, t)' # {} \/ Brought(u, t)'
    BY DEF GrantsOf
  <2>1. u \notin raced \cup failed BY <1>2, <1>4
  <2>2. CASE /\ <<u, t, p>> \in granted
             /\ tenantRows[m] # None /\ t # e.tenant => tenantRows[m].tenant # t
    <3>1. /\ \/ Assigned(u, t, p) \/ Serving(u, "deleteUser")
             \/ (t = Home /\ p = Learner /\ Serving(u, "jobRole"))
          /\ MappingsTo(u, t) # {} \/ Brought(u, t)
      BY <2>1, <2>2 DEF UserOK, GrantsOf
    <3>2. \/ Assigned(u, t, p)' \/ Serving(u, "deleteUser")'
          \/ (t = Home /\ p = Learner /\ Serving(u, "jobRole")')
      BY <1>3, <3>1
    <3>3. CASE t = e.tenant BY <1>9, <3>2, <3>3
    <3>4. CASE t # e.tenant BY <1>8, <2>2, <3>1, <3>2, <3>4
    <3> QED BY <3>3, <3>4
  <2>3. CASE t = Home /\ e.tenant = Home /\ p = Learner /\ Serving(u, "jobRole")'
    BY <1>9, <2>3
  <2> QED BY <2>2, <2>3
<1>11. MappedRoles(u)'
  <2> SUFFICES ASSUME u \notin failed', NEW n \in RolesOf(u)', roleRows'[n].tenant \notin Roots,
                      ~roleRows'[n].hand
               PROVE  \/ MappingsTo(u, roleRows[n].tenant)' # {} \/ Brought(u, roleRows[n].tenant)'
                      \/ Serving(u, "deleteRows")'
    BY DEF MappedRoles
  <2> PICK t : t = roleRows'[n].tenant OBVIOUS
  <2>0. (MappingsTo(u, t)' = MappingsTo(u, roleRows[n].tenant)')
        /\ (Brought(u, t)' <=> Brought(u, roleRows[n].tenant)')
    BY DEF MappingsTo, Brought, Bringing
  <2>1. MappingsTo(u, t) # {} \/ Brought(u, t) \/ Serving(u, "deleteRows")
    BY <1>2, <1>3, <1>4 DEF UserOK, MappedRoles
  <2>2. CASE t = e.tenant BY <1>9, <2>0, <2>2
  <2>3. CASE t # e.tenant
    <3>1. tenantRows[m] # None => tenantRows[m].tenant # t BY <2>3
    <3> QED BY <1>8, <2>0, <2>1, <2>3, <3>1
  <2> QED BY <2>2, <2>3
<1>12. ToldOf(u)'
  <2> SUFFICES ASSUME u \notin failed' \cup doubled', NEW n \in MappingsOf(u)'
               PROVE  \/ tenantRows'[n].quiet
                      \/ told'[<<u, tenantRows'[n].tenant>>] \in {tenantRows'[n].status, None}
                      \/ Announced(u, tenantRows[n].tenant)'
    BY DEF ToldOf
  <2> PICK t : t = tenantRows'[n].tenant OBVIOUS
  <2>0. Announced(u, t)' <=> Announced(u, tenantRows[n].tenant)' BY DEF Announced, Telling
  <2>1. CASE n = m BY <1>1, <2>0, <2>1
  <2>2. CASE n # m
    <3>1. n \in MappingsOf(u) /\ tenantRows'[n] = tenantRows[n] BY <1>1, <1>5, <2>2
    <3>2. \/ tenantRows[n].quiet \/ told[<<u, t>>] \in {tenantRows[n].status, None}
          \/ Announced(u, t)
      BY <1>2, <1>4, <3>1 DEF UserOK, ToldOf
    <3> QED BY <1>2, <2>0, <3>1, <3>2
  <2> QED BY <2>1, <2>2
<1> QED BY <1>7, <1>10, <1>11, <1>12, <1>14 DEF UserOK

\* Role rows go, and what was granted with them.
LEMMA RemoveUser ==
    ASSUME Types, Shapes, NEW r \in Requests, Writing(r),
           NEW u \in Users, UserOK(u), SameMappings(u), UNCHANGED <<told, failed, doubled>>,
           \A n \in RowIds : roleRows'[n] = roleRows[n] \/ roleRows'[n] = None,
           granted' \subseteq granted,
           \A n \in RolesOf(u) : roleRows'[n] = roleRows[n] \/ Serving(u, "deleteUser")'
               \/ <<u, roleRows[n].tenant, roleRows[n].role>> \notin granted',
           \A t : Brought(u, t) => Brought(u, t)',
           \A t : Announced(u, t) => Announced(u, t)',
           Serving(u, "deleteRows") => Serving(u, "deleteRows")' \/ RolesOf(u)' = {},
           \A at \in {"deleteUser", "jobRole"} : Serving(u, at) => Serving(u, at)'
    PROVE  UserOK(u)'
<1>1. MappingsOf(u)' = MappingsOf(u) /\ (\A m \in MappingsOf(u) : tenantRows'[m] = tenantRows[m])
      /\ \A t : MappingsTo(u, t)' = MappingsTo(u, t)
  BY DEF SameMappings, MappingsTo
<1>2. raced \subseteq raced' BY HistoryGrows
<1>3. RolesOf(u)' \subseteq RolesOf(u) /\ \A n \in RolesOf(u)' : roleRows'[n] = roleRows[n]
  BY DEF RolesOf, Present
<1>4. UniqueRows(u)' BY <1>1, <1>2, <1>3 DEF UserOK, UniqueRows
<1>8. LookedOnce(u)' BY <1>1, <1>2, <1>3 DEF UserOK, LookedOnce
<1>5. GrantsOf(u)'
  <2> SUFFICES ASSUME u \notin raced' \cup failed', NEW t \in Tenants, NEW p \in Roles,
                      <<u, t, p>> \in granted'
               PROVE  /\ \/ Assigned(u, t, p)' \/ Serving(u, "deleteUser")'
                         \/ (t = Home /\ p = Learner /\ Serving(u, "jobRole")')
                      /\ MappingsTo(u, t)' # {} \/ Brought(u, t)'
    BY DEF GrantsOf
  <2>1. /\ \/ Assigned(u, t, p) \/ Serving(u, "deleteUser")
           \/ (t = Home /\ p = Learner /\ Serving(u, "jobRole"))
        /\ MappingsTo(u, t) # {} \/ Brought(u, t)
    BY <1>2 DEF UserOK, GrantsOf
  <2>2. CASE Assigned(u, t, p)
    <3>1. PICK n \in RolesOf(u) : roleRows[n].tenant = t /\ roleRows[n].role = p
      BY <2>2 DEF Assigned, RolesIn
    <3>2. roleRows'[n] = roleRows[n] \/ Serving(u, "deleteUser")' BY <3>1
    <3>3. CASE roleRows'[n] = roleRows[n]
      <4>1. n \in RolesOf(u)' BY <3>3 DEF RolesOf, Present
      <4>2. Assigned(u, t, p)' BY <3>1, <3>3, <4>1 DEF Assigned, RolesIn
      <4> QED BY <1>1, <2>1, <4>2
    <3> QED BY <1>1, <2>1, <3>2, <3>3
  <2> QED BY <1>1, <2>1, <2>2
<1>6. MappedRoles(u)'
  <2> SUFFICES ASSUME u \notin raced' \cup failed', NEW n \in RolesOf(u)',
                      roleRows'[n].tenant \notin Roots, ~roleRows'[n].hand
               PROVE  \/ MappingsTo(u, roleRows[n].tenant)' # {} \/ Brought(u, roleRows[n].tenant)'
                      \/ Serving(u, "deleteRows")'
    BY DEF MappedRoles
  <2> PICK t : t = roleRows'[n].tenant OBVIOUS
  <2>0. (MappingsTo(u, t)' = MappingsTo(u, roleRows[n].tenant)')
        /\ (Brought(u, t)' <=> Brought(u, roleRows[n].tenant)')
    BY DEF MappingsTo, Brought, Bringing
  <2>1. MappingsTo(u, t) # {} \/ Brought(u, t) \/ Serving(u, "deleteRows")
    BY <1>2, <1>3 DEF UserOK, MappedRoles
  <2> QED BY <1>1, <2>0, <2>1
<1>7. ToldOf(u)'
  <2> SUFFICES ASSUME u \notin raced' \cup failed' \cup doubled', NEW n \in MappingsOf(u)'
               PROVE  \/ tenantRows'[n].quiet
                      \/ told'[<<u, tenantRows'[n].tenant>>] \in {tenantRows'[n].status, None}
                      \/ Announced(u, tenantRows[n].tenant)'
    BY DEF ToldOf
  <2> PICK t : t = tenantRows'[n].tenant OBVIOUS
  <2>0. Announced(u, t)' <=> Announced(u, tenantRows[n].tenant)' BY DEF Announced, Telling
  <2>1. n \in MappingsOf(u) /\ tenantRows'[n] = tenantRows[n] BY <1>1
  <2>2. \/ tenantRows[n].quiet \/ told[<<u, t>>] \in {tenantRows[n].status, None}
        \/ Announced(u, t)
    BY <1>2, <2>1 DEF UserOK, ToldOf
  <2> QED BY <2>0, <2>1, <2>2
<1> QED BY <1>4, <1>5, <1>6, <1>7, <1>8 DEF UserOK

\* A request that knows, of a user without a race.
LEMMA KnownNow ==
    ASSUME Types, Shapes, Known, NEW r \in Requests, Writing(r), run[r].user \notin raced'
    PROVE  /\ run[r].user \notin raced
           /\ Knows(r)
BY HistoryGrows DEF Known

LEMMA SaveRoleUser ==
    ASSUME Types, Shapes, Owned, Known, NEW r \in Requests, SaveRole(r), NEW u \in Users,
           u = run[r].user, UserOK(u), u \notin raced'
    PROVE  UserOK(u)'
<1> PICK f : f = run[r] OBVIOUS
<1> PICK e : e = f.entity OBVIOUS
<1> PICK was : was = f.was OBVIOUS
<1>0. Writing(r) /\ Only(r) BY WritingStep DEF Writing, Putting
<1>1. PICK m \in RowIds : Puts(r, m, e) BY SaveRoleIs
<1>15. UNCHANGED doubled BY SaveRoleIs
<1>2. granted' = (granted \ IF was = None THEN {} ELSE {<<was.user, was.tenant, was.role>>})
                 \cup {<<e.user, e.tenant, e.role>>}
  BY SaveRoleIs
<1>3. f.at = "saveRole" /\ Shape(f) /\ f # Idle /\ f.op.name \in Assigns
  BY SaveRoleStep, AssigningIs DEF Assignings
<1>4. /\ e.user = u /\ e.tenant = Head(f.todo).tenant /\ e.role = Head(f.todo).role
      /\ (f.was = None <=> f.row = None) /\ (f.was # None => f.was.user = u)
      /\ ("pair" \in e.checked => f.looked)
  BY <1>3 DEF Shape
<1>5. u \notin raced /\ Knows(r) BY <1>0, KnownNow
<1>6. /\ f.looked => ~Assigned(u, e.tenant, e.role)
      /\ f.row # None => roleRows[f.row] = f.was
  BY <1>3, <1>4, <1>5 DEF Knows
<1>7. roleRows[m] # None => m = f.row
  BY <1>1, <1>3 DEF Puts
<1>8. "pair" \in e.checked => \A n \in RolesOf(u) \ {m} :
         ~(roleRows[n].tenant = e.tenant /\ roleRows[n].role = e.role)
  BY <1>4, <1>6 DEF Assigned, RolesIn
<1>9. \A t \in Tenants, p \in Roles : <<u, t, p>> \in granted' =>
         \/ t = e.tenant /\ p = e.role
         \/ /\ <<u, t, p>> \in granted
            /\ roleRows[m] # None => ~(roleRows[m].tenant = t /\ roleRows[m].role = p)
  <2> SUFFICES ASSUME NEW t \in Tenants, NEW p \in Roles, <<u, t, p>> \in granted',
                      ~(t = e.tenant /\ p = e.role)
               PROVE  /\ <<u, t, p>> \in granted
                      /\ roleRows[m] # None => ~(roleRows[m].tenant = t /\ roleRows[m].role = p)
    OBVIOUS
  <2>1. <<u, t, p>> # <<e.user, e.tenant, e.role>> OBVIOUS
  <2>2. /\ <<u, t, p>> \in granted
        /\ was # None => <<u, t, p>> # <<was.user, was.tenant, was.role>>
    BY <1>2, <2>1
  <2>3. ASSUME roleRows[m] # None PROVE ~(roleRows[m].tenant = t /\ roleRows[m].role = p)
    <3>1. m = f.row /\ roleRows[m] = was BY <1>1, <1>6, <1>7, <2>3, MappingsAssumption
    <3> QED BY <1>4, <2>2, <2>3, <3>1
  <2> QED BY <2>2, <2>3
<1>10. Brought(u, e.tenant)'
  <2>1. run'[r].at = "mapping" /\ run'[r].todo = f.todo /\ run'[r].user = u
    BY SaveRoleStep DEF Wrote
  <2>2. Bringing(run[r], e.tenant)' BY <1>4, <2>1 DEF Bringing
  <2> QED BY <2>1, <2>2, Excuses
<1>11. /\ \A t : Brought(u, t) => Brought(u, t)'
       /\ \A t : Announced(u, t) => Announced(u, t)'
       /\ \A at \in {"deleteUser", "deleteRows", "jobRole"} : Serving(u, at) => Serving(u, at)'
  BY <1>0, <1>3, NoExcuse
<1>12. <<u, e.tenant, e.role>> \in granted' =>
         <<u, e.tenant, e.role>> \in granted \/ Brought(u, e.tenant)'
  BY <1>10
<1>13. e.hand \/ MappingsTo(u, e.tenant) # {} \/ Brought(u, e.tenant)' BY <1>10
<1>14. /\ \A at \in {"deleteUser", "deleteRows"} : Serving(u, at) => Serving(u, at)'
       /\ Serving(u, "jobRole") => Serving(u, "jobRole")' \/ (e.tenant = Home /\ e.role = Learner)
  BY <1>11
<1> HIDE DEF Brought, Announced, Serving
<1> QED BY <1>0, <1>1, <1>8, <1>9, <1>11, <1>12, <1>13, <1>14, <1>15, PutRoleUser

LEMMA InsertRoleUser ==
    ASSUME Types, Shapes, Owned, Known, NEW r \in Requests, InsertRole(r), NEW u \in Users,
           u = run[r].user, UserOK(u), u \notin raced'
    PROVE  UserOK(u)'
<1> PICK e : e = [user |-> run[r].user, tenant |-> run[r].op.tenant, role |-> run[r].role,
                  hand |-> TRUE, checked |-> {"role", "pair"}]
  OBVIOUS
<1>0. Writing(r) /\ Only(r) BY WritingStep DEF Writing, Putting
<1>1. PICK m \in RowIds : Puts(r, m, e) BY InsertRoleIs
<1>2. granted' = granted /\ UNCHANGED doubled BY InsertRoleIs
<1>3. run[r].at = "insertRole" /\ Empty(run[r]) BY InsertRoleStep
<1>4. u \notin raced /\ Knows(r) BY <1>0, KnownNow
<1>5. \A n \in RolesOf(u) : roleRows[n].role # run[r].role BY <1>3, <1>4 DEF Knows
<1>6. e.role = run[r].role /\ e.hand OBVIOUS
<1>7. roleRows[m] = None BY <1>1, <1>3 DEF Puts
<1>8. /\ \A t : Brought(u, t) => Brought(u, t)'
      /\ \A t : Announced(u, t) => Announced(u, t)'
      /\ \A at \in {"deleteUser", "deleteRows", "jobRole"} : Serving(u, at) => Serving(u, at)'
  BY <1>0, <1>3, NoExcuse
<1>9. \A n \in RolesOf(u) \ {m} : ~(roleRows[n].tenant = e.tenant /\ roleRows[n].role = e.role)
  BY <1>5, <1>6
<1>10. \A t \in Tenants, p \in Roles : <<u, t, p>> \in granted' =>
         \/ t = e.tenant /\ p = e.role
         \/ /\ <<u, t, p>> \in granted
            /\ roleRows[m] # None => ~(roleRows[m].tenant = t /\ roleRows[m].role = p)
  BY <1>2, <1>7
<1>11. <<u, e.tenant, e.role>> \in granted' =>
         <<u, e.tenant, e.role>> \in granted \/ Brought(u, e.tenant)'
  BY <1>2
<1>12. e.hand \/ MappingsTo(u, e.tenant) # {} \/ Brought(u, e.tenant)' BY <1>6
<1>13. /\ \A at \in {"deleteUser", "deleteRows"} : Serving(u, at) => Serving(u, at)'
       /\ Serving(u, "jobRole") => Serving(u, "jobRole")' \/ (e.tenant = Home /\ e.role = Learner)
  BY <1>8
<1> HIDE DEF Brought, Announced, Serving
<1> QED BY <1>0, <1>1, <1>2, <1>8, <1>9, <1>10, <1>11, <1>12, <1>13, PutRoleUser

LEMMA JobRoleUser ==
    ASSUME Types, Shapes, Owned, Known, NEW r \in Requests, JobRole(r), NEW u \in Users,
           u = run[r].user, UserOK(u), u \notin raced'
    PROVE  UserOK(u)'
<1> PICK e : e = [user |-> run[r].user, tenant |-> Home, role |-> Learner,
                  hand |-> FALSE, checked |-> {"user", "pair"}]
  OBVIOUS
<1>0. Writing(r) /\ Only(r) BY WritingStep DEF Writing, Putting
<1>1. PICK m \in RowIds : Puts(r, m, e) BY JobRoleIs
<1>2. granted' = granted /\ UNCHANGED doubled BY JobRoleIs
<1>3. /\ run[r].at = "jobRole" /\ Empty(run[r]) /\ run[r].role = Learner
      /\ run[r].op.name = "mapPrathaUsersToTenant" /\ run'[r].op = run[r].op
      /\ run'[r].user = u /\ run'[r].at = "event"
  BY JobRoleStep
<1>4. u \notin raced /\ Knows(r) BY <1>0, KnownNow
<1>5. Learner # None BY MappingsAssumption
<1>6. RolesIn(u, Home) = {} /\ MappingsTo(u, Home) # {} BY <1>3, <1>4, <1>5 DEF Knows
<1>7. roleRows[m] = None BY <1>1, <1>3 DEF Puts
<1>8. e.tenant = Home /\ e.role = Learner OBVIOUS
<1>9. \A n \in RolesOf(u) \ {m} : ~(roleRows[n].tenant = e.tenant /\ roleRows[n].role = e.role)
  BY <1>6, <1>8 DEF RolesIn
<1>10. /\ \A t : Brought(u, t) => Brought(u, t)'
       /\ \A at \in {"deleteUser", "deleteRows"} : Serving(u, at) => Serving(u, at)'
  BY <1>0, <1>3, Excused DEF Bringing
<1>11. ASSUME NEW t, Announced(u, t) PROVE Announced(u, t)'
  <2>1. CASE Telling(run[r], t)
    <3>1. About(run[r]) = t BY <2>1 DEF Telling
    <3>2. Telling(run[r], t)' BY <1>3, <3>1 DEF Telling, About
    <3> QED BY <1>3, <3>2, Excuses
  <2> QED BY <1>0, <1>11, <2>1, Excused
<1>12. \A t \in Tenants, p \in Roles : <<u, t, p>> \in granted' =>
         \/ t = e.tenant /\ p = e.role
         \/ /\ <<u, t, p>> \in granted
            /\ roleRows[m] # None => ~(roleRows[m].tenant = t /\ roleRows[m].role = p)
  BY <1>2, <1>7
<1>13. <<u, e.tenant, e.role>> \in granted' =>
         <<u, e.tenant, e.role>> \in granted \/ Brought(u, e.tenant)'
  BY <1>2
<1>14. e.hand \/ MappingsTo(u, e.tenant) # {} \/ Brought(u, e.tenant)' BY <1>6, <1>8
<1>15. Serving(u, "jobRole") => Serving(u, "jobRole")' \/ (e.tenant = Home /\ e.role = Learner)
  BY <1>8
<1>16. \A t : Announced(u, t) => Announced(u, t)' BY <1>11
<1> HIDE DEF Brought, Announced, Serving
<1> QED BY <1>0, <1>1, <1>2, <1>9, <1>10, <1>12, <1>13, <1>14, <1>15, <1>16, PutRoleUser

\* What a request may go on to after the last of its assignments.
LEMMA AssignersAdvance ==
    ASSUME NEW f \in RunRow, NEW g, Shape(f), f # Idle, f.op.name \in Assigners, Advances(f, g)
    PROVE  /\ g = Idle \/ (g.at = "event" /\ Keeps(f, g))
           /\ f.op.name = "userTenantMapping" => g.at = "event" /\ Keeps(f, g)
<1>1. f.todo = f.op.todo /\ Len(f.op.todo) = 1 BY DEF Shape, Asked
<1>2. Len(f.todo) \in Nat BY HeadOfTodo DEF Assigns
<1>3. ~(Len(f.todo) > 1) BY <1>1, <1>2, MoreThanOne, Zenon
<1> QED BY <1>3 DEF Advances

LEMMA SaveMappingUser ==
    ASSUME Types, Shapes, Owned, Known, NEW r \in Requests, SaveMapping(r), NEW u \in Users,
           u = run[r].user, UserOK(u), u \notin raced'
    PROVE  UserOK(u)'
<1> PICK f : f = run[r] OBVIOUS
<1> PICK g : g = run'[r] OBVIOUS
<1> PICK e : e = f.entity OBVIOUS
<1> PICK was : was = f.was OBVIOUS
<1>0. Writing(r) /\ Only(r) BY WritingStep DEF Writing, Mapping
<1>1. PICK m \in RowIds :
        /\ Maps(r, m, e)
        /\ doubled' = IF /\ was # None \/ f.op.name \in Creators
                         /\ MappingsTo(e.user, e.tenant) \ {m} # {}
                      THEN doubled \cup {e.user} ELSE doubled
  BY SaveMappingIs
<1>2. granted' = {x \in granted : was = None \/ was.tenant = e.tenant
                                         \/ x[1] # e.user \/ x[2] # was.tenant}
  BY SaveMappingIs
<1>3. f.at = "saveMapping" /\ Shape(f) /\ f # Idle /\ f.op.name \in Assigns /\ f \in RunRow
      /\ Advances(f, g)
  BY SaveMappingStep, AssigningIs DEF Assignings
<1>4. /\ e.user = u /\ e.tenant = Head(f.todo).tenant
      /\ e.quiet = (f.op.name # "userTenantMapping")
      /\ f.was # None => f.row # None
      /\ f.was # None => f.was.user = u /\ f.was.tenant \in Roots
      /\ f.was # None => ~e.looked
  BY <1>3 DEF Shape
<1>5. u \notin raced /\ Knows(r) BY <1>0, KnownNow
<1>6. /\ f.was # None => f.row \in MappingsOf(u) /\ tenantRows[f.row] = f.was
      /\ f.was = None =>
            /\ f.row # None => f.row \in MappingsTo(u, e.tenant)
                                /\ (e.looked => tenantRows[f.row].looked)
            /\ f.row = None /\ e.looked => MappingsTo(u, e.tenant) = {}
            /\ f.op.name \in Assigners =>
                 MappingsTo(u, e.tenant) \subseteq {f.row} \/ u \in doubled
  BY <1>3, <1>5 DEF Knows
<1>7. tenantRows[m] # None => m = f.row
  BY <1>1, <1>3 DEF Maps
<1>8. f.row # None => m = f.row
  BY <1>1, <1>3 DEF Maps
<1>9. \/ u \in doubled'
      \/ \A n \in MappingsOf(u) \ {m} : tenantRows[n].tenant # e.tenant
  <2>1. CASE was # None \/ f.op.name \in Creators
    <3>1. CASE MappingsTo(e.user, e.tenant) \ {m} # {}
      BY <1>1, <1>4, <2>1, <3>1
    <3>2. CASE MappingsTo(e.user, e.tenant) \ {m} = {}
      BY <1>4, <3>2 DEF MappingsTo
    <3> QED BY <3>1, <3>2
  <2>2. CASE was = None /\ f.op.name \in Assigners
    <3>1. u \in doubled => u \in doubled' BY <1>0, HistoryGrows
    <3>2. CASE MappingsTo(u, e.tenant) \subseteq {f.row}
      <4>1. \A n \in MappingsOf(u) : n \in RowIds /\ n # None
        BY MappingsAssumption DEF MappingsOf, Present
      <4>2. ASSUME NEW n \in MappingsOf(u) \ {m}, tenantRows[n].tenant = e.tenant PROVE FALSE
        <5>1. n = f.row BY <3>2, <4>2 DEF MappingsTo
        <5> QED BY <1>8, <4>1, <4>2, <5>1
      <4> QED BY <4>2
    <3> QED BY <1>6, <2>2, <3>1, <3>2
  <2> QED BY <1>3, <2>1, <2>2 DEF Assigns
<1>14. e.looked => \A n \in MappingsOf(u) \ {m} :
         ~(tenantRows[n].tenant = e.tenant /\ tenantRows[n].looked)
  <2> SUFFICES ASSUME e.looked, NEW n \in MappingsOf(u) \ {m},
                      tenantRows[n].tenant = e.tenant, tenantRows[n].looked
               PROVE  FALSE
    OBVIOUS
  <2>1. was = None BY <1>4
  <2>2. n \in MappingsTo(u, e.tenant) BY DEF MappingsTo
  <2>3. f.row # None BY <1>6, <2>1, <2>2
  <2>4. m = f.row /\ m \in MappingsTo(u, e.tenant) /\ tenantRows[m].looked
    BY <1>6, <1>8, <2>1, <2>3
  <2>5. m \in MappingsOf(u) /\ tenantRows[m].tenant = e.tenant BY <2>4 DEF MappingsTo
  <2> QED BY <1>5, <2>4, <2>5 DEF UserOK, LookedOnce
<1>10. tenantRows[m] # None => tenantRows[m].tenant \in Roots \cup {e.tenant}
  BY <1>1, <1>4, <1>6, <1>7, MappingsAssumption DEF MappingsTo
<1>11. \A t \in Tenants, p \in Roles : <<u, t, p>> \in granted' =>
         /\ <<u, t, p>> \in granted
         /\ tenantRows[m] # None /\ t # e.tenant => tenantRows[m].tenant # t
  <2> SUFFICES ASSUME NEW t \in Tenants, NEW p \in Roles, <<u, t, p>> \in granted'
               PROVE  /\ <<u, t, p>> \in granted
                      /\ tenantRows[m] # None /\ t # e.tenant => tenantRows[m].tenant # t
    OBVIOUS
  <2>1. <<u, t, p>> \in granted /\ (was = None \/ was.tenant = e.tenant \/ t # was.tenant)
    BY <1>2, <1>4
  <2>2. ASSUME tenantRows[m] # None, t # e.tenant PROVE tenantRows[m].tenant # t
    <3>1. m = f.row /\ f.row # None BY <1>1, <1>7, <2>2, MappingsAssumption
    <3>2. CASE was # None BY <1>6, <2>1, <2>2, <3>1, <3>2
    <3>3. CASE was = None BY <1>6, <2>2, <3>1, <3>3 DEF MappingsTo
    <3> QED BY <3>2, <3>3
  <2> QED BY <2>1, <2>2
<1>12. e.quiet \/ Announced(u, e.tenant)'
  <2>1. CASE f.op.name = "userTenantMapping"
    <3>1. f.op.name \in Assigners BY <2>1 DEF Assigners
    <3>2. g.at = "event" /\ Keeps(f, g) BY <1>3, <2>1, <3>1, AssignersAdvance
    <3>3. g.user = u /\ Telling(g, e.tenant) BY <1>4, <2>1, <3>2 DEF Keeps, Telling, About
    <3> QED BY <3>3, Excuses
  <2> QED BY <1>4, <2>1
<1>13. /\ \A t : Brought(u, t) => Brought(u, t)' \/ t = e.tenant
       /\ \A t : Announced(u, t) => Announced(u, t)'
       /\ \A at \in {"deleteUser", "deleteRows", "jobRole"} : Serving(u, at) => Serving(u, at)'
  <2>1. \A t : /\ Bringing(f, t) => t = e.tenant
               /\ ~Telling(f, t)
    BY <1>3, <1>4 DEF Bringing, Telling
  <2> QED BY <1>0, <1>3, <2>1, Excused
<1> QED BY <1>0, <1>1, <1>9, <1>10, <1>11, <1>12, <1>13, <1>14, PutMappingUser

LEMMA SaveStatusUser ==
    ASSUME Types, Shapes, Owned, Known, NEW r \in Requests, SaveStatus(r), NEW u \in Users,
           u = run[r].user, UserOK(u), u \notin raced'
    PROVE  UserOK(u)'
<1> PICK f : f = run[r] OBVIOUS
<1> PICK g : g = run'[r] OBVIOUS
<1> PICK e : e = f.entity OBVIOUS
<1> PICK m : m = f.row OBVIOUS
<1>0. Writing(r) /\ Only(r) BY WritingStep DEF Writing, Mapping
<1>1. Maps(r, m, e) /\ granted' = granted /\ doubled' = doubled BY SaveStatusIs
<1>3. /\ f.at = "saveStatus" /\ f.op.name = "updateAssignTenantStatus" /\ e.tenant = f.op.tenant
      /\ g.at = "event" /\ g.op = f.op /\ g.user = u
  BY SaveStatusStep DEF Wrote
<1>5. u \notin raced /\ Knows(r) BY <1>0, KnownNow
<1>6. /\ m \in MappingsTo(u, e.tenant)
      /\ MappingsTo(u, e.tenant) \subseteq {m} \/ u \in doubled
      /\ e.looked => tenantRows[m].looked
  BY <1>3, <1>5 DEF Knows
<1>7. tenantRows[m].tenant = e.tenant BY <1>6 DEF MappingsTo
<1>9. u \in doubled' \/ \A n \in MappingsOf(u) \ {m} : tenantRows[n].tenant # e.tenant
  BY <1>1, <1>6 DEF MappingsTo
<1>10. e.looked => \A n \in MappingsOf(u) \ {m} :
         ~(tenantRows[n].tenant = e.tenant /\ tenantRows[n].looked)
  BY <1>5, <1>6 DEF UserOK, LookedOnce, MappingsTo
<1>12. Announced(u, e.tenant)'
  <2>1. Telling(run[r], e.tenant)' BY <1>3 DEF Telling, About
  <2> QED BY <1>3, <2>1, Excuses
<1>13. /\ \A t : Brought(u, t) => Brought(u, t)'
       /\ \A t : Announced(u, t) => Announced(u, t)'
       /\ \A at \in {"deleteUser", "deleteRows", "jobRole"} : Serving(u, at) => Serving(u, at)'
  BY <1>0, <1>3, NoExcuse
<1> HIDE DEF Brought, Announced, Serving
<1> QED BY <1>0, <1>1, <1>7, <1>9, <1>10, <1>12, <1>13, PutMappingUser

LEMMA JobMappingUser ==
    ASSUME Types, Shapes, Owned, Known, NEW r \in Requests, JobMapping(r), NEW u \in Users,
           u = run[r].user, UserOK(u), u \notin raced'
    PROVE  UserOK(u)'
<1> PICK f : f = run[r] OBVIOUS
<1> PICK g : g = run'[r] OBVIOUS
<1> PICK e : e = [user |-> run[r].user, tenant |-> Home, status |-> "active", quiet |-> FALSE, looked |-> TRUE]
  OBVIOUS
<1>0. Writing(r) /\ Only(r) BY WritingStep DEF Writing, Mapping
<1>1. PICK m \in RowIds : Maps(r, m, e) BY JobMappingIs
<1>2. /\ granted' = IF f.role = None THEN granted ELSE granted \cup {<<u, Home, Learner>>}
      /\ doubled' = doubled
  BY JobMappingIs
<1>3. /\ f.at = "jobMapping" /\ Empty(f) /\ g.op = f.op /\ f.op.name = "mapPrathaUsersToTenant"
      /\ g.user = u /\ (g.at = IF f.role = None THEN "event" ELSE "jobRole")
  BY JobMappingStep
<1>4. u \notin raced /\ Knows(r) BY <1>0, KnownNow
<1>5. MappingsTo(u, Home) = {} BY <1>3, <1>4 DEF Knows
<1>6. e.tenant = Home OBVIOUS
<1>7. tenantRows[m] = None BY <1>1, <1>3 DEF Maps
<1>8. \A n \in MappingsOf(u) \ {m} : tenantRows[n].tenant # e.tenant
  BY <1>5, <1>6 DEF MappingsTo
<1>9. f.role # None => Serving(u, "jobRole")' BY <1>3, Excuses
<1>10. \A t \in Tenants, p \in Roles : <<u, t, p>> \in granted' =>
         \/ <<u, t, p>> \in granted
         \/ t = Home /\ e.tenant = Home /\ p = Learner /\ Serving(u, "jobRole")'
  <2> HIDE DEF Serving
  <2> QED BY <1>2, <1>6, <1>9
<1>12. Announced(u, e.tenant)'
  <2>1. Telling(run[r], e.tenant)' BY <1>3, <1>6 DEF Telling, About
  <2> QED BY <1>3, <2>1, Excuses
<1>13. /\ \A t : Brought(u, t) => Brought(u, t)'
       /\ \A t : Announced(u, t) => Announced(u, t)'
       /\ \A at \in {"deleteUser", "deleteRows", "jobRole"} : Serving(u, at) => Serving(u, at)'
  BY <1>0, <1>3, NoExcuse
<1> HIDE DEF Brought, Announced, Serving
<1> QED BY <1>0, <1>1, <1>7, <1>8, <1>10, <1>12, <1>13, PutMappingUser

LEMMA SendUser ==
    ASSUME Types, Shapes, Known, NEW r \in Requests, Send(r), NEW u \in Users,
           u = run[r].user, UserOK(u), u \notin raced'
    PROVE  UserOK(u)'
<1> PICK f : f = run[r] OBVIOUS
<1>0. Writing(r) /\ Only(r) BY WritingStep DEF Writing
<1>1. f.at = "send" /\ Pair(r) = <<u, About(f)>> /\ About(f) \in Tenants
  BY SendStep, EventIs
<1>2. u \notin raced /\ Knows(r) BY <1>0, KnownNow
<1>3. u \in doubled \cup failed \/
        \A m \in MappingsTo(u, About(f)) : tenantRows[m].status = f.entity.status
  BY <1>1, <1>2 DEF Knows
<1>4. /\ UNCHANGED <<roleRows, tenantRows, granted, failed, doubled>>
      /\ told' = [told EXCEPT ![<<u, About(f)>>] = f.entity.status]
  BY <1>1 DEF Send, tables
<1>5. /\ \A t : Brought(u, t) => Brought(u, t)'
      /\ \A t : Announced(u, t) => Announced(u, t)' \/ t = About(f)
      /\ \A at \in {"deleteUser", "deleteRows", "jobRole"} : Serving(u, at) => Serving(u, at)'
  BY <1>0, <1>1, Excused DEF Bringing, Telling
<1>6. /\ RolesOf(u)' = RolesOf(u) /\ MappingsOf(u)' = MappingsOf(u)
      /\ \A t : MappingsTo(u, t)' = MappingsTo(u, t)
      /\ \A t, p : Assigned(u, t, p)' <=> Assigned(u, t, p)
  BY <1>4 DEF MappingsTo, MappingsOf, Assigned, RolesIn, RolesOf, Present
<1>7. UniqueRows(u)' BY <1>2, <1>4, <1>6 DEF UserOK, UniqueRows
<1>11. LookedOnce(u)' BY <1>2, <1>4, <1>6 DEF UserOK, LookedOnce
<1>8. GrantsOf(u)' BY <1>2, <1>4, <1>5, <1>6 DEF UserOK, GrantsOf
<1>9. MappedRoles(u)' BY <1>2, <1>4, <1>5, <1>6 DEF UserOK, MappedRoles
<1>10. ToldOf(u)'
  <2> SUFFICES ASSUME u \notin failed \cup doubled, NEW m \in MappingsOf(u)
               PROVE  \/ tenantRows[m].quiet
                      \/ told'[<<u, tenantRows[m].tenant>>] \in {tenantRows[m].status, None}
                      \/ Announced(u, tenantRows[m].tenant)'
    BY <1>4, <1>6 DEF ToldOf
  <2> PICK t : t = tenantRows[m].tenant OBVIOUS
  <2>0. Announced(u, t)' => Announced(u, tenantRows[m].tenant)'
    BY <1>4 DEF Announced, Telling
  <2>1. t \in Tenants /\ m \in MappingsTo(u, t)
    BY DEF MappingsTo, MappingsOf, Present, Types, TenantRow
  <2>2. CASE t = About(f)
    <3>1. tenantRows[m].status = f.entity.status BY <1>3, <2>1, <2>2
    <3>2. told'[<<u, t>>] = f.entity.status BY <1>4, <2>1, <2>2 DEF Types
    <3> QED BY <3>1, <3>2
  <2>3. CASE t # About(f)
    <3>1. told'[<<u, t>>] = told[<<u, t>>] BY <1>4, <2>1, <2>3 DEF Types
    <3>2. \/ tenantRows[m].quiet \/ told[<<u, t>>] \in {tenantRows[m].status, None}
          \/ Announced(u, t)
      BY <1>2 DEF UserOK, ToldOf
    <3> QED BY <1>5, <2>0, <2>3, <3>1, <3>2
  <2> QED BY <2>2, <2>3
<1> QED BY <1>7, <1>8, <1>9, <1>10, <1>11 DEF UserOK

LEMMA DeleteAssignedUser ==
    ASSUME Types, Shapes, NEW r \in Requests, DeleteAssigned(r), NEW u \in Users,
           u = run[r].user, UserOK(u)
    PROVE  UserOK(u)'
<1>0. Writing(r) /\ Only(r) BY WritingStep DEF Writing, Deleting
<1>1. run[r].at = "deleteRoles" BY DeletesStep
<1> PICK gone : gone = run[r].op.roles OBVIOUS
<1>2. /\ roleRows' = [m \in RowIds |-> IF m \in RolesOf(u) /\ roleRows[m].role \in gone
                                       THEN None ELSE roleRows[m]]
      /\ granted' = {g \in granted : g[1] # u \/ g[3] \notin gone}
      /\ UNCHANGED <<tenantRows, told, failed, doubled>>
  BY DEF DeleteAssigned
<1>3. /\ \A t : Brought(u, t) => Brought(u, t)'
      /\ \A t : Announced(u, t) => Announced(u, t)'
      /\ \A at \in {"deleteUser", "deleteRows", "jobRole"} : Serving(u, at) => Serving(u, at)'
  BY <1>0, <1>1, NoExcuse
<1>4. SameMappings(u) BY <1>2, MappingsUntouched
<1>5. \A n \in RolesOf(u) : \/ roleRows'[n] = roleRows[n]
                            \/ <<u, roleRows[n].tenant, roleRows[n].role>> \notin granted'
  BY <1>2 DEF RolesOf, Present
<1>6. granted' \subseteq granted /\ \A n \in RowIds : roleRows'[n] = roleRows[n] \/ roleRows'[n] = None
  BY <1>2
<1>7. /\ Serving(u, "deleteRows") => Serving(u, "deleteRows")'
      /\ \A at \in {"deleteUser", "jobRole"} : Serving(u, at) => Serving(u, at)'
  BY <1>3
<1> HIDE DEF Brought, Announced, Serving
<1> QED BY <1>0, <1>2, <1>3, <1>4, <1>5, <1>6, <1>7, RemoveUser

LEMMA DeleteRowsUser ==
    ASSUME Types, Shapes, NEW r \in Requests, DeleteRows(r), NEW u \in Users,
           u = run[r].user, UserOK(u)
    PROVE  UserOK(u)'
<1>0. Writing(r) /\ Only(r) BY WritingStep DEF Writing, Deleting
<1>1. run[r].at = "deleteRows" /\ run'[r].at = "deleteUser" /\ run'[r].user = u
  BY DeleteRowsStep DEF Goes, Keeps
<1>2. /\ roleRows' = [m \in RowIds |-> IF m \in RolesOf(u) THEN None ELSE roleRows[m]]
      /\ UNCHANGED <<tenantRows, told, granted, failed, doubled>>
  BY DEF DeleteRows
<1>3. /\ \A t : Brought(u, t) => Brought(u, t)'
      /\ \A t : Announced(u, t) => Announced(u, t)'
      /\ \A at \in {"deleteUser", "jobRole"} : Serving(u, at) => Serving(u, at)'
  BY <1>0, <1>1, Excused DEF Bringing, Telling
<1>4. Serving(u, "deleteUser")' BY <1>1, Excuses
<1>5. RolesOf(u)' = {} BY <1>2 DEF RolesOf, Present
<1>6. SameMappings(u) BY <1>2, MappingsUntouched
<1>7. granted' \subseteq granted /\ \A n \in RowIds : roleRows'[n] = roleRows[n] \/ roleRows'[n] = None
  BY <1>2
<1> HIDE DEF Brought, Announced, Serving
<1> QED BY <1>0, <1>2, <1>3, <1>4, <1>5, <1>6, <1>7, RemoveUser

LEMMA DeleteRoleRowsUser ==
    ASSUME Types, Shapes, NEW r \in Requests, DeleteRoleRows(r), NEW u \in Users, UserOK(u)
    PROVE  UserOK(u)'
<1>0. Writing(r) /\ Only(r) BY WritingStep DEF Writing, Deleting
<1>1. run[r].at = "rows" BY DEF DeleteRoleRows, At
<1> PICK gone : gone = run[r].op.roles OBVIOUS
<1>2. /\ roleRows' = [m \in RowIds |-> IF m \in Present(roleRows) /\ roleRows[m].role \in gone
                                       THEN None ELSE roleRows[m]]
      /\ granted' = {g \in granted : g[3] \notin gone}
      /\ UNCHANGED <<tenantRows, told, failed, doubled>>
  BY DEF DeleteRoleRows
<1>3. /\ \A t : Brought(u, t) => Brought(u, t)'
      /\ \A t : Announced(u, t) => Announced(u, t)'
      /\ \A at \in {"deleteUser", "deleteRows", "jobRole"} : Serving(u, at) => Serving(u, at)'
  BY <1>0, <1>1, NoExcuse
<1>4. SameMappings(u) BY <1>2, MappingsUntouched
<1>5. \A n \in RolesOf(u) : \/ roleRows'[n] = roleRows[n]
                            \/ <<u, roleRows[n].tenant, roleRows[n].role>> \notin granted'
  BY <1>2 DEF RolesOf, Present
<1>6. granted' \subseteq granted /\ \A n \in RowIds : roleRows'[n] = roleRows[n] \/ roleRows'[n] = None
  BY <1>2
<1>7. /\ Serving(u, "deleteRows") => Serving(u, "deleteRows")'
      /\ \A at \in {"deleteUser", "jobRole"} : Serving(u, at) => Serving(u, at)'
  BY <1>3
<1> HIDE DEF Brought, Announced, Serving
<1> QED BY <1>0, <1>2, <1>3, <1>4, <1>5, <1>6, <1>7, RemoveUser

LEMMA DeleteMappingsUser ==
    ASSUME Types, Shapes, NEW r \in Requests, DeleteMappings(r), NEW u \in Users,
           u = run[r].user, UserOK(u)
    PROVE  UserOK(u)'
<1>0. Writing(r) /\ Only(r) BY WritingStep DEF Writing, Deleting
<1>1. run'[r].at = "deleteRows" /\ run'[r].user = u BY DeleteMappingsStep DEF Wrote
<1>2. /\ tenantRows' = [m \in RowIds |-> IF m \in MappingsOf(u) THEN None ELSE tenantRows[m]]
      /\ granted' = {g \in granted : g[1] # u}
      /\ UNCHANGED <<roleRows, told, failed, doubled>>
  BY DEF DeleteMappings
<1>3. raced \subseteq raced' BY <1>0, HistoryGrows
<1>4. Serving(u, "deleteRows")' BY <1>1, Excuses
<1>5. MappingsOf(u)' = {} BY <1>2 DEF MappingsOf, Present
<1>6. RolesOf(u)' = RolesOf(u) BY <1>2 DEF RolesOf, Present
<1>7. UniqueRows(u)' BY <1>2, <1>3, <1>5, <1>6 DEF UserOK, UniqueRows
<1>12. LookedOnce(u)' BY <1>2, <1>3, <1>5, <1>6 DEF UserOK, LookedOnce
<1>8. \A t \in Tenants, p \in Roles : <<u, t, p>> \notin granted' BY <1>2
<1>9. GrantsOf(u)' BY <1>8 DEF GrantsOf
<1>10. MappedRoles(u)' BY <1>4 DEF MappedRoles
<1>11. ToldOf(u)' BY <1>5 DEF ToldOf
<1> QED BY <1>7, <1>9, <1>10, <1>11, <1>12 DEF UserOK

LEMMA DeleteUserUser ==
    ASSUME Types, Shapes, Known, NEW r \in Requests, DeleteUser(r), NEW u \in Users,
           u = run[r].user, UserOK(u), u \notin raced'
    PROVE  UserOK(u)'
<1>0. Writing(r) /\ Only(r) BY WritingStep DEF Writing, Deleting
<1>1. run[r].at = "deleteUser" BY DeletesStep
<1>2. u \notin raced /\ Knows(r) BY <1>0, KnownNow
<1>3. RolesOf(u) = {} BY <1>1, <1>2 DEF Knows
<1>4. /\ MappingsOf(u) = {} /\ UNCHANGED <<roleRows, tenantRows, told, granted, failed, doubled>>
      /\ \A q \in Requests \ {r} : run[q].user # u
  BY DEF DeleteUser
<1>5. /\ MappingsOf(u)' = {} /\ RolesOf(u)' = {}
  BY <1>3, <1>4 DEF MappingsOf, RolesOf, Present
<1>6. \A t : MappingsTo(u, t) = {} /\ ~Brought(u, t)
  BY <1>1, <1>4 DEF MappingsTo, Brought, Bringing
<1>7. GrantsOf(u)' BY <1>2, <1>4, <1>6 DEF UserOK, GrantsOf
<1>8. UniqueRows(u)' /\ LookedOnce(u)' /\ MappedRoles(u)' /\ ToldOf(u)'
  BY <1>5 DEF UniqueRows, LookedOnce, MappedRoles, ToldOf
<1> QED BY <1>7, <1>8 DEF UserOK

LEMMA BulkUpdateUser ==
    ASSUME Types, Shapes, NEW r \in Requests, BulkUpdate(r), NEW u \in Users,
           u = run[r].user, UserOK(u), u \notin raced'
    PROVE  UserOK(u)'
<1>0. Writing(r) /\ Only(r) BY WritingStep DEF Writing
<1> PICK t : t = run[r].op.tenant OBVIOUS
<1>1. run[r].at = "bulkSave" BY BulkUpdateStep
<1>2. /\ UNCHANGED <<tenantRows, told, failed, doubled>>
      /\ granted' = {g \in granted : g[1] # u \/ g[2] # t}
  BY DEF BulkUpdate
<1>3. /\ \A m \in RowIds : m \notin RolesIn(u, t) => roleRows'[m] = roleRows[m]
      /\ \A m \in RolesIn(u, t) :
           /\ roleRows'[m] # None /\ roleRows'[m].user = u /\ roleRows'[m].tenant = t
           /\ roleRows'[m].hand = roleRows[m].hand
           /\ "pair" \notin roleRows'[m].checked
  BY BulkUpdateIs
<1>4. raced \subseteq raced' /\ doubled \subseteq doubled' BY <1>0, HistoryGrows
<1>5. /\ \A v : Brought(u, v) => Brought(u, v)'
      /\ \A v : Announced(u, v) => Announced(u, v)'
      /\ \A at \in {"deleteUser", "deleteRows", "jobRole"} : Serving(u, at) => Serving(u, at)'
  BY <1>0, <1>1, NoExcuse
<1>6. /\ MappingsOf(u)' = MappingsOf(u) /\ \A v : MappingsTo(u, v)' = MappingsTo(u, v)
  BY <1>2 DEF MappingsTo, MappingsOf, Present
<1>7. RolesOf(u)' = RolesOf(u)
  BY <1>3 DEF RolesIn, RolesOf, Present
<1>8. \A n \in RolesOf(u) : /\ n \in RowIds
                            /\ roleRows'[n].tenant = roleRows[n].tenant
                            /\ roleRows'[n].hand = roleRows[n].hand
                            /\ roleRows[n].tenant # t => roleRows'[n] = roleRows[n]
                            /\ roleRows[n].tenant = t => n \in RolesIn(u, t)
                            /\ "pair" \in roleRows'[n].checked => roleRows'[n] = roleRows[n]
  BY <1>3 DEF RolesIn, RolesOf, Present
<1>9. UniqueRows(u)' BY <1>2, <1>4, <1>6 DEF UserOK, UniqueRows
<1>13. LookedOnce(u)' BY <1>2, <1>4, <1>6, <1>7, <1>8 DEF UserOK, LookedOnce
<1>10. GrantsOf(u)'
  <2> SUFFICES ASSUME u \notin failed', NEW v \in Tenants, NEW p \in Roles, <<u, v, p>> \in granted'
               PROVE  /\ \/ Assigned(u, v, p)' \/ Serving(u, "deleteUser")'
                         \/ (v = Home /\ p = Learner /\ Serving(u, "jobRole")')
                      /\ MappingsTo(u, v)' # {} \/ Brought(u, v)'
    BY DEF GrantsOf
  <2>1. <<u, v, p>> \in granted /\ v # t BY <1>2
  <2>2. /\ \/ Assigned(u, v, p) \/ Serving(u, "deleteUser")
           \/ (v = Home /\ p = Learner /\ Serving(u, "jobRole"))
        /\ MappingsTo(u, v) # {} \/ Brought(u, v)
    BY <1>2, <1>4, <2>1 DEF UserOK, GrantsOf
  <2>3. Assigned(u, v, p) => Assigned(u, v, p)'
    BY <1>7, <1>8, <2>1 DEF Assigned, RolesIn
  <2> HIDE DEF Assigned
  <2> QED BY <1>5, <1>6, <2>2, <2>3
<1>11. MappedRoles(u)'
  <2> SUFFICES ASSUME u \notin failed', NEW n \in RolesOf(u), roleRows'[n].tenant \notin Roots,
                      ~roleRows'[n].hand
               PROVE  \/ MappingsTo(u, roleRows[n].tenant)' # {} \/ Brought(u, roleRows[n].tenant)'
                      \/ Serving(u, "deleteRows")'
    BY <1>7 DEF MappedRoles
  <2> PICK v : v = roleRows'[n].tenant OBVIOUS
  <2>0. (MappingsTo(u, v)' = MappingsTo(u, roleRows[n].tenant)')
        /\ (Brought(u, v)' <=> Brought(u, roleRows[n].tenant)')
    BY DEF MappingsTo, Brought, Bringing
  <2>1. MappingsTo(u, v) # {} \/ Brought(u, v) \/ Serving(u, "deleteRows")
    BY <1>2, <1>4, <1>8 DEF UserOK, MappedRoles
  <2> QED BY <1>5, <1>6, <2>0, <2>1
<1>12. ToldOf(u)' BY <1>2, <1>4, <1>5, <1>6 DEF UserOK, ToldOf
<1> QED BY <1>9, <1>10, <1>11, <1>12, <1>13 DEF UserOK

LEMMA CreateUserUser ==
    ASSUME Types, Shapes, NEW r \in Requests, CreateUser(r), NEW u \in Users, UserOK(u)
    PROVE  UserOK(u)'
<1>0. Writing(r) /\ Only(r) BY WritingStep DEF Writing
<1>1. run[r].at = "create" BY DEF CreateUser
<1>2. Leaves(u) BY Untouched DEF CreateUser, history
<1> QED BY <1>0, <1>1, <1>2, NoExcuse, UserKept

\* Every step keeps what holds of the users.
LEMMA AllUsersStay ==
    ASSUME Types, Shapes, Owned, Known, AllUsers, NEW r \in Requests,
           Reading(r) \/ Failing(r) \/ Writing(r)
    PROVE  AllUsers'
<1> SUFFICES ASSUME NEW u \in Users PROVE UserOK(u)' BY DEF AllUsers
<1>0. UserOK(u) BY DEF AllUsers
<1>1. CASE Reading(r) BY <1>0, <1>1, ReadingUsers
<1>2. CASE Failing(r) BY <1>0, <1>2, FailingUsers
<1>3. CASE DeleteRoleRows(r) BY <1>0, <1>3, DeleteRoleRowsUser
<1>4. CASE Writing(r) /\ ~DeleteRoleRows(r) /\ u # run[r].user BY <1>0, <1>4, ElsewhereUsers
<1>5. CASE u \in raced' /\ u = run[r].user
  <2>1. UniqueRows(u)' /\ LookedOnce(u)' /\ GrantsOf(u)' /\ MappedRoles(u)' /\ ToldOf(u)'
    BY <1>5 DEF UniqueRows, LookedOnce, GrantsOf, MappedRoles, ToldOf
  <2> QED BY <2>1 DEF UserOK
<1>6. CASE Writing(r) /\ ~DeleteRoleRows(r) /\ u = run[r].user /\ u \notin raced'
  <2>1. CASE SaveRole(r) BY <1>0, <1>6, <2>1, SaveRoleUser
  <2>2. CASE InsertRole(r) BY <1>0, <1>6, <2>2, InsertRoleUser
  <2>3. CASE JobRole(r) BY <1>0, <1>6, <2>3, JobRoleUser
  <2>4. CASE SaveMapping(r) BY <1>0, <1>6, <2>4, SaveMappingUser
  <2>5. CASE SaveStatus(r) BY <1>0, <1>6, <2>5, SaveStatusUser
  <2>6. CASE JobMapping(r) BY <1>0, <1>6, <2>6, JobMappingUser
  <2>7. CASE DeleteAssigned(r) BY <1>0, <1>6, <2>7, DeleteAssignedUser
  <2>8. CASE DeleteUser(r) BY <1>0, <1>6, <2>8, DeleteUserUser
  <2>9. CASE DeleteMappings(r) BY <1>0, <1>6, <2>9, DeleteMappingsUser
  <2>10. CASE DeleteRows(r) BY <1>0, <1>6, <2>10, DeleteRowsUser
  <2>11. CASE CreateUser(r) BY <1>0, <2>11, CreateUserUser
  <2>12. CASE Send(r) BY <1>0, <1>6, <2>12, SendUser
  <2>13. CASE BulkUpdate(r) BY <1>0, <1>6, <2>13, BulkUpdateUser
  <2>14. CASE DeleteRole(r) BY <1>6, <2>14, DeleteRoleStep, MappingsAssumption
  <2> QED
    BY <1>6, <2>1, <2>2, <2>3, <2>4, <2>5, <2>6, <2>7, <2>8, <2>9, <2>10, <2>11, <2>12, <2>13, <2>14
       DEF Writing, Putting, Mapping, Deleting
<1> QED BY <1>1, <1>2, <1>3, <1>4, <1>5, <1>6

-----------------------------------------------------------------------------
(* What rows and requests refer to. *)

LEMMA StillThere ==
    ASSUME Types, Shapes, NEW r \in Requests, Reading(r) \/ Failing(r) \/ Writing(r)
    PROVE  /\ \A p \in roles \cup halfway :
                p \in roles' \cup halfway' \/ (DeleteRole(r) /\ p \in run[r].op.roles)
           /\ \A v \in users \cup raced \cup failed :
                v \in users' \cup raced' \cup failed' \/ (DeleteUser(r) /\ v = run[r].user)
<1>0. raced \subseteq raced' /\ failed \subseteq failed' /\ halfway \subseteq halfway'
  BY HistoryGrows
<1>1. CASE Reading(r) BY <1>0, <1>1, ReadingStep DEF OnlyRun, tables
<1>2. CASE Failing(r) BY <1>0, <1>2, FailingStep DEF Fails, tables
<1>3. CASE CreateUser(r) BY <1>0, <1>3 DEF CreateUser
<1>4. CASE DeleteRole(r)
  <2>1. roles' = roles \ run[r].op.roles /\ users' = users BY <1>4 DEF DeleteRole
  <2> HIDE DEF DeleteRole, DeleteUser
  <2> QED BY <1>0, <1>4, <2>1
<1>5. CASE DeleteUser(r)
  <2>1. roles' = roles /\ users' = users \ {run[r].user} BY <1>5 DEF DeleteUser
  <2> HIDE DEF DeleteRole, DeleteUser
  <2> QED BY <1>0, <1>5, <2>1
<1>6. CASE /\ Writing(r) /\ ~CreateUser(r) /\ ~DeleteRole(r) /\ ~DeleteUser(r)
  <2>1. roles' = roles /\ users' = users
    BY <1>6 DEF Writing, Putting, Mapping, Deleting, SaveRole, InsertRole, JobRole, SaveMapping,
                SaveStatus, JobMapping, DeleteAssigned, DeleteRoleRows, DeleteMappings, DeleteRows,
                Send, BulkUpdate, tables
  <2> QED BY <1>0, <2>1
<1> QED BY <1>1, <1>2, <1>3, <1>4, <1>5, <1>6

LEMMA UsedStays ==
    ASSUME Types, Shapes, NEW r \in Requests, Reading(r) \/ Failing(r) \/ Writing(r),
           NEW q \in Requests, NEW p \in roles \cup halfway, Uses(q, p)
    PROVE  p \in roles' \cup halfway'
<1>1. CASE DeleteRole(r) /\ p \in run[r].op.roles
  <2>1. p \in halfway' BY <1>1 DEF DeleteRole
  <2> QED BY <2>1
<1>2. CASE ~(DeleteRole(r) /\ p \in run[r].op.roles) BY <1>2, StillThere
<1> QED BY <1>1, <1>2

TodoThere(f) == \A i \in DOMAIN f.todo :
    Vouched(f.op, f.todo[i]) => f.todo[i].role \in roles \cup halfway

LEMMA TodoStays ==
    ASSUME Types, Shapes, NEW r \in Requests, Reading(r) \/ Failing(r) \/ Writing(r),
           NEW q \in Requests, run[q].at # "idle", run[q].op.name # "deleteRole",
           TodoThere(run[q]), NEW f, f = run[q]
    PROVE  TodoThere(f)'
<1> SUFFICES ASSUME NEW i \in DOMAIN f.todo, Vouched(f.op, f.todo[i])
             PROVE  f.todo[i].role \in roles' \cup halfway'
  BY DEF TodoThere, Vouched
<1>1. f.todo[i].role \in roles \cup halfway BY DEF TodoThere
<1>2. Uses(q, f.todo[i].role) BY DEF Uses
<1> QED BY <1>1, <1>2, UsedStays

LEMMA UserStays ==
    ASSUME Types, Shapes, NEW r \in Requests, Reading(r) \/ Failing(r) \/ Writing(r),
           NEW q \in Requests, ~(DeleteUser(r) /\ q = r), NEW v, run[q].user = v,
           v \in users \cup raced \cup failed
    PROVE  v \in users' \cup raced' \cup failed'
<1>1. CASE DeleteUser(r) /\ v = run[r].user
  <2>1. v \in raced' BY <1>1 DEF DeleteUser
  <2> QED BY <2>1
<1>2. CASE ~(DeleteUser(r) /\ v = run[r].user) BY <1>2, StillThere
<1> QED BY <1>1, <1>2

\* A request that is still assigning.
LEMMA AssignsIs ==
    ASSUME NEW f, Shape(f), f.at \in {"create"} \cup Assignings
    PROVE  /\ f # Idle /\ f.at # "idle" /\ f.op.name \in Assigns /\ f.op.name # "deleteRole"
           /\ f.at = "create" => f.op.name \in Creators
           /\ f.op.name \in Assigns => f.op.name = "handleExistingUser" \/ f.op.name = "handleNewUser"
                                        \/ f.op.name \in {"createUser", "userTenantMapping"}
<1>1. f # Idle /\ f.at # "idle" BY DEF Idle, Assignings
<1>2. f.op.name \in Assigns /\ (f.at = "create" => f.op.name \in Creators)
  BY <1>1 DEF Shape, Place, Assignings, Assigns, Creators, Assigners
<1> QED BY <1>1, <1>2 DEF Assigns, Creators, Assigners

LEMMA OthersLooked ==
    ASSUME Types, Shapes, Refers, NEW r \in Requests, Reading(r) \/ Failing(r) \/ Writing(r),
           NEW q \in Requests \ {r}
    PROVE  Looked(q)'
<1>0. run'[q] = run[q] BY TypesStay DEF Only
<1> PICK f : f = run[q] OBVIOUS
<1>1. Looked(q) /\ Shape(f) BY DEF Refers, Shapes
<1>2. ASSUME f.at \in {"create"} \cup Assignings PROVE TodoThere(f)'
  <2>1. TodoThere(f) BY <1>1, <1>2 DEF Looked, TodoThere
  <2> QED BY <1>1, <1>2, <2>1, TodoStays, AssignsIs
<1>3. ASSUME f.at = "insertRole" PROVE f.role \in roles' \cup halfway'
  <2>1. f.role \in roles \cup halfway BY <1>1, <1>3 DEF Looked
  <2>2. f.op.name = "createAssignRole" /\ f.role \in f.roles
    BY <1>1, <1>3 DEF Shape, Place, Idle, Assignings
  <2>3. Uses(q, f.role) BY <1>3, <2>2 DEF Uses
  <2> QED BY <2>1, <2>3, UsedStays
<1>4. ASSUME (f.at \in Assignings /\ f.op.name # "handleExistingUser") \/ f.at = "jobRole"
      PROVE  f.user \in users' \cup raced' \cup failed'
  <2>1. f.user \in users \cup raced \cup failed BY <1>1, <1>4 DEF Looked
  <2> QED BY <2>1, UserStays
<1>5. f.at = "saveRole" =>
         /\ "role" \in f.entity.checked => Vouched(f.op, Head(f.todo))
         /\ "user" \in f.entity.checked => f.op.name # "handleExistingUser"
  BY <1>1 DEF Looked
<1> QED BY <1>0, <1>2, <1>3, <1>4, <1>5 DEF Looked, TodoThere, Vouched

\* What the request that steps has looked up.
LEMMA LookedToCreate ==
    ASSUME Types, Shapes, NEW r \in Requests, ValidateNew(r), run'[r].at = "create",
           NEW g, g = run'[r]
    PROVE  TodoThere(g)'
<1> PICK f : f = run[r] OBVIOUS
<1>1. OnlyRun /\ run[r].at = "validate" /\ f.op.name \in Creators /\ scenario' = scenario
  BY DEF ValidateNew, OnlyRun, history
<1>2. ~End(r) BY <1>1, EndStep DEF Ends, Idle
<1>3. Goes(r, "create") BY <1>2, GoSteps DEF Ends, Idle, Goes, Asks, Enters
<1>4. g.op = f.op /\ g.todo = f.todo BY <1>3 DEF Goes, Keeps
<1>5. IF f.op.name = "handleNewUser" THEN f.todo[1].role \in roles
      ELSE \A i \in DOMAIN f.todo : f.todo[i].role \in roles
  BY <1>2 DEF ValidateNew
<1>6. f.op.name = "handleNewUser" => \A i \in DOMAIN f.todo : f.todo[i].update <=> i = 2
  BY <1>1 DEF Shapes, Shape, Idle, Asked
<1>7. f.op.name = "handleNewUser" => f.todo \in Seq(Assignment) /\ Len(f.todo) \in {1, 2}
  BY <1>1 DEF Shapes, Shape, Idle, Asked, Types, RunRow
<1>8. roles' = roles /\ halfway' = halfway BY <1>1 DEF OnlyRun, tables, history
<1>9. ASSUME NEW i \in DOMAIN f.todo, Vouched(f.op, f.todo[i])
      PROVE  f.todo[i].role \in roles
  <2>1. CASE f.op.name = "handleNewUser"
    <3>1. i # 2 BY <1>6, <1>9, <2>1 DEF Vouched
    <3>2. i \in 1..Len(f.todo) BY <1>7, <2>1
    <3>3. i = 1 BY <1>7, <2>1, <3>1, <3>2
    <3> QED BY <1>5, <2>1, <3>3
  <2>2. CASE f.op.name # "handleNewUser" BY <1>5, <2>2
  <2> QED BY <2>1, <2>2
<1> QED BY <1>4, <1>8, <1>9 DEF TodoThere, Vouched


LEMMA LookedAlong ==
    ASSUME Types, Shapes, Refers, NEW r \in Requests, Reading(r) \/ Failing(r) \/ Writing(r),
           NEW f, f = run[r], NEW g, g = run'[r], f.at \in {"create"} \cup Assignings,
           g.op = f.op, g.todo = f.todo
    PROVE  TodoThere(g)'
<1>1. Looked(r) /\ Shape(f) BY DEF Refers, Shapes
<1>2. TodoThere(f) BY <1>1 DEF Looked, TodoThere
<1>3. TodoThere(f)' BY <1>1, <1>2, TodoStays, AssignsIs
<1> QED BY <1>3 DEF TodoThere, Vouched

LEMMA LookedAhead ==
    ASSUME Types, Shapes, Refers, NEW r \in Requests, Reading(r) \/ Failing(r) \/ Writing(r),
           NEW f, f = run[r], NEW g, g = run'[r], f.at \in Assignings,
           g.op = f.op, g.todo = Tail(f.todo)
    PROVE  TodoThere(g)'
<1>1. TodoThere(f)'
  <2>1. Looked(r) /\ Shape(f) BY DEF Refers, Shapes
  <2>2. TodoThere(f) BY <2>1 DEF Looked, TodoThere
  <2> QED BY <2>1, <2>2, TodoStays, AssignsIs
<1>2. f.todo \in Seq(Assignment) /\ Len(f.todo) \in Nat /\ Len(f.todo) >= 1
  BY AssignsIs, HeadOfTodo DEF Shapes, Types
<1>3. \A i \in DOMAIN Tail(f.todo) : i + 1 \in DOMAIN f.todo /\ Tail(f.todo)[i] = f.todo[i + 1]
  <2>1. f.todo # <<>> BY <1>2
  <2> QED BY <1>2, <2>1
<1> QED BY <1>1, <1>3 DEF TodoThere, Vouched

LEMMA LookedToRole ==
    ASSUME Types, Shapes, Refers, NEW r \in Requests, Reading(r) \/ Failing(r) \/ Writing(r),
           NEW g, g = run'[r], g.at = "role"
    PROVE  /\ TodoThere(g)'
           /\ g.op.name # "handleExistingUser" => g.user \in users' \cup raced' \cup failed'
<1> PICK f : f = run[r] OBVIOUS
<1>0. Arrives(r) BY ArrivesBy
<1>1. CASE Asks(r) /\ Validate(r)
  <2>1. OnlyRun /\ f.op.name = "userTenantMapping" /\ f.at = "validate" /\ scenario' = scenario
    BY <1>1 DEF Validate, At, OnlyRun, history
  <2>2. ~End(r) BY <2>1, EndStep DEF Ends, Idle
  <2>3. f.user \in users /\ Head(f.todo).role \in roles BY <1>1, <2>2 DEF Validate
  <2>5. g.op = f.op /\ g.todo = f.todo /\ g.user = f.user BY <1>1 DEF Asks, Enters
  <2>6. f \in RunRow /\ Shape(f) /\ f # Idle /\ f.op.name \in Assigners
    BY <2>1 DEF Types, Shapes, Idle, Assigners
  <2>7. f.todo = f.op.todo /\ Len(f.op.todo) = 1 BY <2>6 DEF Shape, Asked
  <2>8. f.todo \in Seq(Assignment) /\ Head(f.todo) = f.todo[1]
    BY <2>6, HeadOfTodo DEF Assigns
  <2>9. \A i \in DOMAIN f.todo : f.todo[i].role \in roles BY <2>3, <2>7, <2>8
  <2>10. roles' = roles /\ users' = users BY <2>1 DEF OnlyRun, tables
  <2> QED BY <2>3, <2>5, <2>9, <2>10 DEF TodoThere
<1>2. CASE Asks(r) /\ HasRole(r)
  <2>1. f.op.name = "handleExistingUser" BY <1>2 DEF HasRole, At
  <2>3. g.op = f.op BY <1>2 DEF Asks, Enters
  <2>4. \A a : ~Vouched(g.op, a) BY <2>1, <2>3 DEF Vouched
  <2> QED BY <2>1, <2>3, <2>4 DEF TodoThere, Vouched
<1>3. CASE CreateUser(r)
  <2>1. f.at = "create" /\ g.op = f.op /\ g.todo = f.todo /\ g.user = f.user
    BY <1>3, CreateUserStep DEF Wrote
  <2>2. g.user \in users' BY <1>3, <2>1 DEF CreateUser
  <2> QED BY <2>1, <2>2, LookedAlong
<1>4. CASE (FindPair(r) \/ SaveMapping(r)) /\ Advances(f, g)
  <2>1. f.at \in {"pair", "saveMapping"} BY <1>4 DEF FindPair, SaveMapping, Assigning
  <2>2. g.op = f.op /\ g.todo = Tail(f.todo) /\ g.user = f.user BY <1>4 DEF Advances, Idle
  <2>3. TodoThere(g)' BY <2>1, <2>2, LookedAhead DEF Assignings
  <2>4. f.op.name # "handleExistingUser" => f.user \in users \cup raced \cup failed
    BY <2>1 DEF Refers, Looked, Assignings
  <2>5. ~DeleteUser(r) BY <2>1 DEF DeleteUser, At
  <2> QED BY <2>2, <2>3, <2>4, <2>5, UserStays
<1> QED BY <1>0, <1>1, <1>2, <1>3, <1>4 DEF Arrives, Asks

\* A request in the middle of an assignment.
LEMMA LookedWithin ==
    ASSUME Types, Shapes, Refers, NEW r \in Requests, Reading(r) \/ Failing(r) \/ Writing(r),
           NEW g, g = run'[r], g.at \in Assignings \ {"role"}
    PROVE  /\ TodoThere(g)'
           /\ g.op.name # "handleExistingUser" => g.user \in users' \cup raced' \cup failed'
<1> PICK f : f = run[r] OBVIOUS
<1>0. Arrives(r) BY ArrivesBy
<1>1. /\ f.at \in Assignings /\ g.op = f.op /\ g.todo = f.todo /\ g.user = f.user
  <2>1. CASE FindRole(r) BY <2>1, FindRoleStep DEF Keeps, Assigning, Assignings
  <2>2. CASE SaveRole(r) BY <2>2, SaveRoleStep DEF Wrote, Assigning, Assignings
  <2>3. CASE FindMapping(r) BY <2>3, FindMappingStep DEF Keeps, Assigning, Assignings
  <2>4. CASE FindPair(r) /\ g.at = "saveMapping"
    <3>1. ~Advances(f, g) BY <2>4 DEF Advances, Idle
    <3> QED BY <2>4, <3>1, FindPairStep DEF Keeps, Assigning, Assignings
  <2> QED BY <1>0, <2>1, <2>2, <2>3, <2>4 DEF Arrives, Assignings
<1>2. TodoThere(g)' BY <1>1, LookedAlong
<1>3. f.op.name # "handleExistingUser" => f.user \in users \cup raced \cup failed
  BY <1>1 DEF Refers, Looked
<1>4. ~DeleteUser(r) BY <1>1 DEF DeleteUser, At, Assignings
<1> QED BY <1>1, <1>2, <1>3, <1>4, UserStays

LEMMA LookedAgain ==
    ASSUME Types, Shapes, Refers, NEW r \in Requests, Reading(r) \/ Failing(r) \/ Writing(r)
    PROVE  Looked(r)'
<1> PICK f : f = run[r] OBVIOUS
<1> PICK g : g = run'[r] OBVIOUS
<1>0. Arrives(r) BY ArrivesBy
<1>1. ASSUME g.at \in {"create"} \cup Assignings PROVE TodoThere(g)'
  <2>1. CASE g.at = "create" BY <1>0, <2>1, LookedToCreate DEF Arrives
  <2>2. CASE g.at = "role" BY <2>2, LookedToRole
  <2>3. CASE g.at \in Assignings \ {"role"} BY <2>3, LookedWithin
  <2> QED BY <1>1, <2>1, <2>2, <2>3
<1>2. ASSUME g.at = "insertRole" PROVE g.role \in roles' \cup halfway'
  <2>1. CheckRole(r) BY <1>0, <1>2 DEF Arrives
  <2>2. g.role \in roles /\ OnlyRun BY <1>2, <2>1, CheckRoleStep
  <2> QED BY <2>2 DEF OnlyRun, tables
<1>3. ASSUME (g.at \in Assignings /\ g.op.name # "handleExistingUser") \/ g.at = "jobRole"
      PROVE  g.user \in users' \cup raced' \cup failed'
  <2>1. CASE g.at = "role" BY <1>3, <2>1, LookedToRole
  <2>2. CASE g.at \in Assignings \ {"role"} BY <1>3, <2>2, LookedWithin DEF Assignings
  <2>3. CASE g.at = "jobRole"
    <3>1. JobMapping(r) BY <1>0, <2>3 DEF Arrives
    <3>2. g.user = f.user BY <3>1, JobMappingStep
    <3>3. f.user \in users /\ users' = users BY <3>1 DEF JobMapping
    <3> QED BY <3>2, <3>3
  <2> QED BY <1>3, <2>1, <2>2, <2>3
<1>4. ASSUME g.at = "saveRole"
      PROVE  /\ "role" \in g.entity.checked => Vouched(g.op, Head(g.todo))
             /\ "user" \in g.entity.checked => g.op.name # "handleExistingUser"
  <2>1. FindRole(r) BY <1>0, <1>4 DEF Arrives
  <2>2. g.entity = NewRole(r, Head(f.todo)) /\ g.op = f.op /\ g.todo = f.todo
        /\ Assigning(r, "role")
    BY <2>1, FindRoleStep DEF Keeps
  <2>3. Head(f.todo) \in Assignment /\ f.user \in Users /\ f.op.name \in Assigns
    BY <2>2, AssigningIs DEF Assignings
  <2>4. /\ "role" \in g.entity.checked => f.op.name # "handleExistingUser"
                /\ (f.op.name # "handleNewUser" \/ ~Head(f.todo).update)
        /\ "user" \in g.entity.checked => f.op.name # "handleExistingUser"
    BY <2>2, <2>3, NewRoleIs
  <2> QED BY <2>2, <2>3, <2>4 DEF Vouched, Assigns, Creators, Assigners
<1> QED BY <1>1, <1>2, <1>3, <1>4 DEF Looked, TodoThere

\* The row that is written.
LEMMA PutRefers ==
    ASSUME Types, Shapes, Owned, Refers, NEW r \in Requests, Putting(r)
    PROVE  \E m, e :
             /\ Puts(r, m, e)
             /\ "role" \in e.checked => e.role \in roles \cup halfway
             /\ "user" \in e.checked => e.user \in users \cup raced \cup failed
<1> PICK f : f = run[r] OBVIOUS
<1>0. Looked(r) BY DEF Refers
<1>1. CASE SaveRole(r)
  <2> PICK e : e = f.entity OBVIOUS
  <2>1. \E m : Puts(r, m, e) BY <1>1, SaveRoleIs
  <2>2. f.at = "saveRole" /\ Shape(f) /\ f # Idle /\ f \in RunRow /\ f.op.name \in Assigns
    BY <1>1, SaveRoleStep, AssigningIs DEF Assignings
  <2>3. e.user = f.user /\ e.role = Head(f.todo).role BY <2>2 DEF Shape
  <2>4. Head(f.todo) = f.todo[1] /\ f.todo \in Seq(Assignment) /\ Len(f.todo) >= 1 /\ Len(f.todo) \in Nat
    BY <2>2, HeadOfTodo
  <2>5. 1 \in DOMAIN f.todo BY <2>4
  <2>6. Vouched(f.op, Head(f.todo)) => Head(f.todo).role \in roles \cup halfway
    BY <1>0, <2>2, <2>4, <2>5 DEF Looked, Assignings
  <2>7. "role" \in e.checked => e.role \in roles \cup halfway
    BY <1>0, <2>2, <2>3, <2>6 DEF Looked
  <2>8. "user" \in e.checked => e.user \in users \cup raced \cup failed
    BY <1>0, <2>2, <2>3 DEF Looked, Assignings
  <2> QED BY <2>1, <2>7, <2>8
<1>2. CASE InsertRole(r)
  <2> PICK e : e = [user |-> run[r].user, tenant |-> run[r].op.tenant, role |-> run[r].role,
                  hand |-> TRUE, checked |-> {"role", "pair"}]
    OBVIOUS
  <2>1. \E m : Puts(r, m, e) BY <1>2, InsertRoleIs
  <2>2. e.role = f.role /\ e.checked = {"role", "pair"} OBVIOUS
  <2>3. f.at = "insertRole" BY <1>2, InsertRoleStep
  <2>4. f.role \in roles \cup halfway BY <1>0, <2>3 DEF Looked
  <2> QED BY <2>1, <2>2, <2>4
<1>3. CASE JobRole(r)
  <2> PICK e : e = [user |-> run[r].user, tenant |-> Home, role |-> Learner,
                  hand |-> FALSE, checked |-> {"user", "pair"}]
    OBVIOUS
  <2>1. \E m : Puts(r, m, e) BY <1>3, JobRoleIs
  <2>2. e.user = f.user /\ e.checked = {"user", "pair"} OBVIOUS
  <2>3. f.at = "jobRole" BY <1>3, JobRoleStep
  <2>4. f.user \in users \cup raced \cup failed BY <1>0, <2>3 DEF Looked
  <2> QED BY <2>1, <2>2, <2>4
<1> QED BY <1>1, <1>2, <1>3 DEF Putting

\* A row is as before, is written, or has a role that nobody looked up.
LEMMA RowComes ==
    ASSUME Types, Shapes, Owned, Refers, NEW r \in Requests, Reading(r) \/ Failing(r) \/ Writing(r),
           NEW m \in RowIds, roleRows'[m] # None
    PROVE  \/ roleRows[m] # None /\ roleRows'[m] = roleRows[m]
           \/ /\ Putting(r)
              /\ "role" \in roleRows'[m].checked => roleRows'[m].role \in roles \cup halfway
              /\ "user" \in roleRows'[m].checked => roleRows'[m].user \in users \cup raced \cup failed
           \/ /\ BulkUpdate(r) /\ roleRows[m] # None
              /\ "role" \notin roleRows'[m].checked
              /\ roleRows'[m].checked \subseteq roleRows[m].checked
              /\ roleRows'[m].user = roleRows[m].user
<1>0. CASE roleRows' = roleRows BY <1>0
<1>1. CASE Reading(r) BY <1>0, <1>1, ReadingStep DEF OnlyRun, tables
<1>2. CASE Failing(r) BY <1>0, <1>2, FailingStep DEF Fails, tables
<1>3. CASE Putting(r)
  <2>1. PICK n, e : /\ Puts(r, n, e)
                    /\ "role" \in e.checked => e.role \in roles \cup halfway
                    /\ "user" \in e.checked => e.user \in users \cup raced \cup failed
    BY <1>3, PutRefers
  <2>2. roleRows'[n] = e /\ \A k \in RowIds \ {n} : roleRows'[k] = roleRows[k]
    <3> PICK u : u = run[r].user OBVIOUS
    <3> QED BY <2>1, PutsIs
  <2>3. CASE m = n
    <3>1. roleRows'[m] = e BY <2>2, <2>3
    <3> HIDE DEF Putting, BulkUpdate
    <3> QED BY <1>3, <2>1, <3>1
  <2>4. CASE m # n BY <2>2, <2>4
  <2> QED BY <2>3, <2>4
<1>4. CASE Deleting(r)
  <2>1. roleRows'[m] = roleRows[m]
    BY <1>4 DEF Deleting, DeleteAssigned, DeleteRoleRows, DeleteUser, DeleteMappings, DeleteRows
  <2> QED BY <2>1
<1>5. CASE BulkUpdate(r)
  <2>1. CASE m \in RolesIn(run[r].user, run[r].op.tenant)
    BY <1>5, <2>1, BulkUpdateIs DEF RolesIn, RolesOf, Present
  <2>2. CASE m \notin RolesIn(run[r].user, run[r].op.tenant)
    BY <1>5, <2>2, BulkUpdateIs
  <2> QED BY <2>1, <2>2
<1>6. CASE Mapping(r) \/ CreateUser(r) \/ Send(r) \/ DeleteRole(r)
  BY <1>0, <1>6 DEF Mapping, SaveMapping, SaveStatus, JobMapping, CreateUser, Send, DeleteRole, tables
<1> QED BY <1>1, <1>2, <1>3, <1>4, <1>5, <1>6 DEF Writing

\* The deletion of a role goes on until its rows are gone, or is given up.
LEMMA RowsLeft ==
    ASSUME Types, Shapes, NEW r \in Requests, Reading(r) \/ Failing(r) \/ Writing(r),
           At(r, "deleteRole", "rows")
    PROVE  DeleteRoleRows(r) \/ run[r].op.roles \subseteq halfway'
<1>1. run[r].at = "rows" BY DEF At
<1>2. ~Reading(r)
  <2>1. ~\E o \in scenario.ops : Start(r, o) BY <1>1 DEF Start
  <2> QED
    BY <1>1, <2>1, GoSteps, DoneSteps
       DEF Reading, FindRole, FindMapping, FindPair, FindStatus, ReadForEvent, CheckRole, BulkFind,
           JobUser, JobRoles, Assigning, At
<1>3. CASE Failing(r)
  <2>1. Abort(r) BY <1>1, <1>3 DEF Failing, NothingFound, JobFails, ReadFails, SendFails, Assigning
  <2> QED BY <2>1, AbortStep
<1>4. CASE Writing(r)
  BY <1>1, <1>4
     DEF Writing, Putting, Mapping, Deleting, SaveRole, InsertRole, JobRole, SaveMapping, SaveStatus,
         JobMapping, DeleteAssigned, DeleteUser, DeleteMappings, DeleteRows, CreateUser, Send,
         BulkUpdate, DeleteRole, Assigning, At
<1> QED BY <1>2, <1>3, <1>4

LEMMA RowsStillRefer ==
    ASSUME Types, Shapes, Owned, Known, Refers, NEW r \in Requests,
           Reading(r) \/ Failing(r) \/ Writing(r), NEW m \in Present(roleRows)'
    PROVE  RowRefers(m)'
<1>0. m \in RowIds /\ roleRows'[m] # None BY DEF Present
<1> PICK row : row = roleRows'[m] OBVIOUS
<1>1. halfway \subseteq halfway' /\ raced \subseteq raced' /\ failed \subseteq failed' BY HistoryGrows
<1>2. \A q \in Requests \ {r} : run'[q] = run[q] BY TypesStay DEF Only
<1>3. CASE roleRows[m] # None /\ roleRows'[m] = roleRows[m]
  <2>1. m \in Present(roleRows) BY <1>0, <1>3 DEF Present
  <2>2. RowRefers(m) BY <2>1 DEF Refers
  <2>3. \/ row.role \in roles' \cup halfway' \/ "role" \notin row.checked
        \/ \E q \in Requests : /\ run'[q].op.name = "deleteRole" /\ run'[q].at = "rows"
                               /\ row.role \in run'[q].op.roles
    <3>1. CASE row.role \in roles \cup halfway
      <4>1. CASE DeleteRole(r) /\ row.role \in run[r].op.roles
        <5>1. run'[r].at = "rows" /\ run'[r].op = run[r].op /\ run[r].op.name = "deleteRole"
          BY <4>1, DeleteRoleStep DEF Goes, Keeps
        <5> QED BY <4>1, <5>1
      <4>2. CASE ~(DeleteRole(r) /\ row.role \in run[r].op.roles)
        BY <3>1, <4>2, StillThere
      <4> QED BY <4>1, <4>2
    <3>2. CASE \E q \in Requests : At(q, "deleteRole", "rows") /\ row.role \in run[q].op.roles
      <4> PICK q \in Requests : At(q, "deleteRole", "rows") /\ row.role \in run[q].op.roles
        BY <3>2
      <4>1. CASE q # r BY <1>2, <4>1 DEF At
      <4>2. CASE q = r
        <5>1. ~DeleteRoleRows(r) BY <1>0, <1>3, <2>1, <4>2 DEF DeleteRoleRows
        <5>2. row.role \in halfway' BY <4>2, <5>1, RowsLeft
        <5> QED BY <5>2
      <4> QED BY <4>1, <4>2
    <3> QED BY <1>3, <2>2, <3>1, <3>2 DEF RowRefers
  <2>4. row.user \in users' \cup raced' \cup failed' \/ "user" \notin row.checked
    <3>1. CASE DeleteUser(r) /\ row.user = run[r].user
      <4>1. run[r].at = "deleteUser" BY <3>1, DeletesStep
      <4>2. run[r].user \in raced \/ RolesOf(run[r].user) = {} BY <4>1 DEF Known, Knows
      <4>3. m \in RolesOf(run[r].user) BY <1>3, <2>1, <3>1 DEF RolesOf
      <4> QED BY <1>1, <3>1, <4>2, <4>3
    <3>2. CASE ~(DeleteUser(r) /\ row.user = run[r].user)
      BY <1>3, <2>2, <3>2, StillThere DEF RowRefers
    <3> QED BY <3>1, <3>2
  <2> QED BY <2>3, <2>4 DEF RowRefers, At
<1>4. CASE /\ Putting(r)
           /\ "role" \in row.checked => row.role \in roles \cup halfway
           /\ "user" \in row.checked => row.user \in users \cup raced \cup failed
  <2>1. roles' = roles /\ users' = users
    BY <1>4 DEF Putting, SaveRole, InsertRole, JobRole
  <2> QED BY <1>1, <1>4, <2>1 DEF RowRefers
<1>5. CASE /\ BulkUpdate(r) /\ roleRows[m] # None /\ "role" \notin row.checked
           /\ row.checked \subseteq roleRows[m].checked /\ row.user = roleRows[m].user
  <2>1. m \in Present(roleRows) BY <1>0, <1>5 DEF Present
  <2>2. RowRefers(m) BY <2>1 DEF Refers
  <2>3. users' = users BY <1>5 DEF BulkUpdate
  <2> QED BY <1>1, <1>5, <2>2, <2>3 DEF RowRefers
<1> QED BY <1>0, <1>3, <1>4, <1>5, RowComes

LEMMA RefersStay ==
    ASSUME Types, Shapes, Owned, Known, Refers, NEW r \in Requests,
           Reading(r) \/ Failing(r) \/ Writing(r)
    PROVE  Refers'
BY RowsStillRefer, LookedAgain, OthersLooked DEF Refers

-----------------------------------------------------------------------------
(* The invariant holds at first, and always. *)

\* No two where there is not more than one.
LEMMA AtMostOne ==
    ASSUME NEW S, IsFiniteSet(S), ~(Cardinality(S) > 1), NEW k \in S, NEW n \in S
    PROVE  k = n
<1>1. Cardinality(S) \in Nat BY FS_CardinalityType
<1>2. S # {} OBVIOUS
<1>3. Cardinality(S) # 0 BY <1>2, FS_EmptySet
<1>4. Cardinality(S) = 1 BY <1>1, <1>3
<1> QED BY <1>4, FS_Singleton

LEMMA FirstRows ==
    ASSUME Init
    PROVE  \E f \in [RowIds -> scenario.start \cup {None}] :
        /\ \A t \in scenario.start : \E m \in RowIds : f[m] = t
        /\ \A m, n \in RowIds : f[m] # None /\ f[m] = f[n] => m = n
        /\ \A m \in RowIds : f[m] = None => roleRows[m] = None /\ tenantRows[m] = None
        /\ \A m \in RowIds : f[m] # None =>
             /\ f[m] \in scenario.start
             /\ roleRows[m] = [user |-> f[m][1], tenant |-> f[m][2], role |-> f[m][3],
                               hand |-> FALSE, checked |-> {"user", "role", "pair"}]
             /\ tenantRows[m] = [user |-> f[m][1], tenant |-> f[m][2], status |-> "active",
                                 quiet |-> FALSE, looked |-> TRUE]
        /\ DOMAIN roleRows = RowIds /\ DOMAIN tenantRows = RowIds
        /\ roleRows = [m \in RowIds |-> roleRows[m]] /\ tenantRows = [m \in RowIds |-> tenantRows[m]]
<1>1. PICK f \in Numbered(scenario.start) :
        /\ roleRows = [m \in RowIds |-> IF f[m] = None THEN None ELSE
              [user |-> f[m][1], tenant |-> f[m][2], role |-> f[m][3],
               hand |-> FALSE, checked |-> {"user", "role", "pair"}]]
        /\ tenantRows = [m \in RowIds |-> IF f[m] = None THEN None ELSE
              [user |-> f[m][1], tenant |-> f[m][2], status |-> "active", quiet |-> FALSE, looked |-> TRUE]]
  BY DEF Init
<1>2. f \in [RowIds -> scenario.start \cup {None}]
      /\ \A t \in scenario.start : Cardinality({m \in RowIds : f[m] = t}) = 1
  BY DEF Numbered
<1>3. \A t : IsFiniteSet({m \in RowIds : f[m] = t})
  BY MappingsAssumption, FS_Subset
<1>4. ASSUME NEW t \in scenario.start PROVE \E m \in RowIds : f[m] = t
  <2>1. Cardinality({m \in RowIds : f[m] = t}) = 1 BY <1>2
  <2>2. {m \in RowIds : f[m] = t} # {} BY <2>1, FS_EmptySet
  <2> QED BY <2>2
<1>5. ASSUME NEW m \in RowIds, NEW n \in RowIds, f[m] # None, f[m] = f[n] PROVE m = n
  <2>1. f[m] \in scenario.start BY <1>2, <1>5
  <2> DEFINE S == {k \in RowIds : f[k] = f[m]}
  <2>2. Cardinality(S) = 1 /\ IsFiniteSet(S) BY <1>2, <1>3, <2>1
  <2>3. m \in S /\ n \in S BY <1>5
  <2> HIDE DEF S
  <2> QED BY <2>2, <2>3, AtMostOne
<1>6. \A m \in RowIds : f[m] # None => f[m] \in scenario.start BY <1>2
<1> QED BY <1>1, <1>2, <1>4, <1>5, <1>6

\* The two rows of a triple.
LEMMA FirstRow ==
    ASSUME NEW t \in Users \X Tenants \X Roles,
           NEW e, e = [user |-> t[1], tenant |-> t[2], role |-> t[3], hand |-> FALSE,
                       checked |-> {"user", "role", "pair"}],
           NEW d, d = [user |-> t[1], tenant |-> t[2], status |-> "active", quiet |-> FALSE, looked |-> TRUE]
    PROVE  /\ e \in RoleRow /\ e # None /\ e.user = t[1] /\ e.tenant = t[2] /\ e.role = t[3]
           /\ d \in TenantRow /\ d # None /\ d.user = t[1] /\ d.tenant = t[2]
<1>1. t[1] \in Users /\ t[2] \in Tenants /\ t[3] \in Roles OBVIOUS
<1>2. {"user", "role", "pair"} \in SUBSET {"user", "role", "pair"} /\ "active" \in Statuses
      /\ FALSE \in BOOLEAN /\ TRUE \in BOOLEAN
  BY DEF Statuses
<1> PICK u \in Users, v \in Tenants, p \in Roles : u = t[1] /\ v = t[2] /\ p = t[3] BY <1>1
<1>3. e \in RoleRow /\ e.user = u /\ e.tenant = v /\ e.role = p BY <1>2 DEF RoleRow
<1>4. d \in TenantRow /\ d.user = u /\ d.tenant = v BY <1>2 DEF TenantRow
<1>5. e # None /\ d # None BY <1>3, <1>4, MappingsAssumption
<1> QED BY <1>3, <1>4, <1>5

LEMMA FirstTypes ==
    ASSUME Init
    PROVE  Types /\ Shapes /\ Owned /\ Known
<1>1. /\ scenario \in Scenarios /\ users = {t[1] : t \in scenario.start} /\ roles = Roles
      /\ told = [p \in Users \X Tenants |-> None] /\ run = [r \in Requests |-> Idle]
      /\ granted = scenario.start
      /\ raced = {} /\ failed = {} /\ doubled = {} /\ halfway = {}
  BY DEF Init
<1>2. scenario.start \subseteq Users \X Tenants \X Roles BY <1>1, MappingsAssumption
<1>3. roleRows \in [RowIds -> RoleRow \cup {None}] /\ tenantRows \in [RowIds -> TenantRow \cup {None}]
  <2>1. PICK f \in [RowIds -> scenario.start \cup {None}] :
        /\ \A m \in RowIds : f[m] = None => roleRows[m] = None /\ tenantRows[m] = None
        /\ \A m \in RowIds : f[m] # None =>
             /\ f[m] \in scenario.start
             /\ roleRows[m] = [user |-> f[m][1], tenant |-> f[m][2], role |-> f[m][3],
                               hand |-> FALSE, checked |-> {"user", "role", "pair"}]
             /\ tenantRows[m] = [user |-> f[m][1], tenant |-> f[m][2], status |-> "active",
                                 quiet |-> FALSE, looked |-> TRUE]
        /\ roleRows = [m \in RowIds |-> roleRows[m]] /\ tenantRows = [m \in RowIds |-> tenantRows[m]]
    BY FirstRows
  <2>2. ASSUME NEW m \in RowIds, f[m] # None
        PROVE  roleRows[m] \in RoleRow /\ tenantRows[m] \in TenantRow
    <3>1. f[m] \in Users \X Tenants \X Roles BY <1>2, <2>1, <2>2
    <3> QED BY <2>1, <2>2, <3>1, FirstRow
  <2>3. \A m \in RowIds : roleRows[m] \in RoleRow \cup {None} /\ tenantRows[m] \in TenantRow \cup {None}
    BY <2>1, <2>2
  <2> QED BY <2>1, <2>3
<1>4. users \subseteq Users
  <2>1. \A t \in Users \X Tenants \X Roles : t[1] \in Users OBVIOUS
  <2> QED BY <1>1, <1>2, <2>1
<1>5. told \in [Users \X Tenants -> Statuses \cup {None}] BY <1>1
<1>6. run \in [Requests -> RunRow] BY <1>1, IdleRow
<1>7. Types BY <1>1, <1>2, <1>3, <1>4, <1>5, <1>6 DEF Types
<1>8. \A q \in Requests : run[q] = Idle /\ run[q].at = "idle" BY <1>1 DEF Idle
<1>9. Shapes BY <1>8 DEF Shapes, Shape
<1>10. Owned BY <1>8 DEF Owned, OwnedRole, OwnedMapping
<1>11. Known BY <1>8 DEF Known, Knows
<1> QED BY <1>7, <1>9, <1>10, <1>11

LEMMA FirstUsers ==
    ASSUME Init
    PROVE  AllUsers /\ Refers
<1>1. /\ scenario \in Scenarios /\ users = {t[1] : t \in scenario.start} /\ roles = Roles
      /\ told = [p \in Users \X Tenants |-> None] /\ granted = scenario.start
  BY DEF Init
<1>2. /\ scenario.start \subseteq Users \X Tenants \X Roles
      /\ \A x, y \in scenario.start : x[1] = y[1] /\ x[2] = y[2] => x = y
  BY <1>1, MappingsAssumption
<1>3. PICK f \in [RowIds -> scenario.start \cup {None}] :
        /\ \A t \in scenario.start : \E m \in RowIds : f[m] = t
        /\ \A m, n \in RowIds : f[m] # None /\ f[m] = f[n] => m = n
        /\ \A m \in RowIds : f[m] = None => roleRows[m] = None /\ tenantRows[m] = None
        /\ \A m \in RowIds : f[m] # None =>
             /\ f[m] \in scenario.start
             /\ roleRows[m] = [user |-> f[m][1], tenant |-> f[m][2], role |-> f[m][3],
                               hand |-> FALSE, checked |-> {"user", "role", "pair"}]
             /\ tenantRows[m] = [user |-> f[m][1], tenant |-> f[m][2], status |-> "active",
                                 quiet |-> FALSE, looked |-> TRUE]
  BY FirstRows
<1>9. ASSUME NEW m \in RowIds, f[m] # None
      PROVE  /\ roleRows[m] # None /\ tenantRows[m] # None
             /\ roleRows[m].user = f[m][1] /\ roleRows[m].tenant = f[m][2]
             /\ roleRows[m].role = f[m][3]
             /\ tenantRows[m].user = f[m][1] /\ tenantRows[m].tenant = f[m][2]
  <2>1. f[m] \in Users \X Tenants \X Roles BY <1>2, <1>3, <1>9
  <2> PICK t \in Users \X Tenants \X Roles : t = f[m] BY <2>1
  <2>2. /\ roleRows[m] = [user |-> t[1], tenant |-> t[2], role |-> t[3], hand |-> FALSE,
                          checked |-> {"user", "role", "pair"}]
        /\ tenantRows[m] = [user |-> t[1], tenant |-> t[2], status |-> "active", quiet |-> FALSE, looked |-> TRUE]
    BY <1>3, <1>9
  <2>3. /\ roleRows[m] # None /\ tenantRows[m] # None
        /\ roleRows[m].user = t[1] /\ roleRows[m].tenant = t[2] /\ roleRows[m].role = t[3]
        /\ tenantRows[m].user = t[1] /\ tenantRows[m].tenant = t[2]
    BY <2>2, FirstRow
  <2> QED BY <2>3
<1>4. /\ \A m \in Present(roleRows) :
           /\ m \in RowIds /\ f[m] # None /\ f[m] \in scenario.start
           /\ roleRows[m].user = f[m][1] /\ roleRows[m].tenant = f[m][2]
           /\ roleRows[m].role = f[m][3]
      /\ \A m \in Present(tenantRows) :
           /\ m \in RowIds /\ f[m] # None /\ f[m] \in scenario.start
           /\ tenantRows[m].user = f[m][1] /\ tenantRows[m].tenant = f[m][2]
  <2>1. \A m \in Present(roleRows) \cup Present(tenantRows) :
          m \in RowIds /\ f[m] # None /\ f[m] \in scenario.start
    BY <1>3 DEF Present
  <2> QED BY <1>9, <2>1
<1>5. ASSUME NEW m \in RowIds, f[m] # None
      PROVE  m \in Present(roleRows) /\ m \in Present(tenantRows)
  BY <1>5, <1>9 DEF Present
<1>6. ASSUME NEW u \in Users PROVE UserOK(u)
  <2>1. UniqueRows(u) /\ LookedOnce(u)
    <3>1. ASSUME NEW m \in MappingsOf(u), NEW n \in MappingsOf(u),
                 tenantRows[m].tenant = tenantRows[n].tenant
          PROVE  m = n
      <4>1. m \in Present(tenantRows) /\ n \in Present(tenantRows)
            /\ tenantRows[m].user = tenantRows[n].user
        BY DEF MappingsOf
      <4>2. f[m] = f[n] BY <1>2, <1>4, <3>1, <4>1
      <4> QED BY <1>3, <1>4, <4>1, <4>2
    <3>2. ASSUME NEW m \in RolesOf(u), NEW n \in RolesOf(u),
                 roleRows[m].tenant = roleRows[n].tenant
          PROVE  m = n
      <4>1. m \in Present(roleRows) /\ n \in Present(roleRows)
            /\ roleRows[m].user = roleRows[n].user
        BY DEF RolesOf
      <4>2. f[m] = f[n] BY <1>2, <1>4, <3>2, <4>1
      <4> QED BY <1>3, <1>4, <4>1, <4>2
    <3> QED BY <3>1, <3>2 DEF UniqueRows, LookedOnce
  <2>2. ASSUME NEW m \in Present(roleRows), roleRows[m].user = u
        PROVE  MappingsTo(u, roleRows[m].tenant) # {}
    <3>1. m \in Present(tenantRows) BY <1>4, <1>5
    <3>2. tenantRows[m].user = u /\ tenantRows[m].tenant = roleRows[m].tenant
      BY <1>4, <2>2, <3>1
    <3>3. m \in MappingsTo(u, roleRows[m].tenant) BY <3>1, <3>2 DEF MappingsTo, MappingsOf
    <3> QED BY <3>3
  <2>3. GrantsOf(u)
    <3> SUFFICES ASSUME NEW t \in Tenants, NEW p \in Roles, <<u, t, p>> \in granted
                 PROVE  Assigned(u, t, p) /\ MappingsTo(u, t) # {}
      BY DEF GrantsOf
    <3>1. PICK m \in RowIds : f[m] = <<u, t, p>> BY <1>1, <1>3
    <3>2. f[m] # None BY <1>1, <1>2, <3>1, MappingsAssumption
    <3>3. m \in Present(roleRows) BY <1>5, <3>2
    <3>4. roleRows[m].user = u /\ roleRows[m].tenant = t /\ roleRows[m].role = p
      BY <1>4, <3>1, <3>3
    <3>5. Assigned(u, t, p) BY <3>3, <3>4 DEF Assigned, RolesIn, RolesOf
    <3> QED BY <2>2, <3>3, <3>4, <3>5
  <2>4. MappedRoles(u) BY <2>2 DEF MappedRoles, RolesOf
  <2>5. ToldOf(u)
    <3>1. \A m \in MappingsOf(u) : tenantRows[m].tenant \in Tenants
      BY FirstTypes DEF MappingsOf, Present, Types, TenantRow
    <3>2. \A t \in Tenants : told[<<u, t>>] = None BY <1>1
    <3> QED BY <3>1, <3>2 DEF ToldOf
  <2> QED BY <2>1, <2>3, <2>4, <2>5 DEF UserOK
<1>7. ASSUME NEW m \in Present(roleRows) PROVE RowRefers(m)
  <2>1. roleRows[m].role \in roles
    BY <1>1, FirstTypes DEF Present, Types, RoleRow
  <2>2. roleRows[m].user \in users BY <1>1, <1>4
  <2> QED BY <2>1, <2>2 DEF RowRefers
<1>8. ASSUME NEW q \in Requests PROVE Looked(q)
  <2>1. run[q].at = "idle" BY DEF Init, Idle
  <2> QED BY <2>1 DEF Looked, Assignings
<1> QED BY <1>6, <1>7, <1>8 DEF AllUsers, Refers

LEMMA StepsKeep ==
    ASSUME MappingsInv, Next
    PROVE  MappingsInv'
<1>1. PICK r \in Requests : Reading(r) \/ Failing(r) \/ Writing(r) BY NextIsStep
<1>2. Types' /\ Shapes' BY <1>1, TypesStay DEF MappingsInv
<1>3. Owned' BY <1>1, OwnedStay DEF MappingsInv
<1>4. Known' BY <1>1, KnownStay DEF MappingsInv
<1>5. Refers' BY <1>1, RefersStay DEF MappingsInv
<1>6. AllUsers' BY <1>1, AllUsersStay DEF MappingsInv
<1> QED BY <1>2, <1>3, <1>4, <1>5, <1>6 DEF MappingsInv

LEMMA StuttersKeep ==
    ASSUME MappingsInv, UNCHANGED vars
    PROVE  MappingsInv'
<1> USE DEF vars, tables, history
<1>1. Types' /\ Shapes' BY DEF MappingsInv, Types, Shapes
<1>2. Owned' BY DEF MappingsInv, Owned, OwnedRole, OwnedMapping
<1>3. Known' BY DEF MappingsInv, Known, Knows, Assigned, RolesIn, RolesOf, MappingsTo, MappingsOf, Present
<1>4. Refers' BY DEF MappingsInv, Refers, RowRefers, Looked, At, Present
<1>5. AllUsers'
  BY DEF MappingsInv, AllUsers, UserOK, UniqueRows, LookedOnce, GrantsOf, MappedRoles, ToldOf, Assigned, RolesIn,
         RolesOf, MappingsTo, MappingsOf, Present, Serving, Brought, Announced, Bringing, Telling
<1> QED BY <1>1, <1>2, <1>3, <1>4, <1>5 DEF MappingsInv

\* At all times the tables are as the requests under way account for: what a request
\* has read is still so unless another one wrote it (raced), whatever handlers, failures
\* and crashes are interleaved, and for any number of them.
THEOREM Invariance == Spec => []MappingsInv
<1>1. Init => MappingsInv BY FirstTypes, FirstUsers DEF MappingsInv
<1>2. MappingsInv /\ [Next]_vars => MappingsInv' BY StepsKeep, StuttersKeep
<1> QED BY <1>1, <1>2, PTL DEF Spec

\* Nothing excuses a user whom no request is about.
LEMMA NotBusy ==
    ASSUME NEW u, ~Busy(u)
    PROVE  \A t : ~Brought(u, t) /\ ~Announced(u, t) /\ ~Serving(u, t)
BY DEF Busy, Brought, Announced, Serving

\* The variables keep their types.
THEOREM TypesHold == Spec => []TypeOK
<1>1. MappingsInv => TypeOK BY DEF MappingsInv, Types, TypeOK, RunRow
<1> QED BY <1>1, Invariance, PTL

\* A user who is assigned a role in a tenant has the role and the mapping for as long as
\* no handler takes them away, unless two requests raced or one failed half way.
THEOREM GrantsHold == Spec => []GrantsStay
<1>1. MappingsInv => GrantsStay
  <2> SUFFICES ASSUME MappingsInv, NEW g \in granted, ~Busy(g[1]), g[1] \notin raced \cup failed
               PROVE  Assigned(g[1], g[2], g[3]) /\ MappingsTo(g[1], g[2]) # {}
    BY DEF GrantsStay
  <2>1. g \in Users \X Tenants \X Roles BY DEF MappingsInv, Types
  <2>2. g[1] \in Users /\ g[2] \in Tenants /\ g[3] \in Roles /\ g = <<g[1], g[2], g[3]>>
    BY <2>1
  <2> PICK u \in Users, t \in Tenants, p \in Roles : u = g[1] /\ t = g[2] /\ p = g[3] BY <2>2
  <2>3. GrantsOf(u) /\ <<u, t, p>> \in granted BY <2>2 DEF MappingsInv, AllUsers, UserOK
  <2>4. ~Brought(u, t) /\ ~Serving(u, "deleteUser") /\ ~Serving(u, "jobRole") BY NotBusy
  <2> QED BY <2>3, <2>4 DEF GrantsOf
<1> QED BY <1>1, Invariance, PTL

\* Of a tenant that is not a root a user has a role only with a mapping, or by hand.
THEOREM MappingsWithRoles == Spec => []RolesHaveMappings
<1>1. MappingsInv => RolesHaveMappings
  <2> SUFFICES ASSUME MappingsInv, NEW m \in Present(roleRows),
                      roleRows[m].tenant \notin Roots, ~roleRows[m].hand,
                      ~Busy(roleRows[m].user), roleRows[m].user \notin raced \cup failed
               PROVE  MappingsTo(roleRows[m].user, roleRows[m].tenant) # {}
    BY DEF RolesHaveMappings
  <2> PICK u : u = roleRows[m].user OBVIOUS
  <2>1. u \in Users BY DEF MappingsInv, Types, Present, RoleRow
  <2>2. m \in RolesOf(u) BY DEF RolesOf
  <2>3. MappedRoles(u) BY <2>1 DEF MappingsInv, AllUsers, UserOK
  <2>4. ~Brought(u, roleRows[m].tenant) /\ ~Serving(u, "deleteRows") BY NotBusy
  <2> QED BY <2>2, <2>3, <2>4 DEF MappedRoles
<1> QED BY <1>1, Invariance, PTL

\* No user is mapped to a tenant twice or has a role there twice, although no constraint
\* of the two tables says so: of equal rows that were both looked for, only a race makes two.
THEOREM RowsAreUnique == Spec => []RowsUnique
<1>1. MappingsInv => RowsUnique
  <2> SUFFICES ASSUME MappingsInv PROVE RowsUnique OBVIOUS
  <2>1. \A u \in Users : LookedOnce(u) BY DEF MappingsInv, AllUsers, UserOK
  <2>2. ASSUME NEW m \in Present(tenantRows), NEW n \in Present(tenantRows), m # n,
               tenantRows[m].user = tenantRows[n].user,
               tenantRows[m].tenant = tenantRows[n].tenant,
               tenantRows[m].looked /\ tenantRows[n].looked
        PROVE  tenantRows[m].user \in raced
    <3> PICK u : u = tenantRows[m].user OBVIOUS
    <3>1. u \in Users BY DEF MappingsInv, Types, Present, TenantRow
    <3>2. m \in MappingsOf(u) /\ n \in MappingsOf(u) BY <2>2 DEF MappingsOf
    <3> QED BY <2>1, <2>2, <3>1, <3>2 DEF LookedOnce
  <2>3. ASSUME NEW m \in Present(roleRows), NEW n \in Present(roleRows), m # n,
               roleRows[m].user = roleRows[n].user,
               roleRows[m].tenant = roleRows[n].tenant, roleRows[m].role = roleRows[n].role,
               "pair" \in roleRows[m].checked \cap roleRows[n].checked
        PROVE  roleRows[m].user \in raced
    <3> PICK u : u = roleRows[m].user OBVIOUS
    <3>1. u \in Users BY DEF MappingsInv, Types, Present, RoleRow
    <3>2. m \in RolesOf(u) /\ n \in RolesOf(u) BY <2>3 DEF RolesOf
    <3> QED BY <2>1, <2>3, <3>1, <3>2 DEF LookedOnce
  <2> QED BY <2>2, <2>3 DEF RowsUnique
<1> QED BY <1>1, Invariance, PTL

\* A row gives an existing role to an existing user, without a foreign key that says so.
THEOREM RowsHaveReferences == Spec => []RowsRefer
<1>1. MappingsInv => RowsRefer BY DEF MappingsInv, Refers, RowRefers, RowsRefer
<1> QED BY <1>1, Invariance, PTL

\* When no request is about a user any more, the last event about the user's mapping
\* to a tenant has given the status that the mapping has.
THEOREM EventsTellStatus == Spec => []EventsCatchUp
<1>1. MappingsInv => EventsCatchUp
  <2> SUFFICES ASSUME MappingsInv, NEW m \in Present(tenantRows), ~tenantRows[m].quiet,
                      ~Busy(tenantRows[m].user),
                      tenantRows[m].user \notin raced \cup failed \cup doubled
               PROVE  told[<<tenantRows[m].user, tenantRows[m].tenant>>]
                        \in {tenantRows[m].status, None}
    BY DEF EventsCatchUp
  <2> PICK u : u = tenantRows[m].user OBVIOUS
  <2>1. u \in Users BY DEF MappingsInv, Types, Present, TenantRow
  <2>2. m \in MappingsOf(u) BY DEF MappingsOf
  <2>3. ToldOf(u) BY <2>1 DEF MappingsInv, AllUsers, UserOK
  <2>4. ~Announced(u, tenantRows[m].tenant) BY NotBusy
  <2> QED BY <2>2, <2>3, <2>4 DEF ToldOf
<1> QED BY <1>1, Invariance, PTL
=============================================================================

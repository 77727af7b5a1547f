------------------------------- MODULE Tables -------------------------------
(***************************************************************************)
(* The tables that searches, hierarchies and events are put together from, *)
(* one statement after another, while other requests write them: Users,    *)
(* UserTenantMapping, UserRolesMapping, CohortMembers, FieldValues and     *)
(* Cohort.  Nothing is read or written in a transaction.                   *)
(*                                                                         *)
(* A user is mapped to a tenant at most once, and is a member of a cohort  *)
(* in a year at most once; Mappings and Members say when that fails.       *)
(***************************************************************************)
EXTENDS Naturals, FiniteSets, SequencesExt

CONSTANTS
    Users, Tenants, Roles, Years,
    Cohorts, TypeOf, ParentOf, TenantOf, \* cohorts, their "BATCH" or "COHORT", the cohort
                \* that is their parent or None, and their tenant
    Memberships,\* the <<user, cohort, year>> that there may be
    Requests,
    Scenarios,  \* records [ops, by, writes, changes, faults, rows]: what is requested and
                \* by whom, what handlers that announce nothing write and how often,
                \* whether "database" and "kafka" may fail, and the tables at first
    None

ASSUME TablesAssumption ==
    /\ Memberships \subseteq Users \X Cohorts \X Years
    \* A key says what it is of.
    /\ None \notin Cohorts /\ Users \cap Cohorts = {} /\ Memberships \cap (Users \cup Cohorts) = {}
    /\ \A c \in Cohorts : TypeOf[c] \in {"BATCH", "COHORT"} /\ ParentOf[c] \in Cohorts \cup {None}
    /\ \A s \in Scenarios : s.by \subseteq Requests /\ s.changes \in Nat
                              /\ s.faults \subseteq {"database", "kafka"}
                              /\ \A w \in s.writes :
                                    w.of \in {"mapped", "roles", "member", "values", "status"}

VARIABLES
    name,       \* Users: per user the name, or None
    mapped,     \* UserTenantMapping: per user and tenant the status, or None
    roles,      \* UserRolesMapping: <<user, tenant, role>>
    member,     \* CohortMembers: per membership the status, or None
    values,     \* FieldValues: [item, field, tenant, place]
    status,     \* Cohort: per cohort the status
    run,        \* the requests
    changes,    \* how often tables were written by handlers that announce nothing
    torn,       \* history: requests during which tables were written
    moved,      \* history: <<request, cohort>> whose values were written during the request
    excused,    \* history: what an event need not match: it was written since, or its
                \* publications overlapped, failed or were out of date
    scenario

tables == <<name, mapped, roles, member, values, status>>
notes == <<changes, torn, moved, excused, scenario>>

UserOf(m) == m[1]
CohortOf(m) == m[2]
YearOf(m) == m[3]
ValuesOf(x) == {v \in values : v.item = x}
Joined == {m \in Memberships : member[m] # None}

Waiting == [at |-> "new", op |-> None, page |-> {}, found |-> {}, shown |-> {}, data |-> {},
            total |-> 0, seen |-> None, failed |-> FALSE]

InitTables ==
    /\ scenario \in Scenarios
    /\ name = scenario.rows.name /\ mapped = scenario.rows.mapped
    /\ roles = scenario.rows.roles /\ member = scenario.rows.member
    /\ values = scenario.rows.values /\ status = scenario.rows.status
    /\ run = [r \in Requests |-> Waiting]
    /\ changes = 0 /\ torn = {} /\ moved = {} /\ excused = {}

At(r, here) == run[r].at = here
Set(r, f) == run' = [run EXCEPT ![r] = f]
Go(r, there) == Set(r, [run[r] EXCEPT !.at = there])
May(fault) == fault \in scenario.faults

(* ------------------------ What an event should tell ------------------------ *)

Keys == Users \cup Cohorts \cup Memberships

Blank == [name |-> None, tenants |-> {}, fields |-> {}, cohorts |-> {}, status |-> None,
          type |-> None]

\* The value of a field.  Tenants may have one each; the queries do not say whose.
ValueOf(x, field) ==
    LET of == {v.place : v \in {w \in ValuesOf(x) : w.field = field}}
    IN  IF of = {} THEN None ELSE CHOOSE p \in of : TRUE

FieldsOf(x) == {<<v.field, ValueOf(x, v.field)>> : v \in ValuesOf(x)}
RolesIn(u, t) == {r \in Roles : <<u, t, r>> \in roles}

\* A tenant in which the user has no role is left out.
TenantsOf(u) == {<<t, mapped[u][t], RolesIn(u, t)>> :
                    t \in {s \in Tenants : mapped[u][s] # None /\ RolesIn(u, s) # {}}}

CohortsOf(u) == {<<CohortOf(m), member[m], status[CohortOf(m)]>> :
                    m \in {j \in Joined : UserOf(j) = u}}

Centers == {"regular", "remote"}
\* regularCenter, remoteBatch, ...; a type that no value qualifies is told as it is.
Told(c, place) == <<TypeOf[c], IF place \in Centers THEN place ELSE None>>
CenterType(c) == IF c = None THEN None ELSE ValueOf(c, "TYPE_OF_CENTER")

View(k) ==
    CASE k \in Users -> IF name[k] = None THEN Blank
                        ELSE [Blank EXCEPT !.name = name[k], !.tenants = TenantsOf(k),
                                           !.fields = FieldsOf(k), !.cohorts = CohortsOf(k)]
      [] k \in Cohorts -> [Blank EXCEPT !.status = status[k], !.fields = FieldsOf(k),
                            !.type = Told(k, CenterType(IF TypeOf[k] = "BATCH" THEN ParentOf[k]
                                                        ELSE k))]
      [] OTHER -> [Blank EXCEPT !.status = member[k]]

(* --------------------------------- Writers --------------------------------- *)

\* A statement has written; it goes with every action that changes a table.
UnderWay == {r \in Requests : run[r].at \notin {"new", "done"}}
Wrote ==
    /\ torn' = torn \cup UnderWay
    /\ moved' = moved \cup (UnderWay \X {c \in Cohorts : ValuesOf(c)' # ValuesOf(c)})
    /\ excused' = excused \cup {k \in Keys : View(k)' # View(k)}
    /\ scenario' = scenario

\* What handlers that announce nothing to the consumers of this key write: roles
\* (assign-role), mappings, members that are removed, values that the field API saves,
\* statuses that updateCohortStatuses writes.
Change ==
    /\ changes < scenario.changes /\ changes' = changes + 1
    /\ \E w \in scenario.writes :
        CASE w.of = "mapped" ->
                /\ mapped' = [mapped EXCEPT ![w.user][w.tenant] = w.to]
                /\ UNCHANGED <<name, roles, member, values, status>>
          [] w.of = "roles" ->
                /\ roles' = IF w.row \in roles THEN roles \ {w.row} ELSE roles \cup {w.row}
                /\ UNCHANGED <<name, mapped, member, values, status>>
          [] w.of = "member" ->
                /\ member' = [member EXCEPT ![w.row] = w.to]
                /\ UNCHANGED <<name, mapped, roles, values, status>>
          [] w.of = "values" ->
                /\ values' = {v \in values : v.item # w.row.item \/ v.field # w.row.field
                                             \/ v.tenant # w.row.tenant} \cup {w.row}
                /\ UNCHANGED <<name, mapped, roles, member, status>>
          [] w.of = "status" ->
                /\ status' = [status EXCEPT ![w.cohort] = w.to]
                /\ UNCHANGED <<name, mapped, roles, member, values>>
    /\ UNCHANGED run
    /\ Wrote
=============================================================================

------------------------------ MODULE Tenants ------------------------------
(***************************************************************************)
(* The tenants, which form a tree by their parentId (tenant.service.ts).   *)
(* The column refers to nothing and names are not unique in the database:  *)
(* the handlers look first.  updateTenants walks from the new parent to    *)
(* the root, one findOne per ancestor, to refuse a cycle.                  *)
(***************************************************************************)
EXTENDS Handlers

CONSTANTS
    TenantIds,
    Names,      \* names of tenants
    Top,        \* the parentId of a root: null
    FirstTenants \* the rows at first, a set of functions over TenantIds

VARIABLE tenants    \* Tenants: per id a row, or None

TenantRow == [name : Names, parent : TenantIds \cup {Top}]

\* id: of the row to write, None for a new one; None in the others: leave alone.
TenantOp(name, id, called, parent) ==
    [name |-> name, id |-> id, called |-> called, parent |-> parent,
     of |-> {<<"tree", None>>}]

\* What may be asked for.
TenantOps ==
    LET Parents == TenantIds \cup {Top, None} IN
    {TenantOp("createTenants", None, called, parent) : called \in Names, parent \in Parents}
    \cup {TenantOp("updateTenants", t, called, parent) :
            t \in TenantIds, called \in Names \cup {None}, parent \in Parents}
    \cup {TenantOp("deleteTenants", t, None, None) : t \in TenantIds}

InitTenants == tenants \in FirstTenants

RowsIn(table) == {t \in TenantIds : table[t] # None}
Rows == RowsIn(tenants)

FirstOfTenant(o) == IF o.name = "createTenants" THEN "name" ELSE "find"

\* The tenant to update or to delete.
FindTenant(r) ==
    /\ At(r, {"updateTenants", "deleteTenants"}, "find")
    /\ LET o == run[r].op IN
       IF o.id \notin Rows THEN End(r)
       ELSE Go(r, IF o.name = "deleteTenants" THEN "children"
                  ELSE IF o.called # None THEN "name" ELSE "parent")
    /\ UNCHANGED <<tenants, shared>>

\* Another tenant has the name: 409.  Of several, findOne returns any.
FindName(r) ==
    /\ At(r, {"createTenants", "updateTenants"}, "name")
    /\ LET o == run[r].op
           same == {t \in Rows : tenants[t].name = o.called}
       IN IF o.name = "createTenants" THEN IF same = {} THEN Go(r, "parent") ELSE End(r)
          ELSE \/ same \ {o.id} # {} /\ End(r)
               \/ (same = {} \/ o.id \in same) /\ Go(r, "parent")
    /\ UNCHANGED <<tenants, shared>>

\* The parent exists, and is not the tenant itself.
FindNewParent(r) ==
    /\ At(r, {"createTenants", "updateTenants"}, "parent")
    /\ LET o == run[r].op IN
       IF o.parent \in {None, Top} THEN Go(r, "save")
       ELSE IF o.parent = o.id \/ o.parent \notin Rows THEN End(r)
       ELSE IF o.name = "createTenants" THEN Go(r, "save")
       ELSE Set(r, [Then(run[r], "walk") EXCEPT !.seen = o.parent, !.left = {o.id}])
    /\ UNCHANGED <<tenants, shared>>

\* Mutant of Walk: only the parent of the new parent is looked at.
LookUp(r) ==
    /\ At(r, {"updateTenants"}, "walk")
    /\ LET here == run[r].seen IN
       IF here \in Rows /\ tenants[here].parent = run[r].op.id THEN End(r) ELSE Go(r, "save")
    /\ UNCHANGED <<tenants, shared>>

\* One ancestor more; left: those visited, at first the tenant.
Walk(r) ==
    /\ At(r, {"updateTenants"}, "walk")
    /\ LET here == run[r].seen
           visited == run[r].left \cup {here}
       IN IF here \notin Rows \/ tenants[here].parent = Top THEN Go(r, "save")
          ELSE IF tenants[here].parent \in visited THEN End(r)
          ELSE Set(r, [Then(run[r], "walk") EXCEPT !.seen = tenants[here].parent,
                          !.left = visited])
    /\ UNCHANGED <<tenants, shared>>

\* A property of the body, if it is there.
Given(asked, old) == IF asked = None THEN old ELSE asked

\* A row that is gone by now is not updated, and the request never answered.
SaveTenant(r) ==
    /\ At(r, {"createTenants", "updateTenants"}, "save")
    /\ LET o == run[r].op IN
       IF o.name = "createTenants"
       THEN \E t \in TenantIds \ Rows :
              tenants' = [tenants EXCEPT ![t] =
                  [name |-> o.called, parent |-> Given(o.parent, Top)]]
       ELSE tenants' = [tenants EXCEPT ![o.id] = IF @ = None THEN None ELSE
                  [name |-> Given(o.called, @.name), parent |-> Given(o.parent, @.parent)]]
    /\ Writes(r, run[r].op.of)
    /\ End(r)
    /\ UNCHANGED <<failed, scenario>>

FindChildren(r) ==
    /\ At(r, {"deleteTenants"}, "children")
    /\ IF \E t \in Rows : tenants[t].parent = run[r].op.id THEN End(r) ELSE Go(r, "delete")
    /\ UNCHANGED <<tenants, shared>>

\* Nothing else is deleted: roles, years and mappings of the tenant stay.
DeleteTenant(r) ==
    /\ At(r, {"deleteTenants"}, "delete")
    /\ tenants' = [tenants EXCEPT ![run[r].op.id] = None]
    /\ Writes(r, run[r].op.of)
    /\ End(r)
    /\ UNCHANGED <<failed, scenario>>

NextTenants(r) ==
    \/ FindTenant(r) \/ FindName(r) \/ FindNewParent(r) \/ Walk(r) \/ SaveTenant(r)
    \/ FindChildren(r) \/ DeleteTenant(r)
-----------------------------------------------------------------------------
\* From every tenant the parents lead to a root: in no set of tenants has each its
\* parent in the set.
Acyclic(table) ==
    \A S \in SUBSET RowsIn(table) : S # {} => \E t \in S : table[t].parent \notin S

\* Every parent exists, none is below itself, and names are unique.
IsTree(table) ==
    /\ Acyclic(table)
    /\ \A t \in RowsIn(table) :
        /\ table[t].parent \in RowsIn(table) \cup {Top}
        /\ \A s \in RowsIn(table) \ {t} : table[s].name # table[t].name

\* The tenants form a tree with unique names, unless two requests that change it
\* overlapped: what a walk up the tree has seen, a row at a time, still holds when the row
\* is saved.
TreeIsKept == <<"tree", None>> \notin raced => IsTree(tenants)
=============================================================================

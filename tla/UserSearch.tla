----------------------------- MODULE UserSearch -----------------------------
(***************************************************************************)
(* UserService.getUsersByHierarchicalLocation: the page of users that a    *)
(* filter by batch, center or place finds in a tenant, with their roles,   *)
(* their custom fields and the batches and centers of the year.  The page  *)
(* is one query; what is shown of its users comes from later ones.         *)
(*                                                                         *)
(* The definitions of fields and the tables of places do not change here,  *)
(* so their queries are one step with the query that needs them.           *)
(***************************************************************************)
EXTENDS Tables

CONSTANTS
    ParentTenantOf, \* Tenants: per tenant its parent, or None
    Fields,         \* the names of the fields that are defined
    Named,          \* the places whose table has a name for them
    Empty           \* a blank id in a filter

FILTER_HIERARCHY_ORDER == <<"batch", "center", "village", "block", "district", "state">>
Excluded == {"batch", "center"}   \* getCohortFilterLevels
LocationFields == {"village", "block", "district", "state"}

\* filters is a function from some of the levels.  The first level with an id that is not
\* blank counts, and those below it in the order do not.
Ids(filters, level) == IF level \in DOMAIN filters THEN filters[level] \ {Empty} ELSE {}
findDeepestFilter(filters) ==
    LET given == {i \in 1..6 : Ids(filters, FILTER_HIERARCHY_ORDER[i]) # {}}
    IN  IF given = {} THEN None ELSE FILTER_HIERARCHY_ORDER[Min(given)]

(* ------------------------------ The page query ------------------------------ *)

\* The memberships that the filter joins, if it joins any; the year joins the same ones.
Joins(op, level) == level \in Excluded \/ op.year # None

\* Mutant of InYear: the year is joined through a membership of its own.
InYearOfAny(m, op) == op.year # None => \E j \in Joined : UserOf(j) = UserOf(m) /\ YearOf(j) = op.year
InYear(m, op) == op.year # None => YearOf(m) = op.year

CohortFits(c, level, ids) ==
    CASE level = "batch" -> c \in ids
      [] level = "center" -> c \in ids \/ ParentOf[c] \in ids
      [] OTHER -> TRUE

\* A place counts when a value of the tenant, or of its parent, has it.
PlaceFits(u, op, level, ids, parent) ==
    \E v \in values : v.item = u /\ v.field = level /\ v.place \in ids
                      /\ v.tenant \in {op.tenant, parent} \ {None}

buildOptimizedUserQuery(op, parent) ==
    LET level == findDeepestFilter(op.filters)
        ids == Ids(op.filters, level)
    IN  {u \in op.named :
            /\ name[u] # None
            /\ mapped[u][op.tenant] # None
            /\ op.statuses # {} => mapped[u][op.tenant] \in op.statuses
            /\ op.roles # {} => RolesIn(u, op.tenant) \cap op.roles # {}
            /\ Joins(op, level) => \E m \in Joined : UserOf(m) = u /\ InYear(m, op)
                                                     /\ CohortFits(CohortOf(m), level, ids)
            /\ level \in LocationFields => PlaceFits(u, op, level, ids, parent)}

\* The slice of users sorted by name.  Names that are equal come in any order.
Pages(found, op) ==
    {{s[i] : i \in {j \in DOMAIN s : op.offset < j /\ j <= op.offset + op.limit}} :
        s \in {t \in SetToSeqs(found) : \A i, j \in DOMAIN t :
                                            i < j => name[t[i]] <= name[t[j]]}}

ParentTenant(r) ==
    /\ At(r, "parent")
    /\ Set(r, [run[r] EXCEPT !.at = "page", !.seen = ParentTenantOf[run[r].op.tenant]])
    /\ UNCHANGED <<tables, notes>>

\* The total comes with the rows: past the last page there is no row, and the total is 0.
Page(r) ==
    /\ At(r, "page")
    /\ LET found == buildOptimizedUserQuery(run[r].op, run[r].seen)
       IN  \E page \in Pages(found, run[r].op) :
              Set(r, [run[r] EXCEPT !.page = page,
                                    !.total = IF page = {} THEN 0 ELSE Cardinality(found),
                                    !.at = IF page = {} THEN "done" ELSE "fields"])
    /\ UNCHANGED <<tables, notes>>

(* --------------------------- What the page shows --------------------------- *)

\* The values that are asked for, of every tenant; the last row of a field wins.
Asked(op) == (op.fields \ Excluded) \cap Fields

\* One value for each pair of a user of the page and a field that is asked for.
Picks(op, page) ==
    LET rows == {v \in values : v.item \in page /\ v.field \in Asked(op)}
    IN  {S \in SUBSET rows : \A v \in rows :
            Cardinality({w \in S : w.item = v.item /\ w.field = v.field}) = 1}

\* A place is shown by its name when its table has one and could be read.
resolveLocationFieldNames(S, unread) ==
    {[user |-> v.item, field |-> v.field, place |-> v.place,
      named |-> v.field \in LocationFields \ unread /\ v.place \in Named] : v \in S}

getCustomFieldsData(r) ==
    /\ At(r, "fields")
    /\ \/ \E S \in Picks(run[r].op, run[r].page) :
             \E unread \in {{}} \cup (IF May("database") THEN {{f} : f \in LocationFields} ELSE {}) :
                Set(r, [run[r] EXCEPT !.at = "assignments",
                                      !.shown = resolveLocationFieldNames(S, unread)])
       \/ May("database") /\ Set(r, [run[r] EXCEPT !.at = "assignments", !.failed = TRUE])
    /\ UNCHANGED <<tables, notes>>

Batched == {c \in Cohorts : TypeOf[c] = "BATCH" /\ ParentOf[c] # None}
Centered == {c \in Cohorts : TypeOf[c] = "COHORT" /\ ParentOf[c] = None}

\* The page's memberships of the year in cohorts of the tenant.  Without a year the
\* query finds nothing, or fails.
Assignments(r) ==
    /\ At(r, "assignments")
    /\ LET found == {m \in Joined : /\ UserOf(m) \in run[r].page /\ YearOf(m) = run[r].op.year
                                    /\ TenantOf[CohortOf(m)] = run[r].op.tenant}
       IN  Set(r, [run[r] EXCEPT !.found = found, !.at = IF found = {} THEN "done" ELSE "batches"])
    /\ UNCHANGED <<tables, notes>>

\* buildQuery: the users and the cohorts that were found, in any pairs.
Again(r, cohorts) ==
    LET found == {m \in run[r].found : CohortOf(m) \in cohorts}
    IN  {m \in Joined : /\ YearOf(m) = run[r].op.year
                        /\ UserOf(m) \in {UserOf(f) : f \in found}
                        /\ CohortOf(m) \in {CohortOf(f) : f \in found}}

Entry(m) ==
    LET c == CohortOf(m)
    IN  [user |-> UserOf(m), status |-> member[m],
         batch |-> IF c \in Batched THEN c ELSE None,
         center |-> IF c \in Batched THEN ParentOf[c] ELSE c]

Batches(r) ==
    /\ At(r, "batches")
    /\ Set(r, [run[r] EXCEPT !.data = {Entry(m) : m \in Again(r, Batched)}, !.at = "centers"])
    /\ UNCHANGED <<tables, notes>>

\* Then the centers, and the answer.
CentersAndReply(r) ==
    /\ At(r, "centers")
    /\ Set(r, [run[r] EXCEPT !.data = @ \cup {Entry(m) : m \in Again(r, Centered)},
                             !.at = "done"])
    /\ UNCHANGED <<tables, notes>>

\* Where the page failed the answer is 500; where its cohorts failed they are left out.
SearchFails(r) ==
    /\ May("database")
    /\ \/ At(r, "parent") \/ At(r, "page") \/ At(r, "assignments") \/ At(r, "batches") \/ At(r, "centers")
    /\ Set(r, [run[r] EXCEPT !.at = "done", !.data = {}, !.failed = TRUE])
    /\ UNCHANGED <<tables, notes>>

Search(r) ==
    \/ ParentTenant(r) \/ Page(r) \/ getCustomFieldsData(r) \/ Assignments(r) \/ Batches(r)
    \/ CentersAndReply(r) \/ SearchFails(r)

(* -------------------------------- Property -------------------------------- *)

\* The cohorts that a filter by batch or center names, with those below a center.
Under(op) ==
    LET level == findDeepestFilter(op.filters)
        ids == Ids(op.filters, level)
    IN  IF level = "batch" THEN ids
        ELSE IF level = "center" THEN ids \cup {c \in Cohorts : ParentOf[c] \in ids}
        ELSE Cohorts

\* Whoever a page lists is shown with what found him: a user found by a batch or a center
\* of the tenant in a year has an entry for it, whose membership is of that year; a user
\* found by a place whose field is asked for shows that place, unless another tenant has
\* a value of the field for him.
ShowsWhatFound(q) ==
    LET level == findDeepestFilter(q.op.filters)
        own == {c \in Under(q.op) : TenantOf[c] = q.op.tenant /\ c \in Batched \cup Centered}
    IN  \A u \in q.page :
          /\ (Under(q.op) = own /\ q.op.year # None /\ level \in Excluded)
                => \E e \in q.data : e.user = u /\ (e.batch \in own \/ e.center \in own)
          /\ level \in Asked(q.op)
                => \/ \E s \in q.shown : s.user = u /\ s.field = level
                                         /\ s.place \in Ids(q.op.filters, level)
                   \/ Cardinality({v \in values : v.item = u /\ v.field = level}) > 1

\* No page skips or repeats: fewer than offset + limit users of the answer sort before a
\* user of the page, more than offset sort before him or like him, and the page is full
\* unless it is the last.
PageIsInPlace(q) ==
    LET found == buildOptimizedUserQuery(q.op, q.seen)
    IN  /\ q.page \subseteq found
        /\ Cardinality(q.page) = Min({q.op.limit, Max({0, Cardinality(found) - q.op.offset})})
        /\ q.page # {} => q.total = Cardinality(found)
        /\ \A u \in q.page :
              /\ Cardinality({v \in found : name[v] < name[u]}) < q.op.offset + q.op.limit
              /\ Cardinality({v \in found : name[v] <= name[u]}) > q.op.offset

\* An answer that no error cut short and during which no table was written is right: its
\* page is in place and shows what found its users.  (user.service.ts:3893, 4260, 4336)
SearchIsRight ==
    [][\A r \in Requests :
         (/\ run[r].op # None /\ run[r].op.name = "search"
          /\ run[r].at # "done" /\ run'[r].at = "done"
          /\ ~run'[r].failed /\ r \notin torn)
            => ShowsWhatFound(run'[r]) /\ PageIsInPlace(run'[r])]_<<tables, notes, run>>
=============================================================================

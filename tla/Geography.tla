----------------------------- MODULE Geography ------------------------------
(***************************************************************************)
(* CohortService.getUserGeographicalHierarchy: the centers of a user in a  *)
(* year, by membership or by that of a batch below, each with the user's   *)
(* batches, under the state, district and block of the center's own values.*)
(* The memberships are one query; the places are read center by center.    *)
(*                                                                         *)
(* A filter is a set, and no filter the empty one; the filters by places   *)
(* and by custom fields have a set, not empty, per level or field asked    *)
(* for.  The answer of the latter is cached; what writers do about that is *)
(* in WritePaths, and here each lookup reads the tables.                   *)
(***************************************************************************)
EXTENDS Tables

PlaceLevels == {"state", "district", "block", "village"}
Fits(x, filter) == filter = {} \/ x \in filter

\* findCohortName.  Without a year its query names the alias c twice, and fails.
findCohortName(o) == {m \in Joined : UserOf(m) = o.user /\ YearOf(m) = o.year}

\* Reassigned and other memberships that are not active are left out, and the filters of
\* the request apply to the cohort of each.
Mine(o) ==
    {m \in findCohortName(o) :
        LET c == CohortOf(m)
        IN  /\ member[m] = "active"
            /\ o.parents # {} => ParentOf[c] \in o.parents
            /\ Fits(c, o.cohorts) /\ Fits(TypeOf[c], o.types) /\ Fits(status[c], o.statuses)}

BelowCenter(c) == TypeOf[c] = "BATCH" /\ ParentOf[c] # None

\* The center that a membership counts for; a batch without a parent counts for none.
CenterOf(m) ==
    LET c == CohortOf(m) IN IF TypeOf[c] = "COHORT" THEN c ELSE ParentOf[c]
CentersOf(found) == {CenterOf(m) : m \in found} \ {None}

FindCohorts(r) ==
    /\ At(r, "cohorts")
    /\ LET o == run[r].op
           found == Mine(o)
       IN  Set(r, IF o.year = None THEN [run[r] EXCEPT !.at = "done", !.failed = TRUE]
                  ELSE [run[r] EXCEPT !.found = found, !.page = CentersOf(found),
                                      !.at = IF CentersOf(found) = {} THEN "done" ELSE "places"])
    /\ UNCHANGED <<tables, notes>>

Placed(r, c) ==
    [center |-> c, state |-> ValueOf(c, "state"), district |-> ValueOf(c, "district"),
     block |-> ValueOf(c, "block"),
     batches |-> {CohortOf(m) : m \in {n \in run[r].found : BelowCenter(CohortOf(n))
                                                            /\ CenterOf(n) = c}}]

\* Mutant of Included: a place that a center lacks fits every filter.
UnlessElsewhere(o, c) ==
    \A level \in PlaceLevels \cap DOMAIN o.places : ValueOf(c, level) \in o.places[level] \cup {None}
\* A center that has no place of a level fits no filter by that level.
Included(o, c) ==
    \A level \in PlaceLevels \cap DOMAIN o.places : ValueOf(c, level) \in o.places[level]

\* filterUserUsingCustomFields: the cohorts, of whatever tenant, that have one of the values
\* asked for of every field.
Matching(o) ==
    {c \in Cohorts : \A field \in DOMAIN o.custom :
                        \E v \in ValuesOf(c) : v.field = field /\ v.place \in o.custom[field]}
\* It answers null when there are none, and null is taken for the lack of a filter.
Kept(o, c) == o.custom = <<>> \/ Matching(o) = {} \/ c \in Matching(o)

\* One center after another.
PlaceCenter(r) ==
    /\ At(r, "places")
    /\ \E c \in run[r].page :
          LET o == run[r].op
              keep == Included(o, c) /\ Kept(o, c)
              left == run[r].page \ {c}
          IN  Set(r, [run[r] EXCEPT !.page = left, !.at = IF left = {} THEN "tree" ELSE "places",
                                    !.data = IF keep THEN @ \cup {Placed(r, c)} ELSE @])
    /\ UNCHANGED <<tables, notes>>

\* The page is one of states, in the order in which their centers came.
BuildTree(r) ==
    /\ At(r, "tree")
    /\ LET o == run[r].op
           states == {d.state : d \in run[r].data}
           size == Min({o.limit, Max({0, Cardinality(states) - o.offset})})
       IN  \E page \in {S \in SUBSET states : Cardinality(S) = size} :
              Set(r, [run[r] EXCEPT !.at = "done", !.total = Cardinality(states), !.shown = page])
    /\ UNCHANGED <<tables, notes>>

HierarchyFails(r) ==
    /\ May("database") /\ (At(r, "cohorts") \/ At(r, "places"))
    /\ Set(r, [run[r] EXCEPT !.at = "done", !.failed = TRUE])
    /\ UNCHANGED <<tables, notes>>

Hierarchy(r) == FindCohorts(r) \/ PlaceCenter(r) \/ BuildTree(r) \/ HierarchyFails(r)

(* ------------------------------- Properties ------------------------------- *)

Has(c, field, places) == \E v \in ValuesOf(c) : v.field = field /\ v.place \in places

\* d is under the places of its center; "unknown" is for a level that it has no value of.
InPlace(d) ==
    \A level \in {"state", "district", "block"} :
        IF Has(d.center, level, {v.place : v \in values})
            THEN Has(d.center, level, {d[level]}) ELSE d[level] = None

Answers(r) ==
    /\ run[r].op # None /\ run[r].op.name = "hierarchy"
    /\ run[r].at # "done" /\ run'[r].at = "done" /\ ~run'[r].failed

\* What r answers is all of one piece.
IsWhole(r) ==
    LET o == run[r].op
        data == run'[r].data
        found == run'[r].found
        shown == {d.center : d \in data}
        lying == {c \in Cohorts : \A level \in DOMAIN o.places : Has(c, level, o.places[level])}
        alike == {c \in Cohorts : \A field \in DOMAIN o.custom : Has(c, field, o.custom[field])}
        Still(c) == <<r, c>> \notin moved
    IN  /\ o.year # None
        /\ shown \subseteq CentersOf(found) /\ \A d, e \in data : d.center = e.center => d = e
        /\ \A m \in found : TypeOf[CohortOf(m)] = "BATCH" =>
              {d \in data : CohortOf(m) \in d.batches} = {d \in data : d.center = CenterOf(m)}
        /\ \A d \in data : Still(d.center) => InPlace(d)
        /\ o.custom = <<>> =>
              \A c \in CentersOf(found) : Still(c) => (c \in shown <=> c \in lying)
        /\ r \notin torn =>
              shown = CentersOf(Mine(o)) \cap lying
                         \cap (IF o.custom = <<>> \/ alike = {} THEN Cohorts ELSE alike)
        /\ run'[r].shown \subseteq {d.state : d \in data} /\ Cardinality(run'[r].shown) <= o.limit

\* A hierarchy has each of the user's centers once, with the batches of one reading of his
\* memberships, whoever writes meanwhile.  Each center whose values nobody wrote meanwhile is under
\* the state, district and block that it has and, unless custom fields are asked for, is
\* there if and only if it lies in the places asked for.  Where nothing at all was written,
\* the centers are those of the active memberships asked for that lie there and have
\* the custom fields asked for, or all that lie there when no cohort has those.  The page is of the
\* states of these centers.  Without a year there is no hierarchy.
\* (cohort.service.ts:1557)
HierarchyIsWhole == [][\A r \in Requests : Answers(r) => IsWhole(r)]_<<tables, notes, run>>
=============================================================================

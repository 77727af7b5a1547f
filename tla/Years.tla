------------------------------- MODULE Years -------------------------------
(***************************************************************************)
(* The academic years of the tenants, the cohorts in them and the rules    *)
(* that make a user a member automatically.  Of the years of a tenant one  *)
(* is active, of the rules of a user one: the handlers look for the active *)
(* row, deactivate it and insert another, three statements.                *)
(***************************************************************************)
EXTENDS Handlers

CONSTANTS
    YearIds, RuleIds, CohortIds, \* ids of rows
    Schools,    \* the tenants, all of which exist
    Users,      \* the users, each with rules in one tenant
    Days, Values \* the days of a session, and what a rule may ask of a field

VARIABLES
    years,      \* AcademicYears: per id a row, or None
    cohorts,    \* Cohort: per id its tenant, or None
    yearOf,     \* CohortAcademicYear: pairs of a cohort and a year
    rules,      \* AutomaticMember: per id a row, or None
    byHand,     \* history: users of rules that the endpoint of the rules has written
    moved       \* history: cohorts that an update has given to another tenant

yearVars == <<years, cohorts, yearOf, rules, byHand, moved>>

\* days: those of the session, from the first to the last.
YearRow == [of : Schools, days : SUBSET Days, active : BOOLEAN]
RuleRow == [of : Users, value : Values, active : BOOLEAN]

YearOp(name, school, days, year, cohort) ==
    [name |-> name, school |-> school, days |-> days, year |-> year, cohort |-> cohort,
     of |-> {<<"years", school>>}]
RuleOp(name, user, value, rule, active) ==
    [name |-> name, user |-> user, value |-> value, rule |-> rule, active |-> active,
     of |-> {<<"rules", user>>}]

\* What may be asked for.  An update of a cohort is one that names a tenant.
YearOps ==
    {YearOp("createAcademicYear", s, days, None, None) : s \in Schools, days \in SUBSET Days}
    \cup {YearOp("createCohort", s, {}, y, None) : s \in Schools, y \in YearIds}
    \cup {YearOp("createCohortAcademicYear", s, {}, y, c) :
            s \in Schools, y \in YearIds, c \in CohortIds}
    \cup {YearOp("updateCohort", s, {}, None, c) : s \in Schools, c \in CohortIds}

\* The body of an update need not name all three columns: one that does and repeats what
\* is there does the same.  createUser gives a user the first rule as updateUser does.
RuleOps ==
    {RuleOp(name, u, v, None, TRUE) : u \in Users, v \in Values, name \in {"updateUser", "create"}}
    \cup {RuleOp("update", u, v, m, active) :
            u \in Users, v \in Values, m \in RuleIds, active \in BOOLEAN}
    \cup {RuleOp("remove", u, None, m, FALSE) : u \in Users, m \in RuleIds}

InitYears ==
    /\ years = [y \in YearIds |-> None] /\ rules = [m \in RuleIds |-> None]
    /\ cohorts = [c \in CohortIds |-> None] /\ yearOf = {} /\ byHand = {} /\ moved = {}

Present(table) == {m \in DOMAIN table : table[m] # None}
Active(table, x) == {m \in Present(table) : table[m].of = x /\ table[m].active}
Free(table) == DOMAIN table \ Present(table)

FirstOfYear(o) ==
    CASE o.name = "createAcademicYear" -> "overlap"
      [] o.name = "createCohort" -> "year"
      [] o.name \in {"createCohortAcademicYear", "updateCohort"} -> "cohort"
      [] o.name = "updateUser" -> "equal"
      [] o.name = "create" -> "exists"
      [] o.name \in {"update", "remove"} -> "rule"

-----------------------------------------------------------------------------
(* createAcademicYear. *)

\* isExistSessionWithTenant, which looks at the active years only.
FindOverlap(r) ==
    /\ At(r, {"createAcademicYear"}, "overlap")
    /\ LET o == run[r].op IN
       IF \E y \in Active(years, o.school) : years[y].days \cap o.days # {}
       THEN End(r) ELSE Go(r, "active")
    /\ UNCHANGED <<yearVars, shared>>

\* Mutant of FindActive: any year, active or not.
FindLast(r) ==
    /\ At(r, {"createAcademicYear"}, "active")
    /\ LET now == {y \in Present(years) : years[y].of = run[r].op.school} IN
       \/ now = {} /\ Go(r, "insertYear")
       \/ \E y \in now : Set(r, [Then(run[r], "deactivate") EXCEPT !.seen = y])
    /\ UNCHANGED <<yearVars, shared>>

\* Any one active year.
FindActive(r) ==
    /\ At(r, {"createAcademicYear"}, "active")
    /\ LET now == Active(years, run[r].op.school) IN
       \/ now = {} /\ Go(r, "insertYear")
       \/ \E y \in now : Set(r, [Then(run[r], "deactivate") EXCEPT !.seen = y])
    /\ UNCHANGED <<yearVars, shared>>

Deactivate(r) ==
    /\ At(r, {"createAcademicYear"}, "deactivate")
    /\ years' = [years EXCEPT ![run[r].seen].active = FALSE]
    /\ Writes(r, run[r].op.of)
    /\ Set(r, [Then(run[r], "insertYear") EXCEPT !.wrote = TRUE])
    /\ UNCHANGED <<cohorts, yearOf, rules, byHand, moved, failed, scenario>>

InsertYear(r) ==
    /\ At(r, {"createAcademicYear"}, "insertYear")
    /\ \E y \in Free(years) : years' = [years EXCEPT ![y] =
            [of |-> run[r].op.school, days |-> run[r].op.days, active |-> TRUE]]
    /\ Writes(r, run[r].op.of)
    /\ End(r)
    /\ UNCHANGED <<cohorts, yearOf, rules, byHand, moved, failed, scenario>>

-----------------------------------------------------------------------------
(* createCohort, createCohortAcademicYear and updateCohort. *)

\* The cohort exists, in the tenant of the request.
FindCohort(r) ==
    /\ At(r, {"createCohortAcademicYear"}, "cohort")
    /\ IF cohorts[run[r].op.cohort] = run[r].op.school THEN Go(r, "year") ELSE End(r)
    /\ UNCHANGED <<yearVars, shared>>

\* An update asks for the cohort only.
FindToUpdate(r) ==
    /\ At(r, {"updateCohort"}, "cohort")
    /\ IF cohorts[run[r].op.cohort] # None THEN Go(r, "updateCohort") ELSE End(r)
    /\ UNCHANGED <<yearVars, shared>>

\* Whatever the body names is written, the tenant too; the years stay.
UpdateCohort(r) ==
    /\ At(r, {"updateCohort"}, "updateCohort")
    /\ LET c == run[r].op.cohort IN
       /\ cohorts' = [cohorts EXCEPT ![c] = run[r].op.school]
       /\ moved' = IF cohorts[c] = run[r].op.school THEN moved ELSE moved \cup {c}
    /\ End(r)
    /\ UNCHANGED <<years, yearOf, rules, byHand, shared>>

\* Mutant of FindYear: the tenant of the year is not asked for.
FindYearOfAny(r) ==
    /\ At(r, {"createCohort", "createCohortAcademicYear"}, "year")
    /\ LET y == run[r].op.year IN
       IF y \in Present(years) /\ years[y].active
       THEN IF run[r].op.name = "createCohort" THEN Go(r, "saveCohort")
            ELSE Set(r, [Then(run[r], "attach") EXCEPT !.seen = run[r].op.cohort])
       ELSE End(r)
    /\ UNCHANGED <<yearVars, shared>>

\* getActiveAcademicYear.
FindYear(r) ==
    /\ At(r, {"createCohort", "createCohortAcademicYear"}, "year")
    /\ IF run[r].op.year \in Active(years, run[r].op.school)
       THEN IF run[r].op.name = "createCohort" THEN Go(r, "saveCohort")
            ELSE Set(r, [Then(run[r], "attach") EXCEPT !.seen = run[r].op.cohort])
       ELSE End(r)
    /\ UNCHANGED <<yearVars, shared>>

\* The cohort, and after it the values of its fields.
SaveCohort(r) ==
    /\ At(r, {"createCohort"}, "saveCohort")
    /\ \E c \in Free(cohorts) :
        /\ cohorts' = [cohorts EXCEPT ![c] = run[r].op.school]
        /\ Set(r, [Then(run[r], "attach") EXCEPT !.seen = c, !.wrote = TRUE])
    /\ UNCHANGED <<years, yearOf, rules, byHand, moved, shared>>

\* insertCohortAcademicYear: nothing keeps a pair from being there twice.
Attach(r) ==
    /\ At(r, {"createCohort", "createCohortAcademicYear"}, "attach")
    /\ yearOf' = yearOf \cup {<<run[r].seen, run[r].op.year>>}
    /\ End(r)
    /\ UNCHANGED <<years, cohorts, rules, byHand, moved, shared>>

-----------------------------------------------------------------------------
(* The automatic member of updateUser, and the service of the rules. *)

\* checkAutomaticMemberExists: the rules of the user with the value, in any order.
Equal(o) == {m \in Present(rules) : rules[m].of = o.user /\ rules[m].value = o.value}

\* What updateUser has found: the row to save next, as it is to be, and the inactive rule
\* to activate after it.
Found(id, old, row) == [id |-> id, old |-> old, row |-> row]

\* A user who has the rule is refused; one who had it gets it back.
LookEqual(r) ==
    /\ At(r, {"updateUser"}, "equal")
    /\ LET same == Equal(run[r].op)
           On(old) == Set(r, [Then(run[r], "current") EXCEPT !.seen = Found(None, old, None)])
       IN \/ same = {} /\ On(None)
          \/ \E m \in same : IF rules[m].active THEN End(r) ELSE On(m)
    /\ UNCHANGED <<yearVars, shared>>

\* getUserbyUserIdAndTenantId: any one active rule, which is deactivated first.
FindCurrent(r) ==
    /\ At(r, {"updateUser"}, "current")
    /\ LET now == Active(rules, run[r].op.user)
           old == run[r].seen.old
       IN \/ now = {} /\ old = None /\ Go(r, "exists")
          \/ now = {} /\ old # None /\
                Set(r, [Then(run[r], "revive") EXCEPT !.seen = Found(old, None, None)])
          \/ \E m \in now :
                Set(r, [Then(run[r], "again") EXCEPT !.seen = Found(m, old, None)])
    /\ UNCHANGED <<yearVars, shared>>

\* update, which reads the row again (404 if it is gone) and saves all of it.
FindAgain(r) ==
    /\ \E here \in {"again", "revive"} :
        /\ At(r, {"updateUser"}, here)
        /\ LET m == run[r].seen.id IN
           IF rules[m] = None THEN End(r)
           ELSE Set(r, [Then(run[r], "saveRule") EXCEPT !.seen =
                    Found(m, run[r].seen.old, [rules[m] EXCEPT !.active = (here = "revive")])])
    /\ UNCHANGED <<yearVars, shared>>

\* After the active rule the inactive one is activated, or a new one created.
SaveRule(r) ==
    /\ At(r, {"updateUser"}, "saveRule")
    /\ LET s == run[r].seen IN
       /\ rules' = [rules EXCEPT ![s.id] = s.row]
       /\ \/ s.row.active /\ End(r)
          \/ /\ ~s.row.active /\ s.old = None
             /\ Set(r, [Then(run[r], "exists") EXCEPT !.seen = None, !.wrote = TRUE])
          \/ /\ ~s.row.active /\ s.old # None
             /\ Set(r, [Then(run[r], "revive") EXCEPT !.seen = Found(s.old, None, None),
                                                      !.wrote = TRUE])
    /\ Writes(r, run[r].op.of)
    /\ UNCHANGED <<years, cohorts, yearOf, byHand, moved, failed, scenario>>

\* create looks at the first of the rules with the value.
FindEqual(r) ==
    /\ At(r, {"updateUser", "create"}, "exists")
    /\ LET same == Equal(run[r].op)
       IN \/ same = {} /\ Go(r, "insertRule")
          \/ \E m \in same : IF rules[m].active THEN End(r) ELSE Go(r, "insertRule")
    /\ UNCHANGED <<yearVars, shared>>

\* The id of a rule that a request is about to save is not given to another.
Carries(q, m) == run[q].at \in {"current", "again", "revive", "saveRule"}
                 /\ m \in {run[q].seen.id, run[q].seen.old}

InsertRule(r) ==
    /\ At(r, {"updateUser", "create"}, "insertRule")
    /\ \E m \in Free(rules) :
        /\ \A q \in Requests : ~Carries(q, m)
        /\ rules' = [rules EXCEPT ![m] =
              [of |-> run[r].op.user, value |-> run[r].op.value, active |-> TRUE]]
    /\ byHand' = IF run[r].op.name = "create" THEN byHand \cup {run[r].op.user} ELSE byHand
    /\ Writes(r, run[r].op.of)
    /\ End(r)
    /\ UNCHANGED <<years, cohorts, yearOf, moved, failed, scenario>>

\* update and remove of the endpoint.
FindRule(r) ==
    /\ At(r, {"update", "remove"}, "rule")
    /\ IF run[r].op.rule \in Present(rules)
       THEN Go(r, IF run[r].op.name = "update" THEN "patchRule" ELSE "removeRule")
       ELSE End(r)
    /\ UNCHANGED <<yearVars, shared>>

RemoveRule(r) ==
    /\ At(r, {"remove"}, "removeRule")
    /\ rules' = [rules EXCEPT ![run[r].op.rule] = None]
    /\ Writes(r, run[r].op.of)
    /\ End(r)
    /\ UNCHANGED <<years, cohorts, yearOf, byHand, moved, failed, scenario>>

\* A rule that changes hands may be anyone's when it is saved again.
PatchRule(r) ==
    /\ At(r, {"update"}, "patchRule")
    /\ LET o == run[r].op IN
       /\ rules' = [rules EXCEPT ![o.rule] =
              [of |-> o.user, value |-> o.value, active |-> o.active]]
       /\ byHand' = IF rules[o.rule] # None /\ rules[o.rule].of = o.user
                    THEN byHand \cup {o.user} ELSE Users
    /\ Writes(r, run[r].op.of)
    /\ End(r)
    /\ UNCHANGED <<years, cohorts, yearOf, moved, failed, scenario>>

NextYears(r) ==
    \/ FindOverlap(r) \/ FindActive(r) \/ Deactivate(r) \/ InsertYear(r)
    \/ FindCohort(r) \/ FindYear(r) \/ SaveCohort(r) \/ Attach(r)
    \/ FindToUpdate(r) \/ UpdateCohort(r)
    \/ LookEqual(r) \/ FindCurrent(r) \/ FindAgain(r) \/ SaveRule(r) \/ FindEqual(r)
    \/ InsertRule(r) \/ FindRule(r) \/ PatchRule(r) \/ RemoveRule(r)
-----------------------------------------------------------------------------
\* Once a tenant has years one of them is active, and one only, unless two requests for
\* it overlapped or one failed after it had deactivated the last.  Of the rules that
\* updates of a user make at most one is active.
OneActive ==
    /\ \A s \in Schools :
        /\ Settled(<<"years", s>>) /\ (\E y \in Present(years) : years[y].of = s)
        => \E y \in Present(years) : Active(years, s) = {y}
    /\ \A u \in Users :
        Cardinality(Active(rules, u)) <= 1 \/ u \in byHand \/ <<"rules", u>> \in raced

\* A cohort that no update has given to another tenant is in a year, unless its creation
\* failed between the cohort and the year or is under way, and all its years are those of
\* its tenant.
CohortsHaveYears ==
    \A c \in Present(cohorts) \ moved :
        /\ \/ \E y \in YearIds : <<c, y>> \in yearOf
           \/ <<"years", cohorts[c]>> \in failed
           \/ \E r \in Running : run[r].at = "attach" /\ run[r].seen = c
        /\ \A y \in YearIds : <<c, y>> \in yearOf => years[y].of = cohorts[c]
=============================================================================

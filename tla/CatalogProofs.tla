---------------------------- MODULE CatalogProofs ----------------------------
(***************************************************************************)
(* Proofs about the catalog.  The handlers look first and write later, with *)
(* other requests in between; what each part promises holds because what a *)
(* request has read is still so when it writes, or the request that made   *)
(* it untrue has marked it in raced.  That sentence, per part and place of *)
(* a handler, is the inductive invariant: KnowsCode, KnowsTenant,          *)
(* KnowsYear, KnowsCohort, KnowsRule, KnowsOptions.                        *)
(*                                                                         *)
(* First what one step may do to the requests (Only, Goes, Ends, Stays),   *)
(* then the parts one after the other, then all of them together.          *)
(***************************************************************************)
EXTENDS Catalog, FiniteSetTheorems, TLAPS

Fields == {"at", "op", "seen", "left", "begun", "wrote"}

TenantNames == {"createTenants", "updateTenants", "deleteTenants"}
YearNames == {"createAcademicYear", "createCohort", "createCohortAcademicYear", "updateCohort"}
RuleNames == {"updateUser", "create", "update", "remove"}
Blind == {"updateRole", "renameField", "updateCustomFields", "updateUserCustomFields", "deletePrivilege",
          "deleteFieldValues"}
OptionHandlers == {"createFields", "updateFields", "deleteFieldOptions"}
Ops == TenantOps \cup YearOps \cup RuleOps \cup CodeOps \cup OptionOps

\* Where a request may be that is for codes.
Coding(f) == \/ f.op.name \in Looks /\ f.at \in {"look", "save"}
             \/ f.op.name \in Blind

RunsOK ==
    /\ DOMAIN run = Requests /\ scenario.ops \subseteq Ops
    /\ \A r \in Requests : 
        /\ DOMAIN run[r] = Fields
        /\ run[r].at # "idle" => run[r].op \in Ops
        /\ run[r].at = "idle" => run[r] = Idle
        /\ Coding(run[r]) => run[r].op \in CodeOps

\* Request r takes a step, and no other.
Only(r) ==
    /\ DOMAIN run' = Requests /\ \A q \in Requests \ {r} : run'[q] = run[q]
    /\ DOMAIN run'[r] = Fields /\ scenario' = scenario

\* Request r goes on to there.
Goes(r, there) ==
    Only(r) /\ run'[r].at = there /\ run'[r].op = run[r].op /\ run'[r].begun

Ends(r) == Only(r) /\ run'[r] = Idle

Grow == raced \subseteq raced' /\ failed \subseteq failed'

LEMMA SetStep ==
    ASSUME RunsOK, NEW r \in Requests, NEW f, Set(r, f), DOMAIN f = Fields, scenario' = scenario
    PROVE  Only(r) /\ run'[r] = f
BY DEF RunsOK, Set, Only

LEMMA EndStep ==
    ASSUME RunsOK, NEW r \in Requests, End(r), scenario' = scenario
    PROVE  Ends(r)
BY DEF RunsOK, Set, Only, End, Ends, Idle, Fields

LEMMA ThenIs ==
    ASSUME NEW f, DOMAIN f = Fields, NEW there
    PROVE  LET g == Then(f, there) IN
           /\ DOMAIN g = Fields /\ g.at = there /\ g.begun /\ g.op = f.op
           /\ g.seen = f.seen /\ g.left = f.left /\ g.wrote = f.wrote
BY DEF Then, Fields

LEMMA GoStep ==
    ASSUME RunsOK, NEW r \in Requests, NEW there, Go(r, there), scenario' = scenario
    PROVE  /\ Goes(r, there)
           /\ run'[r].seen = run[r].seen /\ run'[r].left = run[r].left /\ run'[r].wrote = run[r].wrote
<1>1. DOMAIN run[r] = Fields BY DEF RunsOK
<1> DEFINE g == Then(run[r], there)
<1>2. /\ DOMAIN g = Fields /\ g.at = there /\ g.begun /\ g.op = run[r].op
      /\ g.seen = run[r].seen /\ g.left = run[r].left /\ g.wrote = run[r].wrote
  BY <1>1, ThenIs
<1>3. Set(r, g) BY DEF Go
<1> HIDE DEF g
<1> QED BY <1>2, <1>3, SetStep DEF Goes

\* A request goes on with what it has just read, or has taken from what is left.
LEMMA SeenStep ==
    ASSUME RunsOK, NEW r \in Requests, NEW there, NEW v, scenario' = scenario,
           Set(r, [Then(run[r], there) EXCEPT !.seen = v])
    PROVE  /\ Goes(r, there)
           /\ run'[r].seen = v /\ run'[r].left = run[r].left /\ run'[r].wrote = run[r].wrote
<1> DEFINE f == [Then(run[r], there) EXCEPT !.seen = v]
<1>1. /\ DOMAIN f = Fields /\ f.at = there /\ f.begun /\ f.op = run[r].op
      /\ f.seen = v /\ f.left = run[r].left /\ f.wrote = run[r].wrote
  BY DEF RunsOK, Then, Fields
<1>2. Set(r, f) OBVIOUS
<1> HIDE DEF f
<1> QED BY <1>1, <1>2, SetStep DEF Goes

LEMMA SeenLeftStep ==
    ASSUME RunsOK, NEW r \in Requests, NEW there, NEW v, NEW l, scenario' = scenario,
           Set(r, [Then(run[r], there) EXCEPT !.seen = v, !.left = l])
    PROVE  /\ Goes(r, there)
           /\ run'[r].seen = v /\ run'[r].left = l /\ run'[r].wrote = run[r].wrote
<1> DEFINE f == [Then(run[r], there) EXCEPT !.seen = v, !.left = l]
<1>1. /\ DOMAIN f = Fields /\ f.at = there /\ f.begun /\ f.op = run[r].op
      /\ f.seen = v /\ f.left = l /\ f.wrote = run[r].wrote
  BY DEF RunsOK, Then, Fields
<1>2. Set(r, f) OBVIOUS
<1> HIDE DEF f
<1> QED BY <1>1, <1>2, SetStep DEF Goes

LEMMA SeenWroteStep ==
    ASSUME RunsOK, NEW r \in Requests, NEW there, NEW v, scenario' = scenario,
           Set(r, [Then(run[r], there) EXCEPT !.seen = v, !.wrote = TRUE])
    PROVE  Goes(r, there) /\ run'[r].seen = v /\ run'[r].left = run[r].left /\ run'[r].wrote
<1> DEFINE f == [Then(run[r], there) EXCEPT !.seen = v, !.wrote = TRUE]
<1>1. /\ DOMAIN f = Fields /\ f.at = there /\ f.begun /\ f.op = run[r].op
      /\ f.seen = v /\ f.left = run[r].left /\ f.wrote
  BY DEF RunsOK, Then, Fields
<1>2. Set(r, f) OBVIOUS
<1> HIDE DEF f
<1> QED BY <1>1, <1>2, SetStep DEF Goes

LEMMA WroteStep ==
    ASSUME RunsOK, NEW r \in Requests, NEW there, scenario' = scenario,
           Set(r, [Then(run[r], there) EXCEPT !.wrote = TRUE])
    PROVE  Goes(r, there) /\ run'[r].seen = run[r].seen /\ run'[r].left = run[r].left /\ run'[r].wrote
<1> DEFINE f == [Then(run[r], there) EXCEPT !.wrote = TRUE]
<1>1. /\ DOMAIN f = Fields /\ f.at = there /\ f.begun /\ f.op = run[r].op
      /\ f.seen = run[r].seen /\ f.left = run[r].left /\ f.wrote
  BY DEF RunsOK, Then, Fields
<1>2. Set(r, f) OBVIOUS
<1> HIDE DEF f
<1> QED BY <1>1, <1>2, SetStep DEF Goes

\* What others have read when r writes is marked.
LEMMA WritesMark ==
    ASSUME NEW r, NEW X, Writes(r, X), NEW q \in Requests \ {r}, run[q].at # "idle", run[q].begun,
           NEW x \in X, x \in run[q].op.of
    PROVE  x \in raced'
BY DEF Writes, Running

-----------------------------------------------------------------------------
(* Every step is one of a request of its kind. *)

TenantPlaces == {"find", "name", "parent", "walk", "save", "children", "delete"}
YearPlaces == {"overlap", "active", "deactivate", "insertYear", "cohort", "year", "saveCohort",
               "attach", "updateCohort", "equal", "current", "again", "revive", "saveRule",
               "exists", "insertRule", "rule", "patchRule", "removeRule"}
CodePlaces == {"look", "save", "update", "insert", "delete"}
OptionPlaces == {"options", "read", "write", "update", "delete", "check", "filter"}

\* r is at one of the places, and goes to one or ends.
Stays(r, names, places) ==
    /\ run[r].op.name \in names /\ run[r].at \in places
    /\ Only(r) /\ Grow
    /\ \/ run'[r] = Idle
       \/ run'[r].op = run[r].op /\ run'[r].at \in places

LEMMA TenantsStay ==
    ASSUME RunsOK, NEW r \in Requests, NextTenants(r)
    PROVE  Stays(r, TenantNames, TenantPlaces)
<1> USE DEF Stays, TenantNames, TenantPlaces, At, shared, Grow
<1>0. DOMAIN run[r] = Fields BY DEF RunsOK
<1>w. ASSUME NEW v, NEW l, scenario' = scenario,
             Set(r, [Then(run[r], "walk") EXCEPT !.seen = v, !.left = l])
      PROVE  Goes(r, "walk")
  BY <1>w, SeenLeftStep
<1>1. CASE FindTenant(r)
  BY <1>1, EndStep, GoStep DEF FindTenant, Ends, Goes
<1>2. CASE FindName(r)
  BY <1>2, EndStep, GoStep DEF FindName, Ends, Goes
<1>3. CASE FindNewParent(r)
  <2> DEFINE p == run[r].op.parent
  <2>1. CASE Set(r, [Then(run[r], "walk") EXCEPT !.seen = p, !.left = {run[r].op.id}])
    <3>1. Goes(r, "walk") BY <1>3, <1>w, <2>1 DEF FindNewParent
    <3> QED BY <1>3, <3>1 DEF FindNewParent, Goes
  <2>2. CASE End(r) \/ Go(r, "save")
    BY <1>3, <2>2, EndStep, GoStep DEF FindNewParent, Ends, Goes
  <2> QED BY <1>3, <2>1, <2>2 DEF FindNewParent
<1>4. CASE Walk(r)
  <2> DEFINE v == run[r].left \cup {run[r].seen}
             p == tenants[run[r].seen].parent
  <2>1. CASE Set(r, [Then(run[r], "walk") EXCEPT !.seen = p, !.left = v])
    <3>1. Goes(r, "walk") BY <1>4, <1>w, <2>1 DEF Walk
    <3> QED BY <1>4, <3>1 DEF Walk, Goes
  <2>2. CASE End(r) \/ Go(r, "save")
    BY <1>4, <2>2, EndStep, GoStep DEF Walk, Ends, Goes
  <2> QED BY <1>4, <2>1, <2>2 DEF Walk
<1>5. CASE SaveTenant(r)
  BY <1>5, EndStep DEF SaveTenant, Ends, Writes
<1>6. CASE FindChildren(r)
  BY <1>6, EndStep, GoStep DEF FindChildren, Ends, Goes
<1>7. CASE DeleteTenant(r)
  BY <1>7, EndStep DEF DeleteTenant, Ends, Writes
<1> QED BY <1>1, <1>2, <1>3, <1>4, <1>5, <1>6, <1>7 DEF NextTenants

LEMMA YearsStay ==
    ASSUME RunsOK, NEW r \in Requests, NextYears(r)
    PROVE  Stays(r, YearNames \cup RuleNames, YearPlaces)
<1> USE EndStep, GoStep, SeenStep DEF Stays, YearNames, RuleNames, YearPlaces, At, shared, Grow, Ends, Goes
<1>1. CASE FindOverlap(r) \/ FindActive(r)
  BY <1>1 DEF FindOverlap, FindActive
<1>2. CASE Deactivate(r)
  BY <1>2, WroteStep DEF Deactivate, Writes
<1>3. CASE InsertYear(r)
  BY <1>3 DEF InsertYear, Writes
<1>4. CASE FindCohort(r)
  BY <1>4 DEF FindCohort
<1>5. CASE FindYear(r)
  BY <1>5 DEF FindYear
<1>6. CASE SaveCohort(r)
  BY <1>6, SeenWroteStep DEF SaveCohort
<1>7. CASE Attach(r)
  BY <1>7 DEF Attach
<1>8. CASE FindCurrent(r)
  BY <1>8 DEF FindCurrent
<1>13. CASE FindAgain(r)
  <2>1. PICK here \in {"again", "revive"} :
          LET m == run[r].seen.id IN
          \/ End(r)
          \/ Set(r, [Then(run[r], "saveRule") EXCEPT !.seen =
                    Found(m, run[r].seen.old, [rules[m] EXCEPT !.active = (here = "revive")])])
    BY <1>13 DEF FindAgain
  <2> DEFINE m == run[r].seen.id
             v == Found(m, run[r].seen.old, [rules[m] EXCEPT !.active = (here = "revive")])
  <2>2. CASE Set(r, [Then(run[r], "saveRule") EXCEPT !.seen = v])
    <3> HIDE DEF v
    <3> QED BY <1>13, <2>2 DEF FindAgain
  <2>3. CASE End(r)
    BY <1>13, <2>3 DEF FindAgain
  <2> QED BY <2>1, <2>2, <2>3
<1>9. CASE SaveRule(r)
  <2>0. At(r, {"updateUser"}, "saveRule") /\ Grow /\ scenario' = scenario
    BY <1>9 DEF SaveRule, Writes
  <2>1. CASE End(r)
    BY <2>0, <2>1
  <2>2. CASE Set(r, [Then(run[r], "exists") EXCEPT !.seen = None, !.wrote = TRUE])
    BY <2>0, <2>2, SeenWroteStep
  <2>3. CASE Set(r, [Then(run[r], "revive") EXCEPT !.seen = Found(run[r].seen.old, None, None),
                                                   !.wrote = TRUE])
    <3>1. PICK v : v = Found(run[r].seen.old, None, None) OBVIOUS
    <3> QED BY <2>0, <2>3, <3>1, SeenWroteStep
  <2> QED BY <1>9, <2>1, <2>2, <2>3 DEF SaveRule
<1>10. CASE FindEqual(r)
  BY <1>10 DEF FindEqual
<1>11. CASE InsertRule(r)
  BY <1>11 DEF InsertRule, Writes
<1>12. CASE FindRule(r) \/ PatchRule(r) \/ RemoveRule(r)
  BY <1>12 DEF FindRule, PatchRule, RemoveRule, Writes
<1>14. CASE FindToUpdate(r) \/ UpdateCohort(r)
  BY <1>14 DEF FindToUpdate, UpdateCohort
<1>15. CASE LookEqual(r)
  BY <1>15 DEF LookEqual
<1> QED BY <1>1, <1>2, <1>3, <1>4, <1>5, <1>6, <1>7, <1>8, <1>9, <1>10, <1>11, <1>12, <1>13,
           <1>14, <1>15 DEF NextYears

\* Codes share the name createFields with options, not the places.
LEMMA CodesStay ==
    ASSUME RunsOK, NEW r \in Requests, NextCodes(r)
    PROVE  Coding(run[r]) /\ Stays(r, Looks \cup Blind, CodePlaces) /\ (Coding(run'[r]) \/ run'[r] = Idle)
<1> USE EndStep, GoStep, SeenStep DEF Stays, Looks, Skips, Refuses, Repeats, Blind, Coding, CodePlaces, At, shared, Grow, Ends, Goes
<1>0. DOMAIN run[r] = Fields BY DEF RunsOK
<1>1. CASE Look(r)
  <2>1. PICK k \in run[r].op.keys \ run[r].left :
          LET done == [Then(run[r], "save") EXCEPT !.seen = k, !.left = @ \cup {k}] IN
          \/ End(r) \/ Set(r, done) \/ Set(r, [done EXCEPT !.at = "look"])
    BY <1>1 DEF Look
  <2> DEFINE l == run[r].left \cup {k}
             f == [Then(run[r], "save") EXCEPT !.seen = k, !.left = l]
             g == [f EXCEPT !.at = "look"]
  <2>2. /\ DOMAIN f = Fields /\ f.at = "save" /\ f.op = run[r].op
        /\ DOMAIN g = Fields /\ g.at = "look" /\ g.op = run[r].op
    <3>1. DOMAIN f = Fields /\ f.at = "save" /\ f.op = run[r].op
      BY <1>0 DEF Then, Fields
    <3> HIDE DEF f
    <3> QED BY <3>1 DEF Fields
  <2>3. \/ End(r) \/ Set(r, f) \/ Set(r, g)
    BY <2>1 DEF RunsOK, Then, Fields
  <2>4. CASE Set(r, f)
    <3> HIDE DEF f, g
    <3> QED BY <1>1, <2>2, <2>4, SetStep DEF Look
  <2>5. CASE Set(r, g)
    <3> HIDE DEF g
    <3> QED BY <1>1, <2>2, <2>5, SetStep DEF Look
  <2> QED BY <1>1, <2>3, <2>4, <2>5 DEF Look
<1>2. CASE LookFails(r)
  <2>1. PICK k : End(r) \/ Set(r, [run[r] EXCEPT !.left = @ \cup {k}])
    BY <1>2 DEF LookFails
  <2> DEFINE g == [run[r] EXCEPT !.left = @ \cup {k}]
  <2>2. DOMAIN g = Fields /\ g.at = run[r].at /\ g.op = run[r].op
    BY DEF RunsOK, Fields
  <2>3. CASE Set(r, g)
    <3> HIDE DEF g
    <3> QED BY <1>2, <2>2, <2>3, SetStep DEF LookFails
  <2> QED BY <1>2, <2>1, <2>3 DEF LookFails
<1>3. CASE SaveCode(r)
  BY <1>3, WroteStep DEF SaveCode, Writes
<1>4. CASE SaveBlindly(r)
  BY <1>4 DEF SaveBlindly, Renames, Writes
<1>5. CASE UpdateValues(r)
  BY <1>5 DEF UpdateValues
<1>6. CASE InsertValue(r)
  BY <1>6 DEF InsertValue, Writes
<1>7. CASE DeletePrivilege(r) \/ DeleteValues(r)
  BY <1>7 DEF DeletePrivilege, DeleteValues
<1> QED BY <1>1, <1>2, <1>3, <1>4, <1>5, <1>6, <1>7 DEF NextCodes

LEMMA OptionsStay ==
    ASSUME RunsOK, NEW r \in Requests, NextOptions(r)
    PROVE  Stays(r, OptionHandlers, OptionPlaces)
<1> USE EndStep, GoStep DEF Stays, OptionHandlers, OptionPlaces, At, Updating, shared, Grow, Ends, Goes
<1>0. DOMAIN run[r] = Fields
  BY DEF RunsOK
<1>1. CASE NoOptions(r)
  BY <1>1 DEF NoOptions
<1>2. CASE FindParam(r)
  <2>1. PICK o : Set(r, Loop(Done(r, o))) \/ Set(r, [Done(r, o) EXCEPT !.at = "read"])
    BY <1>2 DEF FindParam
  <2> DEFINE f == Loop(Done(r, o))
             g == [Done(r, o) EXCEPT !.at = "read"]
  <2>2. DOMAIN f = Fields /\ f.at \in {"options", "update"} /\ f.op = run[r].op
    BY <1>0 DEF Loop, Done, Then, Fields
  <2>3. DOMAIN g = Fields /\ g.at = "read" /\ g.op = run[r].op
    BY <1>0 DEF Done, Then, Fields
  <2>4. Updating(r, "options") /\ scenario' = scenario /\ Grow
    BY <1>2 DEF FindParam
  <2>5. Set(r, f) \/ Set(r, g) BY <2>1
  <2> HIDE DEF f, g
  <2> QED BY <2>2, <2>3, <2>4, <2>5, SetStep
<1>3. CASE FindRow(r)
  <2>1. PICK o : \/ End(r) /\ failed' = IF run[r].wrote THEN failed \cup run[r].op.of ELSE failed
                 \/ Set(r, [Done(r, o) EXCEPT !.at = "write"]) /\ failed' = failed
    BY <1>3 DEF FindRow
  <2> DEFINE g == [Done(r, o) EXCEPT !.at = "write"]
  <2>3. DOMAIN g = Fields /\ g.at = "write" /\ g.op = run[r].op
    BY <1>0 DEF Done, Then, Fields
  <2>4. Updating(r, "options") /\ scenario' = scenario /\ Grow
    BY <1>3, <2>1 DEF FindRow
  <2>5. End(r) \/ Set(r, g) BY <2>1
  <2> HIDE DEF g
  <2> QED BY <2>3, <2>4, <2>5, SetStep
<1>4. CASE ReadOptions(r)
  <2> DEFINE g == [Then(run[r], "write") EXCEPT !.seen = options[run[r].op.field] \cup @]
  <2>3. DOMAIN g = Fields /\ g.at = "write" /\ g.op = run[r].op
    BY <1>0 DEF Then, Fields
  <2>4. Set(r, g) BY <1>4 DEF ReadOptions
  <2> HIDE DEF g
  <2> QED BY <1>4, <2>3, <2>4, SetStep DEF ReadOptions
<1>5. CASE WriteOption(r)
  <2> DEFINE g == [Loop(run[r]) EXCEPT !.wrote = TRUE]
  <2>3. DOMAIN g = Fields /\ g.at \in {"options", "update"} /\ g.op = run[r].op
    BY <1>0 DEF Loop, Then, Fields
  <2>4. Set(r, g) BY <1>5 DEF WriteOption
  <2> HIDE DEF g
  <2> QED BY <1>5, <2>3, <2>4, SetStep DEF WriteOption, Writes
<1>6. CASE UpdateField(r)
  BY <1>6 DEF UpdateField, Writes
<1>7. CASE DeleteRows(r)
  BY <1>7 DEF DeleteRows, Writes
<1>8. CASE CheckOption(r)
  BY <1>8, SeenStep DEF CheckOption
<1>9. CASE FilterOptions(r)
  BY <1>9 DEF FilterOptions, Writes
<1> QED BY <1>1, <1>2, <1>3, <1>4, <1>5, <1>6, <1>7, <1>8, <1>9 DEF NextOptions

-----------------------------------------------------------------------------
(* Where requests begin. *)

LEMMA TenantsBegin ==
    ASSUME NEW o \in TenantOps
    PROVE  /\ o.name \in TenantNames /\ o.of = {<<"tree", None>>}
           /\ First(o) = IF o.name = "createTenants" THEN "name" ELSE "find"
<1>1. \E name \in TenantNames : \E id, called, parent : o = TenantOp(name, id, called, parent)
  BY DEF TenantOps, TenantNames
<1>2. o.name \in TenantNames /\ o.of = {<<"tree", None>>}
  BY <1>1 DEF TenantOp
<1>4. ~ \E x \in o.of : x[1] \in CodeTables
  BY <1>2 DEF CodeTables
<1>3. First(o) = FirstOfTenant(o)
  BY <1>2, <1>4 DEF TenantNames, First
<1> QED BY <1>2, <1>3 DEF FirstOfTenant

LEMMA YearsBegin ==
    ASSUME NEW o \in YearOps
    PROVE  /\ o.name \in YearNames /\ o.school \in Schools /\ o.of = {<<"years", o.school>>}
           /\ o.name \notin {"createAcademicYear", "updateCohort"} => o.year \in YearIds
           /\ o.name \in {"createCohortAcademicYear", "updateCohort"}
                => o.cohort \in CohortIds /\ First(o) = "cohort"
           /\ o.name = "createAcademicYear" => First(o) = "overlap"
           /\ o.name = "createCohort" => First(o) = "year"
<1>1. \E name \in YearNames, s \in Schools : \E days, y, c :
        /\ o = YearOp(name, s, days, y, c)
        /\ name \notin {"createAcademicYear", "updateCohort"} => y \in YearIds
        /\ name \in {"createCohortAcademicYear", "updateCohort"} => c \in CohortIds
  BY DEF YearOps, YearNames
<1>2. /\ o.name \in YearNames /\ o.school \in Schools /\ o.of = {<<"years", o.school>>}
      /\ o.name \notin {"createAcademicYear", "updateCohort"} => o.year \in YearIds
      /\ o.name \in {"createCohortAcademicYear", "updateCohort"} => o.cohort \in CohortIds
  BY <1>1 DEF YearOp
<1>4. ~ \E x \in o.of : x[1] \in CodeTables
  BY <1>2 DEF CodeTables
<1>3. First(o) = FirstOfYear(o)
  BY <1>2, <1>4 DEF YearNames, First
<1> QED BY <1>2, <1>3 DEF FirstOfYear, YearNames

LEMMA RulesBegin ==
    ASSUME NEW o \in RuleOps
    PROVE  /\ o.name \in RuleNames /\ o.user \in Users /\ o.of = {<<"rules", o.user>>}
           /\ o.name = "updateUser" => First(o) = "equal"
           /\ o.name = "create" => First(o) = "exists"
           /\ o.name \in {"update", "remove"} => First(o) = "rule"
<1>1. \E name \in RuleNames, u \in Users : \E v, m, a : o = RuleOp(name, u, v, m, a)
  <2> DEFINE Offered == {RuleOp(name, u, v, None, TRUE) :
                          u \in Users, v \in Values, name \in {"updateUser", "create"}}
             Patched == {RuleOp("update", u, v, m, active) :
                          u \in Users, v \in Values, m \in RuleIds, active \in BOOLEAN}
             Removed == {RuleOp("remove", u, None, m, FALSE) : u \in Users, m \in RuleIds}
  <2>0. "updateUser" \in RuleNames /\ "create" \in RuleNames /\ "update" \in RuleNames
        /\ "remove" \in RuleNames
    BY DEF RuleNames
  <2>1. CASE o \in Offered
    <3>1. PICK u \in Users, v \in Values, name \in {"updateUser", "create"} :
            o = RuleOp(name, u, v, None, TRUE)
      BY <2>1 DEF RuleOp
    <3> QED BY <2>0, <3>1
  <2>2. CASE o \in Patched
    <3>1. PICK u \in Users, v \in Values, m \in RuleIds, active \in BOOLEAN :
            o = RuleOp("update", u, v, m, active)
      BY <2>2
    <3> QED BY <2>0, <3>1
  <2>3. CASE o \in Removed
    <3>1. PICK u \in Users, m \in RuleIds : o = RuleOp("remove", u, None, m, FALSE)
      BY <2>3 DEF RuleOp
    <3> QED BY <2>0, <3>1
  <2>4. o \in Offered \/ o \in Patched \/ o \in Removed
    BY DEF RuleOps, RuleOp
  <2> HIDE DEF Offered, Patched, Removed
  <2> QED BY <2>1, <2>2, <2>3, <2>4
<1>2. o.name \in RuleNames /\ o.user \in Users /\ o.of = {<<"rules", o.user>>}
  BY <1>1 DEF RuleOp
<1>4. ~ \E x \in o.of : x[1] \in CodeTables
  BY <1>2 DEF CodeTables
<1>3. First(o) = FirstOfYear(o)
  BY <1>2, <1>4 DEF RuleNames, First
<1> QED BY <1>2, <1>3 DEF FirstOfYear, RuleNames

LEMMA OpsOnIs ==
    ASSUME NEW table, NEW names, NEW K, NEW ids, \A keys \in K : keys \subseteq Keys /\ keys # {},
           NEW o \in OpsOn(table, names, K, ids)
    PROVE  /\ o.name \in names /\ o.table = table /\ o.keys \subseteq Keys /\ o.keys # {}
           /\ o.of = {<<o.table, k>> : k \in o.keys}
BY DEF OpsOn, CodeOp

LEMMA CodesBegin ==
    ASSUME NEW o \in CodeOps
    PROVE  /\ o.name \in Looks \cup Blind /\ o.of = {<<o.table, k>> : k \in o.keys}
           /\ o.table \in CodeTables /\ o.keys \subseteq Keys
           /\ o.name \in {"updateCustomFields", "updateUserCustomFields", "deleteFieldValues"}
                => o.table = "FieldValues"
           /\ o.name \in Looks => First(o) = "look"
           /\ o.name \in Blind => First(o) \in {"save", "update", "delete"}
<1>1. /\ o.name \in Looks \cup Blind /\ o.of = {<<o.table, k>> : k \in o.keys}
      /\ o.table \in CodeTables /\ o.keys \subseteq Keys /\ o.keys # {}
      /\ o.name \in {"updateCustomFields", "updateUserCustomFields", "deleteFieldValues"}
           => o.table = "FieldValues"
  <2> DEFINE One == {{k} : k \in Keys}
             Some == {K \in SUBSET Keys : K # {}}
  <2>1. \A K \in One : K \subseteq Keys /\ K # {}
    <3>1. ASSUME NEW K \in One PROVE K \subseteq Keys /\ K # {}
      <4>1. PICK k \in Keys : K = {k} OBVIOUS
      <4> QED BY <4>1
    <3> QED BY <3>1
  <2>2. \A K \in Some : K \subseteq Keys /\ K # {}
    OBVIOUS
  <2>3. \/ o \in OpsOn("Roles", {"createRole"}, Some, {None})
        \/ o \in OpsOn("Roles", {"updateRole"}, One, CodeIds)
        \/ o \in OpsOn("Privileges", {"createPrivilege"}, Some, {None})
        \/ o \in OpsOn("Privileges", {"deletePrivilege"}, One, CodeIds)
        \/ o \in OpsOn("Forms", {"createForm"}, One, {None})
        \/ o \in OpsOn("Fields", {"createFields"}, One, {None})
        \/ o \in OpsOn("Fields", {"renameField"}, One, CodeIds)
        \/ o \in OpsOn("FieldValues", {"deleteFieldValues"}, Some, {None})
        \/ o \in OpsOn("FieldValues", {"createFieldValues", "updateCustomFields",
                                       "updateUserCustomFields"}, One, {None})
    BY DEF CodeOps
  <2> HIDE DEF One, Some
  <2> QED BY <2>1, <2>2, <2>3, OpsOnIs
        DEF CodeTables, Looks, Skips, Refuses, Repeats, Blind
<1>2. \E x \in o.of : x[1] \in CodeTables
  <2>1. PICK k \in o.keys : TRUE BY <1>1
  <2>2. <<o.table, k>> \in o.of BY <1>1
  <2>3. <<o.table, k>>[1] = o.table OBVIOUS
  <2> QED BY <1>1, <2>2, <2>3
<1>3. First(o) = FirstOfCode(o)
  BY <1>1, <1>2 DEF First, Looks, Skips, Refuses, Repeats, Blind
<1> QED BY <1>1, <1>3 DEF FirstOfCode, Renames, Looks, Skips, Refuses, Repeats, Blind

LEMMA OptionsBegin ==
    ASSUME NEW o \in OptionOps
    PROVE  /\ o.name \in OptionHandlers /\ o.of = {<<"options", o.field>>}
           /\ First(o) = FirstOfOption(o)
           /\ First(o) \in {"options", "update", "delete", "check"}
<1>1. o.name \in OptionHandlers /\ o.of = {<<"options", o.field>>}
  BY DEF OptionOps, OptionHandlers
<1>2. ~ \E x \in o.of : x[1] \in CodeTables
  BY <1>1 DEF CodeTables
<1>3. First(o) = FirstOfOption(o)
  BY <1>1, <1>2 DEF First, OptionHandlers
<1> QED BY <1>1, <1>3 DEF FirstOfOption

LEMMA ArriveStep ==
    ASSUME RunsOK, NEW r \in Requests, NEW o \in scenario.ops, Start(r, o)
    PROVE  /\ Only(r) /\ run[r].at = "idle" /\ run'[r].op = o /\ run'[r].at = First(o)
           /\ ~run'[r].begun /\ ~run'[r].wrote /\ run'[r].left = {}
           /\ UNCHANGED <<tenants, yearVars, codes, optionVars, raced, failed>>
<1> DEFINE f == [Idle EXCEPT !.at = First(o), !.op = o]
<1>1. DOMAIN f = Fields /\ f.at = First(o) /\ f.op = o /\ ~f.begun /\ ~f.wrote /\ f.left = {}
  BY DEF Idle, Fields
<1>2. Set(r, f) /\ scenario' = scenario /\ run[r].at = "idle"
  BY DEF Start, Arrive, Set, shared
<1> HIDE DEF f
<1> QED BY <1>1, <1>2, SetStep DEF Start, Arrive, shared, yearVars, optionVars

LEMMA StayKeepsRuns ==
    ASSUME RunsOK, NEW r \in Requests, NEW names, NEW places, Stays(r, names, places),
           "idle" \notin places, Coding(run'[r]) => run[r].op \in CodeOps \/ run'[r] = Idle
    PROVE  RunsOK'
BY DEF RunsOK, Stays, Only, Coding, Idle, NoOp, Looks, Skips, Refuses, Repeats, Blind

LEMMA StepKeepsRuns == RunsOK /\ [Next]_vars => RunsOK'
<1> SUFFICES ASSUME RunsOK, [Next]_vars PROVE RunsOK'
  OBVIOUS
<1>1. CASE UNCHANGED vars
  BY <1>1 DEF vars, shared, RunsOK, Coding
<1>2. ASSUME NEW r \in Requests, NEW o \in scenario.ops, Start(r, o) PROVE RunsOK'
  <2>1. o \in Ops BY DEF RunsOK
  <2>2. First(o) # "idle"
    BY <2>1, TenantsBegin, YearsBegin, RulesBegin, CodesBegin, OptionsBegin
       DEF Ops, YearNames, RuleNames, TenantNames
  <2>3. Coding(run'[r]) => o \in CodeOps
    BY <1>2, <2>1, ArriveStep, TenantsBegin, YearsBegin, RulesBegin, OptionsBegin
       DEF Ops, Coding, Looks, Skips, Refuses, Repeats, Blind, TenantNames, YearNames, RuleNames,
           OptionHandlers
  <2> QED BY <1>2, <2>1, <2>2, <2>3, ArriveStep DEF RunsOK, Only, Coding
<1>3. ASSUME NEW r \in Requests, NextTenants(r) PROVE RunsOK'
  BY <1>3, TenantsStay, StayKeepsRuns
     DEF Stays, TenantNames, TenantPlaces, Coding, Looks, Skips, Refuses, Repeats, Blind
<1>4. ASSUME NEW r \in Requests, NextYears(r) PROVE RunsOK'
  BY <1>4, YearsStay, StayKeepsRuns
     DEF Stays, YearNames, RuleNames, YearPlaces, Coding, Looks, Skips, Refuses, Repeats, Blind
<1>5. ASSUME NEW r \in Requests, NextCodes(r) PROVE RunsOK'
  <2>1. run[r].op \in CodeOps
    BY <1>5, CodesStay DEF RunsOK
  <2> QED BY <1>5, <2>1, CodesStay, StayKeepsRuns DEF CodePlaces
<1>6. ASSUME NEW r \in Requests, NextOptions(r) PROVE RunsOK'
  BY <1>6, OptionsStay, StayKeepsRuns
     DEF Stays, OptionHandlers, OptionPlaces, Coding, Looks, Skips, Refuses, Repeats, Blind
<1>7. ASSUME NEW r \in Requests, Abort(r) PROVE RunsOK'
  <2>1. Ends(r) BY <1>7, EndStep DEF Abort
  <2>2. ~Coding(run'[r]) /\ run'[r].at = "idle"
    BY <2>1 DEF Ends, Coding, Idle, NoOp, Looks, Skips, Refuses, Repeats, Blind
  <2> QED BY <2>1, <2>2 DEF RunsOK, Ends, Only, Coding
<1> QED BY <1>1, <1>2, <1>3, <1>4, <1>5, <1>6, <1>7 DEF Next
-----------------------------------------------------------------------------
(* Codes: a request that has found no row with a key inserts one; while it is about to, the *)
(* key stays free, or the write that took it has marked it in raced.                        *)

\* r is about to insert a row with the key that it has seen.
Inserting(r) == \/ At(r, Looks, "save")
                \/ At(r, {"updateCustomFields"}, "insert")

Clear(t, k) == Having(t, k) = {} \/ <<t, k>> \in raced

\* The rows with a key that were looked for.
LookedFor(t, k) == {m \in Having(t, k) : codes[m].looked}

KnowsCode(r) ==
    Inserting(r) =>
        /\ run[r].begun /\ run[r].seen \in run[r].op.keys
        /\ run[r].op.name \notin Repeats => Clear(run[r].op.table, run[r].seen)

CodesInv ==
    /\ codes \in [CodeIds -> CodeRow \cup {None}]
    /\ \A t \in CodeTables, k \in Keys :
        <<t, k>> \in raced \/ \A m, n \in LookedFor(t, k) : m = n
    /\ \A r \in Requests : KnowsCode(r)

LEMMA CodesImplyUnique == CodesInv => KeysUnique
<1> SUFFICES ASSUME CodesInv, NEW m \in CodeIds, NEW n \in CodeIds, m # n,
                    codes[m] # None, codes[n] # None,
                    codes[m].table = codes[n].table, codes[m].key = codes[n].key,
                    codes[m].looked, codes[n].looked
             PROVE  <<codes[m].table, codes[m].key>> \in raced
  BY DEF KeysUnique
<1>1. codes[m].table \in CodeTables /\ codes[m].key \in Keys
  BY DEF CodesInv, CodeRow
<1>2. {m, n} \subseteq LookedFor(codes[m].table, codes[m].key)
  BY DEF Having, LookedFor
<1> QED BY <1>1, <1>2 DEF CodesInv

\* What inserting requests know of their op.
LEMMA InsertingIs ==
    ASSUME RunsOK, NEW r \in Requests, Inserting(r)
    PROVE  /\ run[r].at # "idle" /\ run[r].op \in CodeOps
           /\ run[r].op.of = {<<run[r].op.table, k>> : k \in run[r].op.keys}
           /\ run[r].op.table \in CodeTables /\ run[r].op.keys \subseteq Keys
           /\ run[r].op.name = "updateCustomFields" => run[r].op.table = "FieldValues"
<1>1. run[r].at # "idle" /\ run[r].op \in CodeOps
  BY DEF Inserting, At, RunsOK, Coding, Blind
<1> QED BY <1>1, CodesBegin

\* A step that changes no code.
LEMMA CodesStand ==
    ASSUME CodesInv, NEW r \in Requests, Only(r), KnowsCode(r)', raced \subseteq raced',
           UNCHANGED codes
    PROVE  CodesInv'
<1>1. \A t, k : Having(t, k)' = Having(t, k) /\ LookedFor(t, k)' = LookedFor(t, k)
  BY DEF Having, LookedFor
<1>2. \A t, k : Clear(t, k) => Clear(t, k)'
  BY <1>1 DEF Clear
<1>3. ASSUME NEW q \in Requests PROVE KnowsCode(q)'
  <2>1. CASE q = r
    BY <2>1
  <2>2. CASE q # r
    <3>1. run'[q] = run[q] /\ KnowsCode(q)
      BY <2>2 DEF Only, CodesInv
    <3> QED BY <1>2, <3>1 DEF KnowsCode, Inserting, At
  <2> QED BY <2>1, <2>2
<1>4. ASSUME NEW t \in CodeTables, NEW k \in Keys
      PROVE  <<t, k>> \in raced' \/ \A m, n \in LookedFor(t, k)' : m = n
  BY <1>1 DEF CodesInv
<1> QED BY <1>3, <1>4 DEF CodesInv

\* A step after which one more row, at most, has the key of t and k, and no other has one
\* more; a row that was looked for, only if the key was free.
Changed(t, k, m, looked) ==
    /\ \A u, l : <<u, l>> # <<t, k>> => /\ Having(u, l)' \subseteq Having(u, l)
                                       /\ LookedFor(u, l)' \subseteq LookedFor(u, l)
    /\ LookedFor(t, k)' \subseteq LookedFor(t, k) \cup (IF looked THEN {m} ELSE {})

LEMMA CodesWritten ==
    ASSUME RunsOK, CodesInv, NEW r \in Requests, Only(r), ~Inserting(r)',
           raced \subseteq raced', codes' \in [CodeIds -> CodeRow \cup {None}],
           NEW t \in CodeTables, NEW k \in Keys, NEW m, NEW looked \in BOOLEAN,
           Changed(t, k, m, looked), looked => Clear(t, k), Writes(r, {<<t, k>>})
    PROVE  CodesInv'
<1>1. ASSUME NEW u \in CodeTables, NEW l \in Keys
      PROVE  <<u, l>> \in raced' \/ \A n, o \in LookedFor(u, l)' : n = o
  <2>1. CASE <<u, l>> = <<t, k>>
    BY <2>1 DEF CodesInv, Changed, Clear, LookedFor
  <2>2. CASE <<u, l>> # <<t, k>>
    BY <2>2 DEF CodesInv, Changed
  <2> QED BY <2>1, <2>2
<1>2. ASSUME NEW q \in Requests PROVE KnowsCode(q)'
  <2>1. CASE ~Inserting(q)' BY <2>1 DEF KnowsCode
  <2>2. CASE Inserting(q)'
    <3>1. q # r /\ run'[q] = run[q] /\ Inserting(q)
      BY <2>2 DEF Only, Inserting, At
    <3>2. /\ run[q].begun /\ run[q].seen \in run[q].op.keys
          /\ run[q].op.name \notin Repeats => Clear(run[q].op.table, run[q].seen)
      BY <3>1 DEF CodesInv, KnowsCode
    <3>3. ASSUME NEW u, NEW l, u = run[q].op.table, l = run[q].seen, Clear(u, l)
          PROVE  Clear(u, l)'
      <4>1. CASE <<u, l>> = <<t, k>>
        <5>1. <<u, l>> \in run[q].op.of /\ run[q].at # "idle"
          BY <3>1, <3>2, <3>3, InsertingIs
        <5>2. <<u, l>> \in raced'
          BY <3>1, <3>2, <4>1, <5>1, WritesMark
        <5> QED BY <5>2 DEF Clear
      <4>2. CASE <<u, l>> # <<t, k>>
        BY <3>3, <4>2 DEF Clear, Changed
      <4> QED BY <4>1, <4>2
    <3> QED BY <3>1, <3>2, <3>3 DEF KnowsCode
  <2> QED BY <2>1, <2>2
<1> QED BY <1>1, <1>2 DEF CodesInv

LEMMA InsertIs ==
    ASSUME codes \in [CodeIds -> CodeRow \cup {None}], NEW t \in CodeTables, NEW k \in Keys,
           NEW looked \in BOOLEAN, Insert(t, k, looked)
    PROVE  codes' \in [CodeIds -> CodeRow \cup {None}] /\ \E m \in CodeIds : Changed(t, k, m, looked)
<1>1. PICK m \in CodeIds :
        codes[m] = None /\ codes' = [codes EXCEPT ![m] = Row(t, k, looked)]
  BY DEF Insert
<1> DEFINE row == Row(t, k, looked)
<1>3. row \in CodeRow /\ row.table = t /\ row.key = k /\ row.looked = looked
  BY DEF Row, CodeRow
<1> HIDE DEF row
<1>4. codes' = [codes EXCEPT ![m] = row]
  BY <1>1 DEF row
<1>5. ASSUME NEW u, NEW l, NEW n \in Having(u, l)'
      PROVE  n \in Having(u, l) \/ (n = m /\ u = t /\ l = k)
  BY <1>3, <1>4, <1>5 DEF Having
<1>6. ASSUME NEW u, NEW l, NEW n \in LookedFor(u, l)'
      PROVE  n \in LookedFor(u, l) \/ (n = m /\ u = t /\ l = k /\ looked)
  BY <1>3, <1>4, <1>6 DEF Having, LookedFor
<1> QED BY <1>3, <1>4, <1>5, <1>6 DEF Changed

\* Rows go, or are left alone.
LEMMA FewerIs ==
    ASSUME codes \in [CodeIds -> CodeRow \cup {None}], codes' \in [CodeIds -> CodeRow \cup {None}],
           \A m \in CodeIds : codes'[m] \in {codes[m], None}
    PROVE  \A u, l : /\ Having(u, l)' \subseteq Having(u, l)
                     /\ LookedFor(u, l)' \subseteq LookedFor(u, l)
BY DEF Having, LookedFor

LEMMA LookKeepsCodes ==
    ASSUME RunsOK, CodesInv, NEW r \in Requests, Look(r)
    PROVE  CodesInv'
<1>1. UNCHANGED codes /\ UNCHANGED shared /\ run[r].op.name \in Looks
  BY DEF Look, At
<1>2. PICK k \in run[r].op.keys \ run[r].left :
        LET done == [Then(run[r], "save") EXCEPT !.seen = k, !.left = @ \cup {k}] IN
        \/ Set(r, done) /\ (Having(run[r].op.table, k) = {} \/ run[r].op.name \in Repeats)
        \/ End(r)
        \/ Set(r, [done EXCEPT !.at = "look"])
  BY DEF Look
<1> DEFINE l == run[r].left \cup {k}
           f == [Then(run[r], "save") EXCEPT !.seen = k, !.left = l]
           g == [f EXCEPT !.at = "look"]
<1>3. /\ DOMAIN f = Fields /\ f.at = "save" /\ f.op = run[r].op /\ f.begun /\ f.seen = k
      /\ DOMAIN g = Fields /\ g.at = "look" /\ g.op = run[r].op
  BY DEF RunsOK, Then, Fields
<1>4. \/ Set(r, f) /\ (Having(run[r].op.table, k) = {} \/ run[r].op.name \in Repeats)
      \/ End(r)
      \/ Set(r, g)
  BY <1>2 DEF RunsOK, Then, Fields
<1> HIDE DEF f, g
<1>5. Only(r) /\ (run'[r] = f \/ run'[r] = Idle \/ run'[r] = g)
  BY <1>1, <1>3, <1>4, SetStep, EndStep DEF Ends, shared
<1>6. KnowsCode(r)'
  <2>1. CASE Set(r, f) /\ (Having(run[r].op.table, k) = {} \/ run[r].op.name \in Repeats)
    <3>1. run'[r] = f
      BY <1>1, <1>3, <2>1, SetStep DEF shared
    <3>2. ASSUME NEW t, t = run[r].op.table, Having(t, k) = {} PROVE Clear(t, k)'
      BY <1>1, <3>2 DEF Clear, Having
    <3> QED BY <1>2, <1>3, <2>1, <3>1, <3>2 DEF KnowsCode
  <2>2. CASE End(r)
    BY <1>1, <2>2, EndStep
       DEF Ends, shared, KnowsCode, Inserting, At, Idle, NoOp
  <2>3. CASE Set(r, g)
    <3>1. run'[r] = g
      BY <1>1, <1>3, <2>3, SetStep DEF shared
    <3> QED BY <1>3, <3>1, <1>1
         DEF KnowsCode, Inserting, At, Looks, Skips, Refuses, Repeats
  <2> QED BY <1>4, <2>1, <2>2, <2>3
<1> QED BY <1>1, <1>5, <1>6, CodesStand DEF shared

LEMMA SaveKeepsCodes ==
    ASSUME RunsOK, CodesInv, NEW r \in Requests, SaveCode(r)
    PROVE  CodesInv'
<1> DEFINE t == run[r].op.table
           k == run[r].seen
           looked == run[r].op.name \notin Repeats
<1>1. Inserting(r)
  BY DEF SaveCode, Inserting
<1>2. t \in CodeTables /\ k \in Keys /\ (looked => Clear(t, k))
  BY <1>1, InsertingIs DEF CodesInv, KnowsCode
<1>3. Insert(t, k, looked) /\ Writes(r, {<<t, k>>}) /\ UNCHANGED <<failed, scenario>>
  BY DEF SaveCode
<1>4. looked \in BOOLEAN /\ raced \subseteq raced'
  BY <1>3 DEF Writes
<1>5. Only(r) /\ ~Inserting(r)'
  <2>1. CASE End(r)
    BY <1>3, <2>1, EndStep DEF Ends, Inserting, At, Idle, NoOp
  <2>2. CASE Set(r, [Then(run[r], "look") EXCEPT !.wrote = TRUE])
    BY <1>3, <2>2, WroteStep DEF Goes, Inserting, At
  <2> QED BY <2>1, <2>2 DEF SaveCode
<1> HIDE DEF t, k, looked
<1>6. codes' \in [CodeIds -> CodeRow \cup {None}] /\ \E m \in CodeIds : Changed(t, k, m, looked)
  BY <1>2, <1>3, <1>4, InsertIs DEF CodesInv
<1> QED BY <1>2, <1>3, <1>4, <1>5, <1>6, CodesWritten

\* The row with the id, if it is one of the table, has another key.
Renamed(t, k, id) ==
    codes' = [codes EXCEPT ![id] = IF @ # None /\ @.table = t THEN Row(t, k, FALSE) ELSE @]

LEMMA RenameIs ==
    ASSUME codes \in [CodeIds -> CodeRow \cup {None}], NEW t \in CodeTables, NEW k \in Keys, NEW id,
           Renamed(t, k, id)
    PROVE  codes' \in [CodeIds -> CodeRow \cup {None}] /\ \E m : Changed(t, k, m, FALSE)
<1>1. CASE id \in CodeIds /\ codes[id] # None /\ codes[id].table = t
  <2> DEFINE row == Row(t, k, FALSE)
  <2>1. row \in CodeRow /\ row.table = t /\ row.key = k /\ row.looked = FALSE
    BY DEF CodeRow, Row
  <2>2. codes' = [codes EXCEPT ![id] = row]
    BY <1>1 DEF Renamed
  <2> HIDE DEF row
  <2>3. ASSUME NEW u, NEW l, NEW n \in Having(u, l)'
        PROVE  n \in Having(u, l) \/ (n = id /\ u = t /\ l = k)
    BY <1>1, <2>1, <2>2, <2>3 DEF Having
  <2>4. ASSUME NEW u, NEW l, NEW n \in LookedFor(u, l)'
        PROVE  n \in LookedFor(u, l)
    BY <1>1, <2>1, <2>2, <2>4 DEF Having, LookedFor
  <2>5. Changed(t, k, id, FALSE)
    BY <2>3, <2>4 DEF Changed
  <2>6. codes' \in [CodeIds -> CodeRow \cup {None}]
    BY <2>1, <2>2
  <2> QED BY <2>5, <2>6
<1>2. CASE ~(id \in CodeIds /\ codes[id] # None /\ codes[id].table = t)
  <2>1. codes' = codes BY <1>2 DEF Renamed
  <2> QED BY <2>1 DEF Having, LookedFor, Changed
<1> QED BY <1>1, <1>2

LEMMA BlindKeepsCodes ==
    ASSUME RunsOK, CodesInv, NEW r \in Requests, SaveBlindly(r)
    PROVE  CodesInv'
<1>1. run[r].at # "idle" /\ run[r].op \in CodeOps
  BY DEF SaveBlindly, Renames, At, RunsOK, Coding, Blind
<1>2. PICK k \in run[r].op.keys :
        /\ \/ Insert(run[r].op.table, k, FALSE)
           \/ Renamed(run[r].op.table, k, run[r].op.id)
        /\ Writes(r, {<<run[r].op.table, k>>})
  BY DEF SaveBlindly, Renamed
<1> DEFINE t == run[r].op.table
           id == run[r].op.id
<1>3. t \in CodeTables /\ k \in Keys
  BY <1>1, <1>2, CodesBegin
<1>4. Only(r) /\ ~Inserting(r)'
  <2>1. Ends(r)
    BY EndStep DEF SaveBlindly
  <2> QED BY <2>1 DEF Ends, Inserting, At, Idle, NoOp
<1>5. raced \subseteq raced'
  BY <1>2 DEF Writes
<1>6. Insert(t, k, FALSE) \/ Renamed(t, k, id)
  BY <1>2
<1>7. Writes(r, {<<t, k>>}) BY <1>2
<1> HIDE DEF t, id
<1>8. codes' \in [CodeIds -> CodeRow \cup {None}] /\ \E m : Changed(t, k, m, FALSE)
  BY <1>3, <1>6, InsertIs, RenameIs DEF CodesInv
<1> QED BY <1>3, <1>4, <1>5, <1>7, <1>8, CodesWritten

LEMMA ValueKeepsCodes ==
    ASSUME RunsOK, CodesInv, NEW r \in Requests, InsertValue(r)
    PROVE  CodesInv'
<1> DEFINE t == "FieldValues"
           k == run[r].seen
<1>1. Inserting(r) /\ run[r].op.name = "updateCustomFields"
  BY DEF InsertValue, Inserting, At
<1>2. t \in CodeTables /\ k \in Keys /\ Clear(t, k)
  BY <1>1, InsertingIs DEF CodesInv, KnowsCode, Repeats
<1>3. Insert(t, k, TRUE) /\ Writes(r, {<<t, k>>}) /\ UNCHANGED <<failed, scenario>>
  BY DEF InsertValue
<1>4. raced \subseteq raced'
  BY <1>3 DEF Writes
<1>5. Only(r) /\ ~Inserting(r)'
  <2>1. Ends(r)
    BY EndStep DEF InsertValue
  <2> QED BY <2>1 DEF Ends, Inserting, At, Idle, NoOp
<1> HIDE DEF t, k
<1>6. codes' \in [CodeIds -> CodeRow \cup {None}] /\ \E m \in CodeIds : Changed(t, k, m, TRUE)
  BY <1>2, <1>3, InsertIs DEF CodesInv
<1> QED BY <1>2, <1>3, <1>4, <1>5, <1>6, CodesWritten

\* updateCustomFields updates the rows, or goes on to insert one.
LEMMA UpdateKeepsCodes ==
    ASSUME RunsOK, CodesInv, NEW r \in Requests, UpdateValues(r)
    PROVE  CodesInv'
<1>1. UNCHANGED codes /\ UNCHANGED shared /\ run[r].op.name = "updateCustomFields"
  BY DEF UpdateValues, At
<1>2. run[r].op \in CodeOps /\ run[r].at # "idle"
  BY DEF UpdateValues, At, RunsOK, Coding, Blind
<1>3. run[r].op.table = "FieldValues"
  BY <1>1, <1>2, CodesBegin
<1>4. CASE End(r)
  <2>1. Ends(r)
    BY <1>1, <1>4, EndStep DEF shared
  <2>2. KnowsCode(r)'
    BY <2>1 DEF Ends, KnowsCode, Inserting, At, Idle, NoOp
  <2> QED BY <1>1, <2>1, <2>2, CodesStand DEF Ends, shared
<1>5. CASE ~End(r)
  <2>1. PICK k \in run[r].op.keys :
          Having("FieldValues", k) = {} /\ Set(r, [Then(run[r], "insert") EXCEPT !.seen = k])
    BY <1>5 DEF UpdateValues
  <2>2. Goes(r, "insert") /\ run'[r].seen = k
    BY <1>1, <2>1, SeenStep DEF shared
  <2>3. Clear("FieldValues", k)'
    BY <1>1, <2>1 DEF Clear, Having
  <2>4. KnowsCode(r)'
    BY <1>3, <2>1, <2>2, <2>3 DEF KnowsCode, Goes
  <2> QED BY <1>1, <2>2, <2>4, CodesStand DEF Goes, shared
<1> QED BY <1>4, <1>5

LEMMA DeleteKeepsCodes ==
    ASSUME RunsOK, CodesInv, NEW r \in Requests, DeletePrivilege(r) \/ DeleteValues(r)
    PROVE  CodesInv'
<1>1. UNCHANGED shared /\ Ends(r)
  BY EndStep DEF DeletePrivilege, DeleteValues, shared
<1>2. /\ codes' \in [CodeIds -> CodeRow \cup {None}]
      /\ \A m \in CodeIds : codes'[m] \in {codes[m], None}
  BY DEF DeletePrivilege, DeleteValues, CodesInv
<1>3. \A u, l : Having(u, l)' \subseteq Having(u, l) /\ LookedFor(u, l)' \subseteq LookedFor(u, l)
  BY <1>2, FewerIs DEF CodesInv
<1>4. \A u, l : Clear(u, l) => Clear(u, l)'
  BY <1>1, <1>3 DEF Clear, shared
<1>5. ASSUME NEW q \in Requests PROVE KnowsCode(q)'
  <2>1. CASE q = r
    BY <1>1, <2>1 DEF Ends, KnowsCode, Inserting, At, Idle, NoOp
  <2>2. CASE q # r
    <3>1. run'[q] = run[q] /\ KnowsCode(q)
      BY <1>1, <2>2 DEF Ends, Only, CodesInv
    <3> QED BY <1>4, <3>1 DEF KnowsCode, Inserting, At
  <2> QED BY <2>1, <2>2
<1>6. ASSUME NEW t \in CodeTables, NEW k \in Keys
      PROVE  <<t, k>> \in raced' \/ \A m, n \in LookedFor(t, k)' : m = n
  BY <1>1, <1>3 DEF CodesInv, shared
<1> QED BY <1>2, <1>5, <1>6 DEF CodesInv

LEMMA NextKeepsCodes ==
    ASSUME RunsOK, CodesInv, NEW r \in Requests, NextCodes(r)
    PROVE  CodesInv'
<1>1. CASE LookFails(r)
  <2>1. UNCHANGED codes /\ Only(r) /\ Grow
    BY <1>1, CodesStay DEF LookFails, Stays
  <2>2. PICK k : End(r) \/ Set(r, [run[r] EXCEPT !.left = @ \cup {k}])
    BY <1>1 DEF LookFails
  <2>3. run'[r] = Idle \/ (run'[r].at = "look" /\ run'[r].op = run[r].op)
    BY <1>1, <2>2 DEF End, Set, LookFails, At, RunsOK, Fields
  <2>4. KnowsCode(r)'
    BY <1>1, <2>3 DEF KnowsCode, Inserting, LookFails, At, Idle, NoOp
  <2> QED BY <2>1, <2>4, CodesStand DEF Grow
<1> QED BY <1>1, LookKeepsCodes, SaveKeepsCodes, BlindKeepsCodes, ValueKeepsCodes,
           UpdateKeepsCodes, DeleteKeepsCodes DEF NextCodes

\* A step of a request that is for something else.
LEMMA OthersKeepCodes ==
    ASSUME RunsOK, CodesInv, NEW r \in Requests, Only(r), ~Coding(run'[r]), Grow, UNCHANGED codes
    PROVE  CodesInv'
BY CodesStand DEF KnowsCode, Inserting, At, Coding, Blind, Grow
-----------------------------------------------------------------------------
(* Tenants: rows that are added, changed or taken away keep a tree. *)

TenantTables == [TenantIds -> TenantRow \cup {None}]

\* In S are the tenant t and its parent to be, p, and with every other tenant its parent:
\* then p is below t.
Under(table, t, p, S) == t \in S /\ p \in S /\ \A s \in S \ {t} : table[s].parent \in S

LEMMA TopIsNoTenant == Top \notin TenantIds /\ None \notin TenantIds /\ None \notin TenantRow /\ Top # None
                       /\ None \notin Names
BY CatalogAssumption

LEMMA CreateKeepsTree ==
    ASSUME NEW f \in TenantTables, IsTree(f), NEW t \in TenantIds, f[t] = None, NEW row \in TenantRow,
           row.parent \in RowsIn(f) \cup {Top}, \A s \in RowsIn(f) : f[s].name # row.name,
           NEW g, g = [f EXCEPT ![t] = row]
    PROVE  g \in TenantTables /\ IsTree(g)
<1>1. g \in TenantTables /\ g[t] = row /\ \A s \in TenantIds \ {t} : g[s] = f[s]
  BY DEF TenantTables
<1>2. RowsIn(g) = RowsIn(f) \cup {t} /\ t \notin RowsIn(f)
  BY <1>1, TopIsNoTenant DEF RowsIn
<1>3. ASSUME NEW S \in SUBSET RowsIn(g), S # {} PROVE \E s \in S : g[s].parent \notin S
  <2>1. CASE S \subseteq {t}
    BY <1>1, <1>2, <1>3, <2>1, TopIsNoTenant
  <2>2. CASE ~(S \subseteq {t})
    <3>1. S \ {t} \in SUBSET RowsIn(f) /\ S \ {t} # {}
      BY <1>2, <2>2
    <3>2. PICK s \in S \ {t} : f[s].parent \notin S \ {t}
      BY <3>1 DEF IsTree, Acyclic
    <3>3. s \in RowsIn(f) /\ g[s] = f[s]
      BY <1>1, <3>1 DEF RowsIn
    <3>4. f[s].parent # t
      BY <3>3, <1>2, TopIsNoTenant DEF IsTree
    <3> QED BY <3>2, <3>3, <3>4
  <2> QED BY <2>1, <2>2
<1>4. ASSUME NEW s \in RowsIn(g)
      PROVE  /\ g[s].parent \in RowsIn(g) \cup {Top}
             /\ \A u \in RowsIn(g) \ {s} : g[u].name # g[s].name
  <2>1. \A u \in RowsIn(f) : g[u] = f[u] /\ f[u].parent \in RowsIn(f) \cup {Top}
    BY <1>1, <1>2 DEF RowsIn, IsTree
  <2>2. \A u, v \in RowsIn(f) : u # v => f[u].name # f[v].name
    BY DEF IsTree
  <2>3. g[s].parent \in RowsIn(g) \cup {Top}
    BY <1>1, <1>2, <2>1
  <2>4. ASSUME NEW u \in RowsIn(g), u # s PROVE g[u].name # g[s].name
    BY <1>1, <1>2, <2>1, <2>2, <2>4
  <2> QED BY <2>3, <2>4
<1> QED BY <1>1, <1>3, <1>4 DEF IsTree, Acyclic

LEMMA ChangeKeepsTree ==
    ASSUME NEW f \in TenantTables, IsTree(f), NEW t \in RowsIn(f), NEW row \in TenantRow,
           row.parent \in RowsIn(f) \cup {Top}, \A s \in RowsIn(f) \ {t} : f[s].name # row.name,
           \/ row.parent \in {f[t].parent, Top}
           \/ \A S \in SUBSET RowsIn(f) : ~Under(f, t, row.parent, S),
           NEW g, g = [f EXCEPT ![t] = row]
    PROVE  g \in TenantTables /\ IsTree(g)
<1>1. g \in TenantTables /\ g[t] = row /\ \A s \in TenantIds \ {t} : g[s] = f[s]
  BY DEF TenantTables, RowsIn
<1>2. RowsIn(g) = RowsIn(f)
  BY <1>1, TopIsNoTenant DEF RowsIn
<1>3. ASSUME NEW S \in SUBSET RowsIn(g), S # {} PROVE \E s \in S : g[s].parent \notin S
  <2>1. SUFFICES ASSUME \A s \in S : g[s].parent \in S PROVE FALSE
    OBVIOUS
  <2>2. \A s \in S \ {t} : f[s].parent \in S
    BY <1>1, <2>1, <1>2 DEF RowsIn
  <2>3. CASE t \in S /\ row.parent \notin {f[t].parent, Top}
    BY <1>1, <1>2, <2>1, <2>2, <2>3 DEF Under
  <2>4. CASE t \notin S \/ row.parent = f[t].parent
    <3>1. \A s \in S : f[s].parent \in S
      BY <1>1, <2>1, <2>2, <2>4
    <3> QED BY <1>2, <1>3, <3>1 DEF IsTree, Acyclic
  <2>5. CASE t \in S /\ row.parent = Top
    BY <1>1, <1>2, <2>1, <2>5, TopIsNoTenant DEF RowsIn
  <2> QED BY <2>3, <2>4, <2>5
<1>4. ASSUME NEW s \in RowsIn(g)
      PROVE  /\ g[s].parent \in RowsIn(g) \cup {Top}
             /\ \A u \in RowsIn(g) \ {s} : g[u].name # g[s].name
  <2>1. \A u \in RowsIn(f) \ {t} : g[u] = f[u]
    BY <1>1 DEF RowsIn
  <2> QED BY <1>1, <1>2, <2>1 DEF IsTree
<1> QED BY <1>1, <1>3, <1>4 DEF IsTree, Acyclic

LEMMA DeleteKeepsTree ==
    ASSUME NEW f \in TenantTables, IsTree(f), NEW t, \A s \in RowsIn(f) : f[s].parent # t,
           NEW g, g = [f EXCEPT ![t] = None]
    PROVE  g \in TenantTables /\ IsTree(g)
<1>1. g \in TenantTables /\ \A s \in TenantIds \ {t} : g[s] = f[s]
  BY DEF TenantTables
<1>2. RowsIn(g) = RowsIn(f) \ {t} /\ \A s \in RowsIn(g) : g[s] = f[s]
  BY <1>1 DEF RowsIn, TenantTables
<1>3. Acyclic(g)
  <2>1. ASSUME NEW S \in SUBSET RowsIn(g), S # {} PROVE \E s \in S : g[s].parent \notin S
    <3>1. S \in SUBSET RowsIn(f)
      BY <1>2
    <3>2. PICK s \in S : f[s].parent \notin S
      BY <2>1, <3>1 DEF IsTree, Acyclic
    <3> QED BY <1>2, <3>2
  <2> QED BY <2>1 DEF Acyclic
<1>4. \A s \in RowsIn(g) : g[s].parent \in RowsIn(g) \cup {Top}
  BY <1>2 DEF IsTree
<1>5. \A s \in RowsIn(g) : \A u \in RowsIn(g) \ {s} : g[u].name # g[s].name
  <2>1. \A u, v \in RowsIn(f) : u # v => f[u].name # f[v].name
    BY DEF IsTree
  <2>2. ASSUME NEW s \in RowsIn(g), NEW u \in RowsIn(g) \ {s} PROVE g[u].name # g[s].name
    <3>1. s \in RowsIn(f) /\ u \in RowsIn(f) /\ g[s] = f[s] /\ g[u] = f[u]
      BY <1>2
    <3> QED BY <2>1, <3>1
  <2> QED BY <2>2
<1> QED BY <1>1, <1>3, <1>4, <1>5 DEF IsTree

\* r has read something that it counts on.
HasRead(r) ==
    /\ run[r].op.name \in TenantNames /\ run[r].at \notin {"idle", "find"}
    /\ ~At(r, {"createTenants"}, "name")

\* What r has read is so.
IsSo(r) ==
    LET f == run[r]
        o == f.op
    IN /\ o.name # "createTenants" => o.id \in Rows
       /\ f.at \in {"parent", "walk", "save"} /\ o.called # None
            => \A s \in Rows \ {o.id} : tenants[s].name # o.called
       /\ f.at \in {"walk", "save"} => o.parent \in Rows \cup {None, Top}
       /\ f.at = "walk" =>
            /\ o.name = "updateTenants" /\ o.parent \in Rows /\ o.id \in f.left
            /\ f.seen \in Rows \ {o.id}
            /\ \A S \in SUBSET Rows : Under(tenants, o.id, o.parent, S) => f.seen \in S
       /\ At(r, {"updateTenants"}, "save") /\ o.parent \notin {None, Top} =>
            \A S \in SUBSET Rows : ~Under(tenants, o.id, o.parent, S)
       /\ f.at = "delete" => \A s \in Rows : tenants[s].parent # o.id

KnowsTenant(r) ==
    HasRead(r) => run[r].begun /\ (<<"tree", None>> \notin raced => IsSo(r))

TenantsInv ==
    /\ tenants \in TenantTables /\ TreeIsKept
    /\ \A r \in Requests : KnowsTenant(r)

LEMMA TenantOpIs ==
    ASSUME RunsOK, NEW r \in Requests, run[r].at # "idle", run[r].op.name \in TenantNames
    PROVE  LET o == run[r].op IN
           /\ o.of = {<<"tree", None>>}
           /\ o.called \in Names \cup {None} /\ o.parent \in TenantIds \cup {Top, None}
           /\ o.name = "createTenants" => o.id = None /\ o.called \in Names
           /\ o.name # "createTenants" => o.id \in TenantIds
<1>1. run[r].op \in TenantOps
  BY YearsBegin, RulesBegin, CodesBegin, OptionsBegin
     DEF RunsOK, Ops, TenantNames, YearNames, RuleNames, Looks, Skips, Refuses, Repeats, Blind,
         OptionHandlers
<1> QED BY <1>1 DEF TenantOps, TenantOp

LEMMA TenantsStand ==
    ASSUME RunsOK, TenantsInv, NEW r \in Requests, Only(r), Grow, tenants' = tenants, KnowsTenant(r)'
    PROVE  TenantsInv'
<1>1. Rows' = Rows
  BY DEF Rows, RowsIn
<1>2. ASSUME NEW q \in Requests \ {r} PROVE KnowsTenant(q)'
  <2>1. run'[q] = run[q] BY DEF Only
  <2>2. \A t, p, S : Under(tenants, t, p, S) = Under(tenants, t, p, S)'
    BY DEF Under
  <2>3. IsSo(q)' = IsSo(q) /\ HasRead(q)' = HasRead(q)
    BY <1>1, <2>1, <2>2 DEF IsSo, HasRead, At
  <2> QED BY <2>1, <2>3 DEF TenantsInv, KnowsTenant, Grow
<1> QED BY <1>2 DEF TenantsInv, TreeIsKept, Grow

LEMMA TenantsWritten ==
    ASSUME RunsOK, TenantsInv, NEW r \in Requests, Ends(r), Writes(r, {<<"tree", None>>}),
           tenants' \in TenantTables, <<"tree", None>> \notin raced => IsTree(tenants')
    PROVE  TenantsInv'
<1>1. <<"tree", None>> \in raced => <<"tree", None>> \in raced'
  BY DEF Writes
<1>2. ASSUME NEW q \in Requests PROVE KnowsTenant(q)'
  <2>1. CASE q = r
    BY <2>1 DEF KnowsTenant, HasRead, Ends, Idle
  <2>2. CASE q # r /\ HasRead(q)'
    <3>1. run'[q] = run[q] BY <2>2 DEF Ends, Only
    <3>2. HasRead(q) BY <2>2, <3>1 DEF HasRead, At
    <3>3. run[q].begun BY <3>2 DEF TenantsInv, KnowsTenant
    <3>4. <<"tree", None>> \in run[q].op.of BY <3>2, TenantOpIs DEF HasRead
    <3>5. <<"tree", None>> \in raced' BY <2>2, <3>2, <3>3, <3>4, WritesMark DEF HasRead
    <3> QED BY <3>1, <3>3, <3>5 DEF KnowsTenant
  <2> QED BY <2>1, <2>2 DEF KnowsTenant
<1>3. TreeIsKept'
  BY <1>1 DEF TreeIsKept
<1> QED BY <1>2, <1>3 DEF TenantsInv

LEMMA NextKeepsTenants ==
    ASSUME RunsOK, TenantsInv, NEW r \in Requests, NextTenants(r)
    PROVE  TenantsInv'
<1> DEFINE o == run[r].op
<1>0. Only(r) /\ Grow /\ run[r].at # "idle" /\ o.name \in TenantNames
  BY TenantsStay DEF Stays, TenantPlaces
<1>t. /\ o.of = {<<"tree", None>>}
      /\ o.called \in Names \cup {None} /\ o.parent \in TenantIds \cup {Top, None}
      /\ o.name = "createTenants" => o.id = None /\ o.called \in Names
      /\ o.name # "createTenants" => o.id \in TenantIds
  BY <1>0, TenantOpIs
<1>k. KnowsTenant(r) /\ TreeIsKept /\ tenants \in TenantTables
  BY DEF TenantsInv
<1>e. ASSUME End(r), scenario' = scenario PROVE KnowsTenant(r)'
  BY <1>e, EndStep DEF KnowsTenant, HasRead, Ends, Idle
<1>r. tenants' = tenants => Rows' = Rows /\ \A t, p, S : Under(tenants, t, p, S) = Under(tenants, t, p, S)'
  BY DEF Rows, RowsIn, Under
<1>1. CASE FindTenant(r)
  <2>1. ASSUME NEW there \in {"children", "name", "parent"}, Go(r, there), o.id \in Rows,
               there = "parent" => o.called = None,
               o.name # "createTenants"
        PROVE  KnowsTenant(r)'
    BY <1>1, <1>r, <2>1, GoStep DEF KnowsTenant, IsSo, Goes, At, FindTenant, shared
  <2>2. tenants' = tenants /\ KnowsTenant(r)'
    BY <1>1, <1>e, <2>1 DEF FindTenant, shared, At
  <2> QED BY <1>0, <2>2, TenantsStand
<1>2. CASE FindName(r)
  <2>1. ASSUME Go(r, "parent") PROVE KnowsTenant(r)'
    <3>1. ASSUME <<"tree", None>> \notin raced
          PROVE  /\ o.name # "createTenants" => o.id \in Rows
                 /\ o.called # None => \A s \in Rows \ {o.id} : tenants[s].name # o.called
      <4>1. o.name # "createTenants" => o.id \in Rows
        BY <1>2, <1>k, <3>1 DEF FindName, At, KnowsTenant, HasRead, IsSo, TenantNames
      <4>2. \/ \A s \in Rows : tenants[s].name # o.called
            \/ o.name # "createTenants" /\ tenants[o.id].name = o.called
        BY <1>2, <2>1, <1>t DEF FindName, At, End, Go, Set, Then, Idle, RunsOK, Fields
      <4> QED BY <4>1, <4>2, <1>k, <3>1 DEF TreeIsKept, IsTree, Rows
    <3>2. Goes(r, "parent") /\ tenants' = tenants /\ raced' = raced
      BY <1>2, <2>1, GoStep DEF FindName, shared
    <3> QED BY <1>r, <3>1, <3>2 DEF KnowsTenant, IsSo, Goes, At
  <2>2. tenants' = tenants /\ KnowsTenant(r)'
    BY <1>2, <1>e, <2>1 DEF FindName, shared
  <2> QED BY <1>0, <2>2, TenantsStand
<1>3. CASE FindNewParent(r)
  <2>0. /\ run[r].at = "parent" /\ o.name \in {"createTenants", "updateTenants"}
        /\ UNCHANGED <<tenants, raced, failed, scenario>>
    BY <1>3 DEF FindNewParent, At, shared
  <2>1. <<"tree", None>> \notin raced =>
          /\ o.name # "createTenants" => o.id \in Rows
          /\ o.called # None => \A s \in Rows \ {o.id} : tenants[s].name # o.called
    BY <1>k, <2>0 DEF KnowsTenant, HasRead, IsSo, At, TenantNames
  <2>2. ASSUME Go(r, "save"), o.parent \in Rows \cup {None, Top},
               o.name = "updateTenants" => o.parent \in {None, Top}
        PROVE  KnowsTenant(r)'
    <3>1. Goes(r, "save") BY <2>0, <2>2, GoStep
    <3> QED BY <1>r, <2>0, <2>1, <2>2, <3>1 DEF KnowsTenant, IsSo, Goes, At
  <2>3. ASSUME o.name = "updateTenants", o.parent \in Rows \ {o.id},
               Set(r, [Then(run[r], "walk") EXCEPT !.seen = o.parent, !.left = {o.id}])
        PROVE  KnowsTenant(r)'
    <3> DEFINE p == o.parent
               l == {o.id}
    <3>1. Goes(r, "walk") /\ run'[r].seen = p /\ run'[r].left = l
      <4>1. Set(r, [Then(run[r], "walk") EXCEPT !.seen = p, !.left = l])
        BY <2>3
      <4>2. scenario' = scenario BY <2>0
      <4> HIDE DEF p, l
      <4> QED BY <4>1, <4>2, SeenLeftStep
    <3>2. \A S \in SUBSET Rows : Under(tenants, o.id, o.parent, S) => o.parent \in S
      BY DEF Under
    <3> QED BY <1>r, <2>0, <2>1, <2>3, <3>1, <3>2 DEF KnowsTenant, IsSo, Goes, At
  <2>4. KnowsTenant(r)'
    BY <1>3, <1>e, <2>0, <2>2, <2>3 DEF FindNewParent
  <2> QED BY <1>0, <2>0, <2>4, TenantsStand
<1>4. CASE Walk(r)
  <2> DEFINE here == run[r].seen
             up == tenants[here].parent
             v == run[r].left \cup {here}
  <2>0. /\ run[r].at = "walk" /\ o.name = "updateTenants"
        /\ UNCHANGED <<tenants, raced, failed, scenario>>
    BY <1>4 DEF Walk, At, shared
  <2>1. <<"tree", None>> \notin raced =>
          /\ o.id \in Rows /\ o.parent \in Rows /\ o.id \in run[r].left
          /\ o.called # None => \A s \in Rows \ {o.id} : tenants[s].name # o.called
          /\ here \in Rows \ {o.id} /\ up \in Rows \cup {Top}
          /\ \A S \in SUBSET Rows : Under(tenants, o.id, o.parent, S) => here \in S /\ up \in S
    BY <1>k, <2>0 DEF KnowsTenant, HasRead, IsSo, At, TenantNames, TreeIsKept, IsTree, Under, Rows
  <2>2. ASSUME Go(r, "save"), here \notin Rows \/ up = Top
        PROVE  KnowsTenant(r)'
    <3>1. Goes(r, "save") BY <2>0, <2>2, GoStep
    <3>2. Top \notin Rows BY TopIsNoTenant DEF Rows, RowsIn
    <3>3. <<"tree", None>> \notin raced => \A S \in SUBSET Rows : ~Under(tenants, o.id, o.parent, S)
      BY <2>1, <2>2, <3>2
    <3> QED BY <1>r, <2>0, <2>1, <3>1, <3>3 DEF KnowsTenant, IsSo, Goes, At
  <2>3. ASSUME up \notin v, up # Top,
               Set(r, [Then(run[r], "walk") EXCEPT !.seen = up, !.left = v])
        PROVE  KnowsTenant(r)'
    <3>1. Goes(r, "walk") /\ run'[r].seen = up /\ run'[r].left = v
      <4>1. Set(r, [Then(run[r], "walk") EXCEPT !.seen = up, !.left = v])
        BY <2>3
      <4>2. scenario' = scenario BY <2>0
      <4> HIDE DEF v, up
      <4> QED BY <4>1, <4>2, SeenLeftStep
    <3> QED BY <1>r, <2>0, <2>1, <2>3, <3>1 DEF KnowsTenant, IsSo, Goes, At
  <2>4. KnowsTenant(r)'
    BY <1>4, <1>e, <2>0, <2>2, <2>3 DEF Walk
  <2> QED BY <1>0, <2>0, <2>4, TenantsStand
<1>5. CASE SaveTenant(r)
  <2>0. run[r].at = "save" /\ o.name \in {"createTenants", "updateTenants"} /\ scenario' = scenario
        /\ Ends(r) /\ Writes(r, {<<"tree", None>>})
    BY <1>5, <1>t, EndStep DEF SaveTenant, At
  <2>1. <<"tree", None>> \notin raced =>
          /\ IsTree(tenants)
          /\ o.name # "createTenants" => o.id \in Rows
          /\ o.called # None => \A s \in Rows \ {o.id} : tenants[s].name # o.called
          /\ o.parent \in Rows \cup {None, Top}
          /\ o.name = "updateTenants" /\ o.parent \notin {None, Top} =>
               \A S \in SUBSET Rows : ~Under(tenants, o.id, o.parent, S)
    BY <1>k, <2>0 DEF KnowsTenant, HasRead, IsSo, At, TenantNames, TreeIsKept
  <2>2. ASSUME o.name = "createTenants", NEW t \in TenantIds \ Rows,
               tenants' = [tenants EXCEPT ![t] = [name |-> o.called, parent |-> Given(o.parent, Top)]]
        PROVE  tenants' \in TenantTables /\ (<<"tree", None>> \notin raced => IsTree(tenants'))
    <3> DEFINE row == [name |-> o.called, parent |-> Given(o.parent, Top)]
    <3>1. row \in TenantRow /\ row.name = o.called /\ row.parent = Given(o.parent, Top)
      BY <1>t, <2>2, TopIsNoTenant DEF TenantRow, Given
    <3>2. tenants' \in TenantTables
      BY <1>k, <2>2, <3>1 DEF TenantTables
    <3>3. ASSUME <<"tree", None>> \notin raced PROVE IsTree(tenants')
      <4>1. tenants[t] = None BY <2>2 DEF Rows, RowsIn
      <4>2. row.parent \in RowsIn(tenants) \cup {Top}
        BY <2>1, <3>1, <3>3 DEF Given, Rows
      <4>3. \A s \in RowsIn(tenants) : tenants[s].name # row.name
        BY <1>t, <2>1, <2>2, <3>1, <3>3, TopIsNoTenant DEF Rows, RowsIn
      <4>4. tenants' = [tenants EXCEPT ![t] = row] BY <2>2
      <4> HIDE DEF row
      <4> QED BY <1>k, <2>1, <3>1, <3>3, <4>1, <4>2, <4>3, <4>4, CreateKeepsTree
    <3> QED BY <3>2, <3>3
  <2>3. ASSUME o.name = "updateTenants",
               tenants' = [tenants EXCEPT ![o.id] = IF @ = None THEN None ELSE
                  [name |-> Given(o.called, @.name), parent |-> Given(o.parent, @.parent)]]
        PROVE  tenants' \in TenantTables /\ (<<"tree", None>> \notin raced => IsTree(tenants'))
    <3> DEFINE old == tenants[o.id]
               row == [name |-> Given(o.called, old.name), parent |-> Given(o.parent, old.parent)]
    <3>0. o.id \in TenantIds BY <1>t, <2>3
    <3>1. CASE old = None
      BY <1>k, <2>1, <2>3, <3>0, <3>1 DEF TenantTables, Rows, RowsIn
    <3>2. CASE old # None
      <4>1. old \in TenantRow BY <1>k, <3>0, <3>2 DEF TenantTables
      <4>2. /\ row \in TenantRow /\ row.name = Given(o.called, old.name)
            /\ row.parent = Given(o.parent, old.parent)
        BY <1>t, <4>1 DEF TenantRow, Given
      <4>3. tenants' = [tenants EXCEPT ![o.id] = row]
        BY <1>k, <2>3, <3>0, <3>2 DEF TenantTables
      <4> HIDE DEF row
      <4>4. tenants' \in TenantTables BY <1>k, <3>0, <4>2, <4>3 DEF TenantTables
      <4>5. ASSUME <<"tree", None>> \notin raced PROVE IsTree(tenants')
        <5>0. o.id \in RowsIn(tenants) /\ old.parent \in RowsIn(tenants) \cup {Top}
          BY <2>1, <2>3, <4>5 DEF IsTree, Rows
        <5>1. row.parent \in RowsIn(tenants) \cup {Top}
          BY <2>1, <4>2, <4>5, <5>0 DEF Given, Rows
        <5>2. \A s \in RowsIn(tenants) \ {o.id} : tenants[s].name # old.name
          BY <2>1, <4>5, <5>0 DEF IsTree
        <5>3. \A s \in RowsIn(tenants) \ {o.id} : tenants[s].name # row.name
          BY <2>1, <4>2, <4>5, <5>2 DEF Given, Rows
        <5>4. \/ row.parent \in {old.parent, Top}
              \/ \A S \in SUBSET RowsIn(tenants) : ~Under(tenants, o.id, row.parent, S)
          BY <2>1, <2>3, <4>2, <4>5 DEF Given, Rows
        <5> QED BY <1>k, <2>1, <4>2, <4>3, <4>5, <5>0, <5>1, <5>3, <5>4, ChangeKeepsTree
      <4> QED BY <4>4, <4>5
    <3> QED BY <3>1, <3>2
  <2>4. tenants' \in TenantTables /\ (<<"tree", None>> \notin raced => IsTree(tenants'))
    BY <1>5, <2>0, <2>2, <2>3 DEF SaveTenant
  <2> QED BY <2>0, <2>4, TenantsWritten
<1>6. CASE FindChildren(r)
  <2>1. ASSUME Go(r, "delete"), \A t \in Rows : tenants[t].parent # o.id PROVE KnowsTenant(r)'
    <3>1. /\ run[r].at = "children" /\ o.name = "deleteTenants"
          /\ UNCHANGED <<tenants, raced, failed, scenario>>
      BY <1>6 DEF FindChildren, At, shared
    <3>2. <<"tree", None>> \notin raced => o.id \in Rows
      BY <1>k, <3>1 DEF KnowsTenant, HasRead, IsSo, At, TenantNames
    <3>3. Goes(r, "delete") BY <2>1, <3>1, GoStep
    <3> QED BY <1>r, <2>1, <3>1, <3>2, <3>3 DEF KnowsTenant, IsSo, Goes, At
  <2>2. tenants' = tenants /\ KnowsTenant(r)'
    BY <1>6, <1>e, <2>1 DEF FindChildren, shared
  <2> QED BY <1>0, <2>2, TenantsStand
<1>7. CASE DeleteTenant(r)
  <2>0. run[r].at = "delete" /\ o.name = "deleteTenants" /\ scenario' = scenario
        /\ Ends(r) /\ Writes(r, {<<"tree", None>>})
    BY <1>7, <1>t, EndStep DEF DeleteTenant, At
  <2>1. tenants' = [tenants EXCEPT ![o.id] = None]
    BY <1>7 DEF DeleteTenant
  <2>2. <<"tree", None>> \notin raced =>
          IsTree(tenants) /\ \A s \in RowsIn(tenants) : tenants[s].parent # o.id
    BY <1>k, <2>0 DEF KnowsTenant, HasRead, IsSo, At, TenantNames, TreeIsKept, Rows
  <2>3. tenants' \in TenantTables BY <1>k, <2>1 DEF TenantTables
  <2>4. <<"tree", None>> \notin raced => IsTree(tenants')
    BY <1>k, <2>1, <2>2, DeleteKeepsTree
  <2> QED BY <2>0, <2>3, <2>4, TenantsWritten
<1> QED BY <1>1, <1>2, <1>3, <1>4, <1>5, <1>6, <1>7 DEF NextTenants

\* A step of a request that is for something else, or has read nothing yet.
LEMMA OthersKeepTenants ==
    ASSUME RunsOK, TenantsInv, NEW r \in Requests, Only(r), ~HasRead(r)', Grow, tenants' = tenants
    PROVE  TenantsInv'
BY TenantsStand DEF KnowsTenant
-----------------------------------------------------------------------------
(* Academic years: from the look for the active year to the insertion of the next one, no  *)
(* other request has changed the years of the tenant, or it has marked them.               *)

\* The year y is there, and of school s.
YearIs(y, s) == y \in YearIds /\ years[y] # None /\ years[y].of = s

YearsRemain == \A y, s : YearIs(y, s) => YearIs(y, s)'

\* r has deactivated the year of school s, and is about to insert the next one.
Between(r, s) ==
    At(r, {"createAcademicYear"}, "insertYear") /\ run[r].wrote /\ run[r].op.school = s

KnowsYear(r) ==
    LET s == run[r].op.school
        x == <<"years", s>>
    IN /\ At(r, {"createAcademicYear"}, "deactivate") =>
            run[r].begun /\ YearIs(run[r].seen, s) /\ (x \in raced \/ Active(years, s) = {run[r].seen})
       /\ At(r, {"createAcademicYear"}, "insertYear") =>
            run[r].begun /\ (x \in raced \/ Active(years, s) = {})

\* s has one active year, or no year, or is between two.
YearsOf(s) ==
    /\ <<"years", s>> \in raced \/ \A y, z \in Active(years, s) : y = z
    /\ \/ <<"years", s>> \in raced \cup failed
       \/ Active(years, s) # {}
       \/ \A y : ~YearIs(y, s)
       \/ \E r \in Requests : Between(r, s)

YearsInv ==
    /\ years \in [YearIds -> YearRow \cup {None}]
    /\ \A s \in Schools : YearsOf(s)
    /\ \A r \in Requests : KnowsYear(r)

LEMMA YearOpIs ==
    ASSUME RunsOK, NEW r \in Requests, run[r].at # "idle", run[r].op.name \in YearNames
    PROVE  run[r].op \in YearOps
BY TenantsBegin, RulesBegin, CodesBegin, OptionsBegin
   DEF RunsOK, Ops, TenantNames, YearNames, RuleNames, Looks, Skips, Refuses, Repeats, Blind,
       OptionHandlers

LEMMA ActiveIs ==
    ASSUME NEW f \in [YearIds -> YearRow \cup {None}], NEW s, NEW y
    PROVE  y \in Active(f, s) <=> y \in YearIds /\ f[y] # None /\ f[y].of = s /\ f[y].active
BY DEF Active, Present

LEMMA YearsStand ==
    ASSUME RunsOK, YearsInv, NEW r \in Requests, Only(r), Grow, years' = years, KnowsYear(r)',
           \A s : Between(r, s) => <<"years", s>> \in failed'
    PROVE  YearsInv'
<1>1. \A y, s : YearIs(y, s)' = YearIs(y, s)
  BY DEF YearIs
<1>2. \A s : Active(years, s)' = Active(years, s)
  BY DEF Active, Present
<1>3. ASSUME NEW q \in Requests \ {r} PROVE KnowsYear(q)' /\ \A s : Between(q, s)' = Between(q, s)
  <2>1. run'[q] = run[q] BY DEF Only
  <2>2. \A s : Between(q, s)' = Between(q, s) BY <2>1 DEF Between, At
  <2>3. KnowsYear(q) BY DEF YearsInv
  <2>4. KnowsYear(q)' BY <1>1, <1>2, <2>1, <2>3 DEF KnowsYear, At, Grow
  <2> QED BY <2>2, <2>4
<1>4. ASSUME NEW s \in Schools PROVE YearsOf(s)'
  <2>1. YearsOf(s) BY DEF YearsInv
  <2> QED BY <1>1, <1>2, <1>3, <2>1 DEF YearsOf, Grow
<1> QED BY <1>3, <1>4 DEF YearsInv

LEMMA YearsWritten ==
    ASSUME RunsOK, YearsInv, NEW r \in Requests, Only(r), run[r].op.name = "createAcademicYear",
           run[r].at # "idle", Writes(r, run[r].op.of), failed' = failed, YearsRemain,
           years' \in [YearIds -> YearRow \cup {None}], KnowsYear(r)',
           NEW s0, s0 = run[r].op.school, YearsOf(s0)',
           \A s \in Schools \ {s0} :
             Active(years, s)' = Active(years, s) /\ \A y : YearIs(y, s)' = YearIs(y, s)
    PROVE  YearsInv'
<1>0. run[r].op.of = {<<"years", s0>>} /\ s0 \in Schools
  BY YearOpIs, YearsBegin DEF YearNames
<1>g. raced \subseteq raced'
  BY DEF Writes
<1>1. ASSUME NEW q \in Requests \ {r} PROVE KnowsYear(q)' /\ \A s : Between(q, s)' = Between(q, s)
  <2>1. run'[q] = run[q] BY DEF Only
  <2>2. \A s : Between(q, s)' = Between(q, s) BY <2>1 DEF Between, At
  <2>3. KnowsYear(q) BY DEF YearsInv
  <2>4. ASSUME run[q].op.name = "createAcademicYear", run[q].at \in {"deactivate", "insertYear"}
        PROVE  KnowsYear(q)'
    <3>0. PICK s : s = run[q].op.school OBVIOUS
    <3>1. run[q].op.of = {<<"years", s>>} /\ s \in Schools
      BY <2>4, <3>0, YearOpIs, YearsBegin DEF YearNames
    <3>2. run[q].begun BY <2>3, <2>4 DEF KnowsYear, At
    <3>3. CASE s = s0
      <4>1. <<"years", s>> \in raced'
        BY <1>0, <2>4, <3>1, <3>2, <3>3, WritesMark
      <4> QED BY <2>1, <2>3, <3>0, <3>2, <4>1 DEF KnowsYear, At, YearsRemain
    <3>4. CASE s # s0
      <4>1. Active(years, s)' = Active(years, s) /\ \A y : YearIs(y, s)' = YearIs(y, s)
        BY <3>1, <3>4
      <4> QED BY <2>1, <2>3, <3>0, <4>1, <1>g DEF KnowsYear, At
    <3> QED BY <3>3, <3>4
  <2>5. KnowsYear(q)' BY <2>1, <2>4 DEF KnowsYear, At
  <2> QED BY <2>2, <2>5
<1>2. ASSUME NEW s \in Schools PROVE YearsOf(s)'
  <2>1. YearsOf(s) BY DEF YearsInv
  <2>2. CASE s # s0
    <3>1. ~Between(r, s) BY <2>2 DEF Between
    <3> QED BY <1>1, <1>g, <2>1, <2>2, <3>1 DEF YearsOf
  <2> QED BY <2>2
<1> QED BY <1>1, <1>2 DEF YearsInv

LEMMA YearsKeepYears ==
    ASSUME RunsOK, YearsInv, NEW r \in Requests, NextYears(r)
    PROVE  YearsInv' /\ YearsRemain
<1> DEFINE o == run[r].op
<1>s. PICK s0 : s0 = o.school OBVIOUS
<1>0. Only(r) /\ Grow /\ run[r].at # "idle"
  BY YearsStay DEF Stays, YearPlaces
<1>k. KnowsYear(r) /\ years \in [YearIds -> YearRow \cup {None}]
  BY DEF YearsInv
<1>o. o.name = "createAcademicYear" => s0 \in Schools /\ o.of = {<<"years", s0>>} /\ YearsOf(s0)
                                       /\ o.days \subseteq Days
  <2>1. o.name = "createAcademicYear" => o \in YearOps BY <1>0, YearOpIs DEF YearNames
  <2>2. o.name = "createAcademicYear" => o.days \subseteq Days BY <2>1 DEF YearOps, YearOp
  <2> QED BY <1>s, <2>1, <2>2, YearsBegin DEF YearsInv
<1>u. years' = years => YearsRemain /\ \A s : Active(years, s)' = Active(years, s)
  BY DEF YearsRemain, YearIs, Active, Present
<1>1. CASE o.name # "createAcademicYear"
  <2>1. years' = years
    BY <1>1 DEF NextYears, FindOverlap, FindActive, Deactivate, InsertYear, FindCohort, FindYear,
                SaveCohort, Attach, FindToUpdate, UpdateCohort, LookEqual, FindCurrent, FindAgain,
                SaveRule, FindEqual, InsertRule, FindRule, PatchRule, RemoveRule, At, yearVars
  <2>2. \A s : ~Between(r, s)
    BY <1>1 DEF Between, At
  <2>3. run'[r] = Idle \/ run'[r].op = o
    BY YearsStay DEF Stays
  <2>4. KnowsYear(r)'
    BY <1>1, <2>3 DEF KnowsYear, At, Idle, NoOp
  <2> QED BY <1>0, <1>u, <2>1, <2>2, <2>4, YearsStand
<1>2. CASE FindOverlap(r) \/ FindActive(r)
  <2>0. /\ years' = years /\ scenario' = scenario /\ raced' = raced
        /\ o.name = "createAcademicYear" /\ run[r].at \in {"overlap", "active"}
    BY <1>s, <1>2 DEF FindOverlap, FindActive, At, yearVars, shared
  <2>1. ASSUME End(r) PROVE KnowsYear(r)'
    BY <1>s, <2>0, <2>1, EndStep DEF KnowsYear, At, Ends, Idle
  <2>2. ASSUME Go(r, "active") PROVE KnowsYear(r)'
    BY <1>s, <2>0, <2>2, GoStep DEF KnowsYear, At, Goes
  <2>3. ASSUME Go(r, "insertYear"), Active(years, s0) = {} PROVE KnowsYear(r)'
    BY <1>s, <1>u, <2>0, <2>3, GoStep DEF KnowsYear, At, Goes
  <2>4. ASSUME NEW y \in Active(years, s0), Set(r, [Then(run[r], "deactivate") EXCEPT !.seen = y])
        PROVE  KnowsYear(r)'
    <3>1. Goes(r, "deactivate") /\ run'[r].seen = y
      BY <2>0, <2>4, SeenStep
    <3>2. <<"years", s0>> \in raced \/ Active(years, s0) = {y}
      BY <1>o, <2>0, <2>4 DEF YearsOf
    <3>3. YearIs(y, s0)
      BY <1>k, <2>4, ActiveIs DEF YearIs
    <3> QED BY <1>s, <1>u, <2>0, <3>1, <3>2, <3>3 DEF KnowsYear, At, Goes, YearIs
  <2>5. KnowsYear(r)'
    BY <1>s, <1>2, <2>1, <2>2, <2>3, <2>4 DEF FindOverlap, FindActive
  <2>6. \A s : ~Between(r, s)
    BY <1>s, <2>0 DEF Between, At
  <2> QED BY <1>0, <1>u, <2>0, <2>5, <2>6, YearsStand
<1>3. CASE Deactivate(r)
  <2> DEFINE y == run[r].seen
  <2>0. /\ o.name = "createAcademicYear" /\ run[r].at = "deactivate" /\ failed' = failed
        /\ scenario' = scenario /\ Writes(r, o.of) /\ raced \subseteq raced'
        /\ years' = [years EXCEPT ![y].active = FALSE]
        /\ YearIs(y, s0) /\ (<<"years", s0>> \in raced \/ Active(years, s0) = {y})
    BY <1>s, <1>3, <1>k DEF Deactivate, At, KnowsYear, Writes
  <2>1. Goes(r, "insertYear") /\ run'[r].wrote
    BY <1>3, <2>0, WroteStep DEF Deactivate
  <2>2. years[y] \in YearRow /\ y \in YearIds BY <1>k, <2>0 DEF YearIs
  <2>3. /\ years' \in [YearIds -> YearRow \cup {None}] /\ \A z \in YearIds \ {y} : years'[z] = years[z]
        /\ years'[y] \in YearRow /\ years'[y].of = s0 /\ ~years'[y].active
    BY <1>k, <2>0, <2>2 DEF YearRow, YearIs
  <2>4. None \notin YearRow BY CatalogAssumption
  <2>5. \A z, s : YearIs(z, s)' = YearIs(z, s)
    BY <2>0, <2>3, <2>4 DEF YearIs
  <2>6. \A s, z : z \in Active(years', s) <=> z # y /\ z \in Active(years, s)
    BY <1>k, <2>3, ActiveIs
  <2>7. \A s : Active(years, s)' = Active(years', s)
    BY DEF Active, Present
  <2>8. ASSUME NEW s, s # s0 PROVE Active(years, s)' = Active(years, s)
    <3>1. y \notin Active(years, s)
      BY <2>0, <2>8, <1>k, ActiveIs DEF YearIs
    <3>2. Active(years', s) = Active(years, s)
      BY <2>6, <3>1
    <3> QED BY <2>7, <3>2
  <2>9. <<"years", s0>> \in raced \/ Active(years, s0)' = {}
    BY <2>0, <2>6, <2>7
  <2>10. KnowsYear(r)'
    BY <1>s, <2>0, <2>1, <2>9 DEF KnowsYear, At, Goes
  <2>11. Between(r, s0)'
    BY <1>s, <2>0, <2>1 DEF Between, At, Goes
  <2>12. YearsOf(s0)'
    BY <2>0, <2>9, <2>11 DEF YearsOf
  <2> QED BY <1>s, <1>0, <2>0, <2>3, <2>5, <2>8, <2>10, <2>12, YearsWritten DEF YearsRemain
<1>4. CASE InsertYear(r)
  <2>0. /\ o.name = "createAcademicYear" /\ run[r].at = "insertYear" /\ failed' = failed
        /\ scenario' = scenario /\ Writes(r, o.of) /\ raced \subseteq raced'
        /\ (<<"years", s0>> \in raced \/ Active(years, s0) = {})
    BY <1>s, <1>4, <1>k DEF InsertYear, At, KnowsYear, Writes
  <2> DEFINE row == [of |-> s0, days |-> o.days, active |-> TRUE]
  <2>1. PICK y \in Free(years) : years' = [years EXCEPT ![y] = row]
    BY <1>s, <1>4 DEF InsertYear
  <2>2. row \in YearRow /\ row.of = s0 /\ row.active
    BY <1>o, <2>0 DEF YearRow
  <2>3. y \in YearIds /\ years[y] = None /\ None \notin YearRow
    BY <1>k, <2>1, CatalogAssumption DEF Free, Present
  <2> HIDE DEF row
  <2>4. /\ years' \in [YearIds -> YearRow \cup {None}] /\ \A z \in YearIds \ {y} : years'[z] = years[z]
        /\ years'[y] = row
    BY <1>k, <2>1, <2>2, <2>3
  <2>5. \A z, s : YearIs(z, s)' <=> (YearIs(z, s) \/ (z = y /\ s = s0))
    BY <2>2, <2>3, <2>4 DEF YearIs
  <2>6. \A s, z : z \in Active(years', s) <=> ((z = y /\ s = s0) \/ z \in Active(years, s))
    BY <1>k, <2>2, <2>3, <2>4, ActiveIs
  <2>7. \A s : Active(years, s)' = Active(years', s)
    BY DEF Active, Present
  <2>8. ASSUME NEW s, s # s0
        PROVE  Active(years, s)' = Active(years, s) /\ \A z : YearIs(z, s)' = YearIs(z, s)
    <3>0. \A z : z \in Active(years', s) <=> z \in Active(years, s)
      BY <2>6, <2>8
    <3>1. Active(years', s) = Active(years, s)
      BY <3>0
    <3>2. \A z : YearIs(z, s)' = YearIs(z, s)
      BY <2>5, <2>8 DEF YearIs
    <3> QED BY <2>7, <3>1, <3>2
  <2>9. y \in Active(years, s0)' /\ (<<"years", s0>> \in raced \/ Active(years, s0)' = {y})
    BY <2>0, <2>6, <2>7
  <2>10. KnowsYear(r)'
    BY <1>s, <1>4, <2>0, EndStep DEF InsertYear, KnowsYear, At, Ends, Idle
  <2>11. YearsOf(s0)'
    BY <2>0, <2>9 DEF YearsOf
  <2>12. YearsRemain
    BY <2>5 DEF YearsRemain
  <2> QED BY <1>s, <1>0, <2>0, <2>4, <2>8, <2>10, <2>11, <2>12, YearsWritten
<1>5. CASE o.name = "createAcademicYear"
  BY <1>2, <1>3, <1>4, <1>5
     DEF NextYears, FindCohort, FindYear, SaveCohort, Attach, FindToUpdate, UpdateCohort, LookEqual,
         FindCurrent, FindAgain, SaveRule, FindEqual, InsertRule, FindRule, PatchRule, RemoveRule, At
<1> QED BY <1>1, <1>5

\* A step of a request that is for something else, begins or fails.
LEMMA OthersKeepYears ==
    ASSUME RunsOK, YearsInv, NEW r \in Requests, Only(r), Grow, years' = years,
           ~At(r, {"createAcademicYear"}, "deactivate")', ~At(r, {"createAcademicYear"}, "insertYear")',
           \A s : Between(r, s) => <<"years", s>> \in failed'
    PROVE  YearsInv' /\ YearsRemain
BY YearsStand DEF KnowsYear, YearsRemain, YearIs
-----------------------------------------------------------------------------
(* Cohorts: years are not deleted and do not move, so what a request has found holds when  *)
(* it attaches the cohort, unless an update has moved the cohort; between the cohort and    *)
(* its year the request is the witness.                                                     *)

\* r has made the cohort c, and is about to put it into its year.
Attaching(r, c) == At(r, {"createCohort"}, "attach") /\ run[r].wrote /\ run[r].seen = c

HasYear(c) ==
    \/ \E y \in YearIds : <<c, y>> \in yearOf
    \/ <<"years", cohorts[c]>> \in failed
    \/ \E r \in Requests : Attaching(r, c)

\* The cohort c is of the school s, or has been moved.
CohortIs(c, s) == c \in CohortIds /\ (c \in moved \/ cohorts[c] = s)

KnowsCohort(r) ==
    LET o == run[r].op IN
    /\ At(r, {"createCohortAcademicYear"}, "year") => CohortIs(o.cohort, o.school)
    /\ At(r, {"createCohort"}, "saveCohort") => YearIs(o.year, o.school)
    /\ At(r, {"createCohort", "createCohortAcademicYear"}, "attach") =>
         YearIs(o.year, o.school) /\ CohortIs(run[r].seen, o.school)

CohortsInv ==
    /\ cohorts \in [CohortIds -> Schools \cup {None}] /\ yearOf \subseteq CohortIds \X YearIds
    /\ \A c \in CohortIds \ moved : cohorts[c] # None => HasYear(c)
    /\ \A p \in yearOf : p[1] \notin moved => YearIs(p[2], cohorts[p[1]])
    /\ \A r \in Requests : KnowsCohort(r)

CohortNames == {"createCohort", "createCohortAcademicYear", "updateCohort"}

\* The cohorts stay where they are, but for those that are moved.
CohortsRemain ==
    /\ moved \subseteq moved'
    /\ \A c \in CohortIds : c \in moved' \/ cohorts'[c] = cohorts[c]

LEMMA CohortsStand ==
    ASSUME RunsOK, CohortsInv, YearsRemain, NEW r \in Requests, Only(r), Grow,
           cohorts' \in [CohortIds -> Schools \cup {None}], CohortsRemain, yearOf' = yearOf,
           KnowsCohort(r)',
           \A c \in CohortIds \ moved : Attaching(r, c) => <<"years", cohorts[c]>> \in failed'
    PROVE  CohortsInv'
<1>1. ASSUME NEW q \in Requests \ {r} PROVE KnowsCohort(q)' /\ \A c : Attaching(q, c)' = Attaching(q, c)
  <2>1. run'[q] = run[q] BY DEF Only
  <2>2. \A c : Attaching(q, c)' = Attaching(q, c) BY <2>1 DEF Attaching, At
  <2>3. KnowsCohort(q) BY DEF CohortsInv
  <2>4. \A y, s : y = run[q].op.year /\ s = run[q].op.school /\ YearIs(y, s) => YearIs(y, s)'
    BY DEF YearsRemain
  <2>5. \A c, s : CohortIs(c, s) => CohortIs(c, s)'
    BY DEF CohortIs, CohortsRemain
  <2>6. PICK y, s, c, d : y = run[q].op.year /\ s = run[q].op.school /\ c = run[q].op.cohort /\ d = run[q].seen
    OBVIOUS
  <2>7. /\ YearIs(y, s) => YearIs(y, s)'
        /\ CohortIs(c, s) => CohortIs(c, s)'
        /\ CohortIs(d, s) => CohortIs(d, s)'
    BY <2>4, <2>5, <2>6
  <2>8. KnowsCohort(q)'
    BY <2>1, <2>3, <2>6, <2>7 DEF KnowsCohort, At
  <2> QED BY <2>2, <2>8
<1>2. ASSUME NEW c \in CohortIds, c \notin moved', cohorts'[c] # None PROVE HasYear(c)'
  <2>1. cohorts'[c] = cohorts[c] /\ HasYear(c) /\ c \notin moved
    BY <1>2 DEF CohortsInv, CohortsRemain
  <2> QED BY <1>1, <2>1 DEF HasYear, Grow
<1>3. ASSUME NEW p \in yearOf, p[1] \notin moved' PROVE YearIs(p[2], cohorts[p[1]])'
  <2>1. p[1] \in CohortIds BY DEF CohortsInv
  <2>2. cohorts'[p[1]] = cohorts[p[1]] /\ p[1] \notin moved
    BY <1>3, <2>1 DEF CohortsRemain
  <2>3. PICK y, s : y = p[2] /\ s = cohorts[p[1]] /\ YearIs(y, s)
    BY <2>2 DEF CohortsInv
  <2>4. YearIs(y, s)' BY <2>3 DEF YearsRemain
  <2> QED BY <2>2, <2>3, <2>4 DEF YearIs
<1>4. yearOf' \subseteq CohortIds \X YearIds
  BY DEF CohortsInv
<1> QED BY <1>1, <1>2, <1>3, <1>4 DEF CohortsInv

LEMMA YearsKeepCohorts ==
    ASSUME RunsOK, YearsInv, CohortsInv, YearsRemain, NEW r \in Requests, NextYears(r)
    PROVE  CohortsInv'
<1> DEFINE o == run[r].op
<1>0. Only(r) /\ Grow /\ run[r].at # "idle" /\ (run'[r] = Idle \/ run'[r].op = o)
  BY YearsStay DEF Stays, YearPlaces
<1>k. KnowsCohort(r) /\ cohorts \in [CohortIds -> Schools \cup {None}] /\ None \notin Schools
  BY CatalogAssumption DEF CohortsInv
<1>o. /\ o.name \in CohortNames => o.school \in Schools
      /\ o.name \in {"createCohort", "createCohortAcademicYear"} => o.year \in YearIds
      /\ o.name \in {"createCohortAcademicYear", "updateCohort"} => o.cohort \in CohortIds
  BY <1>0, YearOpIs, YearsBegin DEF CohortNames, YearNames
<1>y. \A y \in YearIds : years[y] # None => years[y].of # None
  BY CatalogAssumption DEF YearsInv, YearRow
<1>q. \A q \in Requests \ {r} : run'[q] = run[q] /\ KnowsCohort(q)
  BY <1>0 DEF Only, CohortsInv
<1>1. CASE o.name \notin CohortNames
  <2>1. UNCHANGED <<cohorts, yearOf, moved>>
    BY <1>1 DEF NextYears, FindOverlap, FindActive, Deactivate, InsertYear, FindCohort, FindYear,
                SaveCohort, Attach, FindToUpdate, UpdateCohort, LookEqual, FindCurrent, FindAgain,
                SaveRule, FindEqual, InsertRule, FindRule, PatchRule, RemoveRule, At, yearVars,
                CohortNames
  <2>2. \A c : ~Attaching(r, c)
    BY <1>1 DEF Attaching, At, CohortNames
  <2>3. KnowsCohort(r)'
    BY <1>0, <1>1 DEF KnowsCohort, At, Idle, NoOp, CohortNames
  <2> QED BY <1>0, <1>k, <2>1, <2>2, <2>3, CohortsStand DEF CohortsRemain
<1>2. CASE FindCohort(r) \/ FindYear(r)
  <2>0. /\ UNCHANGED <<years, cohorts, yearOf, moved>> /\ scenario' = scenario
        /\ o.name \in CohortNames /\ run[r].at \in {"cohort", "year"}
    BY <1>2 DEF FindCohort, FindYear, At, yearVars, shared, CohortNames
  <2>1. ASSUME End(r) PROVE KnowsCohort(r)'
    BY <2>0, <2>1, EndStep DEF KnowsCohort, At, Ends, Idle
  <2>2. ASSUME Go(r, "year"), cohorts[o.cohort] = o.school, FindCohort(r) PROVE KnowsCohort(r)'
    <3>1. CohortIs(o.cohort, o.school)
      BY <1>o, <2>2 DEF CohortIs, FindCohort, At
    <3> QED BY <2>0, <2>2, <3>1, GoStep DEF KnowsCohort, At, Goes, CohortIs
  <2>3. ASSUME FindYear(r), o.year \in Active(years, o.school) PROVE KnowsCohort(r)'
    <3>1. years[o.year] # None /\ years[o.year].of = o.school
      BY <2>3 DEF Active, Present
    <3>2. CASE Go(r, "saveCohort") /\ o.name = "createCohort"
      BY <1>o, <2>0, <3>1, <3>2, GoStep DEF KnowsCohort, At, Goes, YearIs
    <3>3. CASE Set(r, [Then(run[r], "attach") EXCEPT !.seen = o.cohort]) /\ o.name # "createCohort"
      <4>1. PICK c : c = o.cohort OBVIOUS
      <4>2. Goes(r, "attach") /\ run'[r].seen = c
        BY <2>0, <3>3, <4>1, SeenStep
      <4>3. CohortIs(c, o.school)
        BY <1>k, <2>0, <2>3, <3>3, <4>1 DEF KnowsCohort, At, FindYear, CohortNames
      <4>4. o.year \in YearIds
        BY <1>o, <2>3 DEF FindYear, At
      <4> QED BY <2>0, <3>1, <3>3, <4>2, <4>3, <4>4 DEF KnowsCohort, At, Goes, YearIs, CohortIs
    <3> QED BY <2>3, <3>2, <3>3 DEF FindYear
  <2>4. KnowsCohort(r)'
    BY <1>2, <2>1, <2>2, <2>3 DEF FindCohort, FindYear
  <2>5. \A c : ~Attaching(r, c)
    BY <2>0 DEF Attaching, At
  <2> QED BY <1>0, <1>k, <2>0, <2>4, <2>5, CohortsStand DEF CohortsRemain
<1>3. CASE SaveCohort(r)
  <2>0. /\ UNCHANGED <<years, yearOf, moved, failed>> /\ scenario' = scenario
        /\ o.name = "createCohort" /\ run[r].at = "saveCohort" /\ YearIs(o.year, o.school)
    BY <1>3, <1>k DEF SaveCohort, At, shared, KnowsCohort
  <2>1. PICK c \in Free(cohorts) :
          /\ cohorts' = [cohorts EXCEPT ![c] = o.school]
          /\ Set(r, [Then(run[r], "attach") EXCEPT !.seen = c, !.wrote = TRUE])
    BY <1>3 DEF SaveCohort
  <2>2. Goes(r, "attach") /\ run'[r].seen = c /\ run'[r].wrote
    BY <2>0, <2>1, SeenWroteStep
  <2>3. c \in CohortIds /\ cohorts[c] = None
    BY <1>k, <2>1 DEF Free, Present
  <2>4. /\ cohorts' \in [CohortIds -> Schools \cup {None}] /\ cohorts'[c] = o.school
        /\ \A d \in CohortIds \ {c} : cohorts'[d] = cohorts[d]
        /\ \A d : cohorts[d] \in Schools => d = c \/ cohorts'[d] = cohorts[d]
    BY <1>k, <1>o, <2>0, <2>1, <2>3 DEF CohortNames
  <2>5. \A y, s : YearIs(y, s)' = YearIs(y, s)
    BY <2>0 DEF YearIs
  <2>6. ASSUME NEW q \in Requests PROVE KnowsCohort(q)'
    <3>1. CASE q = r
      BY <1>o, <2>0, <2>2, <2>3, <2>4, <3>1 DEF KnowsCohort, At, Goes, YearIs, CohortIs
    <3>2. CASE q # r
      <4>1. run'[q] = run[q] /\ KnowsCohort(q) BY <1>q, <3>2
      <4>2. run[q].at # "idle" /\ run[q].op.name \in CohortNames => run[q].op.school \in Schools
        BY YearOpIs, YearsBegin DEF CohortNames, YearNames
      <4>3. \A d : cohorts[d] = run[q].op.school /\ run[q].op.school \in Schools
                     => cohorts'[d] = cohorts[d]
        BY <1>k, <2>3, <2>4
      <4> QED BY <2>0, <4>1, <4>2, <4>3 DEF KnowsCohort, At, YearIs, CohortIs, CohortNames
    <3> QED BY <3>1, <3>2
  <2>7. ASSUME NEW d \in CohortIds \ moved, cohorts'[d] # None PROVE HasYear(d)'
    <3>1. CASE d = c
      BY <2>0, <2>2, <3>1 DEF HasYear, Attaching, At, Goes
    <3>2. CASE d # c
      <4>1. HasYear(d) /\ cohorts'[d] = cohorts[d]
        BY <2>4, <2>7, <3>2 DEF CohortsInv
      <4>2. \A q \in Requests : Attaching(q, d) => q # r /\ Attaching(q, d)'
        BY <1>q, <2>0 DEF Attaching, At
      <4> QED BY <2>0, <4>1, <4>2 DEF HasYear
    <3> QED BY <3>1, <3>2
  <2>8. ASSUME NEW p \in yearOf, p[1] \notin moved PROVE YearIs(p[2], cohorts[p[1]])'
    <3>1. YearIs(p[2], cohorts[p[1]]) /\ p[1] \in CohortIds
      BY <2>8 DEF CohortsInv
    <3>2. p[1] # c
      BY <1>y, <2>3, <3>1 DEF YearIs
    <3>3. cohorts'[p[1]] = cohorts[p[1]]
      BY <2>4, <3>1, <3>2
    <3> QED BY <2>0, <3>1, <3>3 DEF YearIs
  <2> QED BY <2>0, <2>4, <2>6, <2>7, <2>8 DEF CohortsInv
<1>4. CASE Attach(r)
  <2> DEFINE c == run[r].seen
  <2>0. /\ UNCHANGED <<years, cohorts, moved, failed>> /\ Ends(r)
        /\ o.name \in {"createCohort", "createCohortAcademicYear"} /\ run[r].at = "attach"
        /\ yearOf' = yearOf \cup {<<c, o.year>>}
    BY <1>4, EndStep DEF Attach, At, shared, CohortNames
  <2>1. YearIs(o.year, o.school) /\ c \in CohortIds /\ CohortIs(c, o.school)
    BY <1>k, <2>0 DEF KnowsCohort, At, CohortIs
  <2>2. yearOf' \subseteq CohortIds \X YearIds
    BY <2>0, <2>1 DEF CohortsInv, YearIs
  <2>3. ASSUME NEW q \in Requests PROVE KnowsCohort(q)'
    <3>1. CASE q = r
      BY <2>0, <3>1 DEF KnowsCohort, At, Ends, Idle
    <3>2. CASE q # r
      BY <1>q, <2>0, <3>2 DEF KnowsCohort, At, YearIs, CohortIs
    <3> QED BY <3>1, <3>2
  <2>4. ASSUME NEW d \in CohortIds \ moved, cohorts[d] # None PROVE HasYear(d)'
    <3>1. CASE d = c
      BY <2>0, <2>1, <3>1 DEF HasYear, YearIs
    <3>2. CASE d # c
      <4>1. HasYear(d) BY <2>4 DEF CohortsInv
      <4>2. \A q \in Requests : Attaching(q, d) => q # r /\ Attaching(q, d)'
        BY <1>q, <3>2 DEF Attaching, At
      <4> QED BY <2>0, <4>1, <4>2 DEF HasYear
    <3> QED BY <3>1, <3>2
  <2>5. ASSUME NEW p \in yearOf', p[1] \notin moved PROVE YearIs(p[2], cohorts[p[1]])'
    <3>1. CASE p \in yearOf
      BY <2>0, <2>5, <3>1 DEF CohortsInv, YearIs
    <3>2. CASE p = <<c, o.year>>
      BY <2>0, <2>1, <2>5, <3>2 DEF YearIs, CohortIs
    <3> QED BY <2>0, <3>1, <3>2
  <2> QED BY <1>k, <2>0, <2>2, <2>3, <2>4, <2>5 DEF CohortsInv
<1>5. CASE FindToUpdate(r) \/ UpdateCohort(r)
  <2>0. o.name = "updateCohort" /\ yearOf' = yearOf /\ o.school \in Schools /\ o.cohort \in CohortIds
    BY <1>o, <1>5 DEF FindToUpdate, UpdateCohort, At, yearVars, CohortNames
  <2>3. cohorts' \in [CohortIds -> Schools \cup {None}] /\ CohortsRemain
    <3>1. CASE UNCHANGED <<cohorts, moved>>
      BY <1>k, <3>1 DEF CohortsRemain
    <3>2. CASE UpdateCohort(r)
      BY <1>k, <2>0, <3>2 DEF UpdateCohort, CohortsRemain
    <3> QED BY <1>5, <3>1, <3>2 DEF FindToUpdate, yearVars
  <2>4. KnowsCohort(r)' /\ \A c : ~Attaching(r, c)
    BY <1>0, <2>0 DEF KnowsCohort, Attaching, At, Idle, NoOp
  <2> QED BY <1>0, <2>0, <2>3, <2>4, CohortsStand
<1>6. CASE o.name \in CohortNames
  BY <1>2, <1>3, <1>4, <1>5, <1>6
     DEF NextYears, FindOverlap, FindActive, Deactivate, InsertYear, LookEqual, FindCurrent, FindAgain,
         SaveRule, FindEqual, InsertRule, FindRule, PatchRule, RemoveRule, At, CohortNames
<1> QED BY <1>1, <1>6

\* A step of a request that is for something else, begins or fails.
LEMMA OthersKeepCohorts ==
    ASSUME RunsOK, CohortsInv, YearsRemain, NEW r \in Requests, Only(r), Grow,
           UNCHANGED <<cohorts, yearOf, moved>>, run'[r].at \notin {"saveCohort", "attach"},
           ~At(r, {"createCohortAcademicYear"}, "year")',
           \A c \in CohortIds \ moved : Attaching(r, c) => <<"years", cohorts[c]>> \in failed'
    PROVE  CohortsInv'
<1>1. cohorts' \in [CohortIds -> Schools \cup {None}] /\ CohortsRemain
  BY DEF CohortsInv, CohortsRemain
<1> QED BY <1>1, CohortsStand DEF KnowsCohort, At
-----------------------------------------------------------------------------
(* Rules: an update makes a rule active when it has found or left no active rule of the     *)
(* user, which no one else's deletion or deactivation changes; the rule that it activates   *)
(* is the user's, because no id of a rule that is about to be saved is given to another.    *)

\* Of the rules of u only those in S are active, unless requests for u overlapped or the
\* endpoint of the rules has given u one.
Held(u, S) == u \in byHand \/ <<"rules", u>> \in raced \/ Active(rules, u) \subseteq S

Updater == {"updateUser"}

\* r is going to save the rule m.
Saves(r, m) == run[r].op.name \in Updater /\ Carries(r, m)

\* Whoever saves a rule saves one of its user.
Owned ==
    \/ byHand = Users
    \/ \A r \in Requests, m \in RuleIds : Saves(r, m) =>
         /\ rules[m] = None \/ rules[m].of = run[r].op.user
         /\ \A q \in Requests : Saves(q, m) => run[q].op.user = run[r].op.user

KnowsRule(r) ==
    LET f == run[r]
        u == run[r].op.user
    IN /\ At(r, Updater, "current") => f.begun /\ f.seen.old \in RuleIds \cup {None}
       /\ At(r, Updater, "again") =>
            /\ f.begun /\ f.seen.id \in RuleIds /\ f.seen.old \in RuleIds \cup {None}
            /\ Held(u, {f.seen.id})
       /\ At(r, Updater, "revive") =>
            f.begun /\ f.seen.id \in RuleIds /\ f.seen.old \in RuleIds \cup {None} /\ Held(u, {})
       /\ At(r, Updater, "saveRule") =>
            /\ f.begun /\ f.seen.id \in RuleIds /\ f.seen.old \in RuleIds \cup {None}
            /\ f.seen.row \in RuleRow /\ (byHand = Users \/ f.seen.row.of = u)
            /\ Held(u, IF f.seen.row.active THEN {} ELSE {f.seen.id})
       /\ At(r, Updater, "exists") \/ At(r, Updater, "insertRule") => f.begun /\ Held(u, {})

OneRule(u) == u \in byHand \/ <<"rules", u>> \in raced \/ \A m, n \in Active(rules, u) : m = n

RulesInv ==
    /\ rules \in [RuleIds -> RuleRow \cup {None}] /\ byHand \subseteq Users
    /\ \A u \in Users : OneRule(u)
    /\ Owned
    /\ \A r \in Requests : KnowsRule(r)

LEMMA RuleOpIs ==
    ASSUME RunsOK, NEW r \in Requests, run[r].at # "idle", run[r].op.name \in RuleNames
    PROVE  LET o == run[r].op IN
           /\ o.user \in Users /\ o.of = {<<"rules", o.user>>}
           /\ o.name # "remove" => o.value \in Values
           /\ o.name \in {"update", "remove"} => o.rule \in RuleIds
           /\ o.name = "update" => o.active \in BOOLEAN
<1>1. run[r].op \in RuleOps
  BY TenantsBegin, YearsBegin, CodesBegin, OptionsBegin
     DEF RunsOK, Ops, TenantNames, YearNames, RuleNames, Looks, Skips, Refuses, Repeats, Blind,
         OptionHandlers
<1>2. PICK o : o = run[r].op OBVIOUS
<1>3. o \in RuleOps BY <1>1, <1>2
<1>4. /\ o.name # "remove" => o.value \in Values
      /\ o.name \in {"update", "remove"} => o.rule \in RuleIds
      /\ o.name = "update" => o.active \in BOOLEAN
  BY <1>3 DEF RuleOps, RuleOp
<1> QED BY <1>2, <1>3, <1>4, RulesBegin

LEMMA RuleIsActive ==
    ASSUME NEW f \in [RuleIds -> RuleRow \cup {None}], NEW u, NEW m
    PROVE  m \in Active(f, u) <=> m \in RuleIds /\ f[m] # None /\ f[m].of = u /\ f[m].active
BY DEF Active, Present

\* The rules that are written are of the users who save them, and who begins to save one has
\* found it to be of its user.
LEMMA OwnersStay ==
    ASSUME RunsOK, Owned, NEW r \in Requests, Only(r), byHand = Users => byHand' = Users,
           byHand' = Users \/ \A m \in RuleIds :
                \/ rules'[m] = None \/ rules'[m] = rules[m]
                \/ \A q \in Requests : Saves(q, m) => rules'[m].of = run[q].op.user,
           \A m \in RuleIds : Saves(r, m)' =>
                /\ run'[r].op.user = run[r].op.user
                /\ Saves(r, m) \/ (rules' = rules /\ rules[m] # None /\ rules[m].of = run[r].op.user)
    PROVE  Owned'
<1>1. CASE byHand' = Users
  BY <1>1 DEF Owned
<1>2. CASE byHand' # Users
  <2>0. \A q \in Requests \ {r} : run'[q] = run[q] BY DEF Only
  <2>1. \A q \in Requests \ {r}, m \in RuleIds : Saves(q, m)' = Saves(q, m)
    BY <2>0 DEF Saves, Carries
  <2>2. \A q \in Requests, m \in RuleIds : Saves(q, m)' => run'[q].op.user = run[q].op.user
    BY <2>0
  <2>3. ASSUME NEW m \in RuleIds, NEW q \in Requests, Saves(q, m)
        PROVE  /\ rules[m] = None \/ rules[m].of = run[q].op.user
               /\ \A p \in Requests : Saves(p, m) => run[p].op.user = run[q].op.user
    BY <1>2, <2>3 DEF Owned
  <2>4. ASSUME NEW m \in RuleIds, NEW q \in Requests, Saves(q, m)'
        PROVE  rules'[m] = None \/ rules'[m].of = run[q].op.user
    <3>1. CASE Saves(q, m)
      BY <1>2, <2>3, <3>1
    <3>2. CASE ~Saves(q, m)
      BY <2>1, <2>4, <3>2
    <3> QED BY <3>1, <3>2
  <2>5. ASSUME NEW m \in RuleIds, NEW q \in Requests, NEW p \in Requests, Saves(q, m)', Saves(p, m)'
        PROVE  run[p].op.user = run[q].op.user
    <3>1. CASE Saves(q, m) /\ Saves(p, m)
      BY <2>3, <3>1
    <3>2. CASE ~Saves(q, m)
      BY <2>1, <2>3, <2>5, <3>2
    <3>3. CASE ~Saves(p, m)
      BY <2>1, <2>3, <2>5, <3>3
    <3> QED BY <3>1, <3>2, <3>3
  <2> QED BY <2>2, <2>4, <2>5 DEF Owned
<1> QED BY <1>1, <1>2

\* What others know of the rules is so after r has written: of another user no rule has become
\* active, and of the same user it is marked.
LEMMA RulesWritten ==
    ASSUME RunsOK, RulesInv, NEW r \in Requests, Only(r), Grow,
           rules' \in [RuleIds -> RuleRow \cup {None}], byHand' \subseteq Users, byHand \subseteq byHand',
           NEW u0 \in Users, Writes(r, {<<"rules", u0>>}), OneRule(u0)',
           \A u \in Users \ {u0} : u \in byHand' \/ Active(rules', u) \subseteq Active(rules, u),
           Owned', KnowsRule(r)'
    PROVE  RulesInv'
<1>0. \A u : Active(rules, u)' = Active(rules', u)
  BY DEF Active, Present
<1>1. ASSUME NEW u \in Users, u # u0
      PROVE  OneRule(u)' /\ \A S : Held(u, S) => Held(u, S)'
  <2>1. u \in byHand' \/ Active(rules, u)' \subseteq Active(rules, u) BY <1>0, <1>1
  <2> QED BY <2>1 DEF OneRule, Held, Grow, RulesInv
<1>2. ASSUME NEW q \in Requests, q # r PROVE KnowsRule(q)'
  <2>0. run'[q] = run[q] /\ KnowsRule(q) BY <1>2 DEF Only, RulesInv
  <2>b. byHand = Users => byHand' = Users OBVIOUS
  <2>1. CASE ~(run[q].op.name \in Updater /\ run[q].at # "idle" /\ run[q].begun)
    BY <2>0, <2>1 DEF KnowsRule, At
  <2>2. CASE run[q].op.name \in Updater /\ run[q].at # "idle" /\ run[q].begun
    <3>1. PICK u, i, row, f : /\ u = run[q].op.user /\ i = run[q].seen.id /\ row = run[q].seen.row
                              /\ f = IF row.active THEN {} ELSE {i}
      OBVIOUS
    <3>2. u \in Users /\ run[q].op.of = {<<"rules", u>>}
      BY <2>2, <3>1, RuleOpIs DEF Updater, RuleNames
    <3>3. /\ Held(u, {i}) => Held(u, {i})'
          /\ Held(u, {}) => Held(u, {})'
          /\ Held(u, f) => Held(u, f)'
      <4>1. CASE u # u0
        BY <1>1, <3>2, <4>1
      <4>2. CASE u = u0
        <5>1. <<"rules", u>> \in raced'
          BY <1>2, <2>2, <3>2, <4>2, WritesMark
        <5> QED BY <5>1 DEF Held
      <4> QED BY <4>1, <4>2
    <3> QED BY <2>0, <2>b, <3>1, <3>3 DEF KnowsRule, At
  <2> QED BY <2>1, <2>2
<1> QED BY <1>1, <1>2 DEF RulesInv

LEMMA RulesShrink ==
    ASSUME RunsOK, RulesInv, NEW r \in Requests, Only(r), Grow, byHand' = byHand,
           rules' \in [RuleIds -> RuleRow \cup {None}],
           \A u \in Users : Active(rules', u) \subseteq Active(rules, u),
           Owned', KnowsRule(r)'
    PROVE  RulesInv'
<1>0. \A u : Active(rules, u)' = Active(rules', u)
  BY DEF Active, Present
<1>1. ASSUME NEW u \in Users
      PROVE  OneRule(u)' /\ \A S : Held(u, S) => Held(u, S)'
  <2>1. Active(rules, u)' \subseteq Active(rules, u) BY <1>0
  <2> QED BY <2>1 DEF OneRule, Held, Grow, RulesInv
<1>2. ASSUME NEW q \in Requests, q # r PROVE KnowsRule(q)'
  <2>0. run'[q] = run[q] /\ KnowsRule(q) BY <1>2 DEF Only, RulesInv
  <2>1. CASE ~(run[q].op.name \in Updater /\ run[q].at # "idle")
    BY <2>0, <2>1 DEF KnowsRule, At
  <2>2. CASE run[q].op.name \in Updater /\ run[q].at # "idle"
    <3>1. PICK u, i, row, f : /\ u = run[q].op.user /\ i = run[q].seen.id /\ row = run[q].seen.row
                              /\ f = IF row.active THEN {} ELSE {i}
      OBVIOUS
    <3>2. u \in Users
      BY <2>2, <3>1, RuleOpIs DEF Updater, RuleNames
    <3>3. /\ Held(u, {i}) => Held(u, {i})'
          /\ Held(u, {}) => Held(u, {})'
          /\ Held(u, f) => Held(u, f)'
      BY <1>1, <3>2
    <3> QED BY <2>0, <3>1, <3>3 DEF KnowsRule, At
  <2> QED BY <2>1, <2>2
<1> QED BY <1>1, <1>2 DEF RulesInv

LEMMA YearsKeepRules ==
    ASSUME RunsOK, RulesInv, NEW r \in Requests, NextYears(r)
    PROVE  RulesInv'
<1> DEFINE o == run[r].op
<1>0. Only(r) /\ Grow /\ run[r].at # "idle" /\ (run'[r] = Idle \/ run'[r].op = o)
  BY YearsStay DEF Stays, YearPlaces
<1>k. /\ KnowsRule(r) /\ rules \in [RuleIds -> RuleRow \cup {None}] /\ None \notin RuleRow
      /\ Owned /\ byHand \subseteq Users
  BY CatalogAssumption DEF RulesInv
<1>s. PICK u0 : u0 = o.user OBVIOUS
<1>o. o.name \in RuleNames => /\ u0 \in Users /\ o.of = {<<"rules", u0>>} /\ OneRule(u0)
                              /\ o.name # "remove" => o.value \in Values
                              /\ o.name \in {"update", "remove"} => o.rule \in RuleIds
                              /\ o.name = "update" => o.active \in BOOLEAN
  BY <1>0, <1>s, RuleOpIs DEF RulesInv
<1>u. ASSUME UNCHANGED <<rules, byHand, raced>>
      PROVE  \A u, S : Held(u, S)' = Held(u, S)
  BY <1>u DEF Held, Active, Present
<1>w. ASSUME UNCHANGED <<rules, byHand>>, KnowsRule(r)',
             \A m \in RuleIds : Saves(r, m)' =>
                /\ run'[r].op.user = u0
                /\ Saves(r, m) \/ (rules[m] # None /\ rules[m].of = u0)
      PROVE  RulesInv'
  <2>1. Owned'
    BY <1>0, <1>k, <1>s, <1>w, OwnersStay
  <2>2. \A u \in Users : Active(rules', u) \subseteq Active(rules, u)
    BY <1>w
  <2> QED BY <1>0, <1>k, <1>w, <2>1, <2>2, RulesShrink
<1>e. ASSUME End(r), scenario' = scenario PROVE KnowsRule(r)' /\ \A m : ~Saves(r, m)'
  BY <1>e, EndStep DEF KnowsRule, Saves, Carries, At, Ends, Idle
<1>n. ASSUME o.name \notin Updater PROVE KnowsRule(r)' /\ \A m : ~Saves(r, m)'
  BY <1>0, <1>n DEF KnowsRule, Saves, At, Idle, NoOp, Updater
<1>1. CASE o.name \notin RuleNames
  <2>1. UNCHANGED <<rules, byHand>>
    BY <1>1 DEF NextYears, FindOverlap, FindActive, Deactivate, InsertYear, FindCohort, FindYear,
                SaveCohort, Attach, FindToUpdate, UpdateCohort, LookEqual, FindCurrent, FindAgain,
                SaveRule, FindEqual, InsertRule, FindRule, PatchRule, RemoveRule, At, yearVars,
                RuleNames
  <2> QED BY <1>1, <1>n, <1>w, <2>1 DEF RuleNames, Updater
<1>2. CASE LookEqual(r)
  <2>0. /\ UNCHANGED <<rules, byHand, raced>> /\ scenario' = scenario
        /\ o.name \in Updater /\ run[r].at = "equal"
    BY <1>2 DEF LookEqual, At, yearVars, shared, Updater
  <2>1. CASE End(r)
    BY <1>e, <1>w, <2>0, <2>1
  <2>2. ASSUME NEW old \in RuleIds \cup {None}, old = None \/ (rules[old] # None /\ rules[old].of = u0),
               Set(r, [Then(run[r], "current") EXCEPT !.seen = Found(None, old, None)])
        PROVE  RulesInv'
    <3> DEFINE v == Found(None, old, None)
    <3>1. v.id = None /\ v.old = old BY DEF Found
    <3> HIDE DEF v
    <3>2. Goes(r, "current") /\ run'[r].seen = v BY <2>0, <2>2, SeenStep DEF v
    <3>3. KnowsRule(r)' BY <3>1, <3>2 DEF KnowsRule, At, Goes
    <3>4. \A m \in RuleIds : Saves(r, m)' => run'[r].op.user = u0 /\ m \in {None, old}
      BY <1>s, <3>1, <3>2 DEF Saves, Carries, Goes
    <3>5. \A m \in RuleIds : m \in {None, old} => m = old \/ m = None OBVIOUS
    <3>6. None \notin RuleIds
      BY CatalogAssumption
    <3> QED BY <1>w, <2>0, <2>2, <3>3, <3>4, <3>6
  <2>3. Equal(o) \subseteq {m \in RuleIds : rules[m] # None /\ rules[m].of = u0}
    BY <1>k, <1>s DEF Equal, Present
  <2> QED BY <1>2, <2>1, <2>2, <2>3 DEF LookEqual
<1>3. CASE FindCurrent(r)
  <2> DEFINE old == run[r].seen.old
  <2>0. /\ UNCHANGED <<rules, byHand, raced>> /\ scenario' = scenario
        /\ o.name \in Updater /\ run[r].at = "current" /\ old \in RuleIds \cup {None}
    BY <1>3, <1>k DEF FindCurrent, At, yearVars, shared, Updater, KnowsRule
  <2>o. old \in RuleIds => Saves(r, old)
    BY <2>0 DEF Saves, Carries
  <2>1. CASE Go(r, "exists") /\ Active(rules, u0) = {}
    <3>1. Held(u0, {})' BY <1>u, <2>0, <2>1 DEF Held
    <3>2. KnowsRule(r)' BY <1>s, <2>0, <2>1, <3>1, GoStep DEF KnowsRule, At, Goes
    <3>3. \A m : ~Saves(r, m)' BY <2>0, <2>1, GoStep DEF Saves, Carries, Goes
    <3> QED BY <1>w, <2>0, <3>2, <3>3
  <2>2. CASE /\ Set(r, [Then(run[r], "revive") EXCEPT !.seen = Found(old, None, None)])
             /\ Active(rules, u0) = {} /\ old # None
    <3> DEFINE v == Found(old, None, None)
    <3>0. PICK m : m = old OBVIOUS
    <3>1. v.id = m /\ v.old = None BY <3>0 DEF Found
    <3> HIDE DEF v
    <3>2. Goes(r, "revive") /\ run'[r].seen = v BY <2>0, <2>2, SeenStep DEF v
    <3>3. Held(u0, {})' BY <1>u, <2>0, <2>2 DEF Held
    <3>4. m \in RuleIds /\ Saves(r, m) BY <2>0, <2>2, <2>o, <3>0
    <3>5. KnowsRule(r)' BY <1>s, <3>1, <3>2, <3>3, <3>4 DEF KnowsRule, At, Goes
    <3>6. \A n \in RuleIds : Saves(r, n)' => run'[r].op.user = u0 /\ n \in {m, None}
      BY <1>s, <3>1, <3>2 DEF Saves, Carries, Goes
    <3>7. None \notin RuleIds BY CatalogAssumption
    <3> QED BY <1>w, <2>0, <3>4, <3>5, <3>6, <3>7
  <2>3. ASSUME NEW m \in Active(rules, u0),
               Set(r, [Then(run[r], "again") EXCEPT !.seen = Found(m, old, None)])
        PROVE  RulesInv'
    <3> DEFINE v == Found(m, old, None)
    <3>0. PICK w : w = old OBVIOUS
    <3>1. v.id = m /\ v.old = w BY <3>0 DEF Found
    <3> HIDE DEF v
    <3>2. m \in RuleIds /\ rules[m] # None /\ rules[m].of = u0 BY <1>k, <2>3, RuleIsActive
    <3>3. Held(u0, {m}) BY <1>o, <2>0, <2>3 DEF Held, OneRule, RuleNames, Updater
    <3>4. Held(u0, {m})' BY <1>u, <2>0, <3>3
    <3>5. Goes(r, "again") /\ run'[r].seen = v BY <2>0, <2>3, SeenStep DEF v
    <3>6. KnowsRule(r)' BY <1>s, <2>0, <3>0, <3>1, <3>2, <3>4, <3>5 DEF KnowsRule, At, Goes
    <3>7. \A n \in RuleIds : Saves(r, n)' => run'[r].op.user = u0 /\ n \in {m, w}
      BY <1>s, <3>1, <3>5 DEF Saves, Carries, Goes
    <3> QED BY <1>w, <2>0, <2>o, <3>0, <3>2, <3>6, <3>7
  <2> QED BY <1>3, <1>s, <2>1, <2>2, <2>3 DEF FindCurrent
<1>4. CASE FindAgain(r)
  <2>1. PICK here \in {"again", "revive"} :
          /\ At(r, {"updateUser"}, here)
          /\ LET m == run[r].seen.id IN
             IF rules[m] = None THEN End(r)
             ELSE Set(r, [Then(run[r], "saveRule") EXCEPT !.seen =
                    Found(m, run[r].seen.old, [rules[m] EXCEPT !.active = (here = "revive")])])
    BY <1>4 DEF FindAgain
  <2>0. /\ UNCHANGED <<rules, byHand, raced>> /\ scenario' = scenario
        /\ o.name \in Updater /\ run[r].at = here
    BY <1>4, <2>1 DEF FindAgain, At, yearVars, shared, Updater
  <2>2. PICK m, old : m = run[r].seen.id /\ old = run[r].seen.old OBVIOUS
  <2>3. m \in RuleIds /\ Saves(r, m) /\ (old \in RuleIds => Saves(r, old))
    BY <1>k, <2>0, <2>2 DEF KnowsRule, At, Saves, Carries
  <2>4. Held(u0, IF here = "revive" THEN {} ELSE {m})
    BY <1>k, <1>s, <2>0, <2>2 DEF KnowsRule, At
  <2>5. CASE End(r)
    BY <1>e, <1>w, <2>0, <2>5
  <2>6. CASE rules[m] # None
    <3>1. PICK row : row = [rules[m] EXCEPT !.active = (here = "revive")] OBVIOUS
    <3>2. row \in RuleRow /\ row.active = (here = "revive") /\ row.of = rules[m].of
      BY <1>k, <2>3, <2>6, <3>1 DEF RuleRow
    <3>3. byHand = Users \/ row.of = u0
      BY <1>k, <1>s, <2>3, <2>6, <3>2 DEF Owned
    <3> DEFINE v == Found(m, old, row)
    <3>4. v.id = m /\ v.old = old /\ v.row = row BY DEF Found
    <3>5. Set(r, [Then(run[r], "saveRule") EXCEPT !.seen = v])
      BY <2>1, <2>2, <2>6, <3>1
    <3> HIDE DEF v
    <3>6. Goes(r, "saveRule") /\ run'[r].seen = v BY <2>0, <3>5, SeenStep
    <3>7. Held(u0, IF row.active THEN {} ELSE {m})'
      BY <1>u, <2>0, <2>4, <3>2
    <3>8. old \in RuleIds \cup {None}
      BY <1>k, <2>0, <2>2 DEF KnowsRule, At
    <3>9. KnowsRule(r)'
      BY <1>s, <2>0, <2>3, <3>2, <3>3, <3>4, <3>6, <3>7, <3>8 DEF KnowsRule, At, Goes
    <3>10. \A n \in RuleIds : Saves(r, n)' => run'[r].op.user = u0 /\ n \in {m, old}
      BY <1>s, <3>4, <3>6 DEF Saves, Carries, Goes
    <3> QED BY <1>w, <2>0, <2>3, <3>9, <3>10
  <2> QED BY <2>1, <2>2, <2>5, <2>6
<1>5. CASE SaveRule(r)
  <2>1. PICK m, old, row : m = run[r].seen.id /\ old = run[r].seen.old /\ row = run[r].seen.row OBVIOUS
  <2>0. /\ byHand' = byHand /\ scenario' = scenario /\ Writes(r, o.of)
        /\ o.name \in Updater /\ run[r].at = "saveRule"
        /\ rules' = [rules EXCEPT ![m] = row]
        /\ \/ row.active /\ End(r)
           \/ ~row.active /\ old = None
              /\ Set(r, [Then(run[r], "exists") EXCEPT !.seen = None, !.wrote = TRUE])
           \/ ~row.active /\ old # None
              /\ Set(r, [Then(run[r], "revive") EXCEPT !.seen = Found(old, None, None), !.wrote = TRUE])
    BY <1>5, <2>1 DEF SaveRule, At, Updater
  <2>2. /\ m \in RuleIds /\ old \in RuleIds \cup {None} /\ row \in RuleRow
        /\ byHand = Users \/ row.of = u0
        /\ Held(u0, IF row.active THEN {} ELSE {m})
    BY <1>k, <1>s, <2>0, <2>1 DEF KnowsRule, At
  <2>3. /\ rules' \in [RuleIds -> RuleRow \cup {None}] /\ rules'[m] = row
        /\ \A n \in RuleIds \ {m} : rules'[n] = rules[n]
    BY <1>k, <2>0, <2>2
  <2>4. Saves(r, m) /\ (old \in RuleIds => Saves(r, old))
    BY <2>0, <2>1 DEF Saves, Carries
  <2>5. byHand' = Users \/ \A n \in RuleIds :
            \/ rules'[n] = None \/ rules'[n] = rules[n]
            \/ \A q \in Requests : Saves(q, n) => rules'[n].of = run[q].op.user
    <3>1. byHand = Users \/ \A q \in Requests : Saves(q, m) => run[q].op.user = u0
      BY <1>k, <1>s, <2>2, <2>4 DEF Owned
    <3> QED BY <2>0, <2>2, <2>3, <3>1
  <2>6. \A u : Active(rules, u)' = Active(rules', u) BY DEF Active, Present
  <2>7. u0 \in Users /\ o.of = {<<"rules", u0>>}
    BY <1>o, <2>0 DEF Updater, RuleNames
  <2>8. CASE row.active
    <3>1. End(r) BY <2>0, <2>8
    <3>2. KnowsRule(r)' /\ \A n : ~Saves(r, n)' BY <1>e, <2>0, <3>1
    <3>3. Owned' BY <1>0, <1>k, <2>0, <2>5, <3>2, OwnersStay
    <3>4. \A u, n : n \in Active(rules', u) =>
             n \in Active(rules, u) \/ (n = m /\ (byHand = Users \/ u = u0))
      BY <1>k, <2>2, <2>3, RuleIsActive
    <3>5. \A u \in Users \ {u0} : u \in byHand' \/ Active(rules', u) \subseteq Active(rules, u)
      BY <2>0, <3>4
    <3>6. OneRule(u0)'
      <4>1. u0 \in byHand' \/ <<"rules", u0>> \in raced' \/ Active(rules, u0) = {}
        BY <1>0, <2>0, <2>2, <2>8 DEF Held, Grow
      <4> QED BY <2>6, <3>4, <4>1 DEF OneRule
    <3> QED BY <1>0, <1>k, <2>0, <2>3, <2>7, <3>2, <3>3, <3>5, <3>6, RulesWritten
  <2>9. CASE ~row.active
    <3>1. \A u, n : n \in Active(rules', u) => n # m /\ n \in Active(rules, u)
      BY <1>k, <2>2, <2>3, <2>9, RuleIsActive
    <3>2. \A u \in Users : Active(rules', u) \subseteq Active(rules, u)
      BY <3>1
    <3>3. Held(u0, {})'
      <4>1. u0 \in byHand \/ <<"rules", u0>> \in raced \/ Active(rules, u0) \subseteq {m}
        BY <2>2, <2>9 DEF Held
      <4>2. Active(rules, u0) \subseteq {m} => Active(rules', u0) = {}
        BY <3>1
      <4>3. byHand' = byHand /\ raced \subseteq raced' BY <1>0, <2>0 DEF Grow
      <4> QED BY <2>6, <4>1, <4>2, <4>3 DEF Held
    <3>4. /\ KnowsRule(r)'
          /\ \A n \in RuleIds : Saves(r, n)' => run'[r].op.user = run[r].op.user /\ Saves(r, n)
      <4>1. CASE Set(r, [Then(run[r], "exists") EXCEPT !.seen = None, !.wrote = TRUE])
        <5>1. Goes(r, "exists") BY <2>0, <4>1, SeenWroteStep
        <5> QED BY <1>s, <3>3, <5>1 DEF KnowsRule, Saves, Carries, At, Goes
      <4>2. CASE old # None /\
                 Set(r, [Then(run[r], "revive") EXCEPT !.seen = Found(old, None, None), !.wrote = TRUE])
        <5> DEFINE v == Found(old, None, None)
        <5>1. v.id = old /\ v.old = None BY DEF Found
        <5> HIDE DEF v
        <5>2. Goes(r, "revive") /\ run'[r].seen = v BY <2>0, <4>2, SeenWroteStep DEF v
        <5>3. KnowsRule(r)' BY <1>s, <2>2, <3>3, <4>2, <5>1, <5>2 DEF KnowsRule, At, Goes
        <5>4. \A n \in RuleIds : Saves(r, n)' => run'[r].op.user = run[r].op.user /\ n \in {old, None}
          BY <5>1, <5>2 DEF Saves, Carries, Goes
        <5>5. None \notin RuleIds BY CatalogAssumption
        <5> QED BY <2>4, <5>3, <5>4, <5>5
      <4> QED BY <2>0, <2>9, <4>1, <4>2
    <3>5. Owned' BY <1>0, <1>k, <2>0, <2>5, <3>4, OwnersStay
    <3> QED BY <1>0, <2>0, <2>3, <3>2, <3>4, <3>5, RulesShrink
  <2> QED BY <2>8, <2>9
<1>6. CASE FindEqual(r)
  <2>0. /\ UNCHANGED <<rules, byHand, raced>> /\ scenario' = scenario
        /\ o.name \in Updater \cup {"create"} /\ run[r].at = "exists"
    BY <1>6 DEF FindEqual, At, yearVars, shared, Updater
  <2>1. ASSUME Go(r, "insertRule") PROVE KnowsRule(r)' /\ \A m : ~Saves(r, m)'
    <3>1. o.name \in Updater => Held(u0, {})'
      BY <1>k, <1>s, <1>u, <2>0 DEF KnowsRule, At
    <3> QED BY <1>s, <2>0, <2>1, <3>1, GoStep DEF KnowsRule, Saves, Carries, At, Goes
  <2>2. KnowsRule(r)' /\ \A m : ~Saves(r, m)'
    BY <1>6, <1>e, <2>0, <2>1 DEF FindEqual
  <2> QED BY <1>w, <2>0, <2>2
<1>7. CASE InsertRule(r)
  <2>0. /\ scenario' = scenario /\ Writes(r, o.of) /\ run[r].at = "insertRule" /\ End(r)
        /\ o.name \in {"updateUser", "create"}
        /\ byHand' = IF o.name = "create" THEN byHand \cup {u0} ELSE byHand
    BY <1>7, <1>s DEF InsertRule, At
  <2>n. o.name \in RuleNames BY <2>0 DEF RuleNames
  <2>b. byHand \subseteq byHand' /\ byHand' \subseteq Users /\ (o.name = "create" => u0 \in byHand')
        /\ (byHand = Users => byHand' = Users)
    BY <1>k, <1>o, <2>n, <2>0
  <2> DEFINE row == [of |-> u0, value |-> o.value, active |-> TRUE]
  <2>1. PICK m \in Free(rules) : (\A q \in Requests : ~Carries(q, m)) /\ rules' = [rules EXCEPT ![m] = row]
    BY <1>7, <1>s DEF InsertRule
  <2>2. m \in RuleIds /\ rules[m] = None
    BY <1>k, <2>1 DEF Free, Present
  <2>3. row \in RuleRow /\ row.of = u0
    BY <1>o, <2>0, <2>n DEF RuleRow
  <2> HIDE DEF row
  <2>4. /\ rules' \in [RuleIds -> RuleRow \cup {None}] /\ rules'[m] = row
        /\ \A n \in RuleIds \ {m} : rules'[n] = rules[n]
    BY <1>k, <2>1, <2>2, <2>3
  <2>5. \A u, n : n \in Active(rules', u) => n \in Active(rules, u) \/ (n = m /\ u = u0)
    BY <1>k, <2>2, <2>3, <2>4, RuleIsActive
  <2>6. Active(rules, u0)' = Active(rules', u0) BY DEF Active, Present
  <2>7. KnowsRule(r)' /\ \A n : ~Saves(r, n)' BY <1>e, <2>0
  <2>8. Owned'
    <3>1. \A q \in Requests : ~Saves(q, m) BY <2>1 DEF Saves
    <3> QED BY <1>0, <1>k, <2>b, <2>4, <2>7, <3>1, OwnersStay
  <2>9. OneRule(u0)'
    <3>1. o.name \in Updater => Held(u0, {}) BY <1>k, <1>s, <2>0 DEF KnowsRule, At
    <3>2. u0 \in byHand' \/ <<"rules", u0>> \in raced' \/ Active(rules, u0) = {}
      BY <1>0, <2>0, <2>b, <3>1 DEF Held, Updater, Grow
    <3> QED BY <2>5, <2>6, <3>2 DEF OneRule
  <2>10. \A u \in Users \ {u0} : Active(rules', u) \subseteq Active(rules, u)
    BY <2>5
  <2>11. u0 \in Users /\ Writes(r, {<<"rules", u0>>})
    BY <1>o, <2>0, <2>n
  <2> QED BY <1>0, <2>b, <2>4, <2>7, <2>8, <2>9, <2>10, <2>11, RulesWritten
<1>8. CASE FindRule(r)
  <2>0. UNCHANGED <<rules, byHand, raced>> /\ o.name \notin Updater
    BY <1>8 DEF FindRule, At, yearVars, shared, Updater
  <2> QED BY <1>n, <1>w, <2>0
<1>9. CASE RemoveRule(r)
  <2>0. byHand' = byHand /\ o.name \notin Updater /\ rules' = [rules EXCEPT ![o.rule] = None]
    BY <1>9 DEF RemoveRule, At, Updater
  <2>1. KnowsRule(r)' /\ \A m : ~Saves(r, m)'
    BY <1>n, <2>0
  <2>2. /\ rules' \in [RuleIds -> RuleRow \cup {None}]
        /\ \A n \in RuleIds : rules'[n] = None \/ rules'[n] = rules[n]
    BY <1>k, <2>0
  <2>3. \A u \in Users : Active(rules', u) \subseteq Active(rules, u)
    BY <1>k, <2>2, RuleIsActive
  <2>4. Owned'
    BY <1>0, <1>k, <2>0, <2>1, <2>2, OwnersStay
  <2> QED BY <1>0, <2>0, <2>1, <2>2, <2>3, <2>4, RulesShrink
<1>10. CASE PatchRule(r)
  <2>0. /\ o.name = "update" /\ scenario' = scenario /\ Writes(r, o.of)
        /\ rules' = [rules EXCEPT ![o.rule] = [of |-> u0, value |-> o.value, active |-> o.active]]
        /\ byHand' = IF rules[o.rule] # None /\ rules[o.rule].of = u0 THEN byHand \cup {u0} ELSE Users
    BY <1>10, <1>s DEF PatchRule, At
  <2> DEFINE row == [of |-> u0, value |-> o.value, active |-> o.active]
  <2>1. PICK m : m = o.rule OBVIOUS
  <2>2. /\ m \in RuleIds /\ u0 \in Users /\ Writes(r, {<<"rules", u0>>}) /\ row \in RuleRow /\ row.of = u0
    BY <1>o, <2>0, <2>1 DEF RuleNames, RuleRow
  <2>3. rules' = [rules EXCEPT ![m] = row] BY <2>0, <2>1
  <2> HIDE DEF row
  <2>4. /\ rules' \in [RuleIds -> RuleRow \cup {None}] /\ rules'[m] = row
        /\ \A n \in RuleIds \ {m} : rules'[n] = rules[n]
    BY <1>k, <2>2, <2>3
  <2>5. /\ byHand \subseteq byHand' /\ byHand' \subseteq Users /\ u0 \in byHand'
        /\ byHand = Users => byHand' = Users
        /\ byHand' = Users \/ (rules[m] # None /\ rules[m].of = u0)
    BY <1>k, <2>0, <2>1, <2>2
  <2>6. KnowsRule(r)' /\ \A n : ~Saves(r, n)'
    BY <1>n, <2>0 DEF Updater
  <2>7. byHand' = Users \/ \A n \in RuleIds :
            \/ rules'[n] = None \/ rules'[n] = rules[n]
            \/ \A q \in Requests : Saves(q, n) => rules'[n].of = run[q].op.user
    <3>1. byHand' = Users \/ \A q \in Requests : Saves(q, m) => run[q].op.user = u0
      BY <1>k, <2>2, <2>5 DEF Owned
    <3> QED BY <2>2, <2>4, <3>1
  <2>8. Owned'
    BY <1>0, <1>k, <2>5, <2>6, <2>7, OwnersStay
  <2>9. \A u \in Users \ {u0} : Active(rules', u) \subseteq Active(rules, u)
    BY <1>k, <2>2, <2>4, RuleIsActive
  <2>10. OneRule(u0)' BY <2>5 DEF OneRule
  <2> QED BY <1>0, <2>2, <2>4, <2>5, <2>6, <2>8, <2>9, <2>10, RulesWritten
<1>11. CASE o.name \in RuleNames
  BY <1>2, <1>3, <1>4, <1>5, <1>6, <1>7, <1>8, <1>9, <1>10, <1>11
     DEF NextYears, FindOverlap, FindActive, Deactivate, InsertYear, FindCohort, FindYear,
         SaveCohort, Attach, FindToUpdate, UpdateCohort, At, RuleNames
<1> QED BY <1>1, <1>11

\* A step of a request that is for something else, begins or fails.
LEMMA OthersKeepRules ==
    ASSUME RunsOK, RulesInv, NEW r \in Requests, Only(r), Grow, UNCHANGED <<rules, byHand>>,
           run'[r].op.name \in Updater => run'[r].at = "equal"
    PROVE  RulesInv'
<1>1. \A m : ~Saves(r, m)' BY DEF Saves, Carries
<1>2. Owned' BY <1>1, OwnersStay DEF RulesInv
<1>3. KnowsRule(r)' BY DEF KnowsRule, At
<1> QED BY <1>2, <1>3, RulesShrink DEF RulesInv
-----------------------------------------------------------------------------
(* All of it is invariant: a request's step keeps what it is for by the lemmas above, and  *)
(* the rest by those of the others.                                                        *)

CatalogInv == RunsOK /\ CodesInv /\ TenantsInv /\ YearsInv /\ CohortsInv /\ RulesInv

\* r has begun, or is at an end: it counts on nothing, and is no witness of what is half done.
Quiet(r) ==
    /\ Only(r) /\ Grow
    /\ UNCHANGED <<tenants, yearVars, codes>>
    /\ ~Inserting(r)' /\ ~HasRead(r)'
    /\ run'[r].at \notin {"deactivate", "insertYear", "saveCohort", "attach"}
    /\ ~At(r, {"createCohortAcademicYear"}, "year")'
    /\ run'[r].op.name \in Updater => run'[r].at = "equal"
    /\ \A s : Between(r, s) => <<"years", s>> \in failed'
    /\ \A c \in CohortIds \ moved : Attaching(r, c) => <<"years", cohorts[c]>> \in failed'

LEMMA QuietKeeps ==
    ASSUME CatalogInv, NEW r \in Requests, Quiet(r), RunsOK'
    PROVE  CatalogInv'
<1> USE DEF CatalogInv, Quiet, yearVars
<1>1. CodesInv'
  BY CodesStand DEF KnowsCode, Grow
<1>2. TenantsInv'
  BY OthersKeepTenants
<1>3. YearsInv' /\ YearsRemain
  BY OthersKeepYears DEF At
<1>4. CohortsInv'
  BY <1>3, OthersKeepCohorts
<1>5. RulesInv'
  BY OthersKeepRules
<1> QED BY <1>1, <1>2, <1>3, <1>4, <1>5

LEMMA StartIsQuiet ==
    ASSUME CatalogInv, NEW r \in Requests, NEW o \in scenario.ops, Start(r, o)
    PROVE  Quiet(r)
<1>1. RunsOK BY DEF CatalogInv
<1>2. /\ Only(r) /\ Grow /\ run[r].at = "idle" /\ run'[r].op = o /\ run'[r].at = First(o)
      /\ UNCHANGED <<tenants, yearVars, codes>>
  BY <1>1, ArriveStep DEF Grow
<1>3. o \in TenantOps \/ o \in YearOps \/ o \in RuleOps \/ o \in CodeOps \/ o \in OptionOps
  BY <1>1 DEF RunsOK, Ops
<1>4. ~Inserting(r)' /\ ~HasRead(r)'
  BY <1>2, <1>3, TenantsBegin, YearsBegin, RulesBegin, CodesBegin, OptionsBegin
     DEF Inserting, HasRead, At, TenantNames, YearNames, RuleNames, Looks, Skips, Refuses, Repeats,
         Blind, OptionHandlers
<1>5. run'[r].at \notin {"deactivate", "insertYear", "saveCohort", "attach"}
  BY <1>2, <1>3, TenantsBegin, YearsBegin, RulesBegin, CodesBegin, OptionsBegin
     DEF YearNames, RuleNames
<1>6. ~At(r, {"createCohortAcademicYear"}, "year")' /\ (run'[r].op.name \in Updater => run'[r].at = "equal")
  BY <1>2, <1>3, TenantsBegin, YearsBegin, RulesBegin, CodesBegin, OptionsBegin
     DEF At, Updater, TenantNames, YearNames, RuleNames, Looks, Skips, Refuses, Repeats,
         Blind, OptionHandlers
<1>7. \A x : ~Between(r, x) /\ ~Attaching(r, x)
  BY <1>2 DEF Between, Attaching, At
<1> QED BY <1>2, <1>4, <1>5, <1>6, <1>7 DEF Quiet

LEMMA AbortIsQuiet ==
    ASSUME CatalogInv, NEW r \in Requests, Abort(r), UNCHANGED <<tenants, yearVars, codes>>
    PROVE  Quiet(r)
<1>1. RunsOK /\ run[r].at # "idle" BY DEF CatalogInv, Abort
<1>2. Ends(r) /\ Grow
  BY <1>1, EndStep DEF Abort, Grow
<1>3. run[r].wrote => run[r].op.of \subseteq failed'
  BY DEF Abort
<1>4. \A s : Between(r, s) => <<"years", s>> \in failed'
  <2>1. ASSUME NEW s, Between(r, s) PROVE <<"years", s>> \in failed'
    BY <1>1, <1>3, <2>1, YearOpIs, YearsBegin DEF Between, At, YearNames
  <2> QED BY <2>1
<1>5. \A c \in CohortIds \ moved : Attaching(r, c) => <<"years", cohorts[c]>> \in failed'
  <2>1. ASSUME NEW c \in CohortIds \ moved, Attaching(r, c) PROVE <<"years", cohorts[c]>> \in failed'
    <3>1. cohorts[c] = run[r].op.school
      BY <2>1 DEF CatalogInv, CohortsInv, KnowsCohort, CohortIs, Attaching, At
    <3> QED BY <1>1, <1>3, <2>1, <3>1, YearOpIs, YearsBegin DEF Attaching, At, YearNames
  <2> QED BY <2>1
<1> QED BY <1>2, <1>4, <1>5 DEF Quiet, Ends, Idle, NoOp, Inserting, HasRead, At, TenantNames, Updater,
           Looks, Skips, Refuses, Repeats

LEMMA CatalogInit == Init => CatalogInv
<1> SUFFICES ASSUME Init PROVE CatalogInv
  OBVIOUS
<1> USE DEF Init, InitHandlers
<1>0. \A r \in Requests : run[r] = Idle
  OBVIOUS
<1>1. RunsOK
  <2>1. scenario.ops \subseteq Ops BY CatalogAssumption DEF Ops
  <2>2. DOMAIN Idle = Fields /\ Idle.at = "idle" BY DEF Idle, Fields
  <2>3. ~Coding(Idle) BY DEF Coding, Idle, NoOp, Looks, Skips, Refuses, Repeats, Blind
  <2> QED BY <1>0, <2>1, <2>2, <2>3 DEF RunsOK
<1>2. Idle.at = "idle" BY DEF Idle
<1>3. CodesInv
  BY <1>0, <1>2 DEF CodesInv, InitCodes, Having, LookedFor, KnowsCode, Inserting, At
<1>4. TenantsInv
  BY <1>0, <1>2, CatalogAssumption DEF TenantsInv, InitTenants, TenantTables, TreeIsKept, KnowsTenant, HasRead
<1>5. YearsInv
  BY <1>0, <1>2, CatalogAssumption
     DEF YearsInv, InitYears, YearsOf, YearIs, Active, Present, KnowsYear, At
<1>6. CohortsInv
  BY <1>0, <1>2, CatalogAssumption DEF CohortsInv, InitYears, KnowsCohort, At
<1>7. RulesInv
  BY <1>0, <1>2, CatalogAssumption
     DEF RulesInv, InitYears, OneRule, Active, Present, Owned, Saves, Carries, KnowsRule, At
<1> QED BY <1>1, <1>3, <1>4, <1>5, <1>6, <1>7 DEF CatalogInv

LEMMA CatalogStep == CatalogInv /\ [Next]_vars => CatalogInv'
<1> SUFFICES ASSUME CatalogInv, [Next]_vars PROVE CatalogInv'
  OBVIOUS
<1>r. RunsOK /\ RunsOK' BY StepKeepsRuns DEF CatalogInv
<1>i. CodesInv /\ TenantsInv /\ YearsInv /\ CohortsInv /\ RulesInv BY DEF CatalogInv
<1>1. CASE UNCHANGED vars
  <2>1. UNCHANGED <<tenants, years, cohorts, yearOf, rules, byHand, moved, codes, run, raced, failed>>
    BY <1>1 DEF vars, yearVars, shared
  <2>2. CodesInv'
    BY <1>i, <2>1 DEF CodesInv, KnowsCode, Inserting, LookedFor, At, Clear, Having
  <2>3. TenantsInv'
    BY <1>i, <2>1 DEF TenantsInv, TreeIsKept, KnowsTenant, HasRead, At, IsSo, Rows, RowsIn
  <2>4. YearsInv'
    BY <1>i, <2>1 DEF YearsInv, YearsOf, YearIs, Between, KnowsYear, Active, Present, At
  <2>5. CohortsInv'
    BY <1>i, <2>1 DEF CohortsInv, HasYear, Attaching, KnowsCohort, CohortIs, YearIs, At
  <2>6. RulesInv'
    BY <1>i, <2>1 DEF RulesInv, OneRule, KnowsRule, Owned, Saves, Carries, Held, Active, Present, At
  <2> QED BY <1>r, <2>2, <2>3, <2>4, <2>5, <2>6 DEF CatalogInv
<1>2. ASSUME NEW r \in Requests, NEW o \in scenario.ops, Start(r, o) PROVE CatalogInv'
  BY <1>r, <1>2, StartIsQuiet, QuietKeeps
<1>3. ASSUME NEW r \in Requests, NextTenants(r), UNCHANGED <<yearVars, codes>> PROVE CatalogInv'
  <2>1. /\ Only(r) /\ Grow /\ run[r].op.name \in TenantNames /\ run'[r].op.name \in TenantNames \cup {"none"}
    BY <1>r, <1>3, TenantsStay DEF Stays, Idle, NoOp
  <2>2. TenantsInv' BY <1>r, <1>i, <1>3, NextKeepsTenants
  <2>3. /\ ~Inserting(r)' /\ \A x : ~Between(r, x) /\ ~Attaching(r, x)
        /\ ~At(r, {"createAcademicYear"}, "deactivate")' /\ ~At(r, {"createAcademicYear"}, "insertYear")'
        /\ ~At(r, Updater, "insertRule")' /\ KnowsCohort(r)' /\ run'[r].op.name \notin Updater
    BY <2>1 DEF Inserting, Between, Attaching, At, KnowsCohort, TenantNames, Updater,
         Looks, Skips, Refuses, Repeats
  <2>4. CodesInv' BY <1>i, <1>3, <2>1, <2>3, CodesStand DEF KnowsCode, Grow
  <2>5. YearsInv' /\ YearsRemain BY <1>r, <1>i, <1>3, <2>1, <2>3, OthersKeepYears DEF yearVars
  <2>6. CohortsInv' BY <1>r, <1>i, <1>3, <2>1, <2>3, <2>5, CohortsStand DEF yearVars, CohortsRemain, CohortsInv
  <2>7. RulesInv' BY <1>r, <1>i, <1>3, <2>1, <2>3, OthersKeepRules DEF yearVars
  <2> QED BY <1>r, <2>2, <2>4, <2>5, <2>6, <2>7 DEF CatalogInv
<1>4. ASSUME NEW r \in Requests, NextYears(r), UNCHANGED <<tenants, codes>> PROVE CatalogInv'
  <2>1. /\ Only(r) /\ Grow /\ run'[r].op.name \in YearNames \cup RuleNames \cup {"none"}
    BY <1>r, <1>4, YearsStay DEF Stays, Idle, NoOp
  <2>2. ~Inserting(r)' /\ ~HasRead(r)'
    BY <2>1 DEF Inserting, HasRead, At, TenantNames, YearNames, RuleNames, Looks, Skips, Refuses, Repeats
  <2>3. YearsInv' /\ YearsRemain BY <1>r, <1>i, <1>4, YearsKeepYears
  <2>4. CohortsInv' BY <1>r, <1>i, <1>4, <2>3, YearsKeepCohorts
  <2>5. RulesInv' BY <1>r, <1>i, <1>4, YearsKeepRules
  <2>6. CodesInv' BY <1>i, <1>4, <2>1, <2>2, CodesStand DEF KnowsCode, Grow
  <2>7. TenantsInv' BY <1>r, <1>i, <1>4, <2>1, <2>2, OthersKeepTenants
  <2> QED BY <1>r, <2>3, <2>4, <2>5, <2>6, <2>7 DEF CatalogInv
<1>5. ASSUME NEW r \in Requests, UNCHANGED <<tenants, yearVars>>,
             NextCodes(r) \/ (NextOptions(r) /\ UNCHANGED codes)
      PROVE  CatalogInv'
  <2>1. /\ Only(r) /\ Grow
        /\ run[r].op.name \in Looks \cup Blind \cup OptionHandlers
        /\ run'[r].op.name \in Looks \cup Blind \cup OptionHandlers \cup {"none"}
    BY <1>r, <1>5, CodesStay, OptionsStay DEF Stays, Idle, NoOp
  <2>2. CodesInv'
    <3>1. CASE NextCodes(r)
      BY <1>r, <1>i, <3>1, NextKeepsCodes
    <3>2. CASE NextOptions(r) /\ UNCHANGED codes
      <4>0. /\ run'[r].at \in OptionPlaces \cup {"idle"}
            /\ run'[r].op.name \in OptionHandlers \cup {"none"}
        BY <1>r, <3>2, OptionsStay DEF Stays, Idle, NoOp
      <4>1. ~Inserting(r)'
        BY <4>0 DEF Inserting, At, OptionPlaces, OptionHandlers, Looks, Skips, Refuses, Repeats
      <4> QED BY <1>i, <1>5, <2>1, <3>2, <4>1, CodesStand DEF KnowsCode, Grow
    <3> QED BY <1>5, <3>1, <3>2
  <2>3. ~HasRead(r)'
    BY <2>1 DEF HasRead, TenantNames, OptionHandlers, Looks, Skips, Refuses, Repeats, Blind
  <2>4. /\ \A x : ~Between(r, x) /\ ~Attaching(r, x)
        /\ ~At(r, {"createAcademicYear"}, "deactivate")' /\ ~At(r, {"createAcademicYear"}, "insertYear")'
        /\ KnowsCohort(r)' /\ run'[r].op.name \notin Updater
    BY <2>1 DEF Between, Attaching, At, KnowsCohort, Updater, OptionHandlers, Looks, Skips, Refuses,
         Repeats, Blind
  <2>5. TenantsInv' BY <1>r, <1>i, <1>5, <2>1, <2>3, OthersKeepTenants
  <2>6. YearsInv' /\ YearsRemain BY <1>r, <1>i, <1>5, <2>1, <2>4, OthersKeepYears DEF yearVars
  <2>7. CohortsInv' BY <1>r, <1>i, <1>5, <2>1, <2>4, <2>6, CohortsStand DEF yearVars, CohortsRemain, CohortsInv
  <2>8. RulesInv' BY <1>r, <1>i, <1>5, <2>1, <2>4, OthersKeepRules DEF yearVars
  <2> QED BY <1>r, <2>2, <2>5, <2>6, <2>7, <2>8 DEF CatalogInv
<1>6. ASSUME NEW r \in Requests, Abort(r), UNCHANGED <<tenants, yearVars, codes>> PROVE CatalogInv'
  BY <1>r, <1>6, AbortIsQuiet, QuietKeeps
<1> QED BY <1>1, <1>2, <1>3, <1>4, <1>5, <1>6 DEF Next

\* The invariant of the catalog: what each request has read of the tables is so, or has been
\* marked as overtaken by another request.
THEOREM Invariance == Spec => []CatalogInv
<1> QED BY CatalogInit, CatalogStep, PTL DEF Spec

\* Codes: no key is doubled by requests that look before they insert, one after the other
\* (role.service.ts, privilege.service.ts, form.service.ts, fields.service.ts).
THEOREM CodesAreUnique == Spec => []KeysUnique
<1>1. CatalogInv => KeysUnique BY CodesImplyUnique DEF CatalogInv
<1> QED BY <1>1, Invariance, PTL

\* Tenants: no sequence of creations, moves and deletions that do not overlap makes a cycle, an
\* orphan or a second tenant of one name; the walk of updateTenants is enough for any depth.
THEOREM TreeStays == Spec => []TreeIsKept
<1>1. CatalogInv => TreeIsKept BY DEF CatalogInv, TenantsInv
<1> QED BY <1>1, Invariance, PTL

\* Academic years and rules: one active year per tenant that is at rest, and at most one active
\* rule per user whose rules only updates of the user make.
THEOREM OneYearActive == Spec => []OneActive
<1>1. ASSUME CatalogInv PROVE OneActive
  <2>i. RunsOK /\ YearsInv /\ RulesInv BY <1>1 DEF CatalogInv
  <2>1. ASSUME NEW s \in Schools, Settled(<<"years", s>>), \E y \in Present(years) : years[y].of = s
        PROVE  \E y \in Present(years) : Active(years, s) = {y}
    <3>1. YearsOf(s) BY <2>i DEF YearsInv
    <3>2. ASSUME NEW r \in Requests PROVE ~Between(r, s)
      <4>1. SUFFICES ASSUME Between(r, s) PROVE FALSE OBVIOUS
      <4>2. run[r].at # "idle" /\ run[r].op.name \in YearNames /\ run[r].op.school = s
        BY <4>1 DEF Between, At, YearNames
      <4>3. <<"years", s>> \in run[r].op.of BY <2>i, <4>2, YearOpIs, YearsBegin
      <4> QED BY <2>1, <4>2, <4>3 DEF Settled, Running
    <3>3. \E y : YearIs(y, s)
      BY <2>i, <2>1 DEF YearsInv, YearIs, Present
    <3>4. Active(years, s) # {} /\ \A y, z \in Active(years, s) : y = z
      BY <2>1, <3>1, <3>2, <3>3 DEF YearsOf, Settled
    <3>5. PICK y \in Active(years, s) : TRUE BY <3>4
    <3> QED BY <3>4, <3>5 DEF Active
  <2>2. ASSUME NEW u \in Users
        PROVE  Cardinality(Active(rules, u)) <= 1 \/ u \in byHand \/ <<"rules", u>> \in raced
    <3>1. OneRule(u) BY <2>i DEF RulesInv
    <3>2. CASE \A m, n \in Active(rules, u) : m = n
      <4>1. CASE Active(rules, u) = {}
        BY <4>1, FS_EmptySet
      <4>2. ASSUME NEW m \in Active(rules, u) PROVE Cardinality(Active(rules, u)) <= 1
        <5>1. Active(rules, u) = {m} BY <3>2
        <5> QED BY <5>1, FS_Singleton
      <4> QED BY <4>1, <4>2
    <3> QED BY <3>1, <3>2 DEF OneRule
  <2> QED BY <2>1, <2>2 DEF OneActive
<1> QED BY <1>1, Invariance, PTL

\* Cohorts: each that has not been moved is in a year of its tenant, and in no other's, or its
\* creation is under way or failed half way.
THEOREM CohortsKeepYears == Spec => []CohortsHaveYears
<1>1. ASSUME CatalogInv PROVE CohortsHaveYears
  <2>i. CohortsInv /\ YearsInv BY <1>1 DEF CatalogInv
  <2>1. ASSUME NEW c \in Present(cohorts) \ moved
        PROVE  \/ \E y \in YearIds : <<c, y>> \in yearOf
               \/ <<"years", cohorts[c]>> \in failed
               \/ \E r \in Running : run[r].at = "attach" /\ run[r].seen = c
    <3>1. HasYear(c) BY <2>i DEF CohortsInv, Present
    <3> QED BY <3>1 DEF HasYear, Attaching, At, Running
  <2>2. \A c, y : <<c, y>> \in yearOf /\ c \notin moved => years[y].of = cohorts[c]
    BY <2>i DEF CohortsInv, YearIs
  <2> QED BY <2>1, <2>2 DEF CohortsHaveYears
<1> QED BY <1>1, Invariance, PTL
-----------------------------------------------------------------------------
(* Options: until a request for a field has written, what the field offers and what the     *)
(* replies amount to agree; then the request holds the difference, the options it has added *)
(* so far, until it has replied or failed.                                                  *)

Marked(f) == <<"options", f>> \in raced \cup failed

\* A deletion finds an option of fieldParams by value and takes it out by name: an option whose
\* name is not its value is left out of the comparison.
Plainly(S) == {o \in S : o.name = o.value}

Agree(f) ==
    IF f \in Params THEN Plainly(options[f]) = Plainly(offered[f]) ELSE options[f] = offered[f]

\* S with new added and renamed.
After(S, new) == {p \in S : WithValue(new, p.value) = {}} \cup new

Changers == {"createFields", "updateFields"}
ChangerPlaces == {"options", "read", "write", "update"}
Changing(r) == run[r].op.name \in Changers /\ run[r].at \in ChangerPlaces
HasWritten(r, f) == Changing(r) /\ run[r].wrote /\ run[r].op.field = f

Asked(o) == IF o.asked = None THEN {} ELSE o.asked

\* No two options of a body that renames have one value: of two, the later name would stay.
NamesOnce(o) ==
    o.name \in Changers /\ o.field \in Sourced =>
        \A p, q \in Asked(o) : p.value = q.value => p = q

\* Of a table: the options that the request is done with, and those that it has written.
Added(r) == IF run[r].at = "write" THEN run[r].left \ run[r].seen ELSE run[r].left
Written(r) == Added(r) \cap Taken(run[r].op)

Holds(r) ==
    LET f == run[r].op.field IN
    /\ run[r].at # "read"
    /\ run[r].left \subseteq Asked(run[r].op)
    /\ run[r].at = "write" =>
        \E o \in run[r].left :
            /\ run[r].seen = {o}
            /\ Marked(f) \/ (WithValue(options[f], o.value) = {}) = run[r].op.isCreate
    /\ run[r].at = "update" => run[r].left = Asked(run[r].op)
    /\ \/ Marked(f)
       \/ IF run[r].wrote THEN options[f] = After(offered[f], Written(r)) ELSE Added(r) = {}

KnowsOptions(r) ==
    /\ Changing(r) =>
        /\ run[r].op \in OptionOps /\ NamesOnce(run[r].op)
        /\ run[r].wrote \/ run[r].at \in {"read", "write"} =>
            run[r].begun /\ run[r].op.asked # None
        /\ run[r].op.field \in Sourced => Holds(r)
    /\ run[r].op.name = "deleteFieldOptions" =>
        /\ run[r].op \in OptionOps
        /\ run[r].at = "delete" => run[r].op.field \in Sourced
        /\ run[r].at \in {"check", "filter"} => run[r].op.field \notin Sourced
    /\ At(r, {"deleteFieldOptions"}, "filter") =>
        run[r].begun /\ (Marked(run[r].op.field) \/ run[r].seen = options[run[r].op.field])

OptionsInv ==
    /\ DOMAIN options = OptionFields /\ DOMAIN offered = OptionFields
    /\ scenario \in Scenarios
    /\ \A r \in Requests : KnowsOptions(r)
    /\ \A f \in OptionFields : Marked(f) \/ Agree(f) \/ \E r \in Requests : HasWritten(r, f)

LEMMA OptionOpIs ==
    ASSUME NEW o \in OptionOps
    PROVE  /\ o.name \in OptionHandlers /\ o.of = {<<"options", o.field>>}
           /\ o.field \in OptionFields /\ o.isCreate \in BOOLEAN
BY DEF OptionOps, OptionHandlers

\* Of a field that keeps its options in fieldParams all are taken.
LEMMA TakenIs ==
    ASSUME NEW o
    PROVE  /\ Taken(o) \subseteq Asked(o)
           /\ o.field \in Params \/ ~o.isCreate => Taken(o) = Asked(o)
<1>1. o.field \in Params => o.field \notin Dependent BY CatalogAssumption
<1>2. CASE o.asked = None
  <2>1. Taken(o) = {} BY <1>2, Zenon DEF Taken
  <2>2. Asked(o) = {} BY <1>2, Zenon DEF Asked
  <2> QED BY <2>1, <2>2
<1>3. CASE o.asked # None /\ o.field \in Dependent /\ o.isCreate
  BY <1>1, <1>3 DEF Taken, Asked
<1>4. CASE o.asked # None /\ ~(o.field \in Dependent /\ o.isCreate)
  BY <1>4 DEF Taken, Asked
<1> QED BY <1>2, <1>3, <1>4

\* A step that changes no options.
LEMMA OptionsStand ==
    ASSUME OptionsInv, NEW r \in Requests, Only(r), Grow, UNCHANGED optionVars, KnowsOptions(r)',
           \A f : HasWritten(r, f) => HasWritten(r, f)' \/ Marked(f)'
    PROVE  OptionsInv'
<1>1. UNCHANGED <<options, offered>> /\ scenario' = scenario
  BY DEF optionVars, Only
<1>2. \A f : Marked(f) => Marked(f)'
  BY DEF Marked, Grow
<1>3. ASSUME NEW q \in Requests, q # r
      PROVE  KnowsOptions(q)' /\ \A f : HasWritten(q, f) => HasWritten(q, f)'
  <2>1. run'[q] = run[q] /\ KnowsOptions(q)
    BY <1>3 DEF Only, OptionsInv
  <2>2. Changing(q)' = Changing(q) /\ Written(q)' = Written(q) /\ (Holds(q) => Holds(q)')
    BY <1>1, <1>2, <2>1 DEF Changing, Added, Written, Holds
  <2> QED BY <1>1, <1>2, <2>1, <2>2 DEF KnowsOptions, HasWritten, At
<1>4. \A f : Agree(f)' = Agree(f)
  BY <1>1 DEF Agree
<1> QED BY <1>1, <1>2, <1>3, <1>4 DEF OptionsInv

\* A step that writes the options of f, or the replies about them.
LEMMA OptionsWritten ==
    ASSUME RunsOK, OptionsInv, NEW r \in Requests, NEW f \in OptionFields, Only(r),
           Writes(r, {<<"options", f>>}), failed' = failed, KnowsOptions(r)',
           DOMAIN options' = OptionFields, DOMAIN offered' = OptionFields,
           \A g \in OptionFields \ {f} : options'[g] = options[g] /\ offered'[g] = offered[g],
           \A g : HasWritten(r, g) => g = f,
           Marked(f)' \/ Agree(f)' \/ HasWritten(r, f)'
    PROVE  OptionsInv'
<1>1. \A g : Marked(g) => Marked(g)'
  BY DEF Marked, Writes
<1>2. ASSUME NEW q \in Requests, q # r, run[q].at # "idle", run[q].begun, run[q].op \in OptionOps
      PROVE  run[q].op.field = f => Marked(f)'
  BY <1>2, OptionOpIs, WritesMark DEF Marked
<1>3. ASSUME NEW q \in Requests, q # r
      PROVE  /\ KnowsOptions(q)'
             /\ \A g : HasWritten(q, g) => HasWritten(q, g)'
  <2>1. run'[q] = run[q] /\ KnowsOptions(q)
    BY <1>3 DEF Only, OptionsInv
  <2>2. Changing(q)' = Changing(q) /\ Added(q)' = Added(q) /\ Written(q)' = Written(q)
    BY <2>1 DEF Changing, Added, Written
  <2> DEFINE g == run[q].op.field
  <2>3. Changing(q) => run[q].op \in OptionOps /\ g \in OptionFields /\ run[q].at # "idle"
    BY <2>1, OptionOpIs DEF KnowsOptions, Changing, ChangerPlaces
  <2>4. ASSUME Changing(q), g \in Sourced PROVE Holds(q)'
    <3>1. Holds(q) BY <2>1, <2>4 DEF KnowsOptions
    <3>2. CASE g = f /\ run[q].begun
      <4>1. Marked(g)' BY <1>2, <1>3, <2>1, <2>3, <2>4, <3>2
      <4> QED BY <2>1, <2>2, <3>1, <4>1 DEF Holds
    <3>3. CASE g = f /\ ~run[q].begun
      <4>1. ~run[q].wrote /\ run[q].at # "write"
        BY <2>1, <2>4, <3>3 DEF KnowsOptions
      <4> QED BY <1>1, <2>1, <2>2, <3>1, <4>1 DEF Holds
    <3>4. CASE g # f
      <4>1. options'[g] = options[g] /\ offered'[g] = offered[g]
        BY <2>3, <2>4, <3>4
      <4> QED BY <1>1, <2>1, <2>2, <3>1, <4>1 DEF Holds
    <3> QED BY <3>2, <3>3, <3>4
  <2>5. ASSUME At(q, {"deleteFieldOptions"}, "filter")
        PROVE  Marked(g)' \/ run[q].seen = options'[g]
    <3>1. /\ run[q].op \in OptionOps /\ run[q].begun /\ run[q].at # "idle" /\ g \in OptionFields
          /\ Marked(g) \/ run[q].seen = options[g]
      BY <2>1, <2>5, OptionOpIs DEF KnowsOptions, At
    <3>2. CASE g = f
      BY <1>2, <1>3, <2>1, <3>1, <3>2
    <3>3. CASE g # f
      BY <1>1, <2>1, <3>1, <3>3
    <3> QED BY <3>2, <3>3
  <2> QED BY <2>1, <2>2, <2>4, <2>5 DEF KnowsOptions, HasWritten, At
<1>4. ASSUME NEW g \in OptionFields
      PROVE  Marked(g)' \/ Agree(g)' \/ \E q \in Requests : HasWritten(q, g)'
  <2>1. CASE g = f
    BY <2>1
  <2>2. CASE g # f
    <3>1. Agree(g)' = Agree(g)
      BY <2>2 DEF Agree
    <3>2. Marked(g) \/ Agree(g) \/ \E q \in Requests \ {r} : HasWritten(q, g)
      BY <2>2 DEF OptionsInv
    <3> QED BY <1>1, <1>3, <3>1, <3>2
  <2> QED BY <2>1, <2>2
<1>5. scenario' \in Scenarios BY DEF OptionsInv, Only
<1> QED BY <1>3, <1>4, <1>5 DEF OptionsInv

\* What r's request is about.
LEMMA ChangingIs ==
    ASSUME OptionsInv, NEW r \in Requests,
           Changing(r) \/ run[r].op.name = "deleteFieldOptions"
    PROVE  /\ run[r].op \in OptionOps /\ run[r].op.field \in OptionFields
           /\ run[r].op.of = {<<"options", run[r].op.field>>}
<1>1. run[r].op \in OptionOps BY DEF OptionsInv, KnowsOptions
<1> QED BY <1>1, OptionOpIs

LEMMA FindKeepsOptions ==
    ASSUME RunsOK, OptionsInv, NEW r \in Requests, FindParam(r) \/ FindRow(r)
    PROVE  OptionsInv'
<1> DEFINE op == run[r].op
           f == op.field
<1>1. /\ Changing(r) /\ run[r].at = "options" /\ op.asked # None
      /\ UNCHANGED optionVars /\ scenario' = scenario /\ DOMAIN run[r] = Fields
  BY DEF FindParam, FindRow, Updating, At, Changing, Changers, ChangerPlaces, RunsOK, shared
<1>2. /\ op \in OptionOps /\ f \in OptionFields /\ op.of = {<<"options", f>>} /\ NamesOnce(op)
      /\ f \in Sourced => Holds(r)
  BY <1>1, ChangingIs DEF OptionsInv, KnowsOptions
<1>3. PICK o \in op.asked \ run[r].left :
        \/ FindParam(r) /\ Set(r, Loop(Done(r, o)))
        \/ FindParam(r) /\ Set(r, [Done(r, o) EXCEPT !.at = "read"])
        \/ /\ FindRow(r) /\ End(r)
           /\ failed' = IF run[r].wrote THEN failed \cup op.of ELSE failed
        \/ /\ FindRow(r) /\ Set(r, [Done(r, o) EXCEPT !.at = "write"]) /\ failed' = failed
           /\ (WithValue(options[f], o.value) = {}) = op.isCreate
  <2>1. CASE FindParam(r)
    BY <2>1 DEF FindParam
  <2>2. CASE FindRow(r)
    <3>1. PICK o \in op.asked \ run[r].left :
            IF (WithValue(options[f], o.value) # {}) = op.isCreate
            THEN End(r) /\ failed' = IF run[r].wrote THEN failed \cup op.of ELSE failed
            ELSE Set(r, [Done(r, o) EXCEPT !.at = "write"]) /\ UNCHANGED failed
      BY <2>2 DEF FindRow
    <3>2. op.isCreate \in BOOLEAN BY <1>2, OptionOpIs
    <3> QED BY <2>2, <3>1, <3>2
  <2> QED BY <2>1, <2>2
<1>4. ASSUME NEW g, DOMAIN g = Fields, Set(r, g), g.at \in ChangerPlaces, g.begun, g.op = op,
             g.wrote = run[r].wrote, failed' = failed, raced' = raced,
             f \in Sourced => Holds(r)'
      PROVE  OptionsInv'
  <2>1. Only(r) /\ run'[r] = g BY <1>1, <1>4, SetStep
  <2>2. Changing(r)' /\ \A h : HasWritten(r, h) => HasWritten(r, h)'
    BY <1>1, <1>4, <2>1 DEF HasWritten, Changing
  <2>3. KnowsOptions(r)'
    BY <1>1, <1>2, <1>4, <2>1 DEF KnowsOptions, Changing, Changers, At
  <2> QED BY <1>1, <1>4, <2>1, <2>2, <2>3, OptionsStand DEF Grow
<1>5. CASE FindParam(r) /\ Set(r, Loop(Done(r, o)))
  <2> DEFINE g == Loop(Done(r, o))
  <2>1. /\ DOMAIN g = Fields /\ g.at \in ChangerPlaces /\ g.begun /\ g.op = op /\ g.wrote = run[r].wrote
    BY <1>1 DEF Loop, Done, Then, Fields, ChangerPlaces
  <2>2. f \notin Sourced BY <1>5, CatalogAssumption DEF FindParam
  <2>3. Set(r, g) BY <1>5
  <2> HIDE DEF g
  <2> QED BY <1>4, <1>5, <2>1, <2>2, <2>3 DEF FindParam, shared
<1>6. CASE FindParam(r) /\ Set(r, [Done(r, o) EXCEPT !.at = "read"])
  <2> DEFINE g == [Done(r, o) EXCEPT !.at = "read"]
  <2>1. /\ DOMAIN g = Fields /\ g.at \in ChangerPlaces /\ g.begun /\ g.op = op /\ g.wrote = run[r].wrote
    BY <1>1 DEF Done, Then, Fields, ChangerPlaces
  <2>2. f \notin Sourced BY <1>6, CatalogAssumption DEF FindParam
  <2>3. Set(r, g) BY <1>6
  <2> HIDE DEF g
  <2> QED BY <1>4, <1>6, <2>1, <2>2, <2>3 DEF FindParam, shared
<1>7. CASE FindRow(r) /\ End(r) /\ failed' = IF run[r].wrote THEN failed \cup op.of ELSE failed
  <2>1. Ends(r) /\ Grow
    BY <1>1, <1>7, EndStep DEF FindRow, Grow
  <2>2. KnowsOptions(r)' /\ \A h : ~HasWritten(r, h)'
    BY <2>1 DEF Ends, Idle, NoOp, KnowsOptions, Changing, HasWritten, Changers, At
  <2>3. ASSUME NEW h, HasWritten(r, h) PROVE Marked(h)'
    BY <1>2, <1>7, <2>3 DEF HasWritten, Marked
  <2> QED BY <1>1, <2>1, <2>2, <2>3, OptionsStand DEF Ends
<1>8. CASE /\ FindRow(r) /\ Set(r, [Done(r, o) EXCEPT !.at = "write"]) /\ failed' = failed
           /\ (WithValue(options[f], o.value) = {}) = op.isCreate
  <2> DEFINE g == [Done(r, o) EXCEPT !.at = "write"]
  <2>1. /\ DOMAIN g = Fields /\ g.at = "write" /\ g.begun /\ g.op = op /\ g.wrote = run[r].wrote
        /\ g.left = run[r].left \cup {o} /\ g.seen = {o}
    BY <1>1 DEF Done, Then, Fields
  <2>3. Set(r, g) /\ raced' = raced BY <1>8 DEF FindRow
  <2> HIDE DEF g
  <2>4. Only(r) /\ run'[r] = g BY <1>1, <2>1, <2>3, SetStep
  <2>5. ASSUME f \in Sourced PROVE Holds(r)'
    <3>1. Holds(r) BY <1>2, <2>5
    <3>2. Added(r) = run[r].left BY <1>1 DEF Added
    <3>3. Added(r)' = run[r].left BY <2>1, <2>4 DEF Added
    <3>4. Marked(f)' = Marked(f) /\ UNCHANGED <<options, offered>>
      BY <1>1, <1>8, <2>1, <2>3, <2>4 DEF Marked, optionVars
    <3>5. Written(r)' = Written(r)
      BY <2>1, <2>4, <3>2, <3>3 DEF Written
    <3>6. PICK h, new : h = f /\ new = op.isCreate OBVIOUS
    <3>7. run'[r].left \subseteq Asked(op)
      BY <1>1, <2>1, <2>4, <3>1 DEF Holds, Asked
    <3>8. Marked(h)' \/ IF run'[r].wrote THEN options'[h] = After(offered'[h], Written(r)')
                        ELSE Added(r)' = {}
      BY <2>1, <2>4, <3>1, <3>2, <3>3, <3>4, <3>5, <3>6 DEF Holds
    <3>9. (WithValue(options'[h], o.value) = {}) = new
      BY <1>8, <3>4, <3>6
    <3>10. run'[r].op.field = h /\ run'[r].op.isCreate = new /\ run'[r].at = "write"
           /\ o \in run'[r].left /\ run'[r].seen = {o} /\ run'[r].op = op
      BY <2>1, <2>4, <3>6
    <3> HIDE DEF f, op
    <3> QED BY <3>7, <3>8, <3>9, <3>10 DEF Holds
  <2> QED BY <1>4, <1>8, <2>1, <2>3, <2>5 DEF ChangerPlaces
<1> QED BY <1>3, <1>5, <1>6, <1>7, <1>8

LEMMA WriteKeepsOptions ==
    ASSUME RunsOK, OptionsInv, NEW r \in Requests, WriteOption(r)
    PROVE  OptionsInv'
<1> DEFINE op == run[r].op
           f == op.field
           g == [Loop(run[r]) EXCEPT !.wrote = TRUE]
<1>1. /\ Changing(r) /\ run[r].at = "write" /\ op.name \in Changers
      /\ offered' = offered /\ failed' = failed /\ scenario' = scenario
      /\ DOMAIN run[r] = Fields
  BY DEF WriteOption, Updating, At, Changing, Changers, ChangerPlaces, RunsOK
<1>2. /\ op \in OptionOps /\ f \in OptionFields /\ op.of = {<<"options", f>>} /\ NamesOnce(op)
      /\ f \in Sourced => Holds(r)
      /\ op.asked # None
  BY <1>1, ChangingIs DEF OptionsInv, KnowsOptions
<1>3. /\ DOMAIN g = Fields /\ g.begun /\ g.op = op /\ g.wrote /\ g.left = run[r].left
      /\ g.at = IF run[r].left = op.asked THEN "update" ELSE "options"
  BY <1>1 DEF Loop, Then, Fields
<1>4. Set(r, g) BY DEF WriteOption
<1> HIDE DEF g
<1>5. Only(r) /\ run'[r] = g BY <1>1, <1>3, <1>4, SetStep
<1>6. Changing(r)' /\ HasWritten(r, f)'
  BY <1>1, <1>3, <1>5 DEF HasWritten, Changing, ChangerPlaces
<1>7. /\ DOMAIN options' = OptionFields /\ DOMAIN offered' = OptionFields
      /\ \A h \in OptionFields \ {f} : options'[h] = options[h] /\ offered'[h] = offered[h]
      /\ f \in Sourced =>
            options'[f] = IF op.isCreate THEN options[f] \cup (run[r].seen \cap Taken(op))
                          ELSE {p \in options[f] : WithValue(run[r].seen, p.value) = {}} \cup
                               {o \in run[r].seen : WithValue(options[f], o.value) # {}}
  BY <1>1, <1>2, CatalogAssumption DEF WriteOption, OptionsInv
<1>8. ASSUME f \in Sourced PROVE Holds(r)'
  <2>0. Holds(r) BY <1>2, <1>8
  <2>1. PICK o \in run[r].left :
            /\ run[r].seen = {o}
            /\ Marked(f) \/ (WithValue(options[f], o.value) = {}) = op.isCreate
    BY <1>1, <2>0 DEF Holds
  <2>2. Added(r) = run[r].left \ {o} /\ Added(r)' = run[r].left
    BY <1>1, <1>3, <1>5, <2>1 DEF Added
  <2>3. \A h : Marked(h) => Marked(h)' BY DEF Marked, WriteOption, Writes
  <2>4. ASSUME NEW h, h = f, ~Marked(h)' PROVE options'[h] = After(offered[h], run[r].left \cap Taken(op))
    <3>0. ~Marked(h) BY <2>3, <2>4
    <3> DEFINE done == Added(r) \cap Taken(op)
    <3>1. options[f] = After(offered[f], done)
      <4>1. CASE run[r].wrote BY <2>0, <2>4, <3>0, <4>1 DEF Holds, Written
      <4>2. CASE ~run[r].wrote
        <5>1. Added(r) = {} BY <2>0, <2>4, <3>0, <4>2 DEF Holds
        <5>2. ASSUME NEW q \in Requests, HasWritten(q, h) PROVE FALSE
          <6>1. q # r /\ run[q].at # "idle" /\ Changing(q) /\ run[q].op.field = f
            BY <2>4, <4>2, <5>2 DEF HasWritten, Changing, ChangerPlaces
          <6>2. run[q].begun /\ <<"options", f>> \in run[q].op.of
            BY <5>2, <6>1, ChangingIs DEF OptionsInv, KnowsOptions, HasWritten
          <6>3. <<"options", f>> \in raced'
            BY <1>2, <6>1, <6>2, WritesMark DEF WriteOption
          <6> QED BY <2>4, <6>3 DEF Marked
        <5>3. options[f] = offered[f]
          <6>1. f \notin Params BY <1>8, CatalogAssumption
          <6> QED BY <1>2, <2>4, <3>0, <5>2, <6>1 DEF OptionsInv, Agree
        <5> QED BY <5>1, <5>3 DEF After, WithValue
      <4> QED BY <4>1, <4>2
    <3>2. run[r].left \cap Taken(op) = done \cup ({o} \cap Taken(op)) BY <2>1, <2>2
    <3>3. CASE op.isCreate
      <4>1. WithValue(options[f], o.value) = {} BY <2>1, <2>4, <3>0, <3>3
      <4>2. options[f] \cup ({o} \cap Taken(op)) = After(offered[f], done \cup ({o} \cap Taken(op)))
        BY <3>1, <4>1 DEF After, WithValue
      <4> QED BY <1>1, <1>7, <1>8, <2>1, <2>4, <3>2, <3>3, <4>2
    <3>4. CASE ~op.isCreate
      <4>0. o \in Taken(op)
        BY <1>1, <1>2, <2>0, <2>1, <3>4, TakenIs DEF Holds
      <4>1. WithValue(options[f], o.value) # {} BY <1>2, <2>1, <2>4, <3>0, <3>4, OptionOpIs
      <4>2. \A p \in done : p.value # o.value
        BY <1>1, <1>2, <1>8, <2>0, <2>1, <2>2, <3>4 DEF NamesOnce, Asked, Holds, Changers
      <4>3. {p \in options[f] : WithValue({o}, p.value) = {}} \cup {o}
              = After(offered[f], done \cup {o})
        BY <3>1, <4>2 DEF After, WithValue
      <4>4. options'[f] = {p \in options[f] : WithValue({o}, p.value) = {}} \cup {o}
        BY <1>7, <1>8, <2>1, <3>4, <4>1
      <4> QED BY <1>1, <2>4, <3>2, <4>0, <4>3, <4>4
    <3> QED BY <3>3, <3>4
  <2> QED BY <1>1, <1>2, <1>3, <1>5, <2>0, <2>2, <2>4 DEF Holds, Written, Asked
<1>9. KnowsOptions(r)'
  BY <1>1, <1>2, <1>3, <1>5, <1>8 DEF KnowsOptions, Changing, Changers, ChangerPlaces, At
<1>10. Writes(r, {<<"options", f>>}) /\ \A h : HasWritten(r, h) => h = f
  BY <1>2 DEF WriteOption, HasWritten
<1>11. ASSUME NEW h, h = f PROVE HasWritten(r, h)'
  BY <1>3, <1>5, <1>6, <1>11
<1> HIDE DEF f, op
<1>12. \E h : h = f OBVIOUS
<1> QED BY <1>1, <1>2, <1>5, <1>7, <1>9, <1>10, <1>11, OptionsWritten

LEMMA UpdateKeepsOptions ==
    ASSUME RunsOK, OptionsInv, NEW r \in Requests, UpdateField(r)
    PROVE  OptionsInv'
<1> DEFINE op == run[r].op
           f == op.field
           stays == {o \in offered[f] : WithValue(Taken(op), o.value) = {}}
<1>1. Changing(r) /\ run[r].at = "update" /\ failed' = failed
  BY DEF UpdateField, Updating, At, Changing, Changers, ChangerPlaces
<1>2. /\ op \in OptionOps /\ f \in OptionFields /\ op.of = {<<"options", f>>}
      /\ f \in Sourced => Holds(r)
  BY <1>1, ChangingIs DEF OptionsInv, KnowsOptions
<1>3. /\ options' = IF f \in Params THEN [options EXCEPT ![f] = Taken(op)] ELSE options
      /\ offered' = [offered EXCEPT ![f] = IF f \in Params THEN Taken(op) ELSE stays \cup Taken(op)]
      /\ Writes(r, {<<"options", f>>}) /\ End(r) /\ scenario' = scenario
  BY <1>2 DEF UpdateField
<1>4. Ends(r) BY <1>3, EndStep
<1>5. KnowsOptions(r)'
  BY <1>4 DEF Ends, Idle, NoOp, KnowsOptions, Changing, Changers, At
<1>6. /\ DOMAIN options' = OptionFields /\ DOMAIN offered' = OptionFields
      /\ \A h \in OptionFields \ {f} : options'[h] = options[h] /\ offered'[h] = offered[h]
      /\ f \in Params => options'[f] = Taken(op) /\ offered'[f] = Taken(op)
      /\ f \notin Params => options'[f] = options[f] /\ offered'[f] = After(offered[f], Taken(op))
  BY <1>2, <1>3 DEF OptionsInv, After
<1>7. \A h : HasWritten(r, h) => h = f
  BY DEF HasWritten
<1>8. ASSUME NEW h, h = f PROVE Marked(h)' \/ Agree(h)' \/ HasWritten(r, h)'
  <2>1. CASE f \in Params
    BY <1>2, <1>6, <1>8, <2>1 DEF Agree
  <2>2. CASE f \notin Params /\ ~Marked(h)'
    <3>1. ~Marked(h) BY <1>1, <1>3, <2>2 DEF Marked, Writes
    <3>2. Added(r) = Asked(op) /\ Written(r) = Taken(op) /\ Holds(r)
      BY <1>1, <1>2, <2>2, TakenIs DEF Holds, Added, Written, OptionFields
    <3>3. CASE run[r].wrote
      BY <1>6, <1>8, <2>2, <3>1, <3>2, <3>3 DEF Holds, Agree
    <3>4. CASE ~run[r].wrote
      <4>1. Taken(op) = {} BY <1>8, <3>1, <3>2, <3>4, TakenIs DEF Holds
      <4>2. offered'[h] = offered[h] /\ options'[h] = options[h]
        BY <1>6, <1>8, <2>2, <4>1 DEF After, WithValue
      <4>3. CASE Agree(h)
        BY <4>2, <4>3 DEF Agree
      <4>4. ASSUME NEW q \in Requests, HasWritten(q, h) PROVE FALSE
        <5>1. q # r /\ run[q].at # "idle" /\ Changing(q) /\ run[q].op.field = h
          BY <3>4, <4>4 DEF HasWritten, Changing, ChangerPlaces
        <5>2. run[q].begun /\ <<"options", h>> \in run[q].op.of
          BY <4>4, <5>1, ChangingIs DEF OptionsInv, KnowsOptions, HasWritten
        <5>3. <<"options", h>> \in raced'
          BY <1>3, <1>8, <5>1, <5>2, WritesMark
        <5> QED BY <2>2, <5>3 DEF Marked
      <4> QED BY <1>2, <1>8, <3>1, <4>3, <4>4 DEF OptionsInv
    <3> QED BY <3>3, <3>4
  <2> QED BY <2>1, <2>2
<1> HIDE DEF f, op
<1>9. \E h : h = f OBVIOUS
<1> QED BY <1>1, <1>2, <1>3, <1>4, <1>5, <1>6, <1>7, <1>8, <1>9, OptionsWritten DEF Ends

LEMMA DeleteKeepsOptions ==
    ASSUME RunsOK, OptionsInv, NEW r \in Requests,
           DeleteRows(r) \/ CheckOption(r) \/ FilterOptions(r)
    PROVE  OptionsInv'
<1> DEFINE op == run[r].op
           f == op.field
           x == op.remove
<1>1. op.name = "deleteFieldOptions" /\ failed' = failed /\ scenario' = scenario
  BY DEF DeleteRows, CheckOption, FilterOptions, At, shared
<1>2. op \in OptionOps /\ f \in OptionFields /\ op.of = {<<"options", f>>}
  BY <1>1, ChangingIs
<1>3. \A h : ~HasWritten(r, h)
  BY <1>1 DEF HasWritten, Changing, Changers
<1>4. ASSUME Ends(r) PROVE KnowsOptions(r)'
  BY <1>4 DEF Ends, Idle, NoOp, KnowsOptions, Changing, Changers, At
<1>5. CASE CheckOption(r)
  <2>1. UNCHANGED <<optionVars, raced, failed>> BY <1>5 DEF CheckOption, shared
  <2>2. CASE End(r)
    <3>1. Ends(r) BY <1>1, <2>2, EndStep
    <3> QED BY <1>3, <1>4, <2>1, <3>1, OptionsStand DEF Ends, Grow
  <2>3. CASE Set(r, [Then(run[r], "filter") EXCEPT !.seen = options[f]])
    <3>1. Goes(r, "filter") /\ run'[r].seen = options[f] BY <1>1, <2>3, SeenStep
    <3>2. f \notin Sourced
      BY <1>1, <1>5 DEF CheckOption, At, OptionsInv, KnowsOptions
    <3>3. KnowsOptions(r)'
      BY <1>1, <1>2, <2>1, <3>1, <3>2
         DEF Goes, KnowsOptions, Changing, Changers, At, optionVars
    <3> QED BY <1>3, <2>1, <3>1, <3>3, OptionsStand DEF Goes, Grow
  <2> QED BY <1>5, <2>2, <2>3 DEF CheckOption
<1>6. CASE DeleteRows(r) \/ FilterOptions(r)
  <2>1. Ends(r) /\ Writes(r, {<<"options", f>>})
    BY <1>1, <1>2, <1>6, EndStep DEF DeleteRows, FilterOptions
  <2>2. /\ DOMAIN options' = OptionFields /\ DOMAIN offered' = OptionFields
        /\ \A h \in OptionFields \ {f} : options'[h] = options[h] /\ offered'[h] = offered[h]
    BY <1>2, <1>6 DEF DeleteRows, FilterOptions, OptionsInv
  <2>3. ASSUME NEW h, h = f, ~Marked(h)' PROVE Agree(h)'
    <3>1. ~Marked(h) BY <1>1, <2>1, <2>3 DEF Marked, Writes
    <3>2. ASSUME NEW q \in Requests, HasWritten(q, h) PROVE FALSE
      <4>1. q # r /\ run[q].at # "idle" /\ Changing(q) /\ run[q].op.field = h
        BY <1>3, <3>2 DEF HasWritten, Changing, ChangerPlaces
      <4>2. run[q].begun /\ <<"options", h>> \in run[q].op.of
        BY <3>2, <4>1, ChangingIs DEF OptionsInv, KnowsOptions, HasWritten
      <4>3. <<"options", h>> \in raced'
        BY <2>1, <2>3, <4>1, <4>2, WritesMark
      <4> QED BY <2>3, <4>3 DEF Marked
    <3>3. Agree(h) BY <1>2, <2>3, <3>1, <3>2 DEF OptionsInv
    <3>4. CASE DeleteRows(r)
      <4>1. f \in Sourced /\ f \notin Params
        BY <1>1, <3>4, CatalogAssumption DEF DeleteRows, At, OptionsInv, KnowsOptions
      <4>2. options[f] = offered[f] BY <2>3, <3>3, <4>1 DEF Agree
      <4> DEFINE gone == IF x = None THEN options[f] ELSE WithValue(options[f], x)
      <4>3. /\ options'[f] = options[f] \ gone
            /\ offered'[f] = IF gone = {} THEN offered[f]
                             ELSE IF x = None THEN {} ELSE offered[f] \ WithValue(offered[f], x)
        BY <1>2, <3>4 DEF DeleteRows, OptionsInv
      <4>4. options'[f] = offered'[f]
        BY <4>2, <4>3
      <4> HIDE DEF f, gone
      <4> QED BY <2>3, <4>1, <4>4 DEF Agree
    <3>5. CASE FilterOptions(r)
      <4>1. /\ f \in Params
            /\ Marked(f) \/ run[r].seen = options[f]
        BY <1>1, <1>2, <3>5 DEF FilterOptions, At, OptionsInv, KnowsOptions, OptionFields
      <4>2. /\ options'[f] = {o \in run[r].seen : o.name # x}
            /\ offered'[f] = offered[f] \ WithValue(offered[f], x)
        BY <1>2, <3>5 DEF FilterOptions, OptionsInv
      <4>3. Plainly(options[f]) = Plainly(offered[f]) /\ run[r].seen = options[f]
        BY <2>3, <3>1, <3>3, <4>1 DEF Agree
      <4>4. Plainly(options'[f]) = Plainly(options[f]) \ {o \in options[f] : o.name = x}
        BY <4>2, <4>3 DEF Plainly
      <4>5. Plainly(offered'[f]) = Plainly(offered[f]) \ {o \in offered[f] : o.name = x}
        BY <4>2 DEF Plainly, WithValue
      <4>6. Plainly(options'[f]) = Plainly(offered'[f])
        BY <4>3, <4>4, <4>5 DEF Plainly
      <4> HIDE DEF f
      <4> QED BY <2>3, <4>1, <4>6 DEF Agree
    <3> QED BY <1>6, <3>4, <3>5
  <2> HIDE DEF f, op
  <2>4. \E h : h = f OBVIOUS
  <2> QED BY <1>1, <1>2, <1>3, <1>4, <2>1, <2>2, <2>3, <2>4, OptionsWritten DEF Ends
<1> QED BY <1>5, <1>6

LEMMA NextKeepsOptions ==
    ASSUME RunsOK, OptionsInv, NEW r \in Requests, NextOptions(r)
    PROVE  OptionsInv'
<1>1. CASE NoOptions(r)
  <2> DEFINE op == run[r].op
  <2>1. /\ Changing(r) /\ run[r].at = "options" /\ op.asked = None
        /\ UNCHANGED <<optionVars, raced, failed>> /\ scenario' = scenario
    BY <1>1 DEF NoOptions, Updating, At, Changing, Changers, ChangerPlaces, shared
  <2>2. KnowsOptions(r) /\ ~run[r].wrote
    BY <2>1 DEF OptionsInv, KnowsOptions
  <2>3. CASE End(r)
    <3>1. Ends(r) BY <2>1, <2>3, EndStep
    <3>2. KnowsOptions(r)'
      BY <3>1 DEF Ends, Idle, NoOp, KnowsOptions, Changing, Changers, At
    <3> QED BY <2>1, <2>2, <3>1, <3>2, OptionsStand DEF Ends, Grow, HasWritten
  <2>4. CASE Go(r, "update")
    <3>1. /\ Goes(r, "update") /\ run'[r].left = run[r].left /\ ~run'[r].wrote
          /\ run'[r].op = op
      BY <2>1, <2>2, <2>4, GoStep DEF Goes
    <3>2. ASSUME op.field \in Sourced PROVE Holds(r)'
      <4>1. run[r].left = {} /\ Asked(op) = {} /\ Added(r) = {} /\ Added(r)' = {}
        BY <2>1, <2>2, <3>1, <3>2 DEF KnowsOptions, Holds, Asked, Added, Goes
      <4> QED BY <3>1, <4>1 DEF Holds, Written, Goes
    <3>3. KnowsOptions(r)'
      BY <2>1, <2>2, <3>1, <3>2 DEF KnowsOptions, Changing, Changers, At, Goes
    <3> QED BY <2>1, <2>2, <3>1, <3>3, OptionsStand DEF Goes, Grow, HasWritten
  <2> QED BY <1>1, <2>3, <2>4 DEF NoOptions
<1>2. CASE ReadOptions(r)
  <2> DEFINE g == [Then(run[r], "write") EXCEPT !.seen = options[run[r].op.field] \cup @]
  <2>1. /\ DOMAIN g = Fields /\ g.at = "write" /\ g.op = run[r].op /\ g.begun /\ g.wrote = run[r].wrote
    BY DEF RunsOK, Then, Fields
  <2>2. Set(r, g) /\ Changing(r) /\ run[r].at = "read" /\ UNCHANGED <<optionVars, raced, failed>>
    BY <1>2 DEF ReadOptions, Updating, At, Changing, Changers, ChangerPlaces, shared
  <2>3. scenario' = scenario BY <1>2 DEF ReadOptions, shared
  <2> HIDE DEF g
  <2>4. Only(r) /\ run'[r] = g BY <2>1, <2>2, <2>3, SetStep
  <2>5. KnowsOptions(r) /\ run[r].op.field \notin Sourced
    BY <2>2 DEF OptionsInv, KnowsOptions, Holds
  <2>6. KnowsOptions(r)'
    BY <2>1, <2>2, <2>4, <2>5 DEF KnowsOptions, Changing, Changers, At
  <2>7. \A f : HasWritten(r, f) => HasWritten(r, f)'
    BY <2>1, <2>2, <2>4 DEF HasWritten, Changing, ChangerPlaces
  <2> QED BY <2>2, <2>4, <2>6, <2>7, OptionsStand DEF Grow
<1> QED BY <1>1, <1>2, FindKeepsOptions, WriteKeepsOptions, UpdateKeepsOptions, DeleteKeepsOptions
        DEF NextOptions

\* The options of all the bodies that are sent.
NamesHold == \A c \in Scenarios : \A o \in c.ops \cap OptionOps : NamesOnce(o)

LEMMA OptionsInit == Init => OptionsInv
<1> SUFFICES ASSUME Init PROVE OptionsInv
  OBVIOUS
<1> USE DEF Init, InitHandlers, InitOptions
<1>1. \A r \in Requests : KnowsOptions(r)
  BY DEF KnowsOptions, Changing, Changers, At, Idle, NoOp
<1> QED BY <1>1 DEF OptionsInv, Agree

LEMMA OptionsStep ==
    ASSUME NamesHold
    PROVE  RunsOK /\ OptionsInv /\ [Next]_vars => OptionsInv'
<1> SUFFICES ASSUME RunsOK, OptionsInv, [Next]_vars PROVE OptionsInv'
  OBVIOUS
<1>1. CASE UNCHANGED vars
  <2>1. UNCHANGED <<options, offered, run, raced, failed, scenario>>
    BY <1>1 DEF vars, optionVars, shared
  <2>2. ASSUME NEW r \in Requests
        PROVE  KnowsOptions(r)' /\ \A f : HasWritten(r, f)' = HasWritten(r, f)
    <3>1. KnowsOptions(r) BY DEF OptionsInv
    <3>2. Changing(r)' = Changing(r) /\ Holds(r)' = Holds(r)
      BY <2>1 DEF Changing, Holds, Added, Written, Marked
    <3> QED BY <2>1, <3>1, <3>2 DEF KnowsOptions, HasWritten, Marked, At
  <2>3. \A f : Marked(f)' = Marked(f) /\ Agree(f)' = Agree(f)
    BY <2>1 DEF Marked, Agree
  <2> QED BY <2>1, <2>2, <2>3 DEF OptionsInv
<1>2. ASSUME NEW r \in Requests, NEW o \in scenario.ops, Start(r, o) PROVE OptionsInv'
  <2>1. /\ Only(r) /\ run[r].at = "idle" /\ run'[r].op = o /\ run'[r].at = First(o)
        /\ ~run'[r].begun /\ ~run'[r].wrote /\ run'[r].left = {}
        /\ UNCHANGED <<optionVars, raced, failed>>
    BY <1>2, ArriveStep
  <2>2. o \in OptionOps => NamesOnce(o) BY NamesHold DEF OptionsInv, NamesHold
  <2>3. ASSUME o \in OptionOps PROVE KnowsOptions(r)'
    <3>1. /\ o.name \in OptionHandlers /\ First(o) = FirstOfOption(o)
          /\ First(o) \in {"options", "update", "delete", "check"}
      BY <2>3, OptionsBegin
    <3>2. ASSUME o.field \in Sourced, o.name \in Changers PROVE Holds(r)'
      <4>1. First(o) = IF o.asked = {} THEN "update" ELSE "options"
        BY <3>1, <3>2 DEF FirstOfOption, Changers
      <4>2. Added(r)' = {} BY <2>1, <4>1 DEF Added
      <4> QED BY <2>1, <4>1, <4>2 DEF Holds, Written, Asked
    <3>3. o.name = "deleteFieldOptions" => First(o) = IF o.field \in Sourced THEN "delete" ELSE "check"
      BY <3>1 DEF FirstOfOption
    <3> QED BY <2>1, <2>2, <2>3, <3>1, <3>2, <3>3 DEF KnowsOptions, Changing, Changers, At
  <2>4. ASSUME o \notin OptionOps PROVE KnowsOptions(r)'
    <3>1. o \in TenantOps \/ o \in YearOps \/ o \in RuleOps \/ o \in CodeOps
      BY <1>2, <2>4 DEF RunsOK, Ops
    <3>2. ~Changing(r)' /\ o.name # "deleteFieldOptions"
      BY <2>1, <3>1, TenantsBegin, YearsBegin, RulesBegin, CodesBegin
         DEF Changing, Changers, ChangerPlaces, TenantNames, YearNames, RuleNames, Looks, Skips, Refuses,
             Repeats, Blind
    <3> QED BY <2>1, <3>2 DEF KnowsOptions, At
  <2>5. \A f : ~HasWritten(r, f)
    BY <2>1 DEF HasWritten, Changing, ChangerPlaces
  <2> QED BY <2>1, <2>3, <2>4, <2>5, OptionsStand DEF Grow
<1>3. ASSUME NEW r \in Requests, UNCHANGED optionVars, NextTenants(r) \/ NextYears(r) \/ NextCodes(r)
      PROVE  OptionsInv'
  <2>1. /\ Only(r) /\ Grow
        /\ ~Changing(r) /\ ~Changing(r)' /\ run'[r].op.name # "deleteFieldOptions"
    <3>1. CASE NextTenants(r)
      BY <3>1, TenantsStay DEF Stays, TenantNames, Changing, Changers, Idle, NoOp
    <3>2. CASE NextYears(r)
      BY <3>2, YearsStay DEF Stays, YearNames, RuleNames, Changing, Changers, Idle, NoOp
    <3>3. CASE NextCodes(r)
      BY <3>3, CodesStay
         DEF Stays, Coding, Looks, Skips, Refuses, Repeats, Blind, Changing, Changers, ChangerPlaces, Idle, NoOp
    <3> QED BY <1>3, <3>1, <3>2, <3>3
  <2> QED BY <1>3, <2>1, OptionsStand DEF KnowsOptions, HasWritten, At
<1>4. ASSUME NEW r \in Requests, NextOptions(r) PROVE OptionsInv'
  BY <1>4, NextKeepsOptions
<1>5. ASSUME NEW r \in Requests, Abort(r), UNCHANGED optionVars PROVE OptionsInv'
  <2>1. Ends(r) /\ Grow
    BY <1>5, EndStep DEF Abort, Grow
  <2>2. KnowsOptions(r)'
    BY <2>1 DEF Ends, Idle, NoOp, KnowsOptions, Changing, Changers, At
  <2>3. ASSUME NEW f, HasWritten(r, f) PROVE Marked(f)'
    BY <1>5, <2>3, ChangingIs DEF HasWritten, Marked, Abort
  <2> QED BY <1>5, <2>1, <2>2, <2>3, OptionsStand DEF Ends
<1> QED BY <1>1, <1>2, <1>3, <1>4, <1>5 DEF Next, optionVars

\* Options: a field that no request is working on offers what the replies amount to, whatever was
\* added, renamed, replaced and deleted before, by requests that did not overlap and did not fail
\* half way (fields.service.ts: createFields, updateFields, deleteFieldOptions).
THEOREM OptionsHold ==
    ASSUME NamesHold
    PROVE  Spec => []OptionsAsAnswered
<1>1. RunsOK /\ OptionsInv => OptionsAsAnswered
  <2> SUFFICES ASSUME RunsOK, OptionsInv, NEW f \in OptionFields, options[f] # offered[f],
                      Settled(<<"options", f>>)
               PROVE  f \in Params /\ \E o \in options[f] \cup offered[f] : o.name # o.value
    BY DEF OptionsAsAnswered
  <2>1. ~Marked(f) BY DEF Marked, Settled
  <2>2. ASSUME NEW r \in Requests, HasWritten(r, f) PROVE FALSE
    BY <2>2, ChangingIs DEF HasWritten, Changing, ChangerPlaces, Settled, Running
  <2>3. f \in Params /\ Plainly(options[f]) = Plainly(offered[f])
    BY <2>1, <2>2 DEF OptionsInv, Agree
  <2> QED BY <2>3 DEF Plainly
<1>2. Spec => []OptionsInv
  <2>1. RunsOK /\ OptionsInv /\ [Next]_vars => OptionsInv'
    BY NamesHold, OptionsStep
  <2>2. CatalogInv => RunsOK BY DEF CatalogInv
  <2> QED BY <2>1, <2>2, OptionsInit, Invariance, PTL DEF Spec
<1>3. CatalogInv => RunsOK BY DEF CatalogInv
<1> QED BY <1>1, <1>2, <1>3, Invariance, PTL
=============================================================================

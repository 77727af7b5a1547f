----------------------------- MODULE MCCatalog -----------------------------
(* Small instances of each part of the catalog: four tenants, three years,  *)
(* two users with rules, two keys, two fields with options.                    *)
EXTENDS Catalog, TLC

CONSTANTS t1, t2, t3, t4, v1, v2, v3, s1, s2, y1, y2, y3, c1, c2, u1, u2, k1, k2, f1, f2

Unit(called, parent) == [name |-> called, parent |-> parent]
Chain == [t \in TenantIds |-> CASE t = t1 -> Unit(v1, Top) [] t = t2 -> Unit(v2, t1)
                                [] t = t3 -> Unit(v3, t2) [] OTHER -> None]
SomeTenants == {Chain}
Symmetry == Permutations(Requests) \cup Permutations(RuleIds)

Create(called, parent) == TenantOp("createTenants", None, called, parent)
Update(t, called, parent) == TenantOp("updateTenants", t, called, parent)
Delete(t) == TenantOp("deleteTenants", t, None, None)
NewYear(s, days) == YearOp("createAcademicYear", s, days, None, None)
NewCohort(s, y) == YearOp("createCohort", s, {}, y, None)
AddToYear(s, co, y) == YearOp("createCohortAcademicYear", s, {}, y, co)
MoveCohort(s, co) == YearOp("updateCohort", s, {}, None, co)
Remap(u, v) == RuleOp("updateUser", u, v, None, TRUE)
Make(v) == RuleOp("create", u1, v, None, TRUE)
Patch(v, m, active) == RuleOp("update", u1, v, m, active)
Drop(m) == RuleOp("remove", u1, None, m, FALSE)
Roles_(K) == CodeOp("createRole", "Roles", K, None)
Privileges_(K) == CodeOp("createPrivilege", "Privileges", K, None)
Offer(f, S, new) == OptionOp("updateFields", f, S, IF S = None THEN {} ELSE S, new, None)
OfferNew(f, S, ruled) == OptionOp("createFields", f, S, ruled, TRUE, None)
Unoffer(f, x) == OptionOp("deleteFieldOptions", f, {}, {}, FALSE, x)
Plain(x) == [name |-> x, value |-> x]
Odd == [name |-> v1, value |-> v2]

Run(O, n, F) == [ops |-> O, parallel |-> n, faults |-> F]
SomeScenarios ==
    \* Tenants: renamed, moved, created and deleted.
    {Run({Update(t1, None, t3), Update(t2, v1, Top), Update(t3, None, t1), Update(t1, None, t4),
          Create(v1, t3), Create(v3, None), Delete(t3), Delete(t1)}, 2, {}),
    \* Years one after the other and at once, cohorts in them.
     Run({NewYear(s1, {1, 2}), NewYear(s1, {2, 3}), NewYear(s1, {3})}, 2, {"database"}),
     Run({NewYear(s1, {1}), NewYear(s2, {1}), NewCohort(s1, y1), NewCohort(s2, y2),
          AddToYear(s1, c1, y2), AddToYear(s2, c1, y1), MoveCohort(s2, c1)}, 2, {"database"}),
    \* Rules.
     Run({Remap(u1, v1), Remap(u1, v2), Remap(u1, v3), Remap(u2, v1)}, 2, {"database"}),
     Run({Remap(u1, v1), Make(v2)} \cup {Drop(m) : m \in RuleIds}, 2, {}),
     Run({Remap(u1, v1), Remap(u2, v2)} \cup {Patch(v2, m, x) : m \in RuleIds, x \in BOOLEAN}, 2, {}),
    \* Codes.
     Run({Roles_({k1, k2}), Roles_({k1})}
           \cup {CodeOp("updateRole", "Roles", {k2}, m) : m \in CodeIds}, 2, {"database"}),
     Run({Privileges_({k1, k2})}
           \cup {CodeOp("deletePrivilege", "Privileges", {k1}, m) : m \in CodeIds}, 2, {"database"}),
     Run({CodeOp("createForm", "Forms", {k1}, None), CodeOp("createForm", "Forms", {k2}, None),
          CodeOp("createFields", "Fields", {k1}, None)}
           \cup {CodeOp("renameField", "Fields", {k2}, m) : m \in CodeIds}, 2, {}),
     Run({CodeOp("createFieldValues", "FieldValues", {k1}, None),
          CodeOp("updateCustomFields", "FieldValues", {k1}, None),
          CodeOp("updateUserCustomFields", "FieldValues", {k2}, None),
          CodeOp("deleteFieldValues", "FieldValues", {k1, k2}, None)}, 2, {"database"}),
    \* Options in fieldParams and in a table.
     Run({Offer(f1, {Plain(v1), Plain(v2)}, FALSE), Offer(f1, {Plain(v3)}, FALSE),
          Unoffer(f1, v1), Unoffer(f1, v2), Offer(f1, None, FALSE)}, 2, {"database"}),
     Run({Offer(f1, {Plain(v1), Odd}, FALSE), Unoffer(f1, v1), Unoffer(f1, v2)}, 1, {}),
     Run({Offer(f2, {Plain(v1), Plain(v2)}, TRUE),
          OfferNew(f2, {Plain(v3)}, {Plain(v3)}), OfferNew(f2, {Plain(v1), Plain(v3)}, {}),
          Offer(f2, {Odd}, FALSE), Unoffer(f2, v1), Unoffer(f2, None), Offer(f2, None, FALSE)},
         2, {}),
     Run({OptionOp("updateFields", f2, {Plain(v1), Plain(v2)}, {Plain(v1)}, TRUE, None),
          Unoffer(f2, None)}, 1, {})}
=============================================================================

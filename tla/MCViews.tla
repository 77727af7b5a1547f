------------------------------ MODULE MCViews -------------------------------
(* Three users, two of them of one name; two centers, one with two         *)
(* batches, in a tenant that has a parent.                                 *)
EXTENDS Views, TLC

CONSTANTS u1, u2, u3, t1, t0, b1, b2, c1, y1, y2, role1, v1, v2, r1, c2

Types == (b1 :> "BATCH") @@ (b2 :> "BATCH") @@ (c1 :> "COHORT") @@ (c2 :> "COHORT")
Parents == (b1 :> c1) @@ (b2 :> c1) @@ (c1 :> None) @@ (c2 :> None)
Tenancy == (b1 :> t1) @@ (b2 :> t1) @@ (c1 :> t1) @@ (c2 :> t1)
ParentTenants == (t1 :> t0) @@ (t0 :> None)
SomeMemberships == {<<u1, b1, y1>>, <<u1, b2, y2>>, <<u2, b1, y1>>, <<u3, c1, y1>>,
                     <<u1, b2, y1>>, <<u1, c2, y1>>}

Value(x, field, t, place) == [item |-> x, field |-> field, tenant |-> t, place |-> place]
Rows == [name |-> (u1 :> 1) @@ (u2 :> 2) @@ (u3 :> 2),
         mapped |-> [u \in Users |-> [t \in Tenants |-> IF t = t1 THEN "active" ELSE None]],
         roles |-> {<<u1, t1, role1>>, <<u2, t1, role1>>},
         member |-> [m \in Memberships |-> IF m = <<u2, b1, y1>> THEN "inactive" ELSE "active"],
         values |-> {Value(u1, "village", t1, v1), Value(u2, "village", t0, v1),
                     Value(u3, "village", t1, v2), Value(c1, "TYPE_OF_CENTER", t1, "regular"),
                     Value(c1, "state", t1, v1), Value(c2, "block", t1, v2)},
         status |-> [c \in Cohorts |-> "active"]]

Find(filters, year, rs, sts, fields, limit, offset) ==
    [name |-> "search", key |-> None, to |-> None, value |-> None, tenant |-> t1,
     filters |-> filters, year |-> year, roles |-> rs, statuses |-> sts, named |-> Users,
     fields |-> fields, limit |-> limit, offset |-> offset]
Tree(year, cohorts, types, places, limit, offset) ==
    [name |-> "hierarchy", user |-> u1, year |-> year, parents |-> {}, cohorts |-> cohorts,
     types |-> types, statuses |-> {}, custom |-> <<>>, places |-> places, limit |-> limit,
     offset |-> offset]
Op(n, k, to) == [name |-> n, key |-> k, to |-> to, value |-> None]
Cohort(to, value) == [name |-> "updateCohort", key |-> c1, to |-> to, value |-> value]

\* In turn: every kind of search and hierarchy, with few changes; the handlers that publish, of users, of
\* cohorts and of members.
Searches ==
    LET filters == {<<>>, "batch" :> {b1}, "batch" :> {b2}, "center" :> {c1},
                    "village" :> {v1}, ("batch" :> {Empty}) @@ ("village" :> {v1, v2}),
                    ("batch" :> {b1}) @@ ("village" :> {v2})}
    IN  {Find(f, y, rs, sts, {"batch", "village"}, p[1], p[2]) :
            f \in filters, y \in {y1, y2, None}, rs \in {{}, {role1}}, sts \in {{}, {"active"}},
            p \in {<<3, 0>>, <<2, 0>>, <<2, 2>>, <<1, 1>>}}

Trees ==
    {Tree(y, cs, ts, ps, l, 0) :
        y \in {y1, y2, None}, cs \in {{}, {b1, c2}}, ts \in {{}, {"BATCH"}}, l \in {1, 5},
        ps \in {<<>>, "state" :> {v1}, ("state" :> {v1}) @@ ("block" :> {v1, v2})}}
    \cup {[Tree(y1, {}, {}, <<>>, 5, 1) EXCEPT !.parents = {c1}, !.statuses = {"active"}]}
    \cup {[Tree(y1, {}, {}, ps, 5, 0) EXCEPT !.custom = f] :
             ps \in {<<>>, "state" :> {v1}},
             f \in {"block" :> {v2}, "block" :> {v1}, "TYPE_OF_CENTER" :> {"regular"},
                    ("TYPE_OF_CENTER" :> {"regular"}) @@ ("block" :> {v2})}}

Writes ==
    {[of |-> "mapped", user |-> u1, tenant |-> t1, to |-> "inactive"],
     [of |-> "roles", row |-> <<u3, t1, role1>>],
     [of |-> "member", row |-> <<u1, b2, y2>>, to |-> None],
     [of |-> "values", row |-> Value(u1, "village", t0, v2)],
     [of |-> "status", cohort |-> b1, to |-> "inactive"],
     [of |-> "values", row |-> Value(c2, "state", t1, v2)],
     [of |-> "values", row |-> Value(c2, "block", t1, v1)]}

SomeScenarios ==
    {[ops |-> Searches \cup Trees, by |-> {r1}, writes |-> Writes, changes |-> 1, faults |-> {"database"}, rows |-> Rows],
     [ops |-> {Op("createUser", u3, 1), Op("updateUser", u1, 2), Op("deleteUserById", u1, None),
               Op("login", u1, None)},
      writes |-> Writes, by |-> Requests, changes |-> 2, faults |-> {"database", "kafka"},
      rows |-> [Rows EXCEPT !.name[u3] = None]],
     [ops |-> {Cohort("inactive", None), Cohort(None, Value(c1, "TYPE_OF_CENTER", t1, "remote")),
               Op("updateCohortStatus", c1, None), [Cohort("inactive", None) EXCEPT !.key = b1]},
      by |-> Requests, writes |-> {}, changes |-> 0, faults |-> {"database"}, rows |-> Rows],
     [ops |-> {Op("createCohortMembers", <<u1, b2, y2>>, "active"),
               Op("updateCohortMembers", <<u1, b2, y2>>, "inactive"), Cohort("inactive", None),
               Op("createBulkCohortMembers", {<<u1, b2, y2>>, <<u2, b1, y1>>}, None)},
      by |-> Requests, writes |-> {}, changes |-> 0, faults |-> {"kafka"},
      rows |-> [Rows EXCEPT !.member[<<u1, b2, y2>>] = None]]}
=============================================================================

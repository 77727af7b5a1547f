---------------------------- MODULE MCWritePaths ----------------------------
(* Two users in two tenants.  At first u1 is in t1 and u2 in both; in          *)
(* Creations u1 has no rows yet.                                               *)
EXTENDS WritePaths, TLC

CONSTANTS u1, u2, t1, t2

Symmetry == Permutations(Readers) \cup Permutations(Writers)

Alone ==
    [reads |-> {}, writes |-> {}, readers |-> 2, writers |-> 1,
     home |-> [u \in Users |-> IF u = u1 THEN {t1} ELSE {t1, t2}],
     provider |-> "redis", missing |-> {}, failures |-> FALSE]

\* One scenario for each read of S and each write of T, in the conditions of c.
EachOf(c, S, T) ==
    {[c EXCEPT !.reads = {s}, !.writes = {q}] : s \in S, q \in T}
\* One for each read of S, with all the writes of T.
AnyOf(c, S, T) == {[c EXCEPT !.reads = {s}, !.writes = T] : s \in S}

OfOneUser == {Core(u1), Mappings(u1), Assigned(u1)}
PerUser == {<<"updateUser", u1>>, <<"deleteUserById", u1>>, <<"createFieldValues", u1>>}
PerTenant ==
    {<<"updateAssignTenantStatus", u1, t1>>, <<"createAssignRole", u1, t1>>,
     <<"deleteAssignedRole", u1, t1>>, <<"bulkUpdateUserRoles", {u1, u2}, t1>>}
NewTenant == {<<"userTenantMapping", u1, t2>>, <<"mapUsersToTenant", u1, t2>>}
OfCohorts == {<<"deleteCohortMemberById", u1, t1>>, <<"assignStudents", u1, t1>>}

\* Each handler that bumps what it writes in time, against the reads that show it.
EachHandler(c) ==
    EachOf(c, {List(t1), Members(t1)}, PerUser \cup PerTenant \cup OfCohorts)
        \cup EachOf(c, {List(t2)}, NewTenant)
        \cup EachOf(c, {Filtered(t1)}, {<<"updateUser", u1>>, <<"createFieldValues", u1>>})
        \cup EachOf(c, OfOneUser, PerUser \cup PerTenant \cup NewTenant)
        \cup EachOf(c, {Core(u1), Members(t1)}, {<<"updateFields">>})

\* Two handlers overlap.
Overlapping ==
    AnyOf([Alone EXCEPT !.readers = 1, !.writers = 2],
          {List(t2), Members(t1), Core(u1)},
          {<<"updateUser", u1>>, <<"createFieldValues", u1>>,
           <<"userTenantMapping", u1, t2>>, <<"deleteAssignedRole", u1, t1>>,
           <<"assignStudents", u1, t1>>})

\* Database calls throw, and the request may be sent again.
Retried ==
    LET c == [Alone EXCEPT !.readers = 1, !.writers = 2, !.failures = TRUE] IN
    AnyOf(c, {List(t1)}, {<<"updateUser", u1>>})
        \cup AnyOf(c, {Core(u1)}, {<<"createFieldValues", u1>>, <<"updateUser", u1>>})
        \cup AnyOf(c, {Mappings(u1)}, {<<"userTenantMapping", u1, t2>>})

\* The handlers that bump a list early, or not at all.
Creations ==
    EachOf([Alone EXCEPT !.home[u1] = {}], {List(t1)}, {<<"createUser", u1, t1>>})
Exposing ==
    Creations
        \cup EachOf(Alone, {List(t1)},
                    {<<"convertRootMapping", u1, t1, t2>>, <<"updateFields">>,
                     <<"createCohortMembers", u1, t1>>, <<"updateNewtonDataFields", u1>>,
                     <<"createBulkCohortMembers", u1, t1>>,
                     <<"updateCohortStatus", u1, t1>>})
        \cup EachOf(Alone, {Members(t1)}, {<<"updateCohortMembers", u1, t1>>,
                                         <<"updateCohort", u1, t1>>})
        \cup EachOf(Alone, {List(t2)}, {<<"userTenantMappingFields", u1, t2>>})

DeletedMeanwhile ==
    AnyOf([Alone EXCEPT !.readers = 1, !.writers = 2, !.home[u2] = {}], {List(t2)},
          {<<"deleteUserById", u1>>, <<"userTenantMapping", u1, t2>>})

\* The values of a user exposed by what runs beside the handler that saves them, by a
\* failed lookup, and by the first bump of a counter.
ExposingValues ==
    LET c == [Alone EXCEPT !.readers = 1] IN
    {[c EXCEPT !.writers = 2, !.reads = {List(t1), List(t2)},
               !.writes = {<<"createFieldValues", u1>>, <<"userTenantMapping", u1, t2>>}]}
        \cup EachOf([c EXCEPT !.failures = TRUE], {List(t1)}, {<<"createFieldValues", u1>>})
        \cup EachOf([c EXCEPT !.missing = {Ufields(u1), Userfilter}],
                    {List(t1), Filtered(t1)}, {<<"createFieldValues", u1>>})

Everything ==
    EachHandler(Alone)
        \cup EachHandler([Alone EXCEPT !.provider = "memory", !.missing = Namespaces,
                                       !.readers = 1])
        \cup Overlapping \cup Retried \cup Exposing \cup ExposingValues \cup DeletedMeanwhile
=============================================================================

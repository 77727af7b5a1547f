----------------------------- MODULE MCMembers -----------------------------
(* Two users, two batches that match both, of one member each. *)
EXTENDS Members, TLC

CONSTANTS u1, u2, c1, c2

BothBatches == [u \in Users |-> Cohorts]
ByName == [c \in Cohorts |-> IF c = c1 THEN 1 ELSE 2]
Symmetry == Permutations(Requests) \cup Permutations(MemberIds)

Named(name) == [NoOp EXCEPT !.name = name]
Create(u, c) == [Named("createCohortMembers") EXCEPT !.users = {u}, !.into = {c}]
Bulk(U, In, Out) ==
    [Named("createBulkCohortMembers") EXCEPT !.users = U, !.into = In, !.out = Out]
SetMember(s) == [Named("updateCohortMembers") EXCEPT !.status = s]
Move(U, C) == [Named("updateCohortMembers") EXCEPT !.users = U, !.into = C]
CopyRow == [Named("updateCohortMembers") EXCEPT !.other = TRUE]
DeleteAny == Named("deleteCohortMemberById")
SetCohort(c, s) == [Named("updateCohort") EXCEPT !.into = {c}, !.status = s]
DeleteCohort(c) == [Named("updateCohortStatus") EXCEPT !.into = {c}]
SetCohorts(s) == [Named("updateCohortStatuses") EXCEPT !.into = Cohorts, !.status = s]
Job == Named("assignStudentsToBatches")

Together(O, F) == [ops |-> O, parallel |-> 2, faults |-> F]
Errors == {"database"}
Crashes == {"crash"}

SomeScenarios ==
    \* The job against itself and against the handlers that fill or empty a batch.
    {Together({Job, Bulk({u1}, {c1}, {c2})}, Errors),
     Together({Job, DeleteAny}, Crashes),
     Together({Job, SetCohort(c1, "archived")}, {}),
    \* The handlers of a member against each other.
     Together({Create(u1, c1), Bulk({u1}, {c1}, {}), Bulk({u1}, {c2}, {c1}),
               SetMember("inactive"), DeleteAny}, Errors \cup Crashes),
    \* Updates that give a row another user, cohort or id.
     Together({Create(u1, c1), Create(u2, c1), Move({u1}, {}), CopyRow}, {}),
     Together({Job, Move({u2}, {c2})}, {}),
    \* Changes of a cohort against each other and against the handlers of a member.
     Together({SetCohort(c1, "archived"), SetCohort(c1, "active"), Create(u1, c1),
               SetMember("active")}, Errors \cup Crashes),
     Together({SetCohort(c1, "inactive"), SetCohort(c1, "archived"), SetCohorts("pending"),
               DeleteCohort(c1), Create(u1, c1)}, Errors \cup Crashes),
    \* The bulk handler alone, and in the tenant that keeps the body's status.
     [ops |-> {Bulk({u1, u2}, {c1, c2}, {}), Bulk({u1}, {c1}, {c1, c2}),
               [Bulk({u1}, {c1}, {}) EXCEPT !.verbatim = TRUE, !.status = "inactive"]},
      parallel |-> 1, faults |-> Errors]}
=============================================================================

------------------------------ MODULE Members ------------------------------
(***************************************************************************)
(* Who is a member of which cohort.  The rows of CohortMembers have five   *)
(* kinds of writers, none of which uses a transaction: the handlers of     *)
(* src/src/cohortMembers, the bulk handler, which goes on after an error,  *)
(* the handlers of src/src/cohort, which cascade a cohort's status to its  *)
(* members, and the job of src/src/cron that puts pending users into       *)
(* batches.  No constraint of the table keeps a user from being a member   *)
(* of one cohort twice.                                                    *)
(*                                                                         *)
(* One action per awaited statement.  A cohort stands for a cohort of the  *)
(* active academic year; users and cohorts exist, so that a request fails  *)
(* by a database error, by its pod dying, or because a row is not there.   *)
(* Bumps of the caches are in WritePaths.                                  *)
(***************************************************************************)
EXTENDS Naturals, FiniteSets

CONSTANTS
    Users, Cohorts,
    MemberIds, \* cohortMembershipIds
    Requests,  \* concurrent requests and runs of the job
    Capacity,  \* active members of a batch up to which the job adds, 100
    Batches,   \* Batches[u]: the batches of the cohort of u's district that match
               \* u's block; none for a user whose custom fields do not qualify
    Rank,      \* Rank[c]: the place of a batch by its name
    Scenarios, \* records [ops, parallel, faults]: what is requested, how many at
               \* once, and which of "database" and "crash" go wrong
    None

\* Of the ten statuses of a member, those that the code itself writes.
MemberStatuses == {"active", "inactive", "archived", "reassigned"}
CohortStatuses == {"active", "inactive", "archived", "pending"}

\* The handlers of one member, those of a cohort, and the two loops.
Singles == {"createCohortMembers", "updateCohortMembers", "deleteCohortMemberById"}
Changes == {"updateCohort", "updateCohortStatus", "updateCohortStatuses"}
Loops == {"createBulkCohortMembers", "assignStudentsToBatches"}

\* A request: its users, the cohorts it puts them into or changes, those it takes
\* them out of, the status in its body, whether its body names the id of another
\* row, and whether the tenant is the one whose bulk requests set the status of
\* existing rows as well.  The users and cohorts of updateCohortMembers are those
\* that the body names beside the row's own.
Op == [name : Singles \cup Changes \cup Loops, users : SUBSET Users,
       into : SUBSET Cohorts, out : SUBSET Cohorts,
       status : MemberStatuses \cup CohortStatuses \cup {None},
       other : BOOLEAN, verbatim : BOOLEAN]

\* A row; year is the cohort of the CohortAcademicYear that it refers to.  Three
\* columns are history: whether the job inserted it and no request has written it
\* since, whether it was written while the cohort was not active or was changing
\* its status, and whether an update gave it another user, cohort or id.
Row == [user : Users, cohort : Cohorts, year : Cohorts, status : MemberStatuses,
        byJob : BOOLEAN, late : BOOLEAN, moved : BOOLEAN]

\* The two messages of createBulkCohortMembers.
Messages == {"COHORTMEMBER_SUCCESSFULLY", "COHORTMEMBER_ERROR"}

ASSUME MembersAssumption ==
    /\ IsFiniteSet(MemberIds) /\ IsFiniteSet(Requests) /\ Requests # {}
    /\ Capacity \in Nat \ {0}
    /\ Batches \in [Users -> SUBSET Cohorts]
    /\ Rank \in [Cohorts -> Nat]
    /\ \A c \in Scenarios :
         /\ c.ops \subseteq Op /\ c.parallel \in Nat
         /\ c.faults \subseteq {"database", "crash"}
    /\ \A c \in Scenarios : \A o \in c.ops :
         /\ o.name = "updateCohort" => o.status \in CohortStatuses \ {"pending"}
         /\ o.name = "updateCohortStatuses" => o.status \in CohortStatuses
         /\ o.name \in Singles \cup Loops => o.status \in MemberStatuses \cup {None}
    /\ None \notin Users \cup Cohorts \cup MemberIds \cup MemberStatuses \cup CohortStatuses
    /\ None \notin Row \cup Messages

VARIABLES
    members,  \* CohortMembers: a row, or None
    cohorts,  \* the status of each cohort
    mapping,  \* the status of each user's UserTenantMapping
    run,      \* the requests
    raced,    \* history: <<user, cohort>> written while another request was about to
    unsettled,\* history: cohorts whose status did not reach their members
    erred,    \* history: users on whom the job met an error
    removed,  \* history: users whose membership was deleted or given to another user
    scenario  \* the one that this behaviour runs

vars == <<members, cohorts, mapping, run, raced, unsettled, erred, removed, scenario>>

NoOp == [name |-> "assignStudentsToBatches", users |-> {}, into |-> {}, out |-> {},
         status |-> None, other |-> FALSE, verbatim |-> FALSE]
Idle == [at |-> "idle", op |-> NoOp, users |-> {}, user |-> None, into |-> {},
         out |-> {}, cohort |-> None, member |-> None, entity |-> None, old |-> None,
         results |-> {}, errors |-> {}, told |-> None, alone |-> FALSE]

Init ==
    /\ members = [m \in MemberIds |-> None]
    /\ cohorts = [c \in Cohorts |-> "active"]
    /\ mapping = [u \in Users |-> "pending"]
    /\ run = [r \in Requests |-> Idle]
    /\ raced = {} /\ unsettled = {} /\ erred = {} /\ removed = {}
    /\ scenario \in Scenarios

-----------------------------------------------------------------------------
Running == {r \in Requests : run[r].at # "idle"}
At(r, name, here) == run[r].op.name = name /\ run[r].at = here

Rows == {m \in MemberIds : members[m] # None}

\* Mutant of RowsOf: only an active row counts as a membership.
ActiveRowsOf(u, c) ==
    {m \in Rows : /\ members[m].user = u /\ members[m].cohort = c
                  /\ members[m].year = c /\ members[m].status = "active"}

\* Who looks for a membership asks for the CohortAcademicYear of the cohort as well.
RowsOf(u, c) ==
    {m \in Rows : /\ members[m].user = u /\ members[m].cohort = c
                  /\ members[m].year = c}
ActiveIn(c) ==
    {m \in Rows : /\ members[m].cohort = c /\ members[m].year = c
                  /\ members[m].status = "active"}

\* An id of a new row.
Free(m) == members[m] = None /\ \A q \in Requests : run[q].member # m

\* A request between looking for a member and saving it.
AboutToWrite(q, u, c) ==
    run[q].at \in {"insert", "save"} /\ run[q].user = u /\ run[q].cohort = c

\* A change of the status of c is under way.
Changing(q, c) ==
    /\ run[q].at # "idle"
    /\ run[q].op.name \in {"updateCohort", "updateCohortStatus"}
    /\ c \in run[q].op.into
Late(c) == cohorts[c] # "active" \/ \E q \in Requests : Changing(q, c)

NewRow(u, c, s, byJob) ==
    [user |-> u, cohort |-> c, year |-> c, status |-> s,
     byJob |-> byJob, late |-> Late(c), moved |-> FALSE]

\* The user who has the row of m, and has it no longer when it is of u.
Losing(m, u) == {members[k].user : k \in {m} \cap Rows} \ {u}

\* save: the row of m is now row; an id that is gone is inserted again.
Save(r, m, row) ==
    /\ members' = [members EXCEPT ![m] = row]
    /\ removed' = removed \cup Losing(m, row.user)
    /\ raced' = IF \E q \in Requests \ {r} : AboutToWrite(q, row.user, row.cohort)
                THEN raced \cup {<<row.user, row.cohort>>} ELSE raced

Set(r, f) == run' = [run EXCEPT ![r] = f]
End(r) == Set(r, Idle)

\* What is left alone by a step that only reads.
UnchangedRows == UNCHANGED <<members, cohorts, mapping, raced, removed>>
UnchangedHistory == UNCHANGED <<unsettled, erred, scenario>>

First(o) ==
    CASE o.name = "createCohortMembers" -> "check"
      [] o.name \in Loops -> "loop"
      [] OTHER -> "find"

\* A request arrives, or the job is started.  The job first lists the pending users.
Start(r, o) ==
    /\ run[r].at = "idle"
    /\ Cardinality(Running) < scenario.parallel
    /\ run' = [q \in Requests |->
            IF q = r
            THEN [Idle EXCEPT
                    !.at = First(o), !.op = o, !.alone = o.name \in Loops /\ Running = {},
                    !.users = IF o.name = "assignStudentsToBatches"
                              THEN {u \in Users : mapping[u] = "pending"} ELSE o.users]
            ELSE IF q \in Running THEN [run[q] EXCEPT !.alone = FALSE] ELSE run[q]]
    /\ UnchangedRows /\ UnchangedHistory

-----------------------------------------------------------------------------
(* The handlers of one member. *)

\* Mutant of Asked: the default of the column is overridden by undefined.
AsGiven(o) == o.status

\* The status of a new row.
Asked(o) == IF o.status = None THEN "active" ELSE o.status

\* A row of any status is a conflict.
Check(r) ==
    /\ At(r, "createCohortMembers", "check")
    /\ \E u \in run[r].op.users, c \in run[r].op.into :
         Set(r, IF RowsOf(u, c) # {} THEN Idle
                ELSE [run[r] EXCEPT !.at = "insert", !.user = u, !.cohort = c])
    /\ UnchangedRows /\ UnchangedHistory

Insert(r) ==
    /\ At(r, "createCohortMembers", "insert")
    /\ \E m \in MemberIds :
        /\ Free(m)
        /\ Save(r, m, NewRow(run[r].user, run[r].cohort, Asked(run[r].op), FALSE))
    /\ End(r)
    /\ UNCHANGED <<cohorts, mapping>> /\ UnchangedHistory

\* The row of an id, read to be updated or deleted; an unknown id ends the request.
FindMember(r) ==
    /\ run[r].op.name \in {"updateCohortMembers", "deleteCohortMemberById"}
    /\ run[r].at = "find"
    /\ LET o == run[r].op
           updates == o.name = "updateCohortMembers"
       IN \/ End(r)
          \/ \E m \in Rows, k \in MemberIds, u \in Users, c \in Cohorts :
               /\ ~(updates /\ o.other) => k = m
               /\ IF updates /\ o.users # {} THEN u \in o.users ELSE u = members[m].user
               /\ IF updates /\ o.into # {} THEN c \in o.into ELSE c = members[m].cohort
               /\ Set(r, [run[r] EXCEPT !.at = IF updates THEN "save" ELSE "delete",
                       !.entity = [members[m] EXCEPT !.moved = @ \/ k # m
                                    \/ u # members[m].user \/ c # members[m].cohort],
                       !.member = k, !.user = u, !.cohort = c])
    /\ UnchangedRows /\ UnchangedHistory

\* The entity e as it was read is written back with another status, user and cohort;
\* the CohortAcademicYear stays.
Rewritten(e, u, c, s) ==
    [e EXCEPT !.user = u, !.cohort = c, !.status = s, !.byJob = FALSE, !.late = Late(c)]

\* Object.assign copies to the entity what the body has: status, userId, cohortId and
\* the id, under which it is then saved.
SaveMember(r) ==
    /\ At(r, "updateCohortMembers", "save")
    /\ LET e == run[r].entity
           s == IF run[r].op.status = None THEN e.status ELSE run[r].op.status
       IN Save(r, run[r].member, Rewritten(e, run[r].user, run[r].cohort, s))
    /\ End(r)
    /\ UNCHANGED <<cohorts, mapping>> /\ UnchangedHistory

DeleteMember(r) ==
    /\ At(r, "deleteCohortMemberById", "delete")
    /\ members' = [members EXCEPT ![run[r].member] = None]
    /\ removed' = removed \cup Losing(run[r].member, None)
    /\ End(r)
    /\ UNCHANGED <<cohorts, mapping, raced>> /\ UnchangedHistory

-----------------------------------------------------------------------------
(* createBulkCohortMembers: for each user the removals, then the additions. *)

\* Nothing is left to do for the current user.
UserDone(r) == run[r].at = "loop" /\ run[r].out = {} /\ run[r].into = {}

BulkUser(r) ==
    /\ At(r, "createBulkCohortMembers", "loop") /\ UserDone(r)
    /\ \E u \in run[r].users :
         Set(r, [run[r] EXCEPT !.user = u, !.users = @ \ {u},
                               !.out = run[r].op.out, !.into = run[r].op.into])
    /\ UnchangedRows /\ UnchangedHistory

\* One UPDATE of every row of the user in c, whatever its status.
Remove(r, c) ==
    /\ At(r, "createBulkCohortMembers", "loop")
    /\ c \in run[r].out
    /\ members' = [m \in MemberIds |->
            IF m \in RowsOf(run[r].user, c)
            THEN [members[m] EXCEPT !.status = "reassigned", !.byJob = FALSE]
            ELSE members[m]]
    /\ Set(r, [run[r] EXCEPT !.out = @ \ {c},
                             !.results = @ \cup {<<run[r].user, c, "left">>}])
    /\ UNCHANGED <<cohorts, mapping, raced, removed>> /\ UnchangedHistory

\* findAnyMappingForYear: some row of the user in c.
FindAny(r, c) ==
    /\ At(r, "createBulkCohortMembers", "loop")
    /\ run[r].out = {} /\ c \in run[r].into
    /\ \/ /\ RowsOf(run[r].user, c) = {}
          /\ Set(r, [run[r] EXCEPT !.at = "insert", !.cohort = c])
       \/ \E m \in RowsOf(run[r].user, c) :
            Set(r, [run[r] EXCEPT !.at = "save", !.cohort = c,
                                  !.member = m, !.entity = members[m]])
    /\ UnchangedRows /\ UnchangedHistory

\* The saved row goes to the results; on to the next cohort.
Added(r) ==
    Set(r, [run[r] EXCEPT !.at = "loop", !.into = @ \ {run[r].cohort},
                          !.results = @ \cup {<<run[r].user, run[r].cohort, "joined">>},
                          !.cohort = None, !.member = None, !.entity = None])

InsertAdded(r) ==
    /\ At(r, "createBulkCohortMembers", "insert")
    /\ \E m \in MemberIds :
        /\ Free(m)
        /\ Save(r, m, NewRow(run[r].user, run[r].cohort, Asked(run[r].op), FALSE))
    /\ Added(r)
    /\ UNCHANGED <<cohorts, mapping>> /\ UnchangedHistory

\* An existing row becomes active again, or takes the status of the body, which
\* save leaves alone when it is undefined.
SaveAdded(r) ==
    /\ At(r, "createBulkCohortMembers", "save")
    /\ LET e == run[r].entity
           s == IF ~run[r].op.verbatim THEN "active"
                ELSE IF run[r].op.status = None THEN e.status ELSE run[r].op.status
       IN Save(r, run[r].member, Rewritten(e, e.user, e.cohort, s))
    /\ Added(r)
    /\ UNCHANGED <<cohorts, mapping>> /\ UnchangedHistory

\* The statement that the loop is at concerns c.
Removing(r, c) == run[r].at = "loop" /\ c \in run[r].out
Adding(r, c) ==
    /\ c \in run[r].into
    /\ \/ run[r].at = "loop" /\ run[r].out = {}
       \/ run[r].at \in {"insert", "save"} /\ run[r].cohort = c

\* On to the next cohort after c.
Skipped(r, c) ==
    [run[r] EXCEPT !.at = "loop", !.out = @ \ {c}, !.cohort = None, !.member = None,
                   !.entity = None, !.into = IF Removing(r, c) THEN @ ELSE @ \ {c}]

\* Mutant of BulkFails: the cohort that failed is pushed to the results.
BulkListsAnyhow(r) ==
    /\ "database" \in scenario.faults
    /\ run[r].op.name = "createBulkCohortMembers"
    /\ \E c \in Cohorts :
        /\ Removing(r, c) \/ Adding(r, c)
        /\ Set(r, [Skipped(r, c) EXCEPT
                !.results = @ \cup {<<run[r].user, c, IF Removing(r, c) THEN "left"
                                                      ELSE "joined">>}])
    /\ UnchangedRows /\ UnchangedHistory

\* An error is collected and the loop goes on.
BulkFails(r) ==
    /\ "database" \in scenario.faults
    /\ run[r].op.name = "createBulkCohortMembers"
    /\ \E c \in Cohorts :
        /\ Removing(r, c) \/ Adding(r, c)
        /\ Set(r, [Skipped(r, c) EXCEPT !.errors = @ \cup {<<run[r].user, c>>}])
    /\ UnchangedRows /\ UnchangedHistory

\* APIResponse.success(response, ...): of a response that was sent nothing is sent again.
Respond(told, message) == IF told = None THEN message ELSE told

\* The response carries the results, whether there are errors or not.
BulkReply(r) ==
    /\ At(r, "createBulkCohortMembers", "loop") /\ UserDone(r)
    /\ run[r].users = {}
    /\ Set(r, [run[r] EXCEPT !.at = "reply",
                             !.told = Respond(@, "COHORTMEMBER_SUCCESSFULLY")])
    /\ UnchangedRows /\ UnchangedHistory

\* After the events, the errors are put into a second response.
ReplyErrors(r) ==
    /\ run[r].at = "reply"
    /\ Set(r, [run[r] EXCEPT !.at = "done",
                             !.told = IF run[r].errors = {} THEN @
                                      ELSE Respond(@, "COHORTMEMBER_ERROR")])
    /\ UnchangedRows /\ UnchangedHistory

Finish(r) ==
    /\ run[r].at = "done"
    /\ End(r)
    /\ UnchangedRows /\ UnchangedHistory

-----------------------------------------------------------------------------
(* The handlers of a cohort. *)

Contested(r, c) == \E q \in Requests \ {r} : Changing(q, c)

FindCohort(r) ==
    /\ run[r].op.name \in {"updateCohort", "updateCohortStatus"}
    /\ run[r].at = "find"
    /\ \E c \in run[r].op.into :
        /\ Set(r, [run[r] EXCEPT
                !.at = IF run[r].op.name = "updateCohort" THEN "status" ELSE "archive",
                !.cohort = c, !.old = cohorts[c]])
        /\ unsettled' = IF Contested(r, c) THEN unsettled \cup {c} ELSE unsettled
    /\ UnchangedRows /\ UNCHANGED <<erred, scenario>>

\* Mutant of validTransition: an active cohort that becomes inactive is left out.
NotToInactive(old, new) ==
    /\ {old, new} \subseteq {"active", "inactive", "archived"}
    /\ old # new /\ ~(old = "active" /\ new = "inactive")

\* The changes that cascade to the members.
validTransition(old, new) ==
    {old, new} \subseteq {"active", "inactive", "archived"} /\ old # new

\* The cohort's row is updated first.  A status of "pending" has no cascade.
SaveCohort(r) ==
    /\ At(r, "updateCohort", "status")
    /\ LET c == run[r].cohort
           new == run[r].op.status
           cascades == validTransition(run[r].old, new)
       IN /\ cohorts' = [cohorts EXCEPT ![c] = new]
          /\ Set(r, IF cascades THEN [run[r] EXCEPT !.at = "members"] ELSE Idle)
          /\ unsettled' = IF run[r].old = "pending" THEN unsettled \cup {c}
                          ELSE unsettled
    /\ UNCHANGED <<members, mapping, raced, erred, removed, scenario>>

\* The members of c now have the status of c, unless another change is under way.
Settled(r, c) ==
    IF Contested(r, c) \/ cohorts[c] # run[r].op.status THEN unsettled
    ELSE unsettled \ {c}

FindMembers(r) ==
    /\ At(r, "updateCohort", "members")
    /\ LET c == run[r].cohort
           none == {m \in Rows : members[m].cohort = c} = {}
       IN /\ Set(r, IF none THEN Idle ELSE [run[r] EXCEPT !.at = "cascade"])
          /\ unsettled' = IF none THEN Settled(r, c) ELSE unsettled
    /\ UnchangedRows /\ UNCHANGED <<erred, scenario>>

Cascade(r) ==
    /\ At(r, "updateCohort", "cascade")
    /\ LET c == run[r].cohort IN
       /\ members' = [m \in MemberIds |->
            IF m \in Rows /\ members[m].cohort = c
            THEN [members[m] EXCEPT !.status = run[r].op.status,
                                    !.byJob = FALSE, !.late = FALSE]
            ELSE members[m]]
       /\ unsettled' = Settled(r, c)
    /\ End(r)
    /\ UNCHANGED <<cohorts, mapping, raced, erred, removed, scenario>>

Archive(r) ==
    /\ At(r, "updateCohortStatus", "archive")
    /\ cohorts' = [cohorts EXCEPT ![run[r].cohort] = "archived"]
    /\ Set(r, [run[r] EXCEPT !.at = "purge"])
    /\ UNCHANGED <<members, mapping, raced, removed>> /\ UnchangedHistory

\* updateCohortStatus, the DELETE of a cohort, deletes its members.
Purge(r) ==
    /\ At(r, "updateCohortStatus", "purge")
    /\ LET c == run[r].cohort
           gone == {m \in Rows : members[m].cohort = c}
       IN /\ members' = [m \in MemberIds |-> IF m \in gone THEN None ELSE members[m]]
          /\ removed' = removed \cup {members[m].user : m \in gone}
          /\ unsettled' = IF Contested(r, c) THEN unsettled ELSE unsettled \ {c}
    /\ End(r)
    /\ UNCHANGED <<cohorts, mapping, raced, erred, scenario>>

\* The bulk change of statuses leaves the members alone.
SaveStatuses(r) ==
    /\ At(r, "updateCohortStatuses", "find")
    /\ cohorts' = [c \in Cohorts |-> IF c \in run[r].op.into THEN run[r].op.status
                                     ELSE cohorts[c]]
    /\ unsettled' = unsettled \cup run[r].op.into
    /\ End(r)
    /\ UNCHANGED <<members, mapping, raced, erred, removed, scenario>>

-----------------------------------------------------------------------------
(* assignStudentsToBatches: each pending user into the first batch with room. *)

\* The matching batches that are active.
NextUser(r) ==
    /\ At(r, "assignStudentsToBatches", "loop") /\ UserDone(r)
    /\ \E u \in run[r].users :
         Set(r, [run[r] EXCEPT !.user = u, !.users = @ \ {u},
                               !.into = {c \in Batches[u] : cohorts[c] = "active"}])
    /\ UnchangedRows /\ UnchangedHistory

\* The query of the batches fails: the user is skipped.
SkipUser(r) ==
    /\ "database" \in scenario.faults
    /\ At(r, "assignStudentsToBatches", "loop") /\ UserDone(r)
    /\ \E u \in run[r].users :
         /\ Set(r, [run[r] EXCEPT !.user = u, !.users = @ \ {u}])
         /\ erred' = erred \cup {u}
    /\ UnchangedRows /\ UNCHANGED <<unsettled, scenario>>

FirstBatch(r, c) ==
    c \in run[r].into /\ \A d \in run[r].into : Rank[c] <= Rank[d]

\* Mutant of HasRoom: a full batch takes one more.
HasRoomForOneMore(c) == Cardinality(ActiveIn(c)) <= Capacity

HasRoom(c) == Cardinality(ActiveIn(c)) < Capacity

\* A full batch is passed over.
CountMembers(r, c) ==
    /\ At(r, "assignStudentsToBatches", "loop")
    /\ FirstBatch(r, c)
    /\ Set(r, IF HasRoom(c) THEN [run[r] EXCEPT !.at = "exists", !.cohort = c]
              ELSE [run[r] EXCEPT !.into = @ \ {c}])
    /\ UnchangedRows /\ UnchangedHistory

\* A user who has a row of any status in the batch counts as assigned.
FindExisting(r) ==
    /\ At(r, "assignStudentsToBatches", "exists")
    /\ Set(r, IF RowsOf(run[r].user, run[r].cohort) # {}
              THEN [run[r] EXCEPT !.at = "loop", !.into = {}, !.cohort = None]
              ELSE [run[r] EXCEPT !.at = "insert"])
    /\ UnchangedRows /\ UnchangedHistory

InsertStudent(r) ==
    /\ At(r, "assignStudentsToBatches", "insert")
    /\ \E m \in MemberIds :
        /\ Free(m)
        /\ Save(r, m, NewRow(run[r].user, run[r].cohort, "active", TRUE))
    /\ Set(r, [run[r] EXCEPT !.at = "activate"])
    /\ UNCHANGED <<cohorts, mapping>> /\ UnchangedHistory

Activate(r) ==
    /\ At(r, "assignStudentsToBatches", "activate")
    /\ mapping' = [mapping EXCEPT ![run[r].user] = "active"]
    /\ Set(r, [run[r] EXCEPT !.at = "loop", !.into = {}, !.cohort = None])
    /\ UNCHANGED <<members, cohorts, raced, removed>> /\ UnchangedHistory

\* Mutant of JobFails: a failed insertion is only logged, like a failed event.
JobActivatesAnyhow(r) ==
    /\ "database" \in scenario.faults
    /\ At(r, "assignStudentsToBatches", "insert")
    /\ Set(r, [run[r] EXCEPT !.at = "activate"])
    /\ UnchangedRows /\ UnchangedHistory

\* An error ends the batch, not the user: the next batch is tried.
JobFails(r) ==
    /\ "database" \in scenario.faults
    /\ run[r].op.name = "assignStudentsToBatches"
    /\ \E c \in run[r].into :
        /\ \/ run[r].at = "loop" /\ FirstBatch(r, c)
           \/ run[r].at \in {"exists", "insert", "activate"} /\ run[r].cohort = c
        /\ Set(r, [run[r] EXCEPT !.at = "loop", !.into = @ \ {c}, !.cohort = None])
    /\ erred' = erred \cup {run[r].user}
    /\ UnchangedRows /\ UNCHANGED <<unsettled, scenario>>

JobDone(r) ==
    /\ At(r, "assignStudentsToBatches", "loop") /\ UserDone(r)
    /\ run[r].users = {}
    /\ End(r)
    /\ UnchangedRows /\ UnchangedHistory

-----------------------------------------------------------------------------
\* A database error outside the loops answers with an error; when a pod dies its
\* requests and runs are gone.
Abort(r) ==
    /\ run[r].at # "idle"
    /\ \/ "crash" \in scenario.faults
       \/ /\ "database" \in scenario.faults
          /\ run[r].op.name \notin Loops \/ At(r, "createBulkCohortMembers", "loop")
          /\ run[r].op.name \in Loops => UserDone(r)
    /\ End(r)
    /\ unsettled' = IF run[r].at \in {"members", "cascade", "purge"}
                    THEN unsettled \cup {run[r].cohort} ELSE unsettled
    /\ erred' = IF run[r].op.name = "assignStudentsToBatches" /\ run[r].user # None
                THEN erred \cup {run[r].user} ELSE erred
    /\ UnchangedRows /\ UNCHANGED scenario

Next ==
    \E r \in Requests :
        \/ \E o \in scenario.ops : Start(r, o)
        \/ Check(r) \/ Insert(r) \/ FindMember(r) \/ SaveMember(r) \/ DeleteMember(r)
        \/ BulkUser(r) \/ InsertAdded(r) \/ SaveAdded(r) \/ BulkFails(r)
        \/ BulkReply(r) \/ ReplyErrors(r) \/ Finish(r)
        \/ \E c \in Cohorts : Remove(r, c) \/ FindAny(r, c) \/ CountMembers(r, c)
        \/ FindCohort(r) \/ SaveCohort(r) \/ FindMembers(r) \/ Cascade(r)
        \/ Archive(r) \/ Purge(r) \/ SaveStatuses(r)
        \/ NextUser(r) \/ SkipUser(r) \/ FindExisting(r) \/ InsertStudent(r) \/ Activate(r)
        \/ JobFails(r) \/ JobDone(r) \/ Abort(r)

Spec == Init /\ [][Next]_vars

-----------------------------------------------------------------------------
(* Properties. *)

\* A request that runs: the statement that it is at, and what it remembers.
Run ==
    [at : {"idle", "check", "insert", "find", "save", "delete", "loop", "reply", "done", "status",
           "members", "cascade", "archive", "purge", "exists", "activate"},
     op : scenario.ops \cup {NoOp}, users : SUBSET Users,
     user : Users \cup {None}, into : SUBSET Cohorts, out : SUBSET Cohorts,
     cohort : Cohorts \cup {None}, member : MemberIds \cup {None},
     entity : Row \cup {None}, old : CohortStatuses \cup {None},
     results : SUBSET (Users \X Cohorts \X {"left", "joined"}),
     errors : SUBSET (Users \X Cohorts), told : Messages \cup {None}, alone : BOOLEAN]

\* The types of the variables.
TypeOK ==
    /\ members \in [MemberIds -> Row \cup {None}]
    /\ cohorts \in [Cohorts -> CohortStatuses]
    /\ mapping \in [Users -> {"pending", "active"}]
    /\ run \in [Requests -> Run]
    /\ raced \subseteq Users \X Cohorts
    /\ unsettled \subseteq Cohorts
    /\ erred \subseteq Users /\ removed \subseteq Users
    /\ scenario \in Scenarios

\* Batch capacity (NAVAPATHAM_CRON_DOCUMENTATION.md): the job counts before it
\* inserts, and the count is stale by then; still its own members exceed the
\* capacity of a batch by less than the number of requests that run at once.
JobRespectsCapacity ==
    \A c \in Cohorts :
        Cardinality({m \in ActiveIn(c) : members[m].byJob})
            < Capacity + scenario.parallel

\* A user is a member of a cohort twice only if two requests were between looking
\* for the membership and saving it at the same time, or if one of the two rows was
\* brought there by updateCohortMembers, which does not look: it takes userId,
\* cohortId and the id from the body.
DuplicatesNeedRaces ==
    \A m, n \in Rows :
        m # n /\ members[m].user = members[n].user /\ members[m].cohort = members[n].cohort
        => \/ <<members[m].user, members[m].cohort>> \in raced
           \/ members[m].moved \/ members[n].moved

\* An active member of a cohort that is archived or inactive was written after the
\* cohort ceased to be active, unless the change of the cohort's status failed half
\* way, overlapped another, or was one that has no cascade.
CascadeReaches ==
    \A m \in Rows :
        LET c == members[m].cohort IN
        /\ cohorts[c] \in {"archived", "inactive"}
        /\ members[m].status = "active"
        /\ ~\E q \in Requests : Changing(q, c)
        /\ c \notin unsettled
        => members[m].late

\* The job activates a user exactly if it has put the user into a batch: in one
\* direction always, in the other unless it met an error on that user.
AssignmentsComplete ==
    \A u \in Users :
        /\ mapping[u] = "active" => u \in removed \/ \E m \in Rows : members[m].user = u
        /\ /\ \E m \in Rows : members[m].user = u /\ members[m].byJob
           /\ \A q \in Running : run[q].user # u
           => mapping[u] = "active" \/ u \in erred

\* The results that the bulk handler answers with are true and complete: at the
\* response to a request that ran alone a user listed as joined has the status asked
\* for, one listed as having left and not as joined has only reassigned rows, and
\* each membership that was asked for is listed or failed.  The message tells of the
\* success alone: what failed is in a second response, and none of it is ever sent.
BulkAsListed ==
    \A r \in Requests :
        run[r].at \in {"reply", "done"} /\ run[r].alone =>
            run[r].told = "COHORTMEMBER_SUCCESSFULLY" /\
            LET o == run[r].op
                joined(u, c) == <<u, c, "joined">> \in run[r].results
                left(u, c) == <<u, c, "left">> \in run[r].results
            IN \A u \in Users, c \in Cohorts :
                /\ joined(u, c) => \E m \in RowsOf(u, c) : members[m].status = Asked(o)
                /\ left(u, c) /\ ~joined(u, c) =>
                     \A m \in RowsOf(u, c) : members[m].status = "reassigned"
                /\ u \in o.users /\ c \in o.into =>
                     joined(u, c) \/ <<u, c>> \in run[r].errors
                /\ u \in o.users /\ c \in o.out =>
                     left(u, c) \/ <<u, c>> \in run[r].errors
=============================================================================

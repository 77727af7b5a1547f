------------------------------- MODULE Events -------------------------------
(***************************************************************************)
(* The events that tell other services of users, cohorts and members: the  *)
(* handlers that publish (user, cohort and cohortMembers services), the    *)
(* publications, which run on after the reply and read what they tell from *)
(* the tables, and src/src/kafka/kafka.service.ts.                         *)
(*                                                                         *)
(* A consumer keeps what it was last told of a key.  The topic has one     *)
(* partition, so that is what was last sent.                               *)
(***************************************************************************)
EXTENDS Tables

VARIABLES
    pubs,   \* the publications under way: [by, key, kind, at, data, of]
    copy    \* per key what consumers were last told
events == <<pubs, copy>>

InitEvents == pubs = {} /\ copy = [k \in Keys |-> View(k)]

(* ------------------------- Handlers that publish ------------------------- *)

Doing(r, names, here) == run[r].op # None /\ run[r].op.name \in names /\ At(r, here)
Refuse(r) == Go(r, "done") /\ UNCHANGED <<tables, notes, events>>
Saved(r, there) == Go(r, there) /\ UNCHANGED <<changes, events>> /\ Wrote

\* createUser and updateUser: the row; what else they save comes as changes.
SaveUser(r) ==
    /\ Doing(r, {"createUser", "updateUser"}, "write")
    /\ LET o == run[r].op
       IN  IF (name[o.key] = None) = (o.name = "createUser")
           THEN /\ name' = [name EXCEPT ![o.key] = o.to]
                /\ UNCHANGED <<mapped, roles, member, values, status>> /\ Saved(r, "reply")
           ELSE Refuse(r)

\* deleteUserById: five deletes, here at once (Accounts has them one by one).
deleteUserById(r) ==
    /\ Doing(r, {"deleteUserById"}, "write")
    /\ LET u == run[r].op.key
       IN  IF name[u] = None THEN Refuse(r)
           ELSE /\ name' = [name EXCEPT ![u] = None]
                /\ mapped' = [mapped EXCEPT ![u] = [t \in Tenants |-> None]]
                /\ roles' = {x \in roles : x[1] # u}
                /\ member' = [m \in Memberships |-> IF UserOf(m) = u THEN None ELSE member[m]]
                /\ values' = {v \in values : v.item # u}
                /\ UNCHANGED status /\ Saved(r, "reply")

\* login tells no more than the time of it.
login(r) == Doing(r, {"login"}, "write") /\ Go(r, "reply") /\ UNCHANGED <<tables, notes, events>>

\* updateCohort: the status, then TYPE_OF_CENTER among its values, then the members, when
\* the status has changed: those that the read finds are told, the update writes all.
UpdateCohortRow(r) ==
    /\ Doing(r, {"updateCohort"}, "write")
    /\ LET o == run[r].op
       IN  status' = IF o.to = None THEN status ELSE [status EXCEPT ![o.key] = o.to]
    /\ Set(r, [run[r] EXCEPT !.at = "values", !.seen = status[run[r].op.key]])
    /\ UNCHANGED <<name, mapped, roles, member, values, changes, events>> /\ Wrote

UpdateCohortValues(r) ==
    /\ Doing(r, {"updateCohort"}, "values")
    /\ LET o == run[r].op
       IN  values' = IF o.value = None THEN values
                     ELSE {v \in values : v.item # o.key \/ v.field # o.value.field} \cup {o.value}
    /\ UNCHANGED <<name, mapped, roles, member, status>>
    /\ Saved(r, IF run[r].op.to \in {None, run[r].seen} THEN "reply" ELSE "find")

FindMembers(r) ==
    /\ Doing(r, {"updateCohort"}, "find")
    /\ LET found == {m \in Joined : CohortOf(m) = run[r].op.key}
       IN  Set(r, [run[r] EXCEPT !.found = found, !.at = IF found = {} THEN "reply" ELSE "members"])
    /\ UNCHANGED <<tables, notes, events>>

UpdateMembers(r) ==
    /\ Doing(r, {"updateCohort"}, "members")
    /\ member' = [m \in Memberships |->
                    IF m \in Joined /\ CohortOf(m) = run[r].op.key THEN run[r].op.to ELSE member[m]]
    /\ UNCHANGED <<name, mapped, roles, values, status>> /\ Saved(r, "reply")

\* updateCohortStatus: archives the cohort, then deletes its members and its values.
ArchiveCohort(r) ==
    /\ Doing(r, {"updateCohortStatus"}, "write")
    /\ status' = [status EXCEPT ![run[r].op.key] = "archived"]
    /\ UNCHANGED <<name, mapped, roles, member, values>> /\ Saved(r, "members")

ArchiveMembers(r) ==
    /\ Doing(r, {"updateCohortStatus"}, "members")
    /\ member' = [m \in Memberships |-> IF CohortOf(m) = run[r].op.key THEN None ELSE member[m]]
    /\ UNCHANGED <<name, mapped, roles, values, status>> /\ Saved(r, "values")

ArchiveValues(r) ==
    /\ Doing(r, {"updateCohortStatus"}, "values")
    /\ values' = {v \in values : v.item # run[r].op.key}
    /\ UNCHANGED <<name, mapped, roles, member, status>> /\ Saved(r, "reply")

\* createCohortMembers and updateCohortMembers: one row, which the event carries.
SaveMember(r) ==
    /\ Doing(r, {"createCohortMembers", "updateCohortMembers"}, "write")
    /\ LET o == run[r].op
       IN  IF (member[o.key] = None) = (o.name = "createCohortMembers")
           THEN /\ member' = [member EXCEPT ![o.key] = o.to]
                /\ Set(r, [run[r] EXCEPT !.at = "reply", !.found = {o.key}])
                /\ UNCHANGED <<name, mapped, roles, values, status, changes, events>>
                /\ Wrote
           ELSE Refuse(r)

\* createBulkCohortMembers: row after row; it is the users that are told of.
BulkMember(r) ==
    /\ Doing(r, {"createBulkCohortMembers"}, "write")
    /\ \E m \in run[r].op.key \ run[r].found :
          /\ member' = [member EXCEPT ![m] = "active"]
          /\ Set(r, [run[r] EXCEPT !.found = @ \cup {m},
                       !.at = IF run[r].op.key = run[r].found \cup {m} THEN "reply" ELSE "write"])
    /\ UNCHANGED <<name, mapped, roles, values, status, changes, events>> /\ Wrote

(* ------------------------------ Publications ------------------------------ *)

KindOf(o) ==
    CASE o.name \in {"createUser", "createCohortMembers"} -> "created"
      [] o.name \in {"deleteUserById", "updateCohortStatus"} -> "deleted"
      [] o.name = "login" -> "login"
      [] OTHER -> "updated"

\* The keys that the handler tells of.
TellsOf(r) ==
    LET o == run[r].op
    IN  CASE o.name = "createBulkCohortMembers" -> {UserOf(m) : m \in run[r].found}
          [] o.name \in {"createCohortMembers", "updateCohortMembers"} -> run[r].found
          [] o.name = "updateCohort" -> {o.key} \cup run[r].found
          [] OTHER -> {o.key}

\* A member's event carries what its handler saved.  A deleted thing is told by its id, and
\* nothing of it is read.
Start(r, k) ==
    LET kind == KindOf(run[r].op)
    IN  [by |-> r, key |-> k, kind |-> kind,
         data |-> IF k \in Memberships THEN [Blank EXCEPT !.status = run[r].op.to] ELSE Blank,
         at |-> IF k \in Memberships \/ kind = "deleted" THEN "send" ELSE "row"]

Tells(k, data) ==
    data = View(k) \/ (k \in Cohorts /\ status[k] = "archived" /\ data = Blank)

\* The reply, after which the publications run.  One that overlaps another of its key may
\* be the older and arrive later; one that reads nothing may be of what is no longer so.
Reply(r) ==
    /\ run[r].op # None /\ At(r, "reply")
    /\ LET told == TellsOf(r)
           alone == {k \in told : /\ \A p \in pubs : p.key # k \/ p.kind = "login"
                                  /\ Start(r, k).at = "send" => Tells(k, Start(r, k).data)}
       IN  /\ pubs' = pubs \cup {Start(r, k) : k \in told}
           /\ excused' = IF run[r].op.name = "login" THEN excused ELSE (excused \ alone) \cup (told \ alone)
    /\ Go(r, "done") /\ UNCHANGED <<tables, copy, changes, torn, moved, scenario>>

Step(p, q) == pubs' = (pubs \ {p}) \cup {q}
Told1(p, there, f) == Step(p, [p EXCEPT !.at = there, !.data = f]) /\ UNCHANGED <<copy, excused>>
Silent == UNCHANGED <<tables, run, changes, torn, moved, scenario>>

\* publishUserEvent and publishCohortEvent: the row; without it the event has the id only.
Row(p) ==
    /\ p.at = "row"
    /\ IF p.kind = "login" THEN Told1(p, "send", p.data)
       ELSE IF p.key \in Users
       THEN IF name[p.key] = None THEN Told1(p, "send", Blank)
            ELSE Told1(p, "tenants", [p.data EXCEPT !.name = name[p.key]])
       ELSE Told1(p, "fields", [p.data EXCEPT !.status = status[p.key]])
    /\ Silent

TenantsAndRoles(p) ==
    /\ p.at = "tenants"
    /\ Told1(p, "fields", [p.data EXCEPT !.tenants = TenantsOf(p.key)])
    /\ Silent

CustomFields(p) ==
    /\ p.at = "fields"
    /\ Told1(p, IF p.key \in Users THEN "cohorts" ELSE "type",
             [p.data EXCEPT !.fields = FieldsOf(p.key)])
    /\ Silent

CohortsOfUser(p) ==
    /\ p.at = "cohorts"
    /\ Told1(p, "send", [p.data EXCEPT !.cohorts = CohortsOf(p.key)])
    /\ Silent

\* A center is qualified by its own value, which the event carries; a batch by that of its
\* parent, which is read now.
extractTypeOfCenter(data) ==
    LET of == {f \in data.fields : f[1] = "TYPE_OF_CENTER"}
    IN  IF of = {} THEN None ELSE (CHOOSE f \in of : TRUE)[2]
queryTypeOfCenter(c) == CenterType(c)

\* Mutant of transformedType: a batch is qualified like a center.
OwnType(p) == Told(p.key, extractTypeOfCenter(p.data))
transformedType(p) ==
    Told(p.key, IF TypeOf[p.key] = "BATCH" THEN queryTypeOfCenter(ParentOf[p.key])
                ELSE extractTypeOfCenter(p.data))

CohortType(p) ==
    /\ p.at = "type"
    /\ Told1(p, "send", [p.data EXCEPT !.type = transformedType(p)])
    /\ Silent

\* A read fails: the event has the id only, or no fields, or no cohorts, or its type as it
\* is.
ReadFails(p) ==
    /\ May("database") /\ p.at # "send"
    /\ LET partial ==
             CASE p.at = "cohorts" -> [p EXCEPT !.at = "send"]
               [] p.at = "fields" -> [p EXCEPT !.at = IF p.key \in Users THEN "cohorts" ELSE "type"]
               [] p.at = "type" -> [p EXCEPT !.at = "send", !.data.type = Told(p.key, None)]
               [] OTHER -> [p EXCEPT !.at = "send", !.data = Blank]
       IN  Step(p, partial)
    /\ excused' = excused \cup {p.key}
    /\ UNCHANGED copy /\ Silent

\* A login tells nothing that the consumer keeps.
Send(p) ==
    /\ p.at = "send" /\ pubs' = pubs \ {p}
    /\ copy' = IF p.kind = "login" THEN copy ELSE [copy EXCEPT ![p.key] = p.data]
    /\ UNCHANGED excused /\ Silent

\* Retries and all, Kafka does not take it: it is logged, and nobody sends it again.
SendFails(p) ==
    /\ May("kafka") /\ p.at = "send" /\ pubs' = pubs \ {p}
    /\ excused' = excused \cup {p.key}
    /\ UNCHANGED copy /\ Silent

Handle(r) ==
    \/ SaveUser(r) \/ deleteUserById(r) \/ login(r)
    \/ UpdateCohortRow(r) \/ UpdateCohortValues(r) \/ FindMembers(r) \/ UpdateMembers(r)
    \/ ArchiveCohort(r) \/ ArchiveMembers(r) \/ ArchiveValues(r)
    \/ SaveMember(r) \/ BulkMember(r) \/ Reply(r)

Publish ==
    \E p \in pubs :
        \/ Row(p) \/ TenantsAndRoles(p) \/ CustomFields(p) \/ CohortsOfUser(p) \/ CohortType(p)
        \/ ReadFails(p) \/ Send(p) \/ SendFails(p)

(* -------------------------------- Property -------------------------------- *)

\* When nothing of a key is being published, what consumers were last told of it is what
\* the tables hold, unless the key was written since by somebody who tells nothing of it,
\* or its publications overlapped or failed.  A batch is written with the type of its
\* center, a user with the status of his cohorts.  Of an archived cohort they may know
\* that it was deleted.  (user.service.ts:3725, cohort.service.ts:1468, kafka.service.ts:377)
EventsAreCurrent ==
    \A k \in Keys \ excused :
        (\A p \in pubs : p.key # k) => Tells(k, copy[k])
=============================================================================

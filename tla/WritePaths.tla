----------------------------- MODULE WritePaths -----------------------------
(***************************************************************************)
(* The write handlers of the service against the cached reads that show    *)
(* what they write.  A handler is a path: the rows it saves, the           *)
(* namespaces it bumps and the moment it replies, in the order of its      *)
(* awaits.  A read is a getOrLoad whose loader queries rows and hydrates   *)
(* nested cached reads (bulkGetOrLoad).  The question is docs/             *)
(* CACHING_STRATEGY.md 1.1 goal 2: does a read that begins after a write   *)
(* has replied show it?                                                    *)
(*                                                                         *)
(* Rows are counters: rows[i] is the number of writes to item i, a table   *)
(* and the owner of the row, and a result has, for every item that went    *)
(* into it, the write it shows.  The cache's own faults are CacheService's *)
(* subject; here every operation succeeds.                                 *)
(***************************************************************************)
EXTENDS Naturals, Sequences, SequencesExt, FiniteSets

CONSTANTS
    Users, Tenants,
    Readers, Writers,
    \* What runs side by side, and where: records of
    \*   reads, writes       the reads and the writes that are issued,
    \*   readers, writers    how many of each run at once,
    \*   home                home[u]: the tenants u is in at first ({}: no rows yet),
    \*   provider            "memory" or "redis",
    \*   missing             the namespaces whose counter is missing at first,
    \*   failures            TRUE if a database call may throw.
    Scenarios

VARIABLES
    rows,    \* the database: writes per item
    mapped,  \* mapped[u]: tenants u has a UserTenantMapping row for
    acked,   \* per item: the newest write whose request has succeeded
    ver,     \* version counters per namespace
    entries, \* the value cache
    reads,   \* per reader: its getOrLoad
    writes,  \* per writer: its handler
    scenario \* the one that this behaviour runs

vars == <<rows, mapped, acked, ver, entries, reads, writes, scenario>>

User(u) == <<"user", u>>
Ufields(u) == <<"ufields", u>>
Usertenant(u) == <<"usertenant", u>>
Userroles(u) == <<"userroles", u>>
Userlist(t) == <<"userlist", t>>
Cohortmember(t) == <<"cohortmember", t>>
Userfilter == <<"userfilter">>
Fieldsdef == <<"fieldsdef">>

Namespaces ==
    (UNION {{User(u), Ufields(u), Usertenant(u), Userroles(u)} : u \in Users})
        \cup (UNION {{Userlist(t), Cohortmember(t)} : t \in Tenants})
        \cup {Userfilter, Fieldsdef}

Person(u) == <<"Users", u>>
Values(u) == <<"FieldValues", u>>
Mapping(u, t) == <<"UserTenantMapping", u, t>>
Role(u, t) == <<"UserRolesMapping", u, t>>
Member(u, t) == <<"CohortMembers", u, t>>
MemberValues(u, t) == <<"MemberFieldValues", u, t>>
Definitions == <<"Fields">>

MappingsOf(u, T) == {Mapping(u, t) : t \in T}
RolesOf(u, T) == {Role(u, t) : t \in T}
MembersOf(u, T) == {Member(u, t) : t \in T}

OfTenant(u, t) == {Mapping(u, t), Role(u, t), Member(u, t), MemberValues(u, t)}
OfUser(u, T) == {Person(u), Values(u)} \cup (UNION {OfTenant(u, t) : t \in T})
Items == {Definitions} \cup (UNION {OfUser(u, Tenants) : u \in Users})

-----------------------------------------------------------------------------
(* The cached reads. *)

List(t) == <<"list", t>>           \* POST /list
Filtered(t) == <<"filtered", t>>   \* ... with custom-field filters
Members(t) == <<"members", t>>     \* POST /cohortmember/list
Core(u) == <<"core", u>>           \* GET /read/:userId
Mappings(u) == <<"mappings", u>>   \* GET /user-tenant/:userId
Assigned(u) == <<"assigned", u>>   \* GET /rbac/usersRoles/:userId
Hydrated(u) == <<"hydrated", u>>   \* getBulkCustomFieldDetails, per user
FilterIds == <<"filterIds">>       \* filterUserUsingCustomFieldsOptimized

Sites ==
    (UNION {{List(t), Filtered(t), Members(t)} : t \in Tenants})
        \cup (UNION {{Core(u), Mappings(u), Assigned(u)} : u \in Users})

Lists == {"list", "filtered", "members"}

Joins(s) ==
    CASE s[1] = "core" -> {Ufields(s[2])}
      [] s[1] = "members" -> {Fieldsdef, Userlist(s[2])}
      [] s[1] = "hydrated" -> {Fieldsdef}
      [] OTHER -> {}

Own(s) ==
    CASE s[1] \in {"list", "filtered"} -> Userlist(s[2])
      [] s[1] = "members" -> Cohortmember(s[2])
      [] s[1] = "core" -> User(s[2])
      [] s[1] = "mappings" -> Usertenant(s[2])
      [] s[1] = "assigned" -> Userroles(s[2])
      [] s[1] = "hydrated" -> Ufields(s[2])
      [] s[1] = "filterIds" -> Userfilter

KeyOf(s) == {Own(s)} \cup Joins(s)

\* What the loader awaits, in order.
Loader(s) ==
    CASE s[1] = "list" -> <<"rows", "fields">>
      [] s[1] = "filtered" -> <<"filter", "rows", "fields">>
      [] s[1] = "members" -> <<"rows", "fields", "memberFields">>
      [] OTHER -> <<"rows">>

Listed(t) == {u \in Users : t \in mapped[u]}

\* The items that the queries of a loader read now.
RowsOf(s) ==
    CASE s[1] \in Lists ->
            LET t == s[2] IN
            {Mapping(u, t) : u \in Users} \cup {Role(u, t) : u \in Users}
                \cup {Person(u) : u \in Listed(t)} \cup {Member(u, t) : u \in Listed(t)}
      [] s[1] = "core" ->
            {Person(s[2])} \cup MappingsOf(s[2], Tenants) \cup RolesOf(s[2], Tenants)
      [] s[1] = "mappings" -> MappingsOf(s[2], Tenants)
      [] s[1] = "assigned" -> RolesOf(s[2], Tenants)
      [] s[1] = "hydrated" -> {Values(s[2]), Definitions}
      [] s[1] = "filterIds" -> {Values(u) : u \in Users}

\* A result is a set of pairs of an item and the write that is shown of it.
Seen(S) == {<<i, rows[i]>> : i \in S}

\* The users on a page, by the rows it shows.
OnPage(data) == {u \in Users : \E d \in data : d[1] = Person(u)}

\* Of the ids that the filter has found, a page of t has use for those in t.
OfListed(t, data) == {d \in data : \A u \in Users \ Listed(t) : d[1] # Values(u)}

\* An empty result is not stored.
Cacheable(s, data) ==
    CASE s[1] \in Lists -> OnPage(data) # {}
      [] s[1] = "hydrated" -> <<Values(s[2]), 0>> \notin data
      [] OTHER -> \E d \in data : d[2] # 0

Version(n) == IF ver[n] = 0 THEN 1 ELSE ver[n]
Resolved(S) == [n \in S |-> Version(n)]

\* buildVersionedKey: the versions are part of the key.
KeyVersions(s, v) == [n \in KeyOf(s) |-> v[n]]
Hits(s, v) == {e \in entries : e.site = s /\ e.vers = KeyVersions(s, v)}
Entry(s, v, data) == [site |-> s, vers |-> KeyVersions(s, v), data |-> data]

\* The store after setting the entries of E.
StoredAll(E) ==
    {e \in entries : \A f \in E : e.site # f.site \/ e.vers # f.vers} \cup E

-----------------------------------------------------------------------------
(* The write paths.  Bumps of namespaces that no modelled read embeds      *)
(* (cfields, cohort, fields, form) are left out.                           *)

Save(S) == [op |-> "save", items |-> S, gone |-> {}]
\* DELETE ... WHERE: of the items of S that are there.
Delete(S) == [op |-> "save", items |-> {}, gone |-> S]
\* Rows of UserTenantMapping: u leaves the tenants of F and joins those of T.
Remap(u, F, T) ==
    [op |-> "remap", user |-> u, from |-> F, to |-> T,
     items |-> MappingsOf(u, T), gone |-> MappingsOf(u, F)]
\* The tenants of u: a failure is caught here and counts as no tenant ...
getUserTenantIds(u) == [op |-> "lookup", user |-> u, quiet |-> TRUE]
\* ... and is thrown here.
Lookup(u) == [op |-> "lookup", user |-> u, quiet |-> FALSE]
Bump(q) == [op |-> "bump", ns |-> q, lists |-> FALSE]
\* ... and the user lists of the tenants looked up before.
BumpLists(q) == [op |-> "bump", ns |-> q, lists |-> TRUE]
Reply == [op |-> "reply"]

updateUser(u) ==
    <<Save({Person(u)}), Save({Values(u)}), Bump(<<Ufields(u)>>),
      Lookup(u), BumpLists(<<User(u), Userfilter>>), Reply>>

deleteUserById(u) ==
    <<Lookup(u),
      Delete(MembersOf(u, Tenants)), Remap(u, Tenants, {}),
      Delete(RolesOf(u, Tenants)), Delete({Values(u)}), Delete({Person(u)}),
      BumpLists(<<User(u), Ufields(u), Usertenant(u), Userroles(u), Userfilter>>),
      Reply>>

assignUserToTenantAndRoll(u, F, t) ==
    <<Save(RolesOf(u, F \cup {t})), Remap(u, F, {t}),
      Bump(<<User(u), Usertenant(u), Userroles(u), Userlist(t)>>)>>

createUser(u, t) ==
    <<Save({Person(u)}), Save({Member(u, t)})>>
        \o assignUserToTenantAndRoll(u, {}, t)
        \o <<Save({Values(u)}), Bump(<<Ufields(u), Userfilter>>), Reply>>

\* POST /assign-tenant of a user whose mapping is not to a root tenant ...
userTenantMapping(u, t) == assignUserToTenantAndRoll(u, {}, t) \o <<Reply>>

\* ... and of one whose mapping to root tenant f is converted.
convertRootMapping(u, f, t) == assignUserToTenantAndRoll(u, {f}, t) \o <<Reply>>

\* ... and with custom fields.
userTenantMappingFields(u, t) ==
    assignUserToTenantAndRoll(u, {}, t)
        \o <<Save({Values(u)}), Bump(<<User(u), Ufields(u), Userfilter>>), Reply>>

updateAssignTenantStatus(u, t) ==
    <<Save({Mapping(u, t)}), Bump(<<User(u), Usertenant(u), Userlist(t)>>), Reply>>

\* One INSERT per role; and DELETE of the mappings, with the same bumps.
createAssignRole(u, t) ==
    <<Save({Role(u, t)}), Save({Role(u, t)}),
      Bump(<<User(u), Userroles(u), Userlist(t)>>), Reply>>

deleteAssignedRole(u, t) ==
    <<Save({Role(u, t)}), Bump(<<User(u), Userroles(u), Userlist(t)>>), Reply>>

bulkUpdateUserRoles(U, t) ==
    LET us == SetToSeq(U) IN
    [n \in 1..Len(us) |-> Save({Role(us[n], t)})]
        \o <<Bump([n \in 1..Len(us) |-> User(us[n])]
                   \o [n \in 1..Len(us) |-> Userroles(us[n])]
                   \o <<Userlist(t)>>),
             Reply>>

\* The reply is written before the bump, and the bump is of the tenantId of the
\* request body, a namespace nobody reads when the body has none.
createCohortMembers(u, t) == <<Save({Member(u, t)}), Reply>>

createBulkCohortMembers(u, t) ==
    <<Save({Member(u, t)}), Reply,
      Bump(<<User(u), Cohortmember(t), Userlist(t)>>)>>

updateCohortMembers(u, t) ==
    <<Save({Member(u, t)}), Bump(<<Cohortmember(t), Userlist(t)>>),
      Save({MemberValues(u, t)}), Reply>>

deleteCohortMemberById(u, t) ==
    <<Save({Member(u, t)}), Bump(<<Cohortmember(t), Userlist(t)>>), Reply>>

\* The cascade of a cohort's status to a member, with no bump of the members' lists.
updateCohort(u, t) == <<Save({Member(u, t)}), Bump(<<Userfilter>>), Reply>>

\* The DELETE of a cohort with its members.
updateCohortStatus(u, t) ==
    <<Delete({Member(u, t)}), Bump(<<Cohortmember(t), Userfilter>>), Reply>>

\* Mutant of createFieldValues: the tenants are read before the values are saved.
LookedUpFirst(u) ==
    <<getUserTenantIds(u), Save({Values(u)}),
      BumpLists(<<Ufields(u), Userfilter>>), Reply>>

\* Also deleteFieldValues: one batch for the values and the lists that embed them.
createFieldValues(u) ==
    <<Save({Values(u)}), getUserTenantIds(u),
      BumpLists(<<Ufields(u), Userfilter>>), Reply>>

updateNewtonDataFields(u) ==
    <<Save({Values(u)}), Bump(<<User(u), Ufields(u), Userfilter>>), Reply>>

updateFields == <<Save({Definitions}), Bump(<<Fieldsdef>>), Reply>>

\* The two cron jobs; there is no reply, but the run reports success.
assignStudents(u, t) ==
    <<Save({Member(u, t)}), Save({Mapping(u, t)}),
      Bump(<<User(u), Usertenant(u), Userlist(t), Cohortmember(t)>>), Reply>>

mapUsersToTenant(u, t) ==
    <<Remap(u, {}, {t}), Save({Role(u, t)}),
      Bump(<<User(u), Usertenant(u), Userroles(u), Userlist(t)>>), Reply>>

-----------------------------------------------------------------------------
Zero == [i \in Items |-> 0]
Idle == [at |-> "idle", site |-> <<>>, since |-> Zero, vers |-> <<>>, stage |-> 1,
         got |-> {}, inner |-> <<>>, batch |-> {}]
NotStarted == [at |-> "new", op |-> <<>>, next |-> 1, queue |-> <<>>, tenants |-> {},
               wrote |-> Zero]

\* The rows of the database at first.
AtFirst ==
    {Definitions} \cup (UNION {OfUser(u, scenario.home[u]) :
                               u \in {v \in Users : scenario.home[v] # {}}})

Init ==
    /\ scenario \in Scenarios
    /\ rows = [i \in Items |-> IF i \in AtFirst THEN 1 ELSE 0]
    /\ mapped = scenario.home
    /\ acked = rows
    /\ ver = [n \in Namespaces |-> IF n \in scenario.missing THEN 0 ELSE 2]
    /\ entries = {}
    /\ reads = [r \in Readers |-> Idle]
    /\ writes = [w \in Writers |-> NotStarted]

(* Reads. *)

Begin(r, s) ==
    /\ reads[r].at = "idle"
    /\ Cardinality({q \in Readers : reads[q].at # "idle"}) < scenario.readers
    /\ reads' = [reads EXCEPT ![r] =
            [Idle EXCEPT !.at = "get", !.site = s, !.since = acked,
                         !.vers = Resolved(KeyOf(s))]]
    /\ UNCHANGED <<rows, mapped, acked, ver, entries, writes, scenario>>

Get(r) ==
    /\ reads[r].at = "get"
    /\ LET h == Hits(reads[r].site, reads[r].vers) IN
       reads' = IF h = {} THEN [reads EXCEPT ![r].at = "load"]
                ELSE [reads EXCEPT ![r].at = "done",
                                   ![r].got = (CHOOSE e \in h : TRUE).data]
    /\ UNCHANGED <<rows, mapped, acked, ver, entries, writes, scenario>>

Stage(r) == Loader(reads[r].site)[reads[r].stage]
AtStage(r, names) ==
    /\ reads[r].at = "load"
    /\ reads[r].stage <= Len(Loader(reads[r].site))
    /\ Stage(r) \in names

\* A query of the loader; an empty page ends the loader with false.
Query(r) ==
    /\ AtStage(r, {"rows", "memberFields"})
    /\ LET rd == reads[r]
           S == IF Stage(r) = "rows" THEN RowsOf(rd.site)
                ELSE {MemberValues(u, rd.site[2]) : u \in OnPage(rd.got)}
           kept == IF rd.site[1] = "filtered" THEN OfListed(rd.site[2], rd.got) ELSE rd.got
           last == Stage(r) = "rows" /\ ~Cacheable(rd.site, Seen(S))
       IN reads' = [reads EXCEPT ![r].got = kept \cup Seen(S),
                                 ![r].stage = rd.stage + 1,
                                 ![r].at = IF last THEN "done" ELSE "load"]
    /\ UNCHANGED <<rows, mapped, acked, ver, entries, writes, scenario>>

Nested(r) ==
    IF Stage(r) = "filter" THEN {FilterIds}
    ELSE {Hydrated(u) : u \in OnPage(reads[r].got)}

ResolveNested(r) ==
    /\ AtStage(r, {"filter", "fields"})
    /\ reads' = [reads EXCEPT ![r].at = "mget",
                              ![r].inner = Resolved(UNION {KeyOf(s) : s \in Nested(r)})]
    /\ UNCHANGED <<rows, mapped, acked, ver, entries, writes, scenario>>

\* Back to the outer loader, with what the nested read returned.
NextStage(r, data) ==
    [reads EXCEPT ![r].at = "load", ![r].stage = @ + 1, ![r].got = data,
                  ![r].inner = <<>>, ![r].batch = {}]

\* The hits of the MGET; the other ids go to the loader.
GetNested(r) ==
    /\ reads[r].at = "mget"
    /\ LET hits == UNION {Hits(s, reads[r].inner) : s \in Nested(r)}
           data == reads[r].got \cup (UNION {e.data : e \in hits})
           left == {s \in Nested(r) : Hits(s, reads[r].inner) = {}}
       IN reads' = IF left = {} THEN NextStage(r, data)
                   ELSE [reads EXCEPT ![r].at = "mload", ![r].got = data,
                                      ![r].batch = left]
    /\ UNCHANGED <<rows, mapped, acked, ver, entries, writes, scenario>>

LoadNested(r) ==
    /\ reads[r].at = "mload"
    /\ LET loaded == {Entry(s, reads[r].inner, Seen(RowsOf(s))) : s \in reads[r].batch}
           data == reads[r].got \cup (UNION {e.data : e \in loaded})
           sets == {e \in loaded : Cacheable(e.site, e.data)}
       IN reads' = IF sets = {} THEN NextStage(r, data)
                   ELSE [reads EXCEPT ![r].at = "mset", ![r].got = data,
                                      ![r].batch = sets]
    /\ UNCHANGED <<rows, mapped, acked, ver, entries, writes, scenario>>

SetNested(r) ==
    /\ reads[r].at = "mset"
    /\ entries' = StoredAll(reads[r].batch)
    /\ reads' = NextStage(r, reads[r].got)
    /\ UNCHANGED <<rows, mapped, acked, ver, writes, scenario>>

Set(r) ==
    /\ reads[r].at = "load"
    /\ reads[r].stage > Len(Loader(reads[r].site))
    /\ entries' = StoredAll({Entry(reads[r].site, reads[r].vers, reads[r].got)})
    /\ reads' = [reads EXCEPT ![r].at = "done"]
    /\ UNCHANGED <<rows, mapped, acked, ver, writes, scenario>>

Finish(r) ==
    /\ reads[r].at = "done"
    /\ reads' = [reads EXCEPT ![r] = Idle]
    /\ UNCHANGED <<rows, mapped, acked, ver, entries, writes, scenario>>

(* Writes. *)

StepsOf(q) ==
    CASE q[1] = "updateUser" -> updateUser(q[2])
      [] q[1] = "deleteUserById" -> deleteUserById(q[2])
      [] q[1] = "createUser" -> createUser(q[2], q[3])
      [] q[1] = "userTenantMapping" -> userTenantMapping(q[2], q[3])
      [] q[1] = "convertRootMapping" -> convertRootMapping(q[2], q[3], q[4])
      [] q[1] = "userTenantMappingFields" -> userTenantMappingFields(q[2], q[3])
      [] q[1] = "updateAssignTenantStatus" -> updateAssignTenantStatus(q[2], q[3])
      [] q[1] = "createAssignRole" -> createAssignRole(q[2], q[3])
      [] q[1] = "deleteAssignedRole" -> deleteAssignedRole(q[2], q[3])
      [] q[1] = "bulkUpdateUserRoles" -> bulkUpdateUserRoles(q[2], q[3])
      [] q[1] = "createCohortMembers" -> createCohortMembers(q[2], q[3])
      [] q[1] = "createBulkCohortMembers" -> createBulkCohortMembers(q[2], q[3])
      [] q[1] = "updateCohortMembers" -> updateCohortMembers(q[2], q[3])
      [] q[1] = "deleteCohortMemberById" -> deleteCohortMemberById(q[2], q[3])
      [] q[1] = "updateCohort" -> updateCohort(q[2], q[3])
      [] q[1] = "updateCohortStatus" -> updateCohortStatus(q[2], q[3])
      [] q[1] = "createFieldValues" -> createFieldValues(q[2])
      [] q[1] = "updateNewtonDataFields" -> updateNewtonDataFields(q[2])
      [] q[1] = "updateFields" -> updateFields
      [] q[1] = "assignStudents" -> assignStudents(q[2], q[3])
      [] q[1] = "mapUsersToTenant" -> mapUsersToTenant(q[2], q[3])

Requests ==
    {<<h, u>> : h \in {"updateUser", "deleteUserById", "createFieldValues",
                       "updateNewtonDataFields"}, u \in Users}
        \cup {<<h, u, t>> : h \in {"createUser", "userTenantMapping", "userTenantMappingFields",
                "updateAssignTenantStatus", "createAssignRole", "deleteAssignedRole",
                "createCohortMembers", "createBulkCohortMembers", "updateCohortMembers",
                "deleteCohortMemberById", "updateCohort", "updateCohortStatus",
                "assignStudents", "mapUsersToTenant"}, u \in Users, t \in Tenants}
        \cup {<<"convertRootMapping", u, f, t>> : u \in Users, f \in Tenants, t \in Tenants}
        \cup {<<"bulkUpdateUserRoles", U, t>> : U \in SUBSET Users, t \in Tenants}
        \cup {<<"updateFields">>}

ASSUME PathAssumption ==
    /\ IsFiniteSet(Users) /\ IsFiniteSet(Tenants) /\ IsFiniteSet(Writers)
    /\ \A c \in Scenarios :
        /\ c.reads \subseteq Sites /\ c.writes \subseteq Requests
        /\ c.readers \in Nat /\ c.writers \in Nat
        /\ c.home \in [Users -> SUBSET Tenants]
        /\ c.provider \in {"memory", "redis"}
        /\ c.missing \subseteq Namespaces
        /\ c.failures \in BOOLEAN

\* The users that a request names.
Named(q) ==
    CASE q[1] = "bulkUpdateUserRoles" -> q[2]
      [] q[1] = "updateFields" -> {}
      [] OTHER -> {q[2]}

\* Keycloak makes a new id for createUser, and nobody can name an id before.
Known(q) ==
    IF q[1] = "createUser"
    THEN /\ rows[Person(q[2])] = 0
         /\ \A w \in Writers : writes[w].at = "run" =>
                writes[w].op \notin {<<"createUser", q[2], t>> : t \in Tenants}
    ELSE \A u \in Named(q) : rows[Person(u)] # 0

Start(w, q) ==
    /\ writes[w].at = "new"
    /\ Cardinality({v \in Writers : writes[v].at # "new"}) < scenario.writers
    /\ Known(q)
    /\ writes' = [writes EXCEPT ![w].at = "run", ![w].op = q]
    /\ UNCHANGED <<rows, mapped, acked, ver, entries, reads, scenario>>

Steps(w) == StepsOf(writes[w].op)
Step(w) == Steps(w)[writes[w].next]

\* Writer w awaits nothing and its next step is of kind o.
AtStep(w, o) ==
    /\ writes[w].at = "run" /\ writes[w].queue = <<>>
    /\ writes[w].next \in 1..Len(Steps(w))
    /\ Step(w).op = o

\* The items that the step of w changes, the rows then, and what w wrote of them.
Changed(w) == Step(w).items \cup {i \in Step(w).gone : rows[i] # 0}
Written(w) == [i \in Items |-> IF i \in Changed(w) THEN rows[i] + 1 ELSE rows[i]]
WroteNow(w) ==
    [i \in Items |-> IF i \in Changed(w) THEN rows[i] + 1 ELSE writes[w].wrote[i]]

SaveRows(w) ==
    /\ AtStep(w, "save")
    /\ rows' = Written(w)
    /\ writes' = [writes EXCEPT ![w].next = @ + 1, ![w].wrote = WroteNow(w)]
    /\ UNCHANGED <<mapped, acked, ver, entries, reads, scenario>>

SaveMapping(w) ==
    /\ AtStep(w, "remap")
    /\ rows' = Written(w)
    /\ mapped' = [mapped EXCEPT ![Step(w).user] = (@ \ Step(w).from) \cup Step(w).to]
    /\ writes' = [writes EXCEPT ![w].next = @ + 1, ![w].wrote = WroteNow(w)]
    /\ UNCHANGED <<acked, ver, entries, reads, scenario>>

LookUpTenants(w) ==
    /\ AtStep(w, "lookup")
    /\ writes' = [writes EXCEPT ![w].next = @ + 1,
                                ![w].tenants = mapped[Step(w).user]]
    /\ UNCHANGED <<rows, mapped, acked, ver, entries, reads, scenario>>

Batch(w) ==
    Step(w).ns \o (IF Step(w).lists
                   THEN SetToSeq({Userlist(t) : t \in writes[w].tenants}) ELSE <<>>)

\* invalidate: with Redis every INCR is sent before the first is answered, with
\* the memory store all are applied at once.
Invalidate(w) ==
    /\ AtStep(w, "bump")
    /\ IF scenario.provider = "memory"
       THEN /\ ver' = [n \in Namespaces |-> IF Contains(Batch(w), n) THEN Version(n) + 1
                                             ELSE ver[n]]
            /\ writes' = [writes EXCEPT ![w].next = @ + 1]
       ELSE /\ writes' = [writes EXCEPT ![w].next = @ + 1, ![w].queue = Batch(w)]
            /\ UNCHANGED ver
    /\ UNCHANGED <<rows, mapped, acked, entries, reads, scenario>>

\* Redis applies the INCRs of one connection in order; an answer of 1 makes incr
\* send a second one, after those already sent.
Incr(w) ==
    /\ writes[w].queue # <<>>
    /\ LET n == Head(writes[w].queue)
           again == IF ver[n] = 0 THEN <<n>> ELSE <<>>
       IN /\ ver' = [ver EXCEPT ![n] = @ + 1]
          /\ writes' = [writes EXCEPT ![w].queue = Tail(@) \o again]
    /\ UNCHANGED <<rows, mapped, acked, entries, reads, scenario>>

AckedWith(w) ==
    [i \in Items |-> IF writes[w].wrote[i] > acked[i] THEN writes[w].wrote[i]
                     ELSE acked[i]]

SendReply(w) ==
    /\ AtStep(w, "reply")
    /\ acked' = AckedWith(w)
    /\ writes' = [writes EXCEPT ![w].next = @ + 1]
    /\ UNCHANGED <<rows, mapped, ver, entries, reads, scenario>>

\* A database call throws, perhaps after an earlier one has committed: the catch
\* block replies with an error and nothing more is bumped.
Throw(w) ==
    /\ scenario.failures
    /\ \/ AtStep(w, "save") \/ AtStep(w, "remap")
       \/ AtStep(w, "lookup") /\ ~Step(w).quiet
    /\ writes' = [writes EXCEPT ![w].next = Len(Steps(w)) + 1]
    /\ UNCHANGED <<rows, mapped, acked, ver, entries, reads, scenario>>

LookUpFails(w) ==
    /\ scenario.failures
    /\ AtStep(w, "lookup")
    /\ Step(w).quiet
    /\ writes' = [writes EXCEPT ![w].next = @ + 1, ![w].tenants = {}]
    /\ UNCHANGED <<rows, mapped, acked, ver, entries, reads, scenario>>

Next ==
    \/ \E r \in Readers :
        \/ \E s \in scenario.reads : Begin(r, s)
        \/ Get(r) \/ Query(r) \/ ResolveNested(r) \/ GetNested(r) \/ LoadNested(r)
        \/ SetNested(r) \/ Set(r) \/ Finish(r)
    \/ \E w \in Writers :
        \/ \E q \in scenario.writes : Start(w, q)
        \/ SaveRows(w) \/ SaveMapping(w) \/ LookUpTenants(w) \/ Invalidate(w)
        \/ Incr(w) \/ SendReply(w) \/ Throw(w) \/ LookUpFails(w)

Spec == Init /\ [][Next]_vars

-----------------------------------------------------------------------------
\* The types of the variables; an entry's key has the versions of exactly the
\* namespaces its read joins.
TypeOK ==
    /\ rows \in [Items -> Nat]
    /\ acked \in [Items -> Nat]
    /\ mapped \in [Users -> SUBSET Tenants]
    /\ ver \in [Namespaces -> Nat]
    /\ \A e \in entries : DOMAIN e.vers = KeyOf(e.site) /\ e.data \subseteq Items \X Nat
    /\ \A w \in Writers : Range(writes[w].queue) \subseteq Namespaces

\* What a finished read does not show of the writes acknowledged when it began.
Missed(r) == {d[1] : d \in {x \in reads[r].got : x[2] < reads[r].since[x[1]]}}

\* The rows that a handler may leave stale in a list: it writes them after the
\* list is bumped, or never bumps the list that shows them.
Exposed(q) ==
    CASE q[1] \in {"createUser", "userTenantMappingFields", "updateNewtonDataFields"} ->
            {Values(q[2])}
      [] q[1] = "convertRootMapping" -> OfUser(q[2], {q[3]})
      [] q[1] \in {"createCohortMembers", "createBulkCohortMembers", "updateCohort",
                   "updateCohortStatus"} ->
            {Member(q[2], q[3])}
      [] q[1] = "updateCohortMembers" -> {MemberValues(q[2], q[3])}
      [] q[1] = "updateFields" -> {Definitions}
      [] OTHER -> {}

\* A user who is deleted by two requests, or beside one that maps him or looks up his
\* tenants: the one that comes second finds mappings that the first has not, or none.
DeletedBeside(c) ==
    IF c.writers > 1 THEN {q[2] : q \in {d \in c.writes : d[1] = "deleteUserById"}} ELSE {}

\* A user who joins a tenant while the lists of his other tenants are bumped for his
\* values: what their lists or the filter have kept of them may get into a page of the new.
Joining(c) ==
    {q[2] : q \in {a \in c.writes :
        /\ a[1] \in {"userTenantMapping", "mapUsersToTenant"}
        /\ \E s \in c.reads : /\ s[1] \in Lists /\ s[2] = a[3]
                              /\ s[1] = "filtered" \/ \E o \in c.reads : o[1] \in Lists /\ o[2] # s[2]}}

\* A failed lookup of the tenants counts as none, and the values are saved all the same.
LookedUpInVain(c) ==
    IF c.failures THEN {q[2] : q \in {a \in c.writes : a[1] = "createFieldValues"}} ELSE {}

\* The first bump of a counter takes two INCRs, the second after that of the lists.
FirstBumped(c) ==
    IF c.provider = "redis" THEN {u \in Users : {Ufields(u), Userfilter} \cap c.missing # {}} ELSE {}

ExposedBy(c) ==
    (UNION {Exposed(q) : q \in c.writes})
        \cup (UNION {OfUser(u, Tenants) : u \in DeletedBeside(c)})
        \cup {Values(u) : u \in Joining(c) \cup LookedUpInVain(c) \cup FirstBumped(c)}

\* A read shows every write whose request had succeeded when the read began
\* (docs/CACHING_STRATEGY.md 1.1 goal 2) except, in lists, the rows that the
\* handlers are known to expose: the damage of their bumps that come early, or
\* never, is confined to those rows.
FreshButExposed ==
    \A r \in Readers : reads[r].at = "done" =>
        Missed(r) \subseteq
            IF reads[r].site[1] \in Lists
            THEN ExposedBy(scenario) ELSE {}
=============================================================================

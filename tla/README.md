# Verification of the user microservice

TLA+ models of the parts of this service whose correctness depends on the order of
steps: its cache, the handlers that invalidate it, the two stores a user lives in, the
tables that handlers and jobs write side by side, the tokens and passwords that expire
on the way, and what searches, hierarchies and events put together from several queries. TLC checks the models on
small instances; TLAPS proves what matters most for every value of the constants.

Paths below are relative to `src/` of the repository's own `src/` directory when they
name code (`cache/cache.service.ts`), and to the repository's root when they name a
document (`docs/CACHING_STRATEGY.md`). `PROJECT.json` has, for each definition that
models code, the lines it stands for.

1. [The system](#1-the-system)
2. [The modules](#2-the-modules)
3. [The runs](#3-the-runs)
4. [Fairness](#4-fairness)
5. [The proofs](#5-the-proofs)
6. [Where the code and its documents part](#6-where-the-code-and-its-documents-part)
7. [What is not modelled](#7-what-is-not-modelled)
8. [Plan](#8-plan)

## 1. The system

A NestJS service, several pods of it behind a load balancer, over one PostgreSQL
database (TypeORM, no transactions in the services modelled here), one Keycloak, an
optional Redis and an optional Kafka. A pod is one event loop: code between two `await`s
is atomic, and nothing else is. Requests of one pod and of different pods interleave in
the same way, at their awaits, so the models do not tell pods apart except where a pod
keeps state of its own (the circuit breaker).

| component | state it keeps | operations | talks to | what is hard | what makes it correct |
|---|---|---|---|---|---|
| versioned-namespace cache (`cache/`) | a version counter per namespace, entries keyed by versions, both in Redis or in memory | `getOrLoad`, `bulkGetOrLoad`, `invalidate` | Redis, the loader it is given | a loader that overlaps a write; an INCR or a set that is lost or lands late; a flush | a read returns nothing older than a write that had completed when it began |
| cache circuit breaker (`cache/cache.service.ts`) | consecutive failures, end of the cooldown, per pod | `executeOp`, `withTimeout`, `recordSuccess`, `recordFailure` | every Redis operation | operations in flight when it opens, answers after that, all probes at once | a dead Redis costs few attempts; an open circuit is probed again |
| write handlers and cached reads (`user/`, `userTenantMapping/`, `rbac/assign-role/`, `cohortMembers/`, `cohort/`, `fields/`, `sso/`, `cron/`) | none of their own | about twenty handlers, each a sequence of writes, bumps and a reply | database, cache | which namespaces embed which rows; bumps before writes, replies before bumps, throws in between | every row that a read shows is covered by a bump after its last write and before the reply |
| users in two stores (`user/`, `common/utils/keycloak.adapter.util.ts`) | an account in Keycloak; a row in Users and rows that refer to it | `createUser`, `updateUser`, `deleteUserById` | Keycloak (HTTP), database | no transaction over both; failures half way; lost answers; overlapping read-modify-write; a background update | the stores part only where a request has reported an error |
| cohort members (`cohortMembers/`) | CohortMembers | create, bulk create and reassign, update, delete | database, cohorts | check-then-insert; a loop that goes on after an error | no duplicates without a race; what is listed as done is done; errors are told |
| cohorts (`cohort/`) | Cohort | create, update with a cascade to members, delete, bulk status | database, members | two statements per cascade, overlapping changes | members follow the status of their cohort |
| batch and mapping jobs (`cron/`) | none; status of the tenant mappings | `assignStudentsToBatches`, `mapUsersToTenant` | members, mappings | counting before inserting, several pods, errors in nested loops | capacity; one batch per user; activated exactly if assigned |
| tenant and role mappings (`userTenantMapping/`, `rbac/assign-role/`, `user/`, `sso/`) | UserTenantMapping, UserRolesMapping | assign, move a root tenant's row, status with its event, roles by hand and in bulk, delete a role, a user | database, cache, Kafka | `findOne` by user of several rows; no unique constraint; deletions table by table | what was assigned stays; no row twice; rows refer to what exists |
| custom fields (`fields/`) | Fields, FieldValues, tables of options | define, add and remove options, write values, hydrate in bulk | database, cache | lists read, changed and written whole; loops that stop half way | options as answered; one value per item and field |
| academic years (`academicyears/`, `cohortAcademicYear/`) | AcademicYears, CohortAcademicYear | create (deactivates the active year), attach a cohort | database | three statements | one active year per tenant |
| automatic members (`automatic-member/`) | AutomaticMember | create, remove; replaced by `updateUser` | database | check-then-insert | one active rule per user |
| roles, privileges, forms (`rbac/`, `forms/`) | Roles, Privileges, Form | create, update, delete | database | codes that only a lookup keeps unique | no two rows with one key |
| tenants (`tenant/`) | Tenants | create, update, delete | database | a walk up the tree, one query per ancestor | a tree, unique names |
| admin token (`common/utils/keycloak.adapter.util.ts`) | one token and its expiry per pod | `getKeycloakAdminToken` | Keycloak | overlapping refreshes; slow answers; error path | a token taken from the cache lasts |
| passwords, OTPs, links, sessions (`user/`, `auth/`) | `temporaryPassword`; accounts in Keycloak | reset, forgot, send and verify OTP, login, refresh, logout | Keycloak, notifications | lost answers; expiry on the way; an account written back whole | answers tell what happened |
| user search and hierarchy (`user/`, `cohort/`) | none | `getUsersByHierarchicalLocation`, `getUserGeographicalHierarchy` | database | one answer from several queries | the answer fits together |
| events (`kafka/`, `user/`, `cohort/`, `cohortMembers/`) | what consumers were last told | publish users, cohorts, members, mappings | Kafka, database | read and sent after the reply, in no order | the last event says what the tables say |
| single sign-on (`sso/`) | none | HTTP sequence around `createUser` | Newton, Keycloak | little kept between requests | |
| permissions, locations, guards, uploads, notifications, logging, metrics, health | one table each, or none | | | | |

**How they interact.** A read handler calls `getOrLoad` with a namespace and the
namespaces it joins (`dependsOn`); a list page hydrates per-user entries of another
namespace inside its loader (`bulkGetOrLoad`). A write handler calls `invalidate`
with the namespaces it knows to embed its rows. `createUser` and `userTenantMapping`
share `assignUserToTenantAndRoll`. `updateUser`, `createUser` and `deleteUserById` call
Keycloak before or after their writes. The jobs write the same rows as the handlers.
Every Redis operation passes the breaker. Events are put together and go to Kafka after
the reply, and their failure is only logged. `updateUser` replaces the automatic rule of a
user; `createCohort` attaches the cohort to an academic year; every call to Keycloak takes
the admin token.

`PROJECT.json` lists the hazards, each at its line with the properties that would
catch it.

## 2. The modules

| module | models | proofs |
|---|---|---|
| `FreshReads` | what a cache promises, with no cache in sight (abstract) | |
| `CacheService`, `MCCacheService` | `getOrLoad`, `invalidate`, both version stores | `CacheServiceProofs` |
| `CircuitBreaker` | `executeOp` and its breaker | `CacheServiceProofs` |
| `WritePaths`, `MCWritePaths` | every write handler against the cached reads | `WritePathsProofs` |
| `Accounts`, `MCAccounts` | a user in Keycloak and in the database | `AccountsProofs` |
| `Members`, `MCMembers` | memberships, cohorts and the batch job | `MembersProofs` |
| `Mappings`, `MCMappings` | the tenants and roles of users, their events, the mapping job | `MappingsProofs` |
| `Handlers` | what requests of the catalog have in common: stages, races, failures | |
| `Tenants`, `Years`, `Codes`, `Options` | the tree of tenants; years, cohorts in them and automatic rules; keys that should be unique; options of fields | |
| `Catalog`, `MCCatalog` | composes the four over `Handlers` | `CatalogProofs` |
| `Credentials`, `MCCredentials` | the admin token, passwords, OTPs, links, sessions | `CredentialsProofs` |
| `Tables` | the tables that views read, and who else writes them | |
| `UserSearch`, `Geography`, `Events` | the search, the hierarchy of a user, the publications | |
| `Views`, `MCViews` | composes the three over `Tables` | `ViewsProofs` |

The split follows the question asked, not the directory: one handler may appear in
several modules, each of which keeps all of its control that matters to its own state.
`createUser` is a sequence of saves and bumps in `WritePaths` (what do reads show?) and
a sequence of calls to two stores in `Accounts` (what is left after an error?).

### FreshReads

`db[n]` counts the writes to the rows a namespace `n` covers; `acked[n]` is the newest
whose request has completed. A read starts with a scope and a floor, and returns
versions between the floor and `db`. This is `docs/CACHING_STRATEGY.md` 1.1 goal 2.

### CacheService

| model | code |
|---|---|
| `Begin`, `Resolve`, `Hit`, `Miss`, `Load`, `Set`, `NotStored`, `Finish` | the awaits of `getOrLoad`: MGET of the versions, GET, the loader, SET |
| `ResolveFails`, `Miss` with a fault, `SetTimesOut` | an operation that `executeOp` turned into `{ ok: false }`; a set that timed out stays in `lateSets` and may be applied later |
| `Commit`, `Incr`, `IncrAgain` | the handler's write, then `invalidate`; `RedisCacheVersionStore.incr` sends a second INCR when the first returned 1 |
| `IncrFails`, `LateIncr` | an INCR that fails, or times out and is applied later |
| `Expire`, `Flush` | the TTL or an eviction; Redis losing its keys |
| `Version`, `Incremented`, `Cacheable`, `KeyVersions` | `?? 1`, the stores' incr, `isCacheable`, `buildVersionedKey` |

Data is a counter per namespace. A loader reads the namespaces it joins in separate
steps, in any order. `ackedAt[n][v]` and `floor` are history: the newest write of `n` that
had completed while `v` was the version of `n`, and what had completed when the read began; `flushed` says whether the store ever
lost its keys. `Faults` selects which faults happen; `NoLoss` says that no INCR is lost and the store
keeps its keys.

### CircuitBreaker

One action per outcome of an operation (`Send`, `Skip`, `Answer`, `Fail`) and `Tick`. Time
is counted down from `OpTimeout` and `CooldownTime`. `Answer` and `Fail` happen also
while the circuit is open, for operations sent before: the code does not cancel them,
and their outcome goes through `recordSuccess` and `recordFailure`. An event loop may
be late, so a due timer need not fire before time goes on.

### WritePaths

A handler is a *path*: a sequence of `Save`, `Delete`, `Remap`, `Lookup`, `Bump` and
`Reply` in the order of its awaits (`StepsOf`). A read is a site with the namespace it is
cached under (`Own`), those it joins (`Joins`), the stages of its loader (`Loader`) and the
rows that they query (`RowsOf`). The loaders of the user list and of the member list
hydrate custom fields per user through a nested cached read. A page stored under versions resolved
before its loader ran may contain nested entries resolved later.

`Invalidate` sends all the INCRs of a batch at once and Redis applies them in order, each
in a step of its own; the memory store applies them together. `Throw` is a database
call that fails: the catch block replies with an error and nothing more is bumped. Then
the request is not acknowledged and its writes are not expected to be shown, but a
second attempt of the same request is.

A request names users that have been made before (`Known`): ids are UUIDs that Keycloak makes for `createUser`,
so nobody can name one earlier, and no two requests make one.

`Exposed(q)` names, per handler, the rows that the handler leaves stale in a list, and
`ExposedBy(c)` adds what a mix of handlers `c` leaves so although each of them alone does not. Both are
written from the code, and `FreshButExposed` says that the damage stops there. TLC finds a stale list in every
scenario of `Exposing`, `ExposingValues` and `DeletedMeanwhile` when the row in question is taken out.

| handler | rows exposed | why |
|---|---|---|
| `createUser` (`user/user.service.ts`:2086) | the custom fields | written after the list was bumped |
| `userTenantMapping` with custom fields (`userTenantMapping/…service.ts`:239) | the custom fields | the same |
| `updateNewtonDataFields` (`sso/sso.service.ts`:550) | the custom fields | the list is not bumped |
| conversion of a root mapping (`user/user.service.ts`:2594) | mapping and role in the tenant left | only the list of the tenant joined is bumped |
| `createCohortMembers` (`cohortMembers/…service.ts`:655) | the member | replies first; and bumps the tenant of the body, which may have none |
| `createBulkCohortMembers` (:1316) | the member | replies first |
| `updateCohortMembers` (:929) | the member's custom fields | written after the bump |
| `updateCohort` (`cohort/cohort.service.ts`:784), `updateCohortStatus` (:1229) | the members | lists of users, and for the first also those of members, are not bumped |
| `updateFields` (list at `user/user.service.ts`:817) | the definitions | the list does not depend on `fieldsdef` |
| `deleteUserById` next to another request, such as a mapping of the same user (:3036) | the user's rows (`DeletedBeside`) | the tenants were read before; a second deletion finds none of the mappings that the first has removed |
| a mapping to a new tenant next to a handler that saves the user's values (`fields/fields.service.ts`:1016) | the custom fields (`Joining`) | the new list may take them from an entry that the lists of the other tenants, or the filter, have left, before its own bump, which is not among those sent |
| `createFieldValues` whose lookup of the tenants fails (`fields/fields.service.ts`:2381) | the custom fields (`LookedUpInVain`) | no list is bumped, and the request succeeds |
| any handler that saves values, over Redis without a counter for them (`cache/stores/redis-version-store.ts`:31) | the custom fields (`FirstBumped`) | the second INCR of the counter comes after that of the list |

### Accounts

`accounts[i]` is the account of id `i` in Keycloak, `rows[i]` its row in Users, `mapped` the ids
with their tenant mappings. A request runs once, one action per awaited call, each with
a variant that fails; for Keycloak the variant includes "took effect, answer lost". `Update` reads
the row and computes the new device list from it, before any call, as `updateUser` does;
`FindRow` and `SaveRow` are the second read and the save of `updateBasicUserDetails`.
`Sync` is the status update that runs in the background after the reply.

`Overlapping` says which updates of *one* user may overlap. Two arbitrary updates do
lose each other's changes, a rename included, with both answering 200: TypeORM's `save`
writes back what was read. That is certain from the code and would mask everything
else, so only logins, logouts and changes of the status overlap in the run that passes. The
theorems need no more than `NamesAreKept`: nothing that overlaps renames or deletes the user.

### Members

`members` is the table, `cohorts` the status of each cohort, `mapping` the status of each
user's tenant mapping. Handlers of a member: `Check`/`Insert`, `FindMember`/`SaveMember`,
`DeleteMember`. An update copies the body to the row that it has read (`Rewritten`): the status, and a user,
a cohort or an id when the body names one; such a row is `moved`. The bulk handler: `BulkUser`, `Remove`, `FindAny`, `InsertAdded`,
`SaveAdded`, `BulkFails` (collects the error, goes on), `BulkReply` with the `results`, and `ReplyErrors`, the second response. The handlers of a cohort:
`FindCohort`, `SaveCohort`, `FindMembers`, `Cascade`, `Archive`, `Purge`, `SaveStatuses`.
The job: `NextUser`, `CountMembers`, `FindExisting`, `InsertStudent`, `Activate`, and
`JobFails`, which ends the batch but not the user. `Abort` is an error outside the loops,
or a pod that dies. `Scenarios` are mixes of requests, so that one run covers several.

A database error means that the statement was not applied; a pod may die between any
two statements.

### Mappings

`tenantRows` and `roleRows` are the two tables, by row id. An assignment (`Validate`,
`HasRole`, `FindRole`/`SaveRole`, `NothingFound`, `FindMapping`, `FindPair`, `SaveMapping`) is what `assignUserToTenantAndRoll` does for each dto of `todo`; a row of a root tenant in
`Roots` is moved, and of several rows the database may return any. `FindStatus`,
`SaveStatus`, `ReadForEvent` and `Send` are a change of status and its event. Roles by hand:
`CheckRole`, `InsertRole`, `FindAssigned`, `DeleteAssigned`; in bulk: `BulkFind`, `BulkUpdate`.
Deletions: `DeleteRole`, `DeleteRoleRows`, `DeleteMappings`, `DeleteRows`, `DeleteUser`. The nightly job:
`NextUser`, `JobUser`, `JobRoles`, `JobMapping`, `JobRole`, and the event that it publishes
(`cron/cron.service.ts`:534) by the actions of a status; mapping a user anew by hand publishes none. An event whose read fails is not sent
(`ReadFails`). `createUser` and `handleNewUser` first make the user; a body of `createUser` may name a tenant
twice, since the list that the check for duplicates consults (`user/user.service.ts`:2170) is never filled. `createAssignRole` looks
for the roles and not for the user.

`raced` marks users two of whose requests overlapped in a way that matters (one wrote what the other had
read), `failed` those of a request that failed half way. Every row carries what its writer had looked up: a mapping
`looked`, a role `"pair"` in `checked`, say that it looked for such a row of the user first. `RowsUnique` is about rows that
were looked for. Not looked for are those of a new user, a row of a root tenant that is moved, the second
assignment of single sign-on, all that `bulkUpdateUserRoles` writes, and the role of a manager whose look failed: `HasRole`
takes an error of the database for "has not". `doubled` marks users to whom a request gave a mapping that they had, of which one
event tells.

### Catalog

`Handlers` has the stages of a request, what it competes for (`op.of`), and `raced` and `failed` per such
thing. `Tenants`: `Walk` looks at one ancestor per step. `Years`: `FindOverlap`,
`FindActive`, `Deactivate`, `InsertYear`; the creation of a cohort is `FindYear`, `SaveCohort`,
`Attach`, and `FindToUpdate`, `UpdateCohort` give it to another tenant, its years as they were (`moved`). `updateUser`
looks for rules of the user with the value (`LookEqual`): an active one is refused; otherwise the current rule is
deactivated (`FindCurrent`, `FindAgain`, `SaveRule`: it is read again and saved whole), and the inactive one activated the same way or,
if there is none, another made (`FindEqual`, `InsertRule`). `FindRule`, `PatchRule`, `RemoveRule` are the endpoint of the rules, whose users are in `byHand`.
`Codes` treats alike the handlers that look for a key and insert: some pass over what
they find (`Skips`), some refuse it (`Refuses`), one says so and inserts all the same
(`Repeats`); some do not look (`Renames`, `updateUserCustomFields`). A row carries whether its writer looked. `Options` adds options one by
one, to the list that is written back as a whole or to a table, where those without the `controllingfieldfk` they need are not
inserted (`Taken`); `offered` is what the answered requests amount to without them.

### Credentials

Time passes between any two statements, up to the bound of the scenario. `TakeToken`,
`Issue`, `KeepToken`, `TokenFails` are `getKeycloakAdminToken`: the clock is read before the request, any
number of refreshes may overlap, an error clears the cache. `PutPassword`, `PutRefused`,
`PutUnanswered`, `GetAccount`, `PutBack`, `ClearFlag` are `resetKeycloakPassword` and its callers; `PutStatus` is the
status update of `Accounts`, which `PutBack` may overwrite; `raced` marks its user if it comes while another request has read
the account and not yet written it (`Overlapped`), whatever is written then. `Verdict` is what `verifyOtp` makes of an OTP. A keyed hash is the tuple that was
hashed, a link its user and the time it dies; `sent` and `links` are what clients hold. Sessions are named by the
login that opened them.

### Views

`Tables` has the tables and `Change`, any write by a handler that none of the three modules
is about; `torn` marks the requests during which something was written, `moved` the cohorts whose values were, for each. `UserSearch`: `ParentTenant`,
`Page`, `getCustomFieldsData`, `Assignments`, `Batches`, `CentersAndReply`, one per query. `Geography`:
`FindCohorts`, then `PlaceCenter` once per center, `BuildTree`; `PlaceCenter` asks for the cohorts that have the custom fields (`Matching`)
for each center anew, as the tables then are (that the answer is cached is a matter of `WritePaths`), and `Kept` takes an empty answer for no filter. `Events`: the handlers write
(`SaveUser`, `UpdateCohortRow`, `SaveMember`, `BulkMember`, ...), reply, and leave publications in `pubs`, which read the tables
one statement at a time (`Row`, `TenantsAndRoles`, `CustomFields`, `CohortsOfUser`, `CohortType`) and are sent or
lost; `copy` is what a consumer of each key was last told. `excused` marks keys written since by
somebody who tells nothing, or whose publications overlapped or failed.

## 3. The runs

| run | instance | states | what it shows |
|---|---|---|---|
| `cache_fresh` | 1 namespace, 2 readers, 2 writers, 2 writes; failed gets, sets and loaders | 0.8 M | `FreshRead`, `StoredFresh`, and `KeepsPromise`: the cache implements `FreshReads` |
| `cache_heals` | 1 reader, 1 writer; every fault, flushes included | 0.11 M | `LostIncrHeals`: the next bump repairs a lost one; `CreateIsSeen`: a create is never hidden by a cached empty result; `EveryReadReturns`, `StaleReadsEnd` |
| `breaker_dead_redis` | 3 operations, 3 failures, timeout 2, cooldown 4 | 11 k | `OpenMeansFailing`, `DeadRedisIsCheap`, `Probes` |
| `paths_everything` | 2 users, 2 tenants, 123 scenarios | 1.8 M | `FreshButExposed` |
| `accounts_agree` | 1 user at first, 2 names, 3 ids, 4 requests, 4 devices | 0.4 M | `RowsHaveAccounts`, `DivergenceIsReported`, `CreatedIsComplete`, `DevicesBounded` |
| `members_all` | 2 users, 2 batches of capacity 1, 3 rows, 2 requests at a time, 9 mixes | 1.9 M | `JobRespectsCapacity`, `DuplicatesNeedRaces`, `CascadeReaches`, `AssignmentsComplete`, `BulkAsListed` |
| `mappings_all` | 2 users, a root tenant and 2 others, 3 roles, 4 rows, 2 requests at a time, 11 mixes | 0.32 M | `GrantsStay`, `RolesHaveMappings`, `RowsUnique`, `RowsRefer`, `EventsCatchUp` |
| `catalog_all` | 4 tenants; 3 years, 2 cohorts; 2 users, 3 rules; 2 keys; 2 fields with 3 options; 2 requests at a time, 14 mixes | 1.0 M | `TreeIsKept`, `OneActive`, `CohortsHaveYears`, `KeysUnique`, `OptionsAsAnswered` |
| `credentials` | 2 users, 3 requests, 3 units of time, 4 mixes | 1.1 M | `TokensLast`, `AnswersAreTrue`, `StatusLostToRaces`, `OtpAsSent` |
| `views` | 3 users, 2 centers, 2 batches, 2 years; 336 searches, 81 hierarchies, 12 publishing requests | 0.37 M | `SearchIsRight`, `HierarchyIsWhole`, `EventsAreCurrent` |

`cache_stale_after_flush` and `credentials_reset` are expected to be violated; section 6 says by what.

**Why the bounds are enough.** *Cache*: the hazards are between one read that is being
loaded, a read that hits what it stored, and two writes whose INCRs cross, so two of each
and two writes do; with two writes an entry can be stale by one and by two. Requests
repeat without bound. `cache_heals` adds every fault to one reader and one writer: a lost INCR, a late set and
a flush hurt a later read of the same reader. A join of two namespaces is in `WritePaths`, with real sites.
*Breaker*: three operations, so that one may be in flight while another fails and a third
probes; `MaxTime` 13 covers three cooldowns of silence. `consecutiveFailures` is only compared with
`CbFailures`, so counting up to it loses nothing. *Write paths*: two readers, so that one
stores and the other hits; one writer per handler alone, two where handlers overlap or
are retried. A handler touches one user in one or two tenants; the second user and
tenant are there so that a page has a row of its own and a bump may miss. *Accounts*: four requests allow create, rename, a failed
delete and a second delete; three ids allow a create that fails and is repeated. *Members*:
capacity one, so that one insertion fills a batch, and two batches, so that there is a
next one; three rows allow a duplicate and one more (`MemberIds` bounds the table: with no
free id an insertion does not happen). *Mappings* and *catalog*: every hazard is between two requests, so
two run at a time, over mixes in which they meet; requests repeat without bound, so histories
of any length occur. Four rows are the two that a user may have and two more; four tenants
make a cycle of three with one outside. *Credentials*: a token
lives three units and its buffer is one, so it may be fresh, within its buffer or dead; three
requests let two race and a third use what they leave. *Views*: two users of one name, so that a page
may split them; a batch below each center and one user in two batches of different years; one write during a search or a
hierarchy, two during events, since one suffices to tear an answer and two to reorder.

**Deadlock** is checked where requests repeat: in the cache and in the breaker, and in `WritePaths`,
whose readers go on. In `Accounts`, `Credentials` and `Views` every request runs once, and in `Members`, `Mappings` and `Catalog` a table may
be full, so those runs end and do not check it.

**Symmetry** is over requests (readers, writers) and row ids only, which no definition
distinguishes, and is not used in the runs with liveness properties.

## 4. Fairness

- `CacheService`, `FairSpec`: `executeOp` settles each operation within `opTimeoutMs`, by a
  result, an error or a timeout, and the loader is the request's own query; so a
  request that has begun takes its next step. Nobody is obliged to send requests, and
  nothing obliges Redis.
- `TTLSpec` adds that an outdated entry expires (each has a TTL, and the memory store's
  cache evicts as well) and that a set that timed out lands or dies with its connection.
- `CircuitBreaker`, `FairBreaker`: time passes and a due timer fires. Redis need not answer.

No other specification states fairness; their properties are safety properties.

## 5. The proofs

All proofs are for any number of requests, namespaces, sites, cohorts and users, and for
any value of the settings, from the named assumptions on the constants.

**CacheServiceProofs** (from `SiteAssumption` and `ConfigAssumption`). With `NoLoss` as a hypothesis:
`EntriesAreFresh`, `ReadsAreFresh`, `Invariance`, and `Refinement`: the
cache implements `FreshReads`. `FreshRead` alone is not inductive: a hit returns what
another read stored. `IInv` bounds from below what is under each versioned key. An entry under version
`v` of `n` has seen `ackedAt[n][v]` (`StoredFresh`), because its reader resolved `v` before
it loaded (`ReadOK`), a write is in the database before it is announced (`WritesOK`), and
announcing it begins a new version, so that `ackedAt[n][v]` is final once `v` is past. The reader that
finds the entry resolved `v` after it began, and what had completed by then was announced
under `v` or earlier (`HistoryOK`). The lemma `AdvanceStep` is the heart: a visible INCR
takes nothing from what was stored or resolved.
Without it: `TypeCorrect`, `CreatesAreSeen` and `LossInvariance` whatever is lost, and `LostIncrsHeal`
until the first flush (`flushed`). `LossInv` compares what a read has loaded with what had completed when it began, and says
that no stored entry is empty. `HealInv` adds that what is under version `v` has seen what was announced under `v - 1`:
a lost INCR announces its write under the version it was to end, which is `v` itself, so that
the history before `v` stays closed whichever INCRs are lost.

Its last part is the breaker's (from `BreakerAssumption`): `BreakerTypesHold`,
`OpenOnlyWhenFailing`, `AttemptsBounded`, `BreakerInvariance`. The bound on what a dead Redis costs needs to know where the attempts went
(`Accounted`). Below the threshold every unanswered attempt has failed or is in flight.
From then on a failure opens the circuit for a cooldown, so the attempts between two
openings were all in flight at once, and `k` openings take at least `k` cooldowns of
silence.

**WritePathsProofs** (from `PathAssumption`: users, tenants and writers are finitely many, and a scenario consists of
reads and requests of the model): `ReadsAreFreshOrExposed`, which is `FreshButExposed` for every mix of handlers and reads and any number of
each, and `TypesCorrect`, `Invariance`. The argument has two halves.

- *Of the handlers.* `PathOK` says of a path that it announces what it writes: after each save there is, before the
  reply, a bump of every namespace that vouches for the row, the lists of the user's tenants among them unless the
  row is exposed. One lemma per handler reads this off its steps (`Paths`). From then on no proof looks at a handler
  again: `Ahead(w, n)` is what `w` has still to bump, from the rest of its path, its unsent INCRs and the tenants it has
  looked up. Write `k` of row `i` is `Good` for `n` when nobody has been told of a newer one and whoever has written a newer one has `n`
  ahead. The lemma `GoodStays`: it stays so over every step of every handler, until `n` is bumped. The hard steps are a mapping that
  takes a user out of a tenant whose lists another handler is about to bump (`OthersAheadOfRemap`), and a write itself
  (`WrittenAhead`).
- *Of the results.* `Held` is what is in the cache and what will be. `HeldGood`: under versions that are current it
  is `Good`, under any versions it is no older than what the readers of that key were promised when they began. Bumping ends
  currency for the results that joined the namespace, and those of later readers are loaded after the write. A list
  does not join the namespaces of the nested results it takes; `FedGood` is what it may rely on for those of the key it asks for next, and
  `NestedGood` for those it may still come to ask for. That holds because a batch bumps the values' namespaces
  no later than the lists (`BumpOK`, `ListsBesideIncr`), which the missing counter of `FirstBumped` breaks.

The rest serves these two. `There`: who is mapped or written to has been created, once. `Alone1`: with one handler
at a time, what a deletion finds is what was there at first. `Shown` and `Embedded`: whom a list shows has a seat in its tenant, and nested reads
are made by lists of such tenants. Looking for this invariant brought out most of the last four rows of the table in
section 2: without them `FreshButExposed` is false for mixes of handlers that one would hardly think of testing; the run now has them.

**MembersProofs** (from `MembersAssumption`): `TypeCorrect`, `CapacityRespected`, `DuplicatesAreRaces`,
`AssignmentsHold`, `CascadesReach`, `BulkRepliesAreTrue`, `Invariance`, `RowsInvariance`. The job counts, then looks for the
user, then inserts; by then the count is stale. `Bounded` says that the job's own members of a batch, together with the runs
that have found room and not yet inserted, stay below the capacity plus the number of concurrent requests: finding room adds
one to a sum whose first part is below the capacity and whose second is below that number, and inserting moves one from the
second to the first. `RowsInv` is for the three properties about rows. `Distinct`: who is about to insert or save still knows
the rows of its user and cohort that no update has moved (`Fixed`), unless a save in between has put the pair into `raced`. `Placing`: whom
the job has inserted is active, failed, or at a run that is about to activate. `Cascading`: each cohort is unsettled, or its
status has reached its members, or a request is halfway between the two statements; and two changes that have found the same
cohort have made it unsettled, because the second one to find it saw the first. Most steps are `Tame`, they change no row and
begin no write; the lemmas about thinning the rows, looking and saving are shared by the others. `BulkInv` follows the
two loops of a bulk request that runs alone. Its theorem has the hypothesis `AsksWhatItSaves`, which the scenarios of the run
meet: existing rows become active whatever status the body names, or keep theirs in the tenant whose body gives none, while
new rows get the status of the body, so that a request with another status does two things at once and its reply is about neither.

**CredentialsProofs** (from `CredentialsAssumption`): `TokensAreGood`, `StatusIsKept`, `AnswersTell`, `OtpsAreSent`,
`Invariance`, `AnswersInvariance`. `TokensLast` is not inductive: what is cached comes from an answer that was
under way while the clock ran on and other requests refreshed or failed. `Timely` says that
a token which Keycloak has given out lives its whole life from a clock that was read before
(`asked`), so that what is cached by it outlives its use by the buffer (`CacheOK`), whoever
caches last. For the status, `HasRead` says that what is about to be written back is an
account, and `ReadsCurrent` that its status is the one that Keycloak has, for every user outside `raced`; a status that is put keeps that
because it puts its user into `raced` if anybody has read it. All
other steps are `Plain`: they give a request no token and no account. For what clients are told, `Way` lists the places of
each handler and `Tells` what a request that has answered has done; a request that is done takes no more steps, so that a hash in
`sent` stays attributable to the answer that reported it; `Good` says what is accepted, in both directions.

**CatalogProofs** (from `CatalogAssumption` and `HandlersAssumption`): `CodesAreUnique`, `TreeStays`,
`OneYearActive`, `CohortsKeepYears`, `Invariance`, and, with `NamesHold` as a hypothesis, `OptionsHold`. None of the properties is inductive, because each handler writes by what it
read some statements before. The invariant says, per place of a handler, that what it has read is still so
unless what it competes for is in `raced`, and `raced` grows exactly when one writes what another has read. Of a rule that
`updateUser` is about to save whole the invariant says that it is still that user's, and of an inactive one to be activated that
the user has no active rule by then. For
the tree the walk is the hard part: it has seen one parent at a time. `Under` gives the set of tenants below the one that is moved as
the least set closed under children, with no recursion; the walk keeps that what it has passed is not in it, so the save
closes no cycle. For the options `OptionsInv` says of each field that it is in `raced` or has failed, or has what was offered, or
is being changed by a request that will make it so: in the field itself that is one save, in a table one row after the
other, and then what the request has written so far is what its body has of it (`Holds`). `NamesHold` says that no update of a field
with a table names one value twice: the second of two names would stay, and which one that is depends on
their order. Options that may not be inserted are left out of `offered`, so the invariant compares with what is taken. The run meets it.

**MappingsProofs** (from `MappingsAssumption`): `GrantsHold`, `MappingsWithRoles`, `RowsAreUnique`,
`RowsHaveReferences`, `EventsTellStatus`, `TypesHold`, `Invariance`. `MappingsInv` has a part about requests and a part about
users. `Shapes` says what a request carries at each place, `Owned` that the row it will write is free or its user's, `Known`
what it has found out about the tables and is still so unless the user is in `raced`, `Refers` what rows and requests refer to. `AllUsers` says
of each user what the tables have: each granted role with its mapping, or a request that is bringing one (`Brought`); no
two equal rows that were looked for, and none equal to what a request is about to insert after its look
(`LookedOnce`); what was last told, or a request that will tell (`Announced`). A step is `Reading`
(the tables stay), `Failing` (its user becomes excused) or `Writing`. For each kind of writing one lemma says what it does to
the rows of its user, and that it leaves those of the others alone; the steps of the invariant then argue from these
lemmas and not from thirty actions.

**AccountsProofs** (from `AccountAssumption`, and `NamesAreKept` as a hypothesis): `RowsHoldAccounts`, `DivergenceReported`,
`CreatedStaysComplete`, `DevicesStayBounded`, `TypesHold`, `Invariance`. Without `NamesAreKept` the first two are false, as section 6
tells; the run satisfies it. A call writes one store by what an earlier call did to the other, so `Knows` says for each
call what the request has found or made; `Agreement` says that stores which disagree have a request that is `Parting` (between its
two writes) or a failed one; and `Alone`, that two requests on one user are updates which keep its name, so that none
spoils what the other knows. Every action is shown to have an `Effect`, in terms of its user alone, and an `Effect` to keep the
invariant. `onLogoutDeviceId` is a recursive function; that it exists is proved for lists of at most three devices, which is
what the invariant gives.

**ViewsProofs** (from `TablesAssumption`: the keys say what they are keys of, writes are of the five kinds):
`EventsStayCurrent`, `HierarchiesAreWhole`, `SearchesAreRight`. `EventsInv` says of each key that is not excused that one publication of
it at most is under way (`Alone`), that what it has read so far is what the tables hold (`Reads`), and, when there is
none, that the copy is a view that consumers may have. Every write excuses the keys whose view it
changes; the reply of a handler that publishes takes its key out of `excused` only while nothing else tells of it; and as long as a key is
not excused its view stays as it is, so that a publication reads one view, table by table. For the two requests,
a write tears whoever is under way; the invariants `TreesInv`
and `SearchesInv` say, of each one that is not torn, what each of its statements has found, in terms of the tables as they still are.
Of a torn search nothing is claimed. Of a torn hierarchy `Apart` claims what is so center by center: each is placed once, with the batches
of the memberships that were found, and, if nobody wrote its values, under the places it has and if it lies in those asked for.
`HierarchiesAreWhole` has two hypotheses. `CohortsHaveOneTenant`: the values of a cohort
are kept for its own tenant, one of each field; with two, the place of a center is whichever row the query returns first.
`PlacesAreNamed`: the request names levels that exist. `SearchesAreRight` has `SearchesAreSorted`: users are sorted by names that
have an order, there are finitely many rows, and limits and offsets are naturals. What is proved of pages (`PagesAreSlices`)
is that every page is a part of some list of all that was found without repetitions, so a page has
no user twice and the number of users that its limit and offset give. The run meets the three hypotheses.

**Only model-checked**: the liveness properties `EveryReadReturns`, `StaleReadsEnd` and `Probes` (TLAPS does not
reach liveness under fairness here), and the violations that two runs expect.

## 6. Where the code and its documents part

Two of these are runs in which TLC finds the violation:

| run | the document says | the code does |
|---|---|---|
| `credentials_reset` | a hash "as per username or mobile Number", verified "based on reason" (`user/user.service.ts`:3137, :3229); a mobile number is asked for only of a signup (`user/dto/otpVerify.dto.ts`:29) | `verifyOtp` hashes the mobile number for both reasons (:3296), so that the OTP of a password reset is refused |
| `cache_stale_after_flush` | after a flush "cold cache, never wrong data" (`docs/CACHING_STRATEGY.md`:106) | the counters begin again, and a set under way lands under a version that is current again |

The others follow from the models; each is what a property has to leave out, or what a definition says.

*Cache*

- `docs/CACHING_STRATEGY.md`:22 has "a completed write is reflected by the very next read", but `createUser`
  (`user/user.service.ts`:2086) bumps the list before it writes the custom fields: `Exposed`
  lists this and nine other handlers, `ExposedBy` four mixes.
- A lost INCR on a closed circuit leaves readers on the old version until the next bump
  or the TTL, contrary to `docs/CACHING_STRATEGY.md`:22 and :107, which reasons from an open circuit. `LostIncrHeals` states what does hold.
- A missing counter takes two INCRs (`cache/stores/redis-version-store.ts`:31). When
  `ufields:{u}` is missing and `userlist:{t}` is not, the list moves to its new version before
  the fields do, and a page loaded in between keeps old fields under the new version (`FirstBumped`).
- `deleteUserById` that throws after it has removed the mappings leaves the lists as they are, and its retry looks up no tenants
  (`user/user.service.ts`:3034): they are not bumped for that user any more.
- `getUserTenantIds` answers a failed lookup with no tenants (`fields/fields.service.ts`:2381), and the request succeeds.
- An answer to an operation sent before the circuit opened closes it in the middle of its
  cooldown; :105 promises a full one.

*Users and accounts*

- `user/user.service.ts`:1449 says "Synchronize user status with Keycloak", but `updateUserInKeyCloak` sends `enabled: true` with every
  change of a name or email (`common/utils/keycloak.adapter.util.ts`:179): changing the details of an inactive user enables the account.
- "User and related entries deleted Successfully." (`common/utils/response.messages.ts`:140) may be undone: an update that read the row before
  saves it afterwards, and TypeORM's `save` inserts it again.
- Two updates of one user that overlap lose each other's changes.
- `updateUser` that throws while it writes custom fields has changed the user and bumped
  nothing (`user/user.service.ts`:1514); only a retry repairs the caches.

*Members and jobs*

- "Cohort Members Created with some errors" (`common/utils/response.messages.ts`:49) reaches no client: `createBulkCohortMembers` answers 201
  with the results alone (`cohortMembers/cohortMembers.service.ts`:1298) and passes the errors to a second response, which throws
  because the first was sent (:1340, `common/responses/response.ts`:28). `BulkAsListed` says so.
- `updateCohortMembers` copies `userId`, `cohortId` and `cohortMembershipId` of the body to the row and looks for no other row of
  that user and cohort (`cohortMembers/cohortMembers.service.ts`:874); the `CohortAcademicYear` stays that of the old cohort. One
  PATCH makes a user a member twice, or overwrites the row of another.
- `src/NAVAPATHAM_CRON_DOCUMENTATION.md`:192 has "Error logged, user skipped", but the catch around one batch goes on to
  the next (`cron/cron.service.ts`:392), also when the error came after the insertion: one run may put a user into two batches.
- The job asks whether the user is a member only of batches with room
  (`cron/cron.service.ts`:292): a user left pending by a run that died is put into the
  next batch once the first is full.

*Mappings*

- "avoid redundant assignments" (`sso/sso.service.ts`:605) holds only of looks that succeed: `checkIfUserHasRoleInTenant`
  answers an error of the database with false (`user/user.service.ts`:2474), and the manager gets the role a second time.
- `bulkUpdateUserRoles` makes two equal rows of a user with two roles in the tenant
  (`rbac/assign-role/assign-role.service.ts`:355); `deleteAssignedRole` then refuses to delete either.

*Catalog*

- `createFields` answers that a field exists and saves another (`fields/fields.service.ts`:416); `deleteFieldOptions` then
  refuses both. It finds an option by its value and filters by its name (:1617).
- `updateFields` writes a name, a context or a type of context without a look (:555-565, :705), `updateRole` a code: one request makes two rows of one key.
- An option "cannot be created without specifying the controllingfieldfk" (:699-702): it is not inserted (:790), and `createFields` says so in
  its reply (:518). `updateFields` composes the message and answers 201 "Fields updated successfully." without it (:707-713).
- `updateCohort` copies every key of the body, the tenant too (`cohort/cohort.service.ts`:679-695), and leaves the years of the cohort: they are
  then those of another tenant.
- The endpoint of the rules creates, changes and activates rules whatever else the user has (`automatic-member/automatic-member.service.ts`:21, :95):
  two active rules of one user need no race there.
- `createFields` answers 400 or 409 at the first wrong option, after those before it are written (:613).

*Credentials*

- `sendPasswordResetOTP` hashes the username (`user/user.service.ts`:3437) and `verifyOtp` the mobile number (:3296): the OTP of a
  password reset is accepted only of a user whose username is the number. `credentials_reset` shows it; `OtpAsSent` is about the OTPs of `sendOtp`.
- "Synchronize user status with Keycloak" (:1449): a status that is put between the read and the write of
  `enablePasswordAuthenticationIfNeeded` is lost (:2765), and both requests answer success. `StatusLostToRaces` states what does hold.
- `forgotPassword` answers 200 although Keycloak refused the password (:338); `sendPasswordResetOTP` answers 200 to a user with one
  channel although the message failed.
- `getKeycloakAdminToken` clears the token that others have cached when a refresh fails.

*Search, hierarchy, events*

- The total of a search comes with its rows: past the last page it is 0 (:4287). The order of a page has no tie-breaker.
- What a search shows of custom fields may be another tenant's value, although its filter is by tenant.
- An event of a user carries the status of his cohorts and the type of their centers, and an event of a batch the type of its
  center: neither is sent again when those change.
- An event of a member never carries custom fields: reading them throws on an undefined variable, and the error is swallowed
  (`cohortMembers/cohortMembers.service.ts`:1435).
- "Filter by customFieldsName" (`cohort/cohort.service.ts`:1801): a filter that no cohort matches is answered with null (`fields/fields.service.ts`:1800)
  and taken for no filter (:1808), which leaves all of a user's centers in his hierarchy, where `searchCohort` answers 404 (:1117).
  `HierarchyIsWhole` says which centers are returned. The filter looks at all
  cohorts, so that a value of another cohort, written between two centers, can switch it on or off: of a hierarchy with such a filter
  that was torn the property does not say which centers there are.
- `findCohortName` without a year joins with an alias that the query has already (`cohort/cohort.service.ts`:200): it always fails.

## 7. What is not modelled

- Queries that change nothing and are one statement: the lists of users, members, cohorts, tenants and forms,
  `searchUserMultiTenant`, `searchCohortData`; sorting; wording and layout of replies.
- Helpers of an earlier user search that nothing calls (`getLocationFilteredUsers`, `getUserIdsByCenter`,
  `getRoleFilteredUsers`, `combineFilterResults`, `getPaginatedUsers`, `getUserCount`, `getUserDetails`, `aggregateUserRoles`).
- The namespaces `fields`, `form`, `cohort` and `tenant`, which have one
  kind of writer each and no nested read: the argument of `CacheService` covers them.
- The validation of a field's value by its type (`fields/fieldValidators/fieldTypeClasses.ts`): predicates over one value.
- The way the job parses a user's district and block from custom fields (`Batches` is
  a constant), and the custom fields of members other than their caching.
- Permissions (one query decides), locations (one statement per request), the rows that tie privileges to roles.
- Connecting to Kafka and creating topics. Guards, uploads, captcha, the words of notifications, logging,
  metrics, health: no state that a request depends on.
- The exchange with Newton in `sso/`: HTTP calls around `createUser`. The token of `authRbac/` is signed from one query.
- Keycloak, Redis, Kafka and PostgreSQL themselves, which appear as what the code sees of them: an answer, an
  error, or no answer.

## 8. Plan

Done: `FreshReads`, `CacheService` and `CircuitBreaker`, `Accounts`, `Credentials`, `Members`, `Mappings`, `Catalog`, `Views`
and `WritePaths`, with proofs of all their safety properties.

To model, if the service grows: the namespaces left out, the privileges of roles, the exchange of single sign-on.

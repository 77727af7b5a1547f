---------------------------- MODULE CacheService ----------------------------
(***************************************************************************)
(* The versioned-namespace cache of src/src/cache: getOrLoad, invalidate,  *)
(* the two version stores and the operations that executeOp wraps, run by  *)
(* any number of concurrent read and write requests against one shared     *)
(* store.  Every await of the code separates two actions.                  *)
(*                                                                         *)
(* The database is one counter per namespace: db[n] is the number of       *)
(* committed writes to the rows namespace n covers, and 0 stands for no    *)
(* rows, the result that isCacheable refuses.  A read site stands for one  *)
(* (namespace, key, dependsOn) of a getOrLoad call; its result is the      *)
(* version of the data it saw in each namespace it joins.                  *)
(*                                                                         *)
(* An operation that executeOp turns into { ok: false } -- an error, a     *)
(* timeout, or a skip because the circuit is open -- is a fault.  The      *)
(* circuit breaker decides when that happens, so here it may happen at any *)
(* time, within the kinds that Faults allows.                              *)
(***************************************************************************)
EXTENDS Naturals, Sequences, FiniteSets

CONSTANTS
    Namespaces, \* version namespaces
    Sites,      \* read sites: one getOrLoad call in the source each
    OwnOf,      \* OwnOf[s]: the namespace option of site s
    ScopeOf,    \* ScopeOf[s]: that namespace and those of its dependsOn
    Enabled,    \* namespaces for which isNamespaceCacheable is true
    Readers,    \* concurrent read requests
    Writers,    \* concurrent write requests
    WriteSets,  \* sets of namespaces that one write changes and invalidates
    Provider,   \* CACHE_PROVIDER: "memory" or "redis"
    Faults,     \* the kinds of fault that occur, see FaultKinds
    MaxData     \* bound: committed writes per namespace

FaultKinds == {"read", "set", "incr", "flush", "load"}

\* Every INCR is applied in time and the store keeps its keys.
NoLoss == Faults \cap {"incr", "flush"} = {}

ASSUME SiteAssumption ==
    /\ OwnOf \in [Sites -> Namespaces]
    /\ ScopeOf \in [Sites -> SUBSET Namespaces]
    /\ \A s \in Sites : OwnOf[s] \in ScopeOf[s]
    /\ Sites # {}
ASSUME ConfigAssumption ==
    /\ Enabled \subseteq Namespaces
    /\ WriteSets \subseteq SUBSET Namespaces
    /\ Provider \in {"memory", "redis"}
    /\ Faults \subseteq FaultKinds
    /\ MaxData \in Nat

VARIABLES
    db,       \* committed writes per namespace
    ver,      \* the stored version counters, 0 when the key is missing
    entries,  \* the value cache
    lateSets, \* timed-out sets that the store may still apply
    lateIncrs,\* timed-out INCRs that may still be applied: <<writer, ns, second>>
    rpc,      \* per reader: the await it is at
    site,     \* per reader: the site it serves
    hasVers,  \* per reader: whether resolveVersions succeeded
    vers,     \* per reader: the versions it resolved
    toLoad,   \* per reader: namespaces its loader has yet to query
    val,      \* per reader: the data it has, per namespace
    wdata,    \* per writer: the data version it wrote, per namespace
    todo,     \* per writer: namespaces whose INCR is not yet issued
    again,    \* per writer: namespaces whose first INCR returned 1
    ackedAt,  \* history: ackedAt[n][v] is the newest write of n that had
              \* completed while v was the version of n
    floor,    \* history: what was completed when the reader began
    flushed   \* history: the store has lost its counters

store == <<ver, entries, lateSets, lateIncrs>>
reader == <<rpc, site, hasVers, vers, toLoad, val>>
writer == <<wdata, todo, again>>
history == <<ackedAt, floor, flushed>>
vars == <<db, store, reader, writer, history>>

-----------------------------------------------------------------------------
(* The version stores and the entry keys. *)

\* Mutant of Version: the "?? 1" is dropped.
MissingReadsAsZero(c) == c

\* A missing counter reads as 1 (outcome.value[idx] ?? 1).
Version(c) == IF c = 0 THEN 1 ELSE c

\* The memory store's incr starts a missing counter at 1 and so stores 2; one
\* Redis INCR of a missing key stores 1.
Incremented(c) == IF Provider = "memory" THEN Version(c) + 1 ELSE c + 1

\* Mutant of Invisible: incr is one INCR.
NeverInvisible(c) == FALSE

\* RedisCacheVersionStore.incr repeats an INCR that returned 1.
Invisible(c) == Provider = "redis" /\ Incremented(c) = 1

\* The newest write of n that has completed.
Acked(n) == ackedAt[n][Len(ackedAt[n])]

Larger(a, b) == IF a > b THEN a ELSE b

\* The history once the counter of n is c and write d of n has completed: a new
\* version opens a new entry, an unchanged one updates the last.
History(n, c, d) ==
    LET a == Larger(Acked(n), d) IN
    IF Version(c) = Version(ver[n])
    THEN [ackedAt[n] EXCEPT ![Len(ackedAt[n])] = a]
    ELSE Append(ackedAt[n], a)

\* The key under which reader p looks up and stores: the site and the versions
\* of exactly the namespaces it joins.
KeyVersions(p) == [n \in ScopeOf[site[p]] |-> vers[p][n]]

Result(p) == [n \in ScopeOf[site[p]] |-> val[p][n]]

EntryOf(p) == [site |-> site[p], vers |-> KeyVersions(p), val |-> Result(p)]

\* Mutant of Matching: the lookup ignores the versions.
MatchingAnyVersion(p) == {e \in entries : e.site = site[p]}

Matching(p) == {e \in entries : e.site = site[p] /\ e.vers = KeyVersions(p)}

\* Storing under a key replaces what was there.
Stored(e) == {f \in entries : f.site # e.site \/ f.vers # e.vers} \cup {e}

\* Mutant of Cacheable: empty results are stored too.
AlwaysCacheable(p) == TRUE

\* isCacheable: an empty result is never stored.
Cacheable(p) == val[p][OwnOf[site[p]]] # 0

AnySite == CHOOSE s \in Sites : TRUE
NoData == [n \in Namespaces |-> 0]

-----------------------------------------------------------------------------
Init ==
    /\ db = NoData
    /\ ver = NoData
    /\ entries = {}
    /\ lateSets = {}
    /\ lateIncrs = {}
    /\ rpc = [p \in Readers |-> "idle"]
    /\ site = [p \in Readers |-> AnySite]
    /\ hasVers = [p \in Readers |-> FALSE]
    /\ vers = [p \in Readers |-> NoData]
    /\ toLoad = [p \in Readers |-> {}]
    /\ val = [p \in Readers |-> NoData]
    /\ wdata = [w \in Writers |-> NoData]
    /\ todo = [w \in Writers |-> {}]
    /\ again = [w \in Writers |-> {}]
    /\ ackedAt = [n \in Namespaces |-> <<0>>]
    /\ floor = [p \in Readers |-> NoData]
    /\ flushed = FALSE

-----------------------------------------------------------------------------
(* A read request: getOrLoad. *)

At(p, here) == rpc[p] = here
GoTo(p, there) == rpc' = [rpc EXCEPT ![p] = there]

\* A read site of a namespace that is switched off goes straight to its loader.
Begin(p, s) ==
    /\ At(p, "idle")
    /\ GoTo(p, IF OwnOf[s] \in Enabled THEN "resolve" ELSE "load")
    /\ site' = [site EXCEPT ![p] = s]
    /\ toLoad' = [toLoad EXCEPT ![p] = ScopeOf[s]]
    /\ floor' = [floor EXCEPT ![p] = [n \in Namespaces |-> Acked(n)]]
    /\ UNCHANGED <<db, store, hasVers, vers, val, writer, ackedAt, flushed>>

\* One MGET of every version the key embeds, before the loader runs.
Resolve(p) ==
    /\ At(p, "resolve")
    /\ GoTo(p, "get")
    /\ hasVers' = [hasVers EXCEPT ![p] = TRUE]
    /\ vers' = [vers EXCEPT ![p] = [n \in Namespaces |->
                   IF n \in ScopeOf[site[p]] THEN Version(ver[n]) ELSE 0]]
    /\ UNCHANGED <<db, store, site, toLoad, val, writer, history>>

\* No versions, by failure or because the circuit is open: load, never store.
ResolveFails(p) ==
    /\ "read" \in Faults
    /\ At(p, "resolve")
    /\ GoTo(p, "load")
    /\ UNCHANGED <<db, store, site, hasVers, vers, toLoad, val, writer, history>>

Hit(p) ==
    /\ At(p, "get")
    /\ \E e \in Matching(p) :
         val' = [val EXCEPT ![p] = [n \in Namespaces |->
                   IF n \in ScopeOf[site[p]] THEN e.val[n] ELSE 0]]
    /\ GoTo(p, "done")
    /\ UNCHANGED <<db, store, site, hasVers, vers, toLoad, writer, history>>

\* A miss, or a failed get, which counts as one.
Miss(p) ==
    /\ At(p, "get")
    /\ Matching(p) = {} \/ "read" \in Faults
    /\ GoTo(p, "load")
    /\ UNCHANGED <<db, store, site, hasVers, vers, toLoad, val, writer, history>>

\* A loader makes one query or several: the rows of each namespace are read in
\* a step of their own.
Load(p, n) ==
    /\ At(p, "load")
    /\ n \in toLoad[p]
    /\ val' = [val EXCEPT ![p][n] = db[n]]
    /\ toLoad' = [toLoad EXCEPT ![p] = @ \ {n}]
    /\ GoTo(p, IF toLoad[p] = {n} THEN "set" ELSE "load")
    /\ UNCHANGED <<db, store, site, hasVers, vers, writer, history>>

\* Mutant of Set: the key is built from the versions of the moment.
SetUnderCurrentVersions(p) ==
    /\ At(p, "set")
    /\ hasVers[p] /\ Cacheable(p)
    /\ entries' = Stored([EntryOf(p) EXCEPT
                             !.vers = [n \in ScopeOf[site[p]] |-> Version(ver[n])]])
    /\ GoTo(p, "done")
    /\ UNCHANGED <<db, ver, lateSets, lateIncrs, site, hasVers, vers, toLoad, val,
                   writer, history>>

\* The result is stored under the versions read before the loader ran.
Set(p) ==
    /\ At(p, "set")
    /\ hasVers[p] /\ Cacheable(p)
    /\ entries' = Stored(EntryOf(p))
    /\ GoTo(p, "done")
    /\ UNCHANGED <<db, ver, lateSets, lateIncrs, site, hasVers, vers, toLoad, val,
                   writer, history>>

\* withTimeout abandons the set but does not cancel it.
SetTimesOut(p) ==
    /\ "set" \in Faults
    /\ At(p, "set")
    /\ hasVers[p] /\ Cacheable(p)
    /\ lateSets' \in {lateSets, lateSets \cup {EntryOf(p)}}
    /\ GoTo(p, "done")
    /\ UNCHANGED <<db, ver, entries, lateIncrs, site, hasVers, vers, toLoad, val,
                   writer, history>>

\* Mutant of NotStored: a read without versions is not let through.
NotStoredIfEmpty(p) ==
    /\ At(p, "set")
    /\ hasVers[p] /\ ~Cacheable(p)
    /\ GoTo(p, "done")
    /\ UNCHANGED <<db, store, site, hasVers, vers, toLoad, val, writer, history>>

\* No versions to store under, or nothing worth storing.
NotStored(p) ==
    /\ At(p, "set")
    /\ ~(hasVers[p] /\ Cacheable(p))
    /\ GoTo(p, "done")
    /\ UNCHANGED <<db, store, site, hasVers, vers, toLoad, val, writer, history>>

Idle(p) ==
    /\ GoTo(p, "idle")
    /\ site' = [site EXCEPT ![p] = AnySite]
    /\ hasVers' = [hasVers EXCEPT ![p] = FALSE]
    /\ vers' = [vers EXCEPT ![p] = NoData]
    /\ toLoad' = [toLoad EXCEPT ![p] = {}]
    /\ val' = [val EXCEPT ![p] = NoData]
    /\ floor' = [floor EXCEPT ![p] = NoData]
    /\ UNCHANGED <<db, store, writer, ackedAt, flushed>>

\* The caller has its result.
Finish(p) == At(p, "done") /\ Idle(p)

\* The loader rejects: getOrLoad rejects with it and stores nothing.
LoadFails(p) == "load" \in Faults /\ At(p, "load") /\ Idle(p)

-----------------------------------------------------------------------------
(* A write request: the database write, then invalidate. *)

\* The write commits and invalidate starts one INCR per distinct namespace.
Commit(w, N) ==
    /\ todo[w] = {} /\ again[w] = {}
    /\ \A n \in N : db[n] < MaxData
    /\ db' = [n \in Namespaces |-> IF n \in N THEN db[n] + 1 ELSE db[n]]
    /\ wdata' = [wdata EXCEPT ![w] = [n \in Namespaces |->
                    IF n \in N THEN db[n] + 1 ELSE 0]]
    /\ todo' = [todo EXCEPT ![w] = N]
    /\ UNCHANGED <<store, reader, again, history>>

\* The first INCR of n; it completes the invalidation unless it returned 1.
Incr(w, n) ==
    /\ n \in todo[w]
    /\ todo' = [todo EXCEPT ![w] = @ \ {n}]
    /\ ver' = [ver EXCEPT ![n] = Incremented(@)]
    /\ again' = IF Invisible(ver[n]) THEN [again EXCEPT ![w] = @ \cup {n}] ELSE again
    /\ ackedAt' = IF Invisible(ver[n]) THEN ackedAt
                  ELSE [ackedAt EXCEPT ![n] = History(n, Incremented(ver[n]), wdata[w][n])]
    /\ UNCHANGED <<db, entries, lateSets, lateIncrs, reader, wdata, floor, flushed>>

IncrAgain(w, n) ==
    /\ n \in again[w]
    /\ again' = [again EXCEPT ![w] = @ \ {n}]
    /\ ver' = [ver EXCEPT ![n] = Incremented(@)]
    /\ ackedAt' = [ackedAt EXCEPT ![n] = History(n, Incremented(ver[n]), wdata[w][n])]
    /\ UNCHANGED <<db, entries, lateSets, lateIncrs, reader, wdata, todo, floor, flushed>>

\* A failed INCR is only logged, so the write request completes all the same.
\* The INCR is lost, or has merely timed out and is applied later.
IncrFails(w, n) ==
    /\ "incr" \in Faults
    /\ n \in todo[w] \cup again[w]
    /\ todo' = [todo EXCEPT ![w] = @ \ {n}]
    /\ again' = [again EXCEPT ![w] = @ \ {n}]
    /\ lateIncrs' \in {lateIncrs, lateIncrs \cup {<<w, n, n \in again[w]>>}}
    /\ ackedAt' = [ackedAt EXCEPT ![n] = History(n, ver[n], wdata[w][n])]
    /\ UNCHANGED <<db, ver, entries, lateSets, reader, wdata, floor, flushed>>

-----------------------------------------------------------------------------
(* The store. *)

\* A timed-out set reaches the store.
LateSet(e) ==
    /\ e \in lateSets
    /\ entries' = Stored(e)
    /\ lateSets' = lateSets \ {e}
    /\ UNCHANGED <<db, ver, lateIncrs, reader, writer, history>>

\* A timed-out INCR reaches the store, and is repeated if it returned 1.
LateIncr(w, n, second) ==
    /\ <<w, n, second>> \in lateIncrs
    /\ ver' = [ver EXCEPT ![n] = Incremented(@)]
    /\ lateIncrs' = (lateIncrs \ {<<w, n, second>>})
          \cup (IF Invisible(ver[n]) /\ ~second THEN {<<w, n, TRUE>>} ELSE {})
    /\ ackedAt' = [ackedAt EXCEPT ![n] = History(n, Incremented(ver[n]), 0)]
    /\ UNCHANGED <<db, entries, lateSets, reader, writer, floor, flushed>>

\* Mutant of Expire: entries are stored without a TTL.
NeverExpires(e) == e \in entries /\ FALSE /\ UNCHANGED vars

\* An entry's TTL runs out, or the store evicts it.
Expire(e) ==
    /\ e \in entries
    /\ entries' = entries \ {e}
    /\ UNCHANGED <<db, ver, lateSets, lateIncrs, reader, writer, history>>

\* Redis is flushed or restarts empty: values and counters are gone.
Flush ==
    /\ "flush" \in Faults
    /\ entries' = {}
    /\ ver' = NoData
    /\ ackedAt' = [n \in Namespaces |-> <<Acked(n)>>]
    /\ flushed' = TRUE
    /\ UNCHANGED <<db, lateSets, lateIncrs, reader, writer, floor>>

-----------------------------------------------------------------------------
ReadStep(p) ==
    \/ Resolve(p) \/ ResolveFails(p) \/ Hit(p) \/ Miss(p)
    \/ \E n \in Namespaces : Load(p, n)
    \/ LoadFails(p) \/ Set(p) \/ SetTimesOut(p) \/ NotStored(p) \/ Finish(p)

InvalidateStep(w) ==
    \E n \in Namespaces : Incr(w, n) \/ IncrAgain(w, n) \/ IncrFails(w, n)

StoreStep ==
    \/ \E e \in lateSets : LateSet(e)
    \/ \E w \in Writers, n \in Namespaces, second \in BOOLEAN : LateIncr(w, n, second)
    \/ \E e \in entries : Expire(e)
    \/ Flush

Next ==
    \/ \E p \in Readers : (\E s \in Sites : Begin(p, s)) \/ ReadStep(p)
    \/ \E w \in Writers : (\E N \in WriteSets : Commit(w, N)) \/ InvalidateStep(w)
    \/ StoreStep

Spec == Init /\ [][Next]_vars

\* executeOp settles every operation within opTimeoutMs, and the loader is the
\* request's own query: a request that has begun goes on.  Nobody is obliged
\* to send requests, and nothing obliges the store.
FairSpec ==
    /\ Spec
    /\ \A p \in Readers : WF_vars(ReadStep(p))
    /\ \A w \in Writers : WF_vars(InvalidateStep(w))

\* Data the database has moved on from.
Outdated(e) == \E n \in ScopeOf[e.site] : e.val[n] # db[n]

\* Every entry has a TTL, and a set that timed out lands or dies with its
\* connection; the outdated ones are no exception.
TTLSpec ==
    /\ FairSpec
    /\ WF_vars(\E e \in entries : Outdated(e) /\ Expire(e))
    /\ WF_vars(\E e \in lateSets : Outdated(e) /\ LateSet(e))

-----------------------------------------------------------------------------
(* Properties. *)

Resolved(p) == hasVers[p] /\ rpc[p] \in {"get", "load", "set", "done"}

\* The types of the variables.
TypeOK ==
    /\ db \in [Namespaces -> Nat]
    /\ ver \in [Namespaces -> Nat]
    /\ \A e \in entries \cup lateSets :
         /\ e.site \in Sites
         /\ e.vers \in [ScopeOf[e.site] -> Nat]
         /\ e.val \in [ScopeOf[e.site] -> Nat]
    /\ lateIncrs \subseteq Writers \X Namespaces \X BOOLEAN
    /\ rpc \in [Readers -> {"idle", "resolve", "get", "load", "set", "done"}]
    /\ site \in [Readers -> Sites]
    /\ hasVers \in [Readers -> BOOLEAN]
    /\ vers \in [Readers -> [Namespaces -> Nat]]
    /\ toLoad \in [Readers -> SUBSET Namespaces]
    /\ val \in [Readers -> [Namespaces -> Nat]]
    /\ wdata \in [Writers -> [Namespaces -> Nat]]
    /\ todo \in [Writers -> SUBSET Namespaces]
    /\ again \in [Writers -> SUBSET Namespaces]
    /\ ackedAt \in [Namespaces -> Seq(Nat)]
    /\ \A n \in Namespaces : Len(ackedAt[n]) = Version(ver[n])
    /\ floor \in [Readers -> [Namespaces -> Nat]]

\* Zero stale data (docs/CACHING_STRATEGY.md 1.1): what getOrLoad returns is at
\* least as new, in every namespace the site joins, as each write that had
\* completed when the read began, and is data the database has really held.
FreshRead ==
    \A p \in Readers : rpc[p] = "done" =>
        \A n \in ScopeOf[site[p]] :
            floor[p][n] <= val[p][n] /\ val[p][n] <= db[n]

\* The stale-write race of 1.3 is harmless: a set that lands late, even after
\* its caller gave up on it, sits under versions whose writes it has all seen.
StoredFresh ==
    \A e \in entries \cup lateSets : \A n \in ScopeOf[e.site] :
        /\ e.vers[n] \in 1..Version(ver[n])
        /\ ackedAt[n][e.vers[n]] <= e.val[n]
        /\ e.val[n] <= db[n]

\* What makes it inductive.  The history of a version is closed once the next
\* one begins, and grows with the versions.
HistoryOK ==
    \A n \in Namespaces : \A i \in 1..Len(ackedAt[n]) :
        /\ ackedAt[n][i] <= db[n]
        /\ \A j \in 1..i : ackedAt[n][j] <= ackedAt[n][i]

\* A write is in the database before it is announced, and a counter that is
\* incremented again exists.
WritesOK ==
    \A w \in Writers : \A n \in Namespaces :
        /\ wdata[w][n] <= db[n]
        /\ n \in again[w] => ver[n] # 0

\* A read resolves versions that were current once it had begun, and the data
\* it then loads has seen every write announced under them.
ReadOK(p) ==
    /\ rpc[p] \in {"idle", "resolve"} => ~hasVers[p]
    /\ rpc[p] = "get" => hasVers[p]
    /\ rpc[p] \in {"resolve", "get"} => toLoad[p] = ScopeOf[site[p]]
    /\ rpc[p] = "set" => toLoad[p] = {}
    /\ \A n \in Namespaces : floor[p][n] <= Acked(n)
    /\ \A n \in ScopeOf[site[p]] :
         /\ rpc[p] \in {"get", "load", "set"} /\ hasVers[p] =>
              vers[p][n] \in 1..Version(ver[n]) /\ floor[p][n] <= ackedAt[n][vers[p][n]]
         /\ rpc[p] \in {"load", "set"} /\ n \notin toLoad[p] =>
              /\ floor[p][n] <= val[p][n] /\ val[p][n] <= db[n]
              /\ hasVers[p] => ackedAt[n][vers[p][n]] <= val[p][n]

\* The inductive invariant behind FreshRead: no late INCR is outstanding when
\* none fails, and the parts above.
IInv ==
    /\ TypeOK
    /\ lateIncrs = {}
    /\ HistoryOK
    /\ WritesOK
    /\ StoredFresh
    /\ \A p \in Readers : ReadOK(p)
    /\ FreshRead

\* A lost INCR heals at the next one, as long as the store keeps its counters: data found under
\* a version has seen every write that completed, its own INCR lost or not, before that version began.
LostIncrHeals ==
    ~flushed => \A p \in Readers : Resolved(p) /\ rpc[p] = "done" =>
        \A n \in ScopeOf[site[p]] :
            vers[p][n] > 1 => ackedAt[n][vers[p][n] - 1] <= val[p][n]

\* No negative caching (1.3 rule 5): once a create has completed no later read
\* finds the rows missing, even when the INCR of the create was lost.
CreateIsSeen ==
    \A p \in Readers : rpc[p] = "done" =>
        LET n == OwnOf[site[p]] IN val[p][n] = 0 => floor[p][n] = 0

\* Redis is never a hard dependency (1.5): every read that begins returns.
EveryReadReturns == \A p \in Readers : rpc[p] # "idle" ~> rpc[p] = "idle"

\* TTL is the safety net (1.3 rule 6): once the writes have stopped, reads are
\* eventually fresh again for good, whatever INCRs and flushes went wrong.
StaleReadsEnd ==
    <>[](\A p \in Readers : rpc[p] = "done" =>
            \A n \in ScopeOf[site[p]] : val[p][n] = db[n])

\* The reads of FreshReads, seen through getOrLoad.
ReadOf(p) ==
    IF rpc[p] = "idle" THEN [status |-> "idle"]
    ELSE IF rpc[p] = "done" THEN [status |-> "returned", value |-> Result(p)]
    ELSE [status |-> "running", scope |-> ScopeOf[site[p]], floor |-> floor[p]]

Promise == INSTANCE FreshReads WITH
    acked <- [n \in Namespaces |-> Acked(n)],
    reads <- [p \in Readers |-> ReadOf(p)]

\* The cache implements its promise: every step of getOrLoad, invalidate and the
\* store is a step of FreshReads or changes nothing it can see.
KeepsPromise == Promise!Spec
=============================================================================

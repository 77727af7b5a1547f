------------------------- MODULE CacheServiceProofs -------------------------
(***************************************************************************)
(* The freshness of the cache, and that it implements FreshReads, for any  *)
(* namespaces, sites, readers, writers and provider, as long as no INCR is *)
(* lost and the store keeps its keys (NoLoss).                             *)
(*                                                                         *)
(* FreshRead alone is not inductive: a hit returns what some other read    *)
(* stored.  IInv therefore bounds from below what is under every versioned *)
(* key.  ackedAt[n][v] is the newest write announced while n was at        *)
(* version v, and an entry under version v has seen it (StoredFresh): its  *)
(* reader resolved v before it loaded (ReadOK), a write is in the database *)
(* before it is announced (WritesOK), and announcing a write begins a new  *)
(* version, so that ackedAt[n][v] is final once v is past (AdvanceStep).   *)
(* A reader that finds the entry resolved v after it began, and everything *)
(* completed by then was announced under v or earlier (HistoryOK).         *)
(*                                                                         *)
(* The last part does without NoLoss.  LossInv holds whatever is lost, and *)
(* HealInv as long as the store keeps its counters: a lost INCR announces  *)
(* its write under the version that it was to end, so what is under v has  *)
(* seen what was announced under v - 1 (Healed), and an INCR, lost or not, *)
(* leaves that closed part of the history alone (HistoryStep).             *)
(*                                                                         *)
(* At the end, the safety of the breaker that each of these operations     *)
(* passes, for any number of them and any setting of CACHE_CB_FAILURES,    *)
(* CACHE_OP_TIMEOUT_MS and CACHE_CB_COOLDOWN_MS.  The bound on what a dead *)
(* Redis costs is not inductive: it needs to know where the attempts went. *)
(* While the count of failures is below CbFailures, every unanswered       *)
(* attempt has failed or is in flight.  Once it is there, a failure opens  *)
(* the circuit for a cooldown, so the attempts between two openings were   *)
(* all in flight at once, and the k-th opening lasts until at least k      *)
(* cooldowns after the last answer.                                        *)
(***************************************************************************)
EXTENDS CacheService, CircuitBreaker, SequenceTheorems, FiniteSetTheorems, TLAPS

\* The history of n has one entry per version.
LEMMA AckedInRange ==
    ASSUME TypeOK, NEW n \in Namespaces
    PROVE  /\ ackedAt[n] \in Seq(Nat)
           /\ Len(ackedAt[n]) \in Nat \ {0}
           /\ Len(ackedAt[n]) = Version(ver[n])
           /\ Acked(n) \in Nat
<1>1. /\ ackedAt[n] \in Seq(Nat)
      /\ ver[n] \in Nat
      /\ Len(ackedAt[n]) = Version(ver[n])
  BY DEF TypeOK
<1>2. Len(ackedAt[n]) \in Nat \ {0}
  BY <1>1 DEF Version
<1>3. Acked(n) \in Nat
  BY <1>1, <1>2, ElementOfSeq DEF Acked
<1> QED BY <1>1, <1>2, <1>3

\* The invariant holds at first.
LEMMA InitStep == Init => IInv
<1> SUFFICES ASSUME Init PROVE IInv
  OBVIOUS
<1> USE SiteAssumption
<1>1. TypeOK
  BY DEF Init, TypeOK, NoData, AnySite, Version
<1>2. HistoryOK /\ WritesOK
  BY DEF Init, HistoryOK, WritesOK, NoData
<1>3. StoredFresh /\ FreshRead
  BY DEF Init, StoredFresh, FreshRead
<1>4. \A p \in Readers : ReadOK(p)
  BY DEF Init, ReadOK, NoData, Acked
<1> QED BY <1>1, <1>2, <1>3, <1>4 DEF IInv, Init

-----------------------------------------------------------------------------
(* The steps of a read. *)

\* Nothing but the reader p and the entries changes.
OnlyReader(p) ==
    /\ UNCHANGED <<db, ver, lateIncrs, wdata, todo, again, ackedAt>>
    /\ \A q \in Readers \ {p} :
         /\ rpc'[q] = rpc[q] /\ site'[q] = site[q] /\ hasVers'[q] = hasVers[q]
         /\ vers'[q] = vers[q] /\ toLoad'[q] = toLoad[q] /\ val'[q] = val[q]
         /\ floor'[q] = floor[q]

\* What p returns when it is done is fresh: FreshRead for one reader.
ReturnsFresh(p) ==
    rpc[p] = "done" => \A n \in ScopeOf[site[p]] :
                            floor[p][n] <= val[p][n] /\ val[p][n] <= db[n]

\* A step of p keeps the invariant if it leaves p and the entries in order: the
\* other readers' parts mention nothing that it changes.
LEMMA ReaderStep ==
    ASSUME IInv, NEW p \in Readers, OnlyReader(p),
           TypeOK', StoredFresh', ReadOK(p)', ReturnsFresh(p)'
    PROVE  IInv'
<1>1. HistoryOK' /\ WritesOK' /\ lateIncrs' = {}
  BY DEF IInv, OnlyReader, HistoryOK, WritesOK
<1>2. ASSUME NEW q \in Readers PROVE ReadOK(q)' /\ ReturnsFresh(q)'
  <2>1. CASE q = p
    BY <2>1
  <2>2. CASE q # p
    <3>1. ReadOK(q) /\ ReturnsFresh(q)
      BY DEF IInv, FreshRead, ReturnsFresh
    <3>2. /\ UNCHANGED <<db, ver, ackedAt>>
          /\ rpc'[q] = rpc[q] /\ site'[q] = site[q] /\ hasVers'[q] = hasVers[q]
          /\ vers'[q] = vers[q] /\ toLoad'[q] = toLoad[q] /\ val'[q] = val[q]
          /\ floor'[q] = floor[q]
      BY <2>2 DEF OnlyReader
    <3> QED BY <3>1, <3>2 DEF ReadOK, ReturnsFresh, Acked
  <2> QED BY <2>1, <2>2
<1> QED BY <1>1, <1>2 DEF IInv, FreshRead, ReturnsFresh

\* A read that begins knows no versions and remembers what has completed.
LEMMA BeginStep ==
    ASSUME IInv, NEW p \in Readers, NEW s \in Sites, Begin(p, s)
    PROVE  IInv'
<1> USE SiteAssumption DEF IInv, Begin, vars, store, reader, writer, history, At, GoTo
<1>1. TypeOK'
  BY AckedInRange DEF TypeOK
<1>2. StoredFresh'
  BY DEF StoredFresh
<1>3. OnlyReader(p)
  BY DEF OnlyReader, TypeOK
<1>4. ReadOK(p)'
  <2>1. floor'[p] = [n \in Namespaces |-> Acked(n)] /\ ackedAt' = ackedAt
    BY DEF TypeOK
  <2>2. rpc'[p] \in {"resolve", "load"} /\ ~hasVers'[p] /\ site'[p] = s /\ toLoad'[p] = ScopeOf[s]
    BY DEF TypeOK, ReadOK
  <2> QED BY <2>1, <2>2, AckedInRange DEF ReadOK, Acked
<1>5. ReturnsFresh(p)'
  BY DEF ReturnsFresh, TypeOK
<1> QED BY <1>1, <1>2, <1>3, <1>4, <1>5, ReaderStep

\* The steps below leave floor alone, and those before the result arrives leave
\* the entries alone too.
LEMMA ResolveStep ==
    ASSUME IInv, NEW p \in Readers, Resolve(p)
    PROVE  IInv'
<1> USE SiteAssumption DEF IInv, Resolve, vars, store, reader, writer, history, At, GoTo
<1>1. \A n \in Namespaces : Version(ver[n]) \in Nat
  BY DEF TypeOK, Version
<1>2. TypeOK'
  BY <1>1 DEF TypeOK
<1>3. StoredFresh'
  BY DEF StoredFresh
<1>4. OnlyReader(p)
  BY DEF OnlyReader, TypeOK
<1>5. ReadOK(p)'
  <2>1. rpc'[p] = "get" /\ hasVers'[p] /\ site'[p] = site[p] /\ site[p] \in Sites
    BY DEF TypeOK
  <2>2. ASSUME NEW n \in ScopeOf[site[p]]
        PROVE  vers'[p][n] \in 1..Version(ver[n]) /\ floor[p][n] <= ackedAt[n][vers'[p][n]]
    <3>1. n \in Namespaces /\ vers'[p][n] = Version(ver[n]) /\ floor[p][n] <= Acked(n)
      BY <2>1, <2>2 DEF TypeOK, ReadOK
    <3> QED BY <3>1, AckedInRange DEF Acked
  <2>3. \A n \in Namespaces : floor'[p][n] <= Acked(n)'
    BY DEF ReadOK, Acked
  <2> QED BY <2>1, <2>2, <2>3 DEF ReadOK
<1>6. ReturnsFresh(p)'
  BY DEF ReturnsFresh, TypeOK
<1> QED BY <1>2, <1>3, <1>4, <1>5, <1>6, ReaderStep

\* Without versions nothing is promised of what will be stored.
LEMMA ResolveFailsStep ==
    ASSUME IInv, NEW p \in Readers, ResolveFails(p) \/ Miss(p)
    PROVE  IInv'
<1> USE SiteAssumption
        DEF IInv, ResolveFails, Miss, vars, store, reader, writer, history, At, GoTo
<1>1. TypeOK'
  BY DEF TypeOK
<1>2. StoredFresh'
  BY DEF StoredFresh
<1>3. OnlyReader(p)
  BY DEF OnlyReader, TypeOK
<1>4. /\ rpc[p] \in {"resolve", "get"} /\ rpc'[p] = "load" /\ toLoad' = toLoad
      /\ UNCHANGED <<site, hasVers, vers, val, floor, ackedAt, ver, db>>
  BY DEF TypeOK
<1>5. toLoad[p] = ScopeOf[site[p]]
  BY <1>4 DEF ReadOK
<1>6. ReadOK(p)'
  BY <1>4, <1>5 DEF ReadOK, Acked
<1>7. ReturnsFresh(p)'
  BY <1>4 DEF ReturnsFresh
<1> QED BY <1>1, <1>2, <1>3, <1>6, <1>7, ReaderStep

\* The entry found under the versions of p is fresh, because entries are and the
\* versions were resolved after p began.
LEMMA HitStep ==
    ASSUME IInv, NEW p \in Readers, Hit(p)
    PROVE  IInv'
<1> USE SiteAssumption DEF IInv, Hit, vars, store, reader, writer, history, At, GoTo
<1>1. PICK e \in Matching(p) :
        val' = [val EXCEPT ![p] = [n \in Namespaces |->
                  IF n \in ScopeOf[site[p]] THEN e.val[n] ELSE 0]]
  OBVIOUS
<1>2. e \in entries /\ e.site = site[p] /\ e.vers = KeyVersions(p)
  BY <1>1 DEF Matching
<1>3. e.val \in [ScopeOf[site[p]] -> Nat] /\ site[p] \in Sites
  BY <1>2 DEF TypeOK
<1>4. TypeOK'
  BY <1>1, <1>3 DEF TypeOK
<1>5. StoredFresh'
  BY DEF StoredFresh
<1>6. OnlyReader(p)
  BY <1>1 DEF OnlyReader, TypeOK
<1>7. rpc'[p] = "done" /\ site'[p] = site[p]
  BY DEF TypeOK
<1>8. ReadOK(p)'
  BY <1>7 DEF ReadOK, Acked
<1>9. ReturnsFresh(p)'
  <2> SUFFICES ASSUME NEW n \in ScopeOf[site[p]]
               PROVE  floor[p][n] <= val'[p][n] /\ val'[p][n] <= db[n]
    BY <1>7 DEF ReturnsFresh
  <2>1. n \in Namespaces /\ val'[p][n] = e.val[n] /\ e.vers[n] = vers[p][n]
    BY <1>1, <1>2, <1>3 DEF TypeOK, KeyVersions
  <2>2. vers[p][n] \in 1..Len(ackedAt[n]) /\ floor[p][n] <= ackedAt[n][vers[p][n]]
    BY <2>1, AckedInRange DEF ReadOK
  <2>3. ackedAt[n][vers[p][n]] <= e.val[n] /\ e.val[n] <= db[n]
    BY <1>2, <2>1 DEF StoredFresh
  <2>4. floor[p][n] \in Nat /\ e.val[n] \in Nat
    <3>1. floor \in [Readers -> [Namespaces -> Nat]]
      BY DEF TypeOK
    <3>2. n \in ScopeOf[site[p]]
      OBVIOUS
    <3> QED BY <1>3, <2>1, <3>1, <3>2
  <2>5. ackedAt[n][vers[p][n]] \in Nat
    BY <2>1, <2>2, AckedInRange, ElementOfSeq
  <2> QED BY <2>1, <2>2, <2>3, <2>4, <2>5
<1> QED BY <1>4, <1>5, <1>6, <1>8, <1>9, ReaderStep

\* The heart of the argument: the database holds every write announced so far, so
\* what is loaded is as new as the versions that were resolved before.
LEMMA LoadStep ==
    ASSUME IInv, NEW p \in Readers, NEW m \in Namespaces, Load(p, m)
    PROVE  IInv'
<1> USE SiteAssumption DEF IInv, Load, vars, store, reader, writer, history, At, GoTo
<1>1. TypeOK'
  BY DEF TypeOK
<1>2. StoredFresh'
  BY DEF StoredFresh
<1>3. OnlyReader(p)
  BY DEF OnlyReader, TypeOK
<1>4. /\ rpc[p] = "load" /\ rpc'[p] \in {"load", "set"} /\ site'[p] = site[p]
      /\ hasVers'[p] = hasVers[p] /\ vers'[p] = vers[p] /\ floor'[p] = floor[p]
      /\ toLoad'[p] = toLoad[p] \ {m}
      /\ rpc'[p] = "set" => toLoad'[p] = {}
      /\ val'[p][m] = db[m]
      /\ \A n \in Namespaces \ {m} : val'[p][n] = val[p][n]
  BY DEF TypeOK
<1>5. ReadOK(p)'
  <2>1. ASSUME NEW n \in ScopeOf[site[p]], n \notin toLoad'[p]
        PROVE  /\ floor[p][n] <= val'[p][n] /\ val'[p][n] <= db[n]
               /\ hasVers[p] => ackedAt[n][vers[p][n]] <= val'[p][n]
    <3>1. n \in Namespaces
      BY DEF TypeOK
    <3>2. CASE n = m
      <4>1. Acked(m) <= db[m]
        <5>1. HistoryOK /\ Len(ackedAt[m]) \in 1..Len(ackedAt[m])
          BY AckedInRange
        <5> QED BY <5>1 DEF HistoryOK, Acked
      <4>4. floor[p][m] <= Acked(m) /\ floor[p][m] \in Nat /\ db[m] \in Nat
        BY DEF ReadOK, TypeOK
      <4>2. hasVers[p] => vers[p][m] \in 1..Len(ackedAt[m])
        BY <1>4, <3>2, AckedInRange DEF ReadOK
      <4>3. hasVers[p] => ackedAt[m][vers[p][m]] <= db[m]
        BY <4>2 DEF HistoryOK
      <4> QED BY <1>4, <3>2, <4>1, <4>3, <4>4, AckedInRange
    <3>3. CASE n # m
      BY <1>4, <2>1, <3>1, <3>3 DEF ReadOK
    <3> QED BY <3>2, <3>3
  <2>2. \A n \in ScopeOf[site[p]] : hasVers[p] =>
           vers[p][n] \in 1..Version(ver[n]) /\ floor[p][n] <= ackedAt[n][vers[p][n]]
    BY <1>4 DEF ReadOK
  <2>3. \A n \in Namespaces : floor[p][n] <= Acked(n)
    BY DEF ReadOK
  <2> QED BY <1>4, <2>1, <2>2, <2>3 DEF ReadOK, Acked
<1>6. ReturnsFresh(p)'
  BY <1>4 DEF ReturnsFresh
<1> QED BY <1>1, <1>2, <1>3, <1>5, <1>6, ReaderStep

\* What a read is about to store may be stored.
LEMMA OwnEntry ==
    ASSUME IInv, NEW p \in Readers, rpc[p] = "set", hasVers[p]
    PROVE  /\ EntryOf(p).site \in Sites
           /\ EntryOf(p).vers \in [ScopeOf[EntryOf(p).site] -> Nat]
           /\ EntryOf(p).val \in [ScopeOf[EntryOf(p).site] -> Nat]
           /\ \A n \in ScopeOf[EntryOf(p).site] :
                /\ EntryOf(p).vers[n] \in 1..Version(ver[n])
                /\ ackedAt[n][EntryOf(p).vers[n]] <= EntryOf(p).val[n]
                /\ EntryOf(p).val[n] <= db[n]
<1> USE SiteAssumption DEF IInv
<1>1. site[p] \in Sites /\ ScopeOf[site[p]] \subseteq Namespaces
  BY DEF TypeOK
<1>2. \A n \in Namespaces : vers[p][n] \in Nat /\ val[p][n] \in Nat
  BY DEF TypeOK
<1>3. \A n \in ScopeOf[site[p]] :
        /\ vers[p][n] \in 1..Version(ver[n])
        /\ ackedAt[n][vers[p][n]] <= val[p][n]
        /\ val[p][n] <= db[n]
  BY DEF ReadOK
<1> QED BY <1>1, <1>2, <1>3 DEF EntryOf, KeyVersions, Result

\* Set, SetTimesOut and NotStored: only what may be stored is.
LEMMA SetStep ==
    ASSUME IInv, NEW p \in Readers, Set(p) \/ SetTimesOut(p) \/ NotStored(p)
    PROVE  IInv'
<1> USE SiteAssumption
        DEF IInv, Set, SetTimesOut, NotStored, vars, store, reader, writer, history, At, GoTo
<1>1. /\ rpc[p] = "set"
      /\ rpc' = [rpc EXCEPT ![p] = "done"]
      /\ UNCHANGED <<db, ver, lateIncrs, site, hasVers, vers, toLoad, val, wdata, todo,
                     again, ackedAt, floor>>
  OBVIOUS
<1>2. \A e \in entries' \cup lateSets' :
        e \in entries \cup lateSets \/ (hasVers[p] /\ e = EntryOf(p))
  BY DEF Stored
<1>3. TypeOK'
  <2>1. \A e \in entries' \cup lateSets' :
          /\ e.site \in Sites
          /\ e.vers \in [ScopeOf[e.site] -> Nat]
          /\ e.val \in [ScopeOf[e.site] -> Nat]
    BY <1>1, <1>2, OwnEntry DEF TypeOK
  <2> QED BY <1>1, <2>1 DEF TypeOK
<1>4. StoredFresh'
  BY <1>1, <1>2, OwnEntry DEF StoredFresh
<1>5. OnlyReader(p)
  BY <1>1 DEF OnlyReader, TypeOK
<1>6. rpc'[p] = "done"
  BY <1>1 DEF TypeOK
<1>7. ReadOK(p)'
  BY <1>1, <1>6 DEF ReadOK, Acked
<1>8. ReturnsFresh(p)'
  BY <1>1, <1>6 DEF ReturnsFresh, ReadOK
<1> QED BY <1>3, <1>4, <1>5, <1>7, <1>8, ReaderStep

\* Finish and LoadFails forget the read.
LEMMA IdleStep ==
    ASSUME IInv, NEW p \in Readers, Finish(p) \/ LoadFails(p)
    PROVE  IInv'
<1> USE SiteAssumption
        DEF IInv, Idle, vars, store, reader, writer, history, At, GoTo
<1>0. Idle(p)
  BY DEF Finish, LoadFails
<1>1. AnySite \in Sites
  BY DEF AnySite
<1>2. NoData \in [Namespaces -> Nat]
  BY DEF NoData
<1>3. TypeOK'
  BY <1>0, <1>1, <1>2 DEF TypeOK
<1>4. StoredFresh'
  BY <1>0 DEF StoredFresh
<1>5. OnlyReader(p)
  BY <1>0 DEF OnlyReader, TypeOK
<1>6. rpc'[p] = "idle" /\ ~hasVers'[p] /\ floor'[p] = NoData /\ ackedAt' = ackedAt
  BY <1>0 DEF TypeOK
<1>7. ReadOK(p)'
  <2>1. \A n \in Namespaces : floor'[p][n] <= Acked(n)
    BY <1>6, AckedInRange DEF NoData
  <2>2. toLoad'[p] = {} /\ rpc'[p] = "idle" /\ ~hasVers'[p]
    BY <1>0 DEF TypeOK
  <2> QED BY <1>6, <2>1, <2>2 DEF ReadOK, Acked
<1>8. ReturnsFresh(p)'
  BY <1>6 DEF ReturnsFresh
<1> QED BY <1>3, <1>4, <1>5, <1>7, <1>8, ReaderStep

-----------------------------------------------------------------------------
(* The steps of a write and of the store. *)

\* A commit only makes the database newer.
LEMMA CommitStep ==
    ASSUME IInv, NEW w \in Writers, NEW N \in WriteSets, Commit(w, N)
    PROVE  IInv'
<1> USE SiteAssumption, ConfigAssumption
        DEF IInv, Commit, vars, store, reader, writer, history
<1>1. \A n \in Namespaces : db[n] \in Nat /\ db'[n] \in Nat /\ db[n] <= db'[n]
  BY DEF TypeOK
<1>2. TypeOK'
  BY <1>1 DEF TypeOK
<1>3. HistoryOK'
  <2> SUFFICES ASSUME NEW n \in Namespaces, NEW i \in 1..Len(ackedAt[n])
               PROVE  ackedAt[n][i] <= db'[n]
    BY DEF HistoryOK
  <2>1. ackedAt[n][i] \in Nat /\ ackedAt[n][i] <= db[n]
    BY AckedInRange, ElementOfSeq DEF HistoryOK
  <2> QED BY <1>1, <2>1
<1>4. WritesOK'
  <2> SUFFICES ASSUME NEW v \in Writers, NEW n \in Namespaces PROVE wdata'[v][n] <= db'[n]
    BY DEF WritesOK
  <2>1. wdata[v][n] \in Nat /\ wdata[v][n] <= db[n]
    BY DEF WritesOK, TypeOK
  <2> QED BY <1>1, <2>1 DEF TypeOK
<1>5. StoredFresh'
  <2> SUFFICES ASSUME NEW e \in entries \cup lateSets, NEW n \in ScopeOf[e.site]
               PROVE  e.val[n] <= db'[n]
    BY DEF StoredFresh
  <2>1. e.val[n] \in Nat /\ e.val[n] <= db[n] /\ n \in Namespaces
    BY DEF StoredFresh, TypeOK
  <2> QED BY <1>1, <2>1
<1>6. ASSUME NEW p \in Readers PROVE ReadOK(p)' /\ ReturnsFresh(p)'
  <2>1. ReadOK(p) /\ ReturnsFresh(p)
    BY DEF FreshRead, ReturnsFresh
  <2>2. \A n \in ScopeOf[site[p]] :
          n \in Namespaces /\ val[p][n] \in Nat /\ (val[p][n] <= db[n] => val[p][n] <= db'[n])
    <3> SUFFICES ASSUME NEW n \in ScopeOf[site[p]]
                 PROVE n \in Namespaces /\ val[p][n] \in Nat
                       /\ (val[p][n] <= db[n] => val[p][n] <= db'[n])
      OBVIOUS
    <3>1. n \in Namespaces /\ val[p][n] \in Nat
      BY DEF TypeOK
    <3> QED BY <1>1, <3>1
  <2> QED BY <2>1, <2>2 DEF ReadOK, ReturnsFresh, Acked
<1> QED BY <1>2, <1>3, <1>4, <1>5, <1>6 DEF FreshRead, ReturnsFresh

\* The counter of n moves on from v to the next version, c, and the write d of n
\* is announced.
Advance(n, c, d) ==
    /\ UNCHANGED <<db, entries, lateSets, lateIncrs, rpc, site, hasVers, vers, toLoad,
                   val, wdata, floor>>
    /\ ver' = [ver EXCEPT ![n] = c]
    /\ ackedAt' = [ackedAt EXCEPT ![n] = History(n, c, d)]

\* A visible INCR announces a write under a new version and closes the history of
\* the old one, so it takes nothing from what was stored or resolved.
LEMMA AdvanceStep ==
    ASSUME IInv, NEW n \in Namespaces, NEW c \in Nat, NEW d \in Nat,
           Version(c) = Version(ver[n]) + 1, d <= db[n], Advance(n, c, d),
           todo' \in [Writers -> SUBSET Namespaces],
           again' \in [Writers -> SUBSET Namespaces],
           \A w \in Writers : again'[w] \subseteq again[w]
    PROVE  IInv'
<1> USE SiteAssumption DEF IInv, Advance
<1> DEFINE a == Larger(Acked(n), d)
<1>1. /\ ackedAt[n] \in Seq(Nat)
      /\ Len(ackedAt[n]) \in Nat \ {0}
      /\ Len(ackedAt[n]) = Version(ver[n])
      /\ Acked(n) \in Nat
      /\ ver[n] \in Nat
      /\ db[n] \in Nat
  BY AckedInRange DEF TypeOK
<1>2. a \in Nat /\ Acked(n) <= a /\ a <= db[n]
  <2>1. Acked(n) <= db[n]
    <3>1. HistoryOK /\ Len(ackedAt[n]) \in 1..Len(ackedAt[n])
      BY <1>1
    <3> QED BY <3>1 DEF HistoryOK, Acked
  <2> QED BY <1>1, <2>1 DEF Larger
<1>3. ackedAt'[n] = Append(ackedAt[n], a)
  BY <1>1 DEF History, TypeOK
<1> HIDE DEF a
<1>4. /\ ackedAt'[n] \in Seq(Nat)
      /\ Len(ackedAt'[n]) = Len(ackedAt[n]) + 1
      /\ \A i \in 1..Len(ackedAt[n]) : ackedAt'[n][i] = ackedAt[n][i]
      /\ ackedAt'[n][Len(ackedAt[n]) + 1] = a
  <2>1. /\ Append(ackedAt[n], a) \in Seq(Nat)
        /\ Len(Append(ackedAt[n], a)) = Len(ackedAt[n]) + 1
        /\ \A i \in 1..Len(ackedAt[n]) : Append(ackedAt[n], a)[i] = ackedAt[n][i]
        /\ Append(ackedAt[n], a)[Len(ackedAt[n]) + 1] = a
    BY ONLY <1>1, <1>2, AppendProperties
  <2> QED BY ONLY <1>3, <2>1
<1>5. /\ \A m \in Namespaces \ {n} : ackedAt'[m] = ackedAt[m] /\ ver'[m] = ver[m]
      /\ ver'[n] = c
      /\ ackedAt' \in [Namespaces -> Seq(Nat)]
      /\ ver' \in [Namespaces -> Nat]
  BY <1>4 DEF TypeOK
\* What was recorded stays recorded.
<1>6. ASSUME NEW m \in Namespaces, NEW v \in 1..Version(ver[m])
      PROVE  v \in 1..Version(ver'[m]) /\ ackedAt'[m][v] = ackedAt[m][v]
  <2>1. CASE m = n
    <3>1. v \in 1..Len(ackedAt[n]) /\ Version(ver'[m]) = Len(ackedAt[n]) + 1
      BY <1>1, <1>5, <2>1
    <3>2. v \in 1..Version(ver'[m])
      BY <1>1, <3>1
    <3>3. ackedAt'[m][v] = ackedAt[m][v]
      BY <1>4, <2>1, <3>1
    <3> QED BY <3>2, <3>3
  <2>2. CASE m # n
    <3>1. ackedAt'[m] = ackedAt[m] /\ ver'[m] = ver[m]
      BY <1>5, <2>2
    <3> QED BY <3>1
  <2> QED BY <2>1, <2>2
<1>7. TypeOK'
  <2>1. \A m \in Namespaces : Len(ackedAt'[m]) = Version(ver'[m])
    BY <1>1, <1>4, <1>5 DEF TypeOK
  <2> QED BY <1>5, <2>1 DEF TypeOK
<1>8. HistoryOK'
  <2> SUFFICES ASSUME NEW m \in Namespaces, NEW i \in 1..Len(ackedAt'[m])
               PROVE  /\ ackedAt'[m][i] <= db[m]
                      /\ \A j \in 1..i : ackedAt'[m][j] <= ackedAt'[m][i]
    BY DEF HistoryOK
  <2>1. CASE m # n
    <3>1. ackedAt'[m] = ackedAt[m]
      BY <1>5, <2>1
    <3> QED BY <3>1 DEF HistoryOK
  <2>2. CASE m = n /\ i <= Len(ackedAt[n])
    <3>1. i \in 1..Len(ackedAt[n]) /\ \A j \in 1..i : j \in 1..Len(ackedAt[n])
      BY <1>1, <1>4, <2>2
    <3> QED BY <1>4, <2>2, <3>1 DEF HistoryOK
  <2>3. CASE m = n /\ i = Len(ackedAt[n]) + 1
    <3>1. ackedAt'[n][i] = a
      BY <1>4, <2>3
    <3>2. ASSUME NEW j \in 1..Len(ackedAt[n]) PROVE ackedAt'[n][j] <= a
      <4>1. ackedAt[n][j] <= Acked(n) /\ ackedAt[n][j] \in Nat
        <5>1. HistoryOK /\ Len(ackedAt[n]) \in 1..Len(ackedAt[n])
          BY <1>1
        <5>2. ackedAt[n][j] <= ackedAt[n][Len(ackedAt[n])]
          BY <5>1 DEF HistoryOK
        <5>3. ackedAt[n][j] \in Nat
          BY <1>1, ElementOfSeq
        <5> QED BY <5>2, <5>3 DEF Acked
      <4>2. ackedAt'[n][j] = ackedAt[n][j]
        BY <1>4
      <4>3. Acked(n) \in Nat
        BY <1>1
      <4> QED BY ONLY <1>2, <4>1, <4>2, <4>3
    <3> QED BY <1>1, <1>2, <2>3, <3>1, <3>2
  <2> QED BY <1>1, <1>4, <2>1, <2>2, <2>3
<1>9. WritesOK'
  <2> SUFFICES ASSUME NEW w \in Writers, NEW m \in Namespaces, m \in again'[w]
               PROVE  ver'[m] # 0
    BY DEF WritesOK
  <2>1. ver[m] # 0
    BY DEF WritesOK
  <2>2. c # 0
    BY <1>1 DEF Version
  <2> QED BY <1>5, <2>1, <2>2
<1>10. StoredFresh'
  <2> SUFFICES ASSUME NEW e \in entries \cup lateSets, NEW m \in ScopeOf[e.site]
               PROVE  /\ e.vers[m] \in 1..Version(ver'[m])
                      /\ ackedAt'[m][e.vers[m]] <= e.val[m]
                      /\ e.val[m] <= db[m]
    BY DEF StoredFresh
  <2>1. m \in Namespaces
    BY DEF TypeOK
  <2>2. /\ e.vers[m] \in 1..Version(ver[m])
        /\ ackedAt[m][e.vers[m]] <= e.val[m]
        /\ e.val[m] <= db[m]
    BY DEF StoredFresh
  <2>3. /\ e.vers[m] \in 1..Version(ver'[m])
        /\ ackedAt'[m][e.vers[m]] = ackedAt[m][e.vers[m]]
    BY <1>6, <2>1, <2>2
  <2> QED BY <2>2, <2>3
<1>11. \A m \in Namespaces : Acked(m) <= Acked(m)'
  <2> SUFFICES ASSUME NEW m \in Namespaces PROVE Acked(m) <= Acked(m)'
    OBVIOUS
  <2>1. Acked(n)' = a
    BY <1>4 DEF Acked
  <2>2. m # n => Acked(m)' = Acked(m)
    BY <1>5 DEF Acked
  <2>3. Acked(m) \in Nat
    BY AckedInRange
  <2>4. CASE m = n
    BY ONLY <1>2, <2>1, <2>4
  <2>5. CASE m # n
    BY ONLY <2>2, <2>3, <2>5
  <2> QED BY <2>4, <2>5
<1>12. ASSUME NEW p \in Readers PROVE ReadOK(p)' /\ ReturnsFresh(p)'
  <2>1. ReadOK(p) /\ ReturnsFresh(p)
    BY DEF FreshRead, ReturnsFresh
  <2>2. \A m \in Namespaces : floor[p][m] <= Acked(m)'
    <3> SUFFICES ASSUME NEW m \in Namespaces PROVE floor[p][m] <= Acked(m)'
      OBVIOUS
    <3>1. floor[p][m] \in Nat /\ Acked(m) \in Nat
      <4>1. floor \in [Readers -> [Namespaces -> Nat]]
        BY DEF TypeOK
      <4> QED BY <4>1, AckedInRange
    <3>3. floor[p][m] <= Acked(m)
      BY <2>1 DEF ReadOK
    <3>2. Acked(m)' \in Nat
      <4>1. Acked(n)' = a
        BY <1>4 DEF Acked
      <4>2. m # n => Acked(m)' = Acked(m)
        BY <1>5 DEF Acked
      <4> QED BY <1>2, <3>1, <4>1, <4>2
    <3> QED BY <1>11, <3>1, <3>2, <3>3
  <2>3. \A m \in ScopeOf[site[p]] : m \in Namespaces
    BY DEF TypeOK
  <2> QED BY <1>6, <2>1, <2>2, <2>3 DEF ReadOK, ReturnsFresh
<1> QED BY <1>7, <1>8, <1>9, <1>10, <1>12 DEF FreshRead, ReturnsFresh

\* The first INCR of a missing key in Redis: the counter exists now, and reads
\* as it did before.
LEMMA InvisibleStep ==
    ASSUME IInv, NEW w \in Writers, NEW n \in Namespaces, Incr(w, n), Invisible(ver[n])
    PROVE  IInv'
<1> USE SiteAssumption, ConfigAssumption
        DEF IInv, Incr, vars, store, reader, writer, history
<1>1. /\ ver' = [ver EXCEPT ![n] = Incremented(@)]
      /\ again' = [again EXCEPT ![w] = @ \cup {n}]
      /\ todo' = [todo EXCEPT ![w] = @ \ {n}]
      /\ UNCHANGED <<db, entries, lateSets, lateIncrs, rpc, site, hasVers, vers, toLoad,
                     val, wdata, ackedAt, floor>>
  OBVIOUS
<1>2. Incremented(ver[n]) = 1 /\ ver[n] = 0
  BY DEF Invisible, Incremented, TypeOK
<1>3. \A m \in Namespaces : ver'[m] \in Nat /\ Version(ver'[m]) = Version(ver[m])
  BY <1>1, <1>2 DEF TypeOK, Version
<1>4. TypeOK'
  <2>1. ver' \in [Namespaces -> Nat]
    BY <1>1, <1>2 DEF TypeOK
  <2>2. \A m \in Namespaces : Len(ackedAt'[m]) = Version(ver'[m])
    BY <1>1, <1>3 DEF TypeOK
  <2>3. todo' \in [Writers -> SUBSET Namespaces] /\ again' \in [Writers -> SUBSET Namespaces]
    BY <1>1 DEF TypeOK
  <2> QED BY <1>1, <2>1, <2>2, <2>3 DEF TypeOK
<1>5. HistoryOK'
  BY <1>1 DEF HistoryOK
<1>6. WritesOK'
  BY <1>1, <1>2 DEF WritesOK, TypeOK
<1>7. StoredFresh'
  <2> SUFFICES ASSUME NEW e \in entries \cup lateSets, NEW m \in ScopeOf[e.site]
               PROVE  /\ e.vers[m] \in 1..Version(ver'[m])
                      /\ ackedAt[m][e.vers[m]] <= e.val[m]
                      /\ e.val[m] <= db[m]
    BY <1>1 DEF StoredFresh
  <2>1. m \in Namespaces
    BY DEF TypeOK
  <2>2. Version(ver'[m]) = Version(ver[m])
    BY <1>3, <2>1
  <2> QED BY <2>2 DEF StoredFresh
<1>8. ASSUME NEW p \in Readers PROVE ReadOK(p)' /\ ReturnsFresh(p)'
  <2>0. ReadOK(p) /\ ReturnsFresh(p)
    BY DEF FreshRead, ReturnsFresh
  <2>1. ReadOK(p) /\ ReturnsFresh(p) /\ ScopeOf[site[p]] \subseteq Namespaces
    <3>1. site[p] \in Sites
      BY DEF TypeOK
    <3> QED BY <2>0, <3>1
  <2>2. \A m \in ScopeOf[site[p]] : Version(ver'[m]) = Version(ver[m])
    BY <1>3, <2>1
  <2>3. ReadOK(p)'
    BY <1>1, <2>1, <2>2 DEF ReadOK, Acked
  <2>4. ReturnsFresh(p)'
    BY <1>1, <2>1 DEF ReturnsFresh
  <2> QED BY <2>3, <2>4
<1> QED BY <1>1, <1>4, <1>5, <1>6, <1>7, <1>8 DEF FreshRead, ReturnsFresh

\* The first INCR is visible or not.
LEMMA IncrStep ==
    ASSUME IInv, NEW w \in Writers, NEW n \in Namespaces, Incr(w, n)
    PROVE  IInv'
<1>1. CASE Invisible(ver[n])
  BY <1>1, InvisibleStep
<1>2. CASE ~Invisible(ver[n])
  <2> DEFINE c == Incremented(ver[n])
             d == wdata[w][n]
  <2>1. ver[n] \in Nat /\ d \in Nat /\ d <= db[n]
    BY DEF IInv, TypeOK, WritesOK
  <2>2. c \in Nat /\ Version(c) = Version(ver[n]) + 1
    BY <1>2, <2>1, ConfigAssumption DEF Invisible, Incremented, Version
  <2>3. Advance(n, c, d)
    BY <1>2 DEF Incr, Advance, reader
  <2>4. todo' \in [Writers -> SUBSET Namespaces] /\ again' = again
    BY <1>2 DEF Incr, IInv, TypeOK
  <2>5. again \in [Writers -> SUBSET Namespaces]
    BY DEF IInv, TypeOK
  <2> HIDE DEF c, d
  <2> QED BY <2>1, <2>2, <2>3, <2>4, <2>5, AdvanceStep
<1> QED BY <1>1, <1>2

\* The second INCR finds a counter and is visible.
LEMMA IncrAgainStep ==
    ASSUME IInv, NEW w \in Writers, NEW n \in Namespaces, IncrAgain(w, n)
    PROVE  IInv'
<1> DEFINE c == Incremented(ver[n])
           d == wdata[w][n]
<1>1. ver[n] \in Nat /\ ver[n] # 0 /\ d \in Nat /\ d <= db[n]
  BY DEF IInv, TypeOK, WritesOK, IncrAgain
<1>2. c \in Nat /\ Version(c) = Version(ver[n]) + 1
  BY <1>1, ConfigAssumption DEF Incremented, Version
<1>3. Advance(n, c, d)
  BY DEF IncrAgain, Advance, reader
<1>4. /\ again' = [again EXCEPT ![w] = @ \ {n}]
      /\ todo' = todo
      /\ todo \in [Writers -> SUBSET Namespaces]
      /\ again \in [Writers -> SUBSET Namespaces]
  BY DEF IncrAgain, IInv, TypeOK
<1>5. /\ again' \in [Writers -> SUBSET Namespaces]
      /\ \A x \in Writers : again'[x] \subseteq again[x]
  BY <1>4
<1> HIDE DEF c, d
<1> QED BY <1>1, <1>2, <1>3, <1>4, <1>5, AdvanceStep

\* Entries and late sets only disappear, or change places.
LEMMA StoreStepOK ==
    ASSUME IInv, entries' \cup lateSets' \subseteq entries \cup lateSets,
           UNCHANGED <<db, ver, lateIncrs, reader, writer, history>>
    PROVE  IInv'
<1> USE DEF IInv, reader, writer, history
<1>1. TypeOK'
  BY DEF TypeOK
<1>2. HistoryOK' /\ WritesOK' /\ StoredFresh' /\ FreshRead'
  BY DEF HistoryOK, WritesOK, StoredFresh, FreshRead
<1>3. ASSUME NEW p \in Readers PROVE ReadOK(p)'
  BY DEF ReadOK, Acked
<1> QED BY <1>1, <1>2, <1>3

\* The invariant is inductive.
LEMMA NextStep ==
    ASSUME NoLoss, IInv, [Next]_vars
    PROVE  IInv'
<1>1. ASSUME NEW p \in Readers, NEW s \in Sites, Begin(p, s) PROVE IInv'
  BY <1>1, BeginStep
<1>2. ASSUME NEW p \in Readers, ReadStep(p) PROVE IInv'
  BY <1>2, ResolveStep, ResolveFailsStep, HitStep, LoadStep, SetStep, IdleStep DEF ReadStep
<1>3. ASSUME NEW w \in Writers, NEW N \in WriteSets, Commit(w, N) PROVE IInv'
  BY <1>3, CommitStep
<1>4. ASSUME NEW w \in Writers, InvalidateStep(w) PROVE IInv'
  <2>1. \A n \in Namespaces : ~IncrFails(w, n)
    BY DEF NoLoss, IncrFails
  <2> QED BY <1>4, <2>1, IncrStep, IncrAgainStep DEF InvalidateStep
<1>5. CASE StoreStep
  <2>1. ASSUME NEW e \in lateSets, LateSet(e) PROVE IInv'
    BY <2>1, StoreStepOK DEF LateSet, Stored
  <2>2. ASSUME NEW e \in entries, Expire(e) PROVE IInv'
    BY <2>2, StoreStepOK DEF Expire
  <2>3. ~Flush
    BY DEF NoLoss, Flush
  <2>4. \A w \in Writers, n \in Namespaces, second \in BOOLEAN : ~LateIncr(w, n, second)
    BY DEF IInv, LateIncr
  <2> QED BY <1>5, <2>1, <2>2, <2>3, <2>4 DEF StoreStep
<1>6. CASE UNCHANGED vars
  BY <1>6, StoreStepOK DEF vars, store, reader, writer, history
<1> QED BY <1>1, <1>2, <1>3, <1>4, <1>5, <1>6 DEF Next

-----------------------------------------------------------------------------
(* The cache implements FreshReads. *)

\* What FreshReads sees.
AckedMap == [n \in Namespaces |-> Acked(n)]
ReadsMap == [p \in Readers |-> ReadOf(p)]

\* The initial states map to initial states.
LEMMA InitMaps == Init => Promise!Init
  BY DEF Init, Promise!Init, Promise!Idle, ReadOf, Acked, NoData

\* Begin starts a read.
LEMMA BeginMaps ==
    ASSUME IInv, NEW p \in Readers, NEW s \in Sites, Begin(p, s)
    PROVE  Promise!Next
<1> USE SiteAssumption
<1>1. /\ rpc[p] = "idle" /\ rpc'[p] \in {"resolve", "load"}
      /\ site'[p] = s /\ floor'[p] = AckedMap
      /\ UNCHANGED <<db, ackedAt>>
  BY DEF Begin, IInv, TypeOK, At, GoTo, AckedMap
<1>2. \A q \in Readers \ {p} : ReadOf(q)' = ReadOf(q)
  BY DEF Begin, IInv, TypeOK, At, GoTo, ReadOf, Result
<1>3. ReadOf(p) = Promise!Idle /\ ReadOf(p)' = Promise!Running(ScopeOf[s], AckedMap)
  BY <1>1 DEF ReadOf, Promise!Idle, Promise!Running
<1>4. ReadsMap' = [ReadsMap EXCEPT ![p] = Promise!Running(ScopeOf[s], AckedMap)]
  BY <1>2, <1>3 DEF ReadsMap
<1>5. Promise!Start(p, ScopeOf[s])
  BY <1>1, <1>3, <1>4 DEF Promise!Start, ReadsMap, AckedMap, Acked
<1> QED BY <1>5 DEF Promise!Next

\* Between Begin and its result a read is running.
LEMMA RunningMaps ==
    ASSUME IInv, NEW p \in Readers,
           \/ Resolve(p) \/ ResolveFails(p) \/ Miss(p)
           \/ \E n \in Namespaces : Load(p, n)
    PROVE  UNCHANGED Promise!vars
<1>1. /\ rpc[p] \in {"resolve", "get", "load"} /\ rpc'[p] \in {"get", "load", "set"}
      /\ \A q \in Readers \ {p} : rpc'[q] = rpc[q] /\ val'[q] = val[q]
      /\ UNCHANGED <<db, ackedAt, site, floor>>
  BY DEF Resolve, ResolveFails, Miss, Load, At, GoTo, IInv, TypeOK, history, reader
<1>2. \A q \in Readers : ReadOf(q)' = ReadOf(q)
  BY <1>1 DEF ReadOf, Result
<1> QED BY <1>1, <1>2 DEF Promise!vars, Acked

\* The step by which a read is done returns from it, and IInv' says with what.
LEMMA ReturnMaps ==
    ASSUME IInv, IInv', NEW p \in Readers,
           Hit(p) \/ Set(p) \/ SetTimesOut(p) \/ NotStored(p)
    PROVE  Promise!Next
<1> USE SiteAssumption
<1>1. /\ rpc[p] \in {"get", "set"} /\ rpc'[p] = "done"
      /\ \A q \in Readers \ {p} : rpc'[q] = rpc[q] /\ val'[q] = val[q]
      /\ UNCHANGED <<db, ackedAt, site, floor>>
  BY DEF Hit, Set, SetTimesOut, NotStored, At, GoTo, IInv, TypeOK, history, reader
<1> DEFINE v == Result(p)'
           sc == ScopeOf[site[p]]
<1>2. \A q \in Readers \ {p} : ReadOf(q)' = ReadOf(q)
  BY <1>1 DEF ReadOf, Result
<1>3. ReadOf(p) = Promise!Running(sc, floor[p]) /\ ReadOf(p)' = Promise!Returned(v)
  BY <1>1 DEF ReadOf, Promise!Running, Promise!Returned
<1>4. sc \subseteq Namespaces /\ v = [n \in sc |-> val'[p][n]]
  BY <1>1 DEF Result, IInv, TypeOK
<1>5. \A n \in sc : /\ floor[p][n] <= v[n] /\ v[n] <= db[n]
                    /\ v[n] \in Nat /\ db[n] \in Nat
  BY <1>1, <1>4 DEF IInv, FreshRead, TypeOK
<1>6. v \in [sc -> UNION {0..db[n] : n \in Namespaces}]
  BY <1>4, <1>5
<1>7. ReadsMap' = [ReadsMap EXCEPT ![p] = Promise!Returned(v)]
  BY <1>2, <1>3 DEF ReadsMap
<1>8. Promise!Return(p)
  <2>1. /\ ReadsMap[p].status = "running" /\ ReadsMap[p].scope = sc
        /\ ReadsMap[p].floor = floor[p]
    BY <1>3 DEF ReadsMap, Promise!Running
  <2>2. UNCHANGED <<db, AckedMap>>
    BY <1>1 DEF AckedMap, Acked
  <2> HIDE DEF v, sc
  <2> QED BY <1>5, <1>6, <1>7, <2>1, <2>2 DEF Promise!Return, ReadsMap, AckedMap
<1> QED BY <1>8 DEF Promise!Next

\* Finish and LoadFails end a read.
LEMMA FinishMaps ==
    ASSUME IInv, NEW p \in Readers, Finish(p) \/ LoadFails(p)
    PROVE  Promise!Next
<1>0. Idle(p)
  BY DEF Finish, LoadFails
<1>1. /\ rpc'[p] = "idle"
      /\ \A q \in Readers \ {p} : /\ rpc'[q] = rpc[q] /\ val'[q] = val[q]
                                 /\ site'[q] = site[q] /\ floor'[q] = floor[q]
      /\ UNCHANGED <<db, ackedAt>>
  BY <1>0 DEF Idle, GoTo, IInv, TypeOK
<1>2. \A q \in Readers \ {p} : ReadOf(q)' = ReadOf(q)
  BY <1>1 DEF ReadOf, Result
<1>3. ReadOf(p)' = Promise!Idle
  BY <1>1 DEF ReadOf, Promise!Idle
<1>4. ReadsMap' = [ReadsMap EXCEPT ![p] = Promise!Idle]
  BY <1>2, <1>3 DEF ReadsMap
<1>5. Promise!Finish(p)
  BY <1>1, <1>4 DEF Promise!Finish, ReadsMap, Acked
<1> QED BY <1>5 DEF Promise!Next

\* Commit is Commit.
LEMMA CommitMaps ==
    ASSUME NEW w \in Writers, NEW N \in WriteSets, Commit(w, N)
    PROVE  Promise!Next
<1>1. Promise!Commit(N)
  BY DEF Commit, Promise!Commit, reader, history, Acked, ReadOf, Result
<1>2. N \in SUBSET Namespaces
  BY ConfigAssumption
<1> QED BY <1>1, <1>2 DEF Promise!Next

\* The reads do not see the writers' and the store's steps.
LEMMA ReadsUnchanged ==
    ASSUME UNCHANGED <<reader, floor>>
    PROVE  ReadsMap' = ReadsMap
  BY DEF reader, ReadsMap, ReadOf, Result

\* Announcing d raises what is announced to d, whether or not the version is new.
LEMMA HistoryLast ==
    ASSUME TypeOK, NEW n \in Namespaces, NEW c, NEW d \in Nat,
           ackedAt' = [ackedAt EXCEPT ![n] = History(n, c, d)]
    PROVE  Acked(n)' = Larger(Acked(n), d)
<1> DEFINE s == ackedAt[n]
           a == Larger(Acked(n), d)
<1>1. s \in Seq(Nat) /\ Len(s) \in Nat \ {0} /\ a \in Nat
  BY AckedInRange DEF Larger
<1>2. ackedAt'[n] = IF Version(c) = Version(ver[n])
                    THEN [s EXCEPT ![Len(s)] = a] ELSE Append(s, a)
  BY DEF History, TypeOK
<1> HIDE DEF s, a
<1>3. CASE Version(c) = Version(ver[n])
  <2>1. /\ Len([s EXCEPT ![Len(s)] = a]) = Len(s)
        /\ [s EXCEPT ![Len(s)] = a][Len(s)] = a
    BY ONLY <1>1, ExceptSeq
  <2> QED BY <1>2, <1>3, <2>1 DEF Acked, a
<1>4. CASE Version(c) # Version(ver[n])
  <2>1. Len(Append(s, a)) = Len(s) + 1 /\ Append(s, a)[Len(s) + 1] = a
    BY ONLY <1>1, AppendProperties
  <2> QED BY <1>2, <1>4, <2>1 DEF Acked, a
<1> QED BY <1>3, <1>4

\* A visible INCR acknowledges its write.
LEMMA AcknowledgeMaps ==
    ASSUME IInv, NEW n \in Namespaces, NEW c, NEW d \in Nat, d <= db[n],
           ackedAt' = [ackedAt EXCEPT ![n] = History(n, c, d)],
           UNCHANGED <<db, reader, floor>>
    PROVE  Promise!Next
<1> USE DEF IInv
<1>1. Acked(n) \in Nat /\ db[n] \in Nat
  BY AckedInRange DEF TypeOK
<1>2. Acked(n) <= db[n]
  <2>1. HistoryOK /\ Len(ackedAt[n]) \in 1..Len(ackedAt[n])
    BY AckedInRange
  <2> QED BY <2>1 DEF HistoryOK, Acked
<1>3. Acked(n)' \in Acked(n)..db[n]
  <2>1. Acked(n)' = Larger(Acked(n), d)
    BY HistoryLast
  <2> QED BY ONLY <1>1, <1>2, <2>1, d \in Nat, d <= db[n] DEF Larger
<1>4. \A m \in Namespaces \ {n} : Acked(m)' = Acked(m)
  BY DEF Acked, TypeOK
<1>5. AckedMap' = [AckedMap EXCEPT ![n] = Acked(n)']
  BY <1>4 DEF AckedMap
<1>6. Promise!Acknowledge(n)
  BY <1>3, <1>5, ReadsUnchanged DEF Promise!Acknowledge, AckedMap, ReadsMap
<1> QED BY <1>6 DEF Promise!Next

\* An INCR that Redis does not yet show, a late set, an expiry: all unseen.
LEMMA UnseenMaps ==
    ASSUME UNCHANGED <<db, ackedAt, reader, floor>>
    PROVE  UNCHANGED Promise!vars
  BY ReadsUnchanged DEF Promise!vars, ReadsMap, Acked

\* Every step is a step of FreshReads, or unseen.
LEMMA NextMaps ==
    ASSUME NoLoss, IInv, IInv', [Next]_vars
    PROVE  Promise!Next \/ UNCHANGED Promise!vars
<1> DEFINE Goal == Promise!Next \/ UNCHANGED Promise!vars
<1>1. ASSUME NEW p \in Readers, NEW s \in Sites, Begin(p, s) PROVE Goal
  BY <1>1, BeginMaps
<1>2. ASSUME NEW p \in Readers, ReadStep(p) PROVE Goal
  BY <1>2, RunningMaps, ReturnMaps, FinishMaps DEF ReadStep
<1>3. ASSUME NEW w \in Writers, NEW N \in WriteSets, Commit(w, N) PROVE Goal
  BY <1>3, CommitMaps
<1>4. ASSUME NEW w \in Writers, InvalidateStep(w) PROVE Goal
  <2>1. PICK n \in Namespaces : Incr(w, n) \/ IncrAgain(w, n)
    BY <1>4 DEF InvalidateStep, NoLoss, IncrFails
  <2>2. wdata[w][n] \in Nat /\ wdata[w][n] <= db[n]
    BY DEF IInv, TypeOK, WritesOK
  <2>3. UNCHANGED <<db, reader, floor>>
    BY <2>1 DEF Incr, IncrAgain
  <2>4. CASE ackedAt' = ackedAt
    BY <2>3, <2>4, UnseenMaps
  <2>5. CASE ackedAt' = [ackedAt EXCEPT ![n] = History(n, Incremented(ver[n]), wdata[w][n])]
    BY <2>2, <2>3, <2>5, AcknowledgeMaps
  <2> QED BY <2>1, <2>4, <2>5 DEF Incr, IncrAgain
<1>5. CASE StoreStep
  BY <1>5, UnseenMaps
     DEF StoreStep, LateSet, LateIncr, Expire, Flush, NoLoss, IInv, history
<1>6. CASE UNCHANGED vars
  BY <1>6, UnseenMaps DEF vars, history
<1> QED BY <1>1, <1>2, <1>3, <1>4, <1>5, <1>6 DEF Next

-----------------------------------------------------------------------------
(* The theorems. *)

\* IInv is an invariant of the cache as long as no INCR is lost and the store
\* is not flushed.
THEOREM Invariance ==
    ASSUME NoLoss
    PROVE  Spec => []IInv
<1>1. Init => IInv
  BY InitStep
<1>2. IInv /\ [Next]_vars => IInv'
  BY NextStep
<1> QED BY <1>1, <1>2, PTL DEF Spec

\* Zero stale data: whatever the interleaving, and whichever gets and sets fail
\* or land late, getOrLoad returns no data older than a write that had
\* completed when the read began.
THEOREM ReadsAreFresh ==
    ASSUME NoLoss
    PROVE  Spec => []FreshRead
<1>1. IInv => FreshRead
  BY DEF IInv
<1> QED BY <1>1, Invariance, PTL

\* The stale-write race is harmless: no entry, and no set still under way, is
\* stale under the versions of its key.
THEOREM EntriesAreFresh ==
    ASSUME NoLoss
    PROVE  Spec => []StoredFresh
<1>1. IInv => StoredFresh
  BY DEF IInv
<1> QED BY <1>1, Invariance, PTL

\* The cache implements FreshReads: it keeps its promise in every behaviour.
THEOREM Refinement ==
    ASSUME NoLoss
    PROVE  Spec => KeepsPromise
<1>1. Init => Promise!Init
  BY InitMaps
<1>2. IInv /\ IInv' /\ [Next]_vars => [Promise!Next]_(Promise!vars)
  BY NextMaps
<1> QED BY <1>1, <1>2, Invariance, PTL DEF Spec, KeepsPromise, Promise!Spec
-----------------------------------------------------------------------------
(* Whatever is lost: INCRs that fail or come late, and flushes. *)

\* What has completed is in the database.
Below == \A n \in Namespaces : \A i \in 1..Len(ackedAt[n]) : ackedAt[n][i] <= db[n]
Written == \A w \in Writers, n \in Namespaces : wdata[w][n] <= db[n]

\* No entry is empty.
Nonempty == \A e \in entries \cup lateSets : e.val[OwnOf[e.site]] # 0

\* What a read has loaded is as new as what had completed when it began.
Keeps(p) ==
    /\ rpc[p] \in {"resolve", "get"} => toLoad[p] = ScopeOf[site[p]]
    /\ rpc[p] = "set" => toLoad[p] = {}
    /\ \A n \in Namespaces : floor[p][n] <= db[n]
    /\ rpc[p] \in {"load", "set"} =>
         \A n \in ScopeOf[site[p]] \ toLoad[p] : floor[p][n] <= val[p][n]
    /\ rpc[p] = "done" /\ val[p][OwnOf[site[p]]] = 0 => floor[p][OwnOf[site[p]]] = 0

LossInv == TypeOK /\ Below /\ Written /\ Nonempty /\ \A p \in Readers : Keeps(p)

\* Data d under version v of n has seen what had completed before v began.
Healed(n, v, d) == v > 1 => ackedAt[n][v - 1] <= d

StoredHealed ==
    \A e \in entries \cup lateSets : \A n \in ScopeOf[e.site] :
        e.vers[n] \in 1..Version(ver[n]) /\ Healed(n, e.vers[n], e.val[n])

HasLoaded(p, n) == rpc[p] \in {"set", "done"} \/ (rpc[p] = "load" /\ n \notin toLoad[p])

Resolves(p) ==
    /\ rpc[p] \in {"idle", "resolve"} => ~hasVers[p]
    /\ hasVers[p] => \A n \in ScopeOf[site[p]] :
         /\ vers[p][n] \in 1..Version(ver[n])
         /\ HasLoaded(p, n) => Healed(n, vers[p][n], val[p][n])

HealInv == LossInv /\ StoredHealed /\ \A p \in Readers : Resolves(p)

\* Both invariants hold at first.
LEMMA LossInit == ASSUME Init PROVE HealInv
<1> USE SiteAssumption
<1>1. TypeOK
  BY DEF Init, TypeOK, NoData, AnySite, Version
<1>2. Below /\ Written /\ Nonempty /\ StoredHealed
  BY DEF Init, Below, Written, Nonempty, StoredHealed, NoData
<1>3. \A p \in Readers : Keeps(p) /\ Resolves(p)
  BY DEF Init, Keeps, Resolves, NoData
<1> QED BY <1>1, <1>2, <1>3 DEF HealInv, LossInv

\* The newest write that has completed is in the database.
LEMMA AckedBelow ==
    ASSUME LossInv, NEW n \in Namespaces
    PROVE  Acked(n) \in Nat /\ Acked(n) <= db[n] /\ db[n] \in Nat
<1>1. Len(ackedAt[n]) \in 1..Len(ackedAt[n]) /\ Acked(n) \in Nat
  BY AckedInRange DEF LossInv
<1>2. Acked(n) <= db[n] BY <1>1 DEF LossInv, Below, Acked
<1> QED BY <1>1, <1>2 DEF LossInv, TypeOK

\* What the versions of n before the current one have recorded.
Closed(n) ==
    \A v \in 1..Version(ver[n]) :
        v \in 1..Version(ver'[n]) /\ (v > 1 => ackedAt'[n][v - 1] = ackedAt[n][v - 1])

\* An INCR, lost or not, leaves the closed part of the history alone.
LEMMA HistoryStep ==
    ASSUME LossInv, NEW n \in Namespaces, NEW c \in Nat, NEW d \in Nat, d <= db[n],
           UNCHANGED db, ver' = [ver EXCEPT ![n] = c],
           Version(c) \in {Version(ver[n]), Version(ver[n]) + 1},
           \/ ackedAt' = ackedAt /\ Version(c) = Version(ver[n])
           \/ ackedAt' = [ackedAt EXCEPT ![n] = History(n, c, d)]
    PROVE  /\ ver' \in [Namespaces -> Nat] /\ ackedAt' \in [Namespaces -> Seq(Nat)]
           /\ \A m \in Namespaces : Len(ackedAt'[m]) = Version(ver'[m])
           /\ Below' /\ \A m \in Namespaces : Closed(m)
<1> PICK s : s = ackedAt[n] OBVIOUS
<1> PICK t : t = ackedAt'[n] OBVIOUS
<1> PICK a : a = Larger(Acked(n), d) OBVIOUS
<1>1. /\ s \in Seq(Nat) /\ Len(s) \in Nat \ {0} /\ Len(s) = Version(ver[n]) /\ Acked(n) \in Nat
      /\ ver[n] \in Nat
  BY AckedInRange DEF LossInv, TypeOK
<1>2. a \in Nat /\ a <= db[n] /\ db[n] \in Nat BY <1>1, AckedBelow DEF Larger
<1>3. \A i \in 1..Len(s) : s[i] <= db[n] BY DEF LossInv, Below
<1>4. /\ \A m \in Namespaces \ {n} : ver'[m] = ver[m] /\ ackedAt'[m] = ackedAt[m]
      /\ ver'[n] = c /\ ver' \in [Namespaces -> Nat]
      /\ t = s \/ t = History(n, c, d)
      /\ t = s => Version(c) = Version(ver[n]) \/ t = History(n, c, d)
  BY DEF LossInv, TypeOK
<1>5. /\ t \in Seq(Nat) /\ Len(t) = Version(c)
      /\ \A i \in 1..Len(t) : t[i] <= db[n]
      /\ \A i \in 1..(Len(s) - 1) : t[i] = s[i]
  <2>1. CASE t = s /\ Version(c) = Version(ver[n])
    BY <1>1, <1>3, <2>1
  <2>2. CASE t = History(n, c, d) /\ Version(c) = Version(ver[n])
    <3>1. t = [s EXCEPT ![Len(s)] = a] BY <2>2 DEF History
    <3>2. /\ t \in Seq(Nat) /\ Len(t) = Len(s)
          /\ \A i \in 1..Len(s) : t[i] = IF i = Len(s) THEN a ELSE s[i]
      BY ONLY <1>1, <1>2, <3>1, ExceptSeq
    <3>3. \A i \in 1..Len(t) : t[i] <= db[n] BY ONLY <1>2, <1>3, <3>2
    <3>4. \A i \in 1..(Len(s) - 1) : i \in 1..Len(s) /\ i # Len(s) BY <1>1
    <3>5. \A i \in 1..(Len(s) - 1) : t[i] = s[i] BY ONLY <3>2, <3>4
    <3> QED BY <1>1, <2>2, <3>2, <3>3, <3>5
  <2>3. CASE t = History(n, c, d) /\ Version(c) = Version(ver[n]) + 1
    <3>1. Version(c) # Version(ver[n]) BY <1>1, <2>3 DEF Version
    <3>2. t = Append(s, a) BY <2>3, <3>1 DEF History
    <3>3. /\ t \in Seq(Nat) /\ Len(t) = Len(s) + 1
          /\ t[Len(s) + 1] = a
          /\ \A i \in 1..Len(s) : t[i] = s[i]
      BY ONLY <1>1, <1>2, <3>2, AppendProperties
    <3>4. \A i \in 1..Len(t) : i \in 1..Len(s) \/ i = Len(s) + 1 BY <1>1, <3>3
    <3>5. \A i \in 1..Len(t) : t[i] <= db[n] BY ONLY <1>2, <1>3, <3>3, <3>4
    <3>6. \A i \in 1..(Len(s) - 1) : i \in 1..Len(s) BY <1>1
    <3> QED BY <1>1, <2>3, <3>3, <3>5, <3>6
  <2> QED BY <1>4, <2>1, <2>2, <2>3
<1>6. ackedAt' \in [Namespaces -> Seq(Nat)]
  BY <1>4, <1>5 DEF LossInv, TypeOK
<1>7. \A m \in Namespaces : Len(ackedAt'[m]) = Version(ver'[m])
  BY <1>4, <1>5 DEF LossInv, TypeOK
<1>8. Below'
  BY <1>4, <1>5 DEF LossInv, Below
<1>9. ASSUME NEW m \in Namespaces PROVE Closed(m)
  <2>1. CASE m # n BY <1>4, <2>1 DEF Closed
  <2>2. CASE m = n
    <3> SUFFICES ASSUME NEW v \in 1..Version(ver[n])
                 PROVE  v \in 1..Version(c) /\ (v > 1 => t[v - 1] = s[v - 1])
      BY <1>4, <2>2 DEF Closed
    <3>1. v \in 1..Len(s) /\ (Version(c) = Len(s) \/ Version(c) = Len(s) + 1) BY <1>1
    <3>2. v \in 1..Version(c) BY <1>1, <3>1
    <3>3. v > 1 => v - 1 \in 1..(Len(s) - 1) BY <1>1, <3>1
    <3> QED BY <1>5, <3>2, <3>3
  <2> QED BY <2>1, <2>2
<1> QED BY <1>4, <1>6, <1>7, <1>8, <1>9

\* A step of a reader, seen from the others.
LEMMA ReaderKeeps ==
    ASSUME LossInv, NEW p \in Readers, OnlyReader(p), TypeOK', Nonempty', Keeps(p)'
    PROVE  LossInv'
<1>1. Below' /\ Written' BY DEF LossInv, OnlyReader, Below, Written
<1>2. ASSUME NEW q \in Readers PROVE Keeps(q)'
  <2>1. CASE q = p BY <2>1
  <2>2. CASE q # p
    <3>1. Keeps(q) BY DEF LossInv
    <3>2. /\ UNCHANGED db
          /\ rpc'[q] = rpc[q] /\ site'[q] = site[q] /\ toLoad'[q] = toLoad[q]
          /\ val'[q] = val[q] /\ floor'[q] = floor[q]
      BY <2>2 DEF OnlyReader
    <3> QED BY <3>1, <3>2 DEF Keeps
  <2> QED BY <2>1, <2>2
<1> QED BY <1>1, <1>2 DEF LossInv

\* The same of HealInv.
LEMMA ReaderHeals ==
    ASSUME HealInv, NEW p \in Readers, OnlyReader(p), LossInv', StoredHealed', Resolves(p)'
    PROVE  HealInv'
<1>1. ASSUME NEW q \in Readers PROVE Resolves(q)'
  <2>1. CASE q = p BY <2>1
  <2>2. CASE q # p
    <3>1. Resolves(q) BY DEF HealInv
    <3>2. /\ UNCHANGED <<ver, ackedAt>>
          /\ rpc'[q] = rpc[q] /\ site'[q] = site[q] /\ toLoad'[q] = toLoad[q]
          /\ val'[q] = val[q] /\ hasVers'[q] = hasVers[q] /\ vers'[q] = vers[q]
      BY <2>2 DEF OnlyReader
    <3> QED BY <3>1, <3>2 DEF Resolves, HasLoaded, Healed
  <2> QED BY <2>1, <2>2
<1> QED BY <1>1 DEF HealInv

\* A read that begins, and remembers what has completed.
LEMMA BeginLoses ==
    ASSUME LossInv, NEW p \in Readers, NEW s \in Sites, Begin(p, s)
    PROVE  LossInv' /\ OnlyReader(p) /\ (HealInv => HealInv')
<1> USE SiteAssumption
<1>1. /\ UNCHANGED <<db, ver, entries, lateSets, lateIncrs, hasVers, vers, val, wdata, todo,
                     again, ackedAt>>
      /\ rpc[p] = "idle"
      /\ rpc' = [rpc EXCEPT ![p] = IF OwnOf[s] \in Enabled THEN "resolve" ELSE "load"]
      /\ site' = [site EXCEPT ![p] = s] /\ toLoad' = [toLoad EXCEPT ![p] = ScopeOf[s]]
      /\ floor' = [floor EXCEPT ![p] = [n \in Namespaces |-> Acked(n)]]
  BY DEF Begin, At, GoTo, store, writer
<1>2. TypeOK /\ \A n \in Namespaces : Acked(n) \in Nat BY AckedInRange DEF LossInv
<1>3. TypeOK' BY <1>1, <1>2 DEF TypeOK
<1>4. OnlyReader(p) BY <1>1, <1>2 DEF OnlyReader, TypeOK
<1>5. /\ rpc'[p] \in {"resolve", "load"} /\ site'[p] = s /\ toLoad'[p] = ScopeOf[s]
      /\ \A n \in Namespaces : floor'[p][n] = Acked(n)
  BY <1>1, <1>2 DEF TypeOK
<1>6. Keeps(p)' BY <1>1, <1>5, AckedBelow DEF Keeps
<1>7. Nonempty' BY <1>1 DEF LossInv, Nonempty
<1>8. LossInv' BY <1>3, <1>4, <1>6, <1>7, ReaderKeeps
<1>9. HealInv => Resolves(p)' /\ StoredHealed'
  BY <1>1 DEF HealInv, Resolves, StoredHealed, Healed
<1> QED BY <1>4, <1>8, <1>9, ReaderHeals

\* Resolve, ResolveFails and Miss.
LEMMA LookLoses ==
    ASSUME LossInv, NEW p \in Readers, Resolve(p) \/ ResolveFails(p) \/ Miss(p)
    PROVE  LossInv' /\ OnlyReader(p) /\ (HealInv => HealInv')
<1> USE SiteAssumption
<1>1. /\ UNCHANGED <<db, ver, entries, lateSets, lateIncrs, site, toLoad, val, wdata, todo,
                     again, ackedAt, floor>>
      /\ rpc[p] \in {"resolve", "get"}
      /\ \/ /\ rpc' = [rpc EXCEPT ![p] = "get"] /\ hasVers' = [hasVers EXCEPT ![p] = TRUE]
            /\ vers' = [vers EXCEPT ![p] = [n \in Namespaces |->
                          IF n \in ScopeOf[site[p]] THEN Version(ver[n]) ELSE 0]]
         \/ /\ rpc' = [rpc EXCEPT ![p] = "load"] /\ UNCHANGED <<hasVers, vers>>
  BY DEF Resolve, ResolveFails, Miss, At, GoTo, store, reader, writer, history
<1>2. TypeOK BY DEF LossInv
<1>3. \A n \in Namespaces : Version(ver[n]) \in Nat \ {0}
  BY <1>2 DEF TypeOK, Version
<1>4. TypeOK'
  <2>1. rpc' \in [Readers -> {"idle", "resolve", "get", "load", "set", "done"}]
    BY <1>1, <1>2 DEF TypeOK
  <2>2. hasVers' \in [Readers -> BOOLEAN] BY <1>1, <1>2 DEF TypeOK
  <2> PICK vs : vs = [n \in Namespaces |-> IF n \in ScopeOf[site[p]] THEN Version(ver[n]) ELSE 0]
    OBVIOUS
  <2>a. vs \in [Namespaces -> Nat] BY <1>3
  <2>b. vers' = vers \/ vers' = [vers EXCEPT ![p] = vs] BY <1>1
  <2>3. vers' \in [Readers -> [Namespaces -> Nat]] BY <1>2, <2>a, <2>b DEF TypeOK
  <2> QED BY <1>1, <1>2, <2>1, <2>2, <2>3 DEF TypeOK
<1>5. OnlyReader(p) BY <1>1, <1>2 DEF OnlyReader, TypeOK
<1>6. rpc'[p] \in {"get", "load"} /\ toLoad[p] = ScopeOf[site[p]]
  BY <1>1, <1>2 DEF TypeOK, LossInv, Keeps
<1>7. Keeps(p)' BY <1>1, <1>6 DEF LossInv, Keeps
<1>8. Nonempty' BY <1>1 DEF LossInv, Nonempty
<1>9. LossInv' BY <1>4, <1>5, <1>7, <1>8, ReaderKeeps
<1>10. ASSUME HealInv PROVE Resolves(p)' /\ StoredHealed'
  <2>1. StoredHealed' BY <1>1, <1>10 DEF HealInv, StoredHealed, Healed
  <2>2. \A n \in ScopeOf[site[p]] : ~HasLoaded(p, n)' BY <1>1, <1>6 DEF HasLoaded
  <2>3. ASSUME hasVers'[p], NEW n \in ScopeOf[site[p]] PROVE vers'[p][n] \in 1..Version(ver[n])
    <3>1. n \in Namespaces BY <1>2 DEF TypeOK
    <3>2. CASE vers' = vers /\ hasVers' = hasVers
      BY <1>10, <2>3, <3>2 DEF HealInv, Resolves
    <3>3. CASE vers' = [vers EXCEPT ![p] = [m \in Namespaces |->
                          IF m \in ScopeOf[site[p]] THEN Version(ver[m]) ELSE 0]]
      <4>1. vers'[p][n] = Version(ver[n]) BY <1>2, <3>1, <3>3 DEF TypeOK
      <4> QED BY <1>3, <3>1, <4>1
    <3> QED BY <1>1, <3>2, <3>3
  <2>4. Resolves(p)' BY <1>1, <1>6, <2>2, <2>3 DEF Resolves
  <2> QED BY <2>1, <2>4
<1> QED BY <1>5, <1>9, <1>10, ReaderHeals

\* An entry is not empty, and healed under the versions of the reader.
LEMMA HitLoses ==
    ASSUME LossInv, NEW p \in Readers, Hit(p)
    PROVE  LossInv' /\ OnlyReader(p) /\ (HealInv => HealInv')
<1> USE SiteAssumption
<1>1. PICK e \in Matching(p) :
        val' = [val EXCEPT ![p] = [n \in Namespaces |->
                  IF n \in ScopeOf[site[p]] THEN e.val[n] ELSE 0]]
  BY DEF Hit
<1>2. e \in entries /\ e.site = site[p] /\ e.vers = KeyVersions(p)
  BY <1>1 DEF Matching
<1>3. /\ UNCHANGED <<db, ver, entries, lateSets, lateIncrs, site, hasVers, vers, toLoad, wdata,
                     todo, again, ackedAt, floor>>
      /\ rpc[p] = "get" /\ rpc' = [rpc EXCEPT ![p] = "done"]
  BY DEF Hit, At, GoTo, store, writer, history
<1>4. TypeOK BY DEF LossInv
<1>5. e.val \in [ScopeOf[site[p]] -> Nat] /\ site[p] \in Sites
  BY <1>2, <1>4 DEF TypeOK
<1>6. TypeOK' BY <1>1, <1>3, <1>4, <1>5 DEF TypeOK
<1>7. OnlyReader(p) BY <1>1, <1>3, <1>4 DEF OnlyReader, TypeOK
<1>8. rpc'[p] = "done" BY <1>3, <1>4 DEF TypeOK
<1>9. \A n \in ScopeOf[site[p]] : n \in Namespaces /\ val'[p][n] = e.val[n]
  BY <1>1, <1>4, <1>5 DEF TypeOK
<1>10. e.val[OwnOf[site[p]]] # 0 BY <1>2 DEF LossInv, Nonempty
<1>11. val'[p][OwnOf[site[p]]] # 0 BY <1>5, <1>9, <1>10
<1>12. Keeps(p)' BY <1>3, <1>8, <1>11 DEF LossInv, Keeps
<1>13. Nonempty' BY <1>3 DEF LossInv, Nonempty
<1>14. LossInv' BY <1>6, <1>7, <1>12, <1>13, ReaderKeeps
<1>15. ASSUME HealInv PROVE Resolves(p)' /\ StoredHealed'
  <2>1. StoredHealed' BY <1>3, <1>15 DEF HealInv, StoredHealed, Healed
  <2>2. \A n \in ScopeOf[site[p]] : /\ e.vers[n] \in 1..Version(ver[n])
                                    /\ Healed(n, e.vers[n], e.val[n])
    BY <1>2, <1>15 DEF HealInv, StoredHealed
  <2>3. \A n \in ScopeOf[site[p]] : e.vers[n] = vers[p][n] BY <1>2 DEF KeyVersions
  <2>4. \A n \in ScopeOf[site[p]] : /\ vers[p][n] \in 1..Version(ver[n])
                                    /\ Healed(n, vers[p][n], val'[p][n])
    BY <1>9, <2>2, <2>3
  <2> QED BY <1>3, <1>8, <2>1, <2>4 DEF Resolves, Healed
<1> QED BY <1>7, <1>14, <1>15, ReaderHeals

\* What is loaded is as new as all that has completed.
LEMMA LoadLoses ==
    ASSUME LossInv, NEW p \in Readers, NEW m \in Namespaces, Load(p, m)
    PROVE  LossInv' /\ OnlyReader(p) /\ (HealInv => HealInv')
<1> USE SiteAssumption
<1>1. /\ UNCHANGED <<db, ver, entries, lateSets, lateIncrs, site, hasVers, vers, wdata, todo,
                     again, ackedAt, floor>>
      /\ rpc[p] = "load" /\ m \in toLoad[p]
      /\ rpc' = [rpc EXCEPT ![p] = IF toLoad[p] = {m} THEN "set" ELSE "load"]
      /\ val' = [val EXCEPT ![p][m] = db[m]] /\ toLoad' = [toLoad EXCEPT ![p] = @ \ {m}]
  BY DEF Load, At, GoTo, store, writer, history
<1>2. TypeOK BY DEF LossInv
<1>3. TypeOK' BY <1>1, <1>2 DEF TypeOK
<1>4. OnlyReader(p) BY <1>1, <1>2 DEF OnlyReader, TypeOK
<1>5. /\ rpc'[p] \in {"load", "set"} /\ toLoad'[p] = toLoad[p] \ {m} /\ val'[p][m] = db[m]
      /\ rpc'[p] = "set" => toLoad'[p] = {}
      /\ \A n \in Namespaces \ {m} : val'[p][n] = val[p][n]
      /\ ScopeOf[site[p]] \subseteq Namespaces
  BY <1>1, <1>2 DEF TypeOK
<1>6. Keeps(p)'
  <2>1. ASSUME NEW n \in ScopeOf[site[p]] \ toLoad'[p] PROVE floor[p][n] <= val'[p][n]
    <3>1. CASE n = m BY <1>5, <3>1 DEF LossInv, Keeps
    <3>2. CASE n # m BY <1>1, <1>5, <3>2 DEF LossInv, Keeps
    <3> QED BY <3>1, <3>2
  <2>2. \A n \in Namespaces : floor[p][n] <= db[n] BY DEF LossInv, Keeps
  <2> QED BY <1>1, <1>5, <2>1, <2>2 DEF Keeps
<1>7. Nonempty' BY <1>1 DEF LossInv, Nonempty
<1>8. LossInv' BY <1>3, <1>4, <1>6, <1>7, ReaderKeeps
<1>9. ASSUME HealInv PROVE Resolves(p)' /\ StoredHealed'
  <2>1. StoredHealed' BY <1>1, <1>9 DEF HealInv, StoredHealed, Healed
  <2>2. ASSUME hasVers[p], NEW n \in ScopeOf[site[p]]
        PROVE  /\ vers[p][n] \in 1..Version(ver[n])
               /\ HasLoaded(p, n)' => Healed(n, vers[p][n], val'[p][n])
    <3>1. vers[p][n] \in 1..Version(ver[n]) /\ (HasLoaded(p, n) => Healed(n, vers[p][n], val[p][n]))
      BY <1>9, <2>2 DEF HealInv, Resolves
    <3>2. CASE n = m
      <4>1. vers[p][n] > 1 => vers[p][n] - 1 \in 1..Len(ackedAt[n])
        BY <1>5, <3>1, AckedInRange DEF LossInv
      <4>2. vers[p][n] > 1 => ackedAt[n][vers[p][n] - 1] <= db[n]
        BY <1>5, <4>1 DEF LossInv, Below
      <4> QED BY <1>5, <3>1, <3>2, <4>2 DEF Healed
    <3>3. CASE n # m
      <4>1. val'[p][n] = val[p][n] BY <1>5, <3>3
      <4>2. HasLoaded(p, n)' => HasLoaded(p, n) BY <1>1, <1>5, <3>3 DEF HasLoaded
      <4> QED BY <3>1, <4>1, <4>2
    <3> QED BY <3>2, <3>3
  <2>3. Resolves(p)' BY <1>1, <1>5, <2>2 DEF Resolves, Healed
  <2> QED BY <2>1, <2>3
<1> QED BY <1>4, <1>8, <1>9, ReaderHeals

\* Set, SetTimesOut and NotStored.
LEMMA SetLoses ==
    ASSUME LossInv, NEW p \in Readers, Set(p) \/ SetTimesOut(p) \/ NotStored(p)
    PROVE  LossInv' /\ OnlyReader(p) /\ (HealInv => HealInv')
<1> USE SiteAssumption
<1>1. /\ rpc[p] = "set" /\ rpc' = [rpc EXCEPT ![p] = "done"]
      /\ UNCHANGED <<db, ver, lateIncrs, site, hasVers, vers, toLoad, val, wdata, todo, again,
                     ackedAt, floor>>
  BY DEF Set, SetTimesOut, NotStored, At, GoTo, store, writer, history
<1>2. \A e \in entries' \cup lateSets' :
        e \in entries \cup lateSets \/ (hasVers[p] /\ Cacheable(p) /\ e = EntryOf(p))
  BY DEF Set, SetTimesOut, NotStored, Stored, store
<1>3. TypeOK BY DEF LossInv
<1>4. site[p] \in Sites /\ \A n \in Namespaces : vers[p][n] \in Nat /\ val[p][n] \in Nat
  BY <1>3 DEF TypeOK
<1> PICK o : o = EntryOf(p) OBVIOUS
<1>5. /\ o.site = site[p] /\ o.vers \in [ScopeOf[o.site] -> Nat] /\ o.val \in [ScopeOf[o.site] -> Nat]
      /\ \A n \in ScopeOf[o.site] : o.vers[n] = vers[p][n] /\ o.val[n] = val[p][n]
  BY <1>4 DEF EntryOf, KeyVersions, Result
<1>6. TypeOK'
  <2>1. \A e \in entries' \cup lateSets' :
          /\ e.site \in Sites
          /\ e.vers \in [ScopeOf[e.site] -> Nat]
          /\ e.val \in [ScopeOf[e.site] -> Nat]
    BY <1>2, <1>3, <1>4, <1>5 DEF TypeOK
  <2> QED BY <1>1, <1>3, <2>1 DEF TypeOK
<1>7. OnlyReader(p) BY <1>1, <1>3 DEF OnlyReader, TypeOK
<1>8. rpc'[p] = "done" /\ toLoad[p] = {} BY <1>1, <1>3 DEF TypeOK, LossInv, Keeps
<1>9. Keeps(p)'
  <2> PICK i : i = OwnOf[site[p]] OBVIOUS
  <2>1. i \in ScopeOf[site[p]] /\ i \in Namespaces BY <1>4
  <2>2. floor[p][i] <= val[p][i] BY <1>1, <1>8, <2>1 DEF LossInv, Keeps
  <2>3. floor[p][i] \in Nat BY <1>3, <2>1 DEF TypeOK
  <2>4. val[p][i] = 0 => floor[p][i] = 0 BY <2>2, <2>3
  <2> QED BY <1>1, <1>8, <2>4 DEF LossInv, Keeps
<1>10. Nonempty'
  <2>1. Cacheable(p) => o.val[OwnOf[o.site]] # 0 BY <1>4, <1>5 DEF Cacheable
  <2> QED BY <1>2, <2>1 DEF LossInv, Nonempty
<1>11. LossInv' BY <1>6, <1>7, <1>9, <1>10, ReaderKeeps
<1>12. ASSUME HealInv PROVE Resolves(p)' /\ StoredHealed'
  <2>1. hasVers[p] => \A n \in ScopeOf[site[p]] :
           vers[p][n] \in 1..Version(ver[n]) /\ Healed(n, vers[p][n], val[p][n])
    BY <1>1, <1>12 DEF HealInv, Resolves, HasLoaded
  <2>2. hasVers[p] => \A n \in ScopeOf[o.site] :
           o.vers[n] \in 1..Version(ver[n]) /\ Healed(n, o.vers[n], o.val[n])
    BY <1>5, <2>1
  <2>3. \A e \in entries' \cup lateSets' : \A n \in ScopeOf[e.site] :
           e.vers[n] \in 1..Version(ver[n]) /\ Healed(n, e.vers[n], e.val[n])
    BY <1>2, <1>12, <2>2 DEF HealInv, StoredHealed
  <2>4. StoredHealed' BY <1>1, <2>3 DEF StoredHealed, Healed
  <2>5. Resolves(p)' BY <1>1, <1>8, <2>1 DEF Resolves, Healed
  <2> QED BY <2>4, <2>5
<1> QED BY <1>7, <1>11, <1>12, ReaderHeals

\* Finish and LoadFails.
LEMMA IdleLoses ==
    ASSUME LossInv, NEW p \in Readers, Idle(p)
    PROVE  LossInv' /\ OnlyReader(p) /\ (HealInv => HealInv')
<1> USE SiteAssumption
<1>1. TypeOK BY DEF LossInv
<1>2. AnySite \in Sites /\ NoData \in [Namespaces -> Nat] BY DEF AnySite, NoData
<1>3. TypeOK' BY <1>1, <1>2 DEF Idle, GoTo, TypeOK, store, writer
<1>4. OnlyReader(p) BY <1>1 DEF Idle, GoTo, OnlyReader, TypeOK, store, writer
<1>5. /\ rpc'[p] = "idle" /\ ~hasVers'[p] /\ floor'[p] = NoData
      /\ UNCHANGED <<db, ver, entries, lateSets, ackedAt>>
  BY <1>1 DEF Idle, GoTo, TypeOK, store
<1>6. Keeps(p)'
  <2>1. \A n \in Namespaces : NoData[n] = 0 /\ db[n] \in Nat BY <1>1 DEF NoData, TypeOK
  <2> QED BY <1>5, <2>1 DEF Keeps
<1>7. Nonempty' BY <1>5 DEF LossInv, Nonempty
<1>8. LossInv' BY <1>3, <1>4, <1>6, <1>7, ReaderKeeps
<1>9. HealInv => Resolves(p)' /\ StoredHealed'
  BY <1>5 DEF HealInv, Resolves, StoredHealed, Healed
<1> QED BY <1>4, <1>8, <1>9, ReaderHeals

\* A step of a write or of the store, seen from the readers.
LEMMA OtherKeeps ==
    ASSUME LossInv, UNCHANGED <<db, reader, floor>>,
           entries' \cup lateSets' \subseteq entries \cup lateSets,
           TypeOK', Below', Written'
    PROVE  LossInv' /\ (HealInv /\ (\A m \in Namespaces : Closed(m)) => HealInv')
<1> USE SiteAssumption
<1>1. UNCHANGED <<rpc, site, hasVers, vers, toLoad, val>> BY DEF reader
<1>2. \A p \in Readers : Keeps(p)' BY <1>1 DEF LossInv, Keeps
<1>3. Nonempty' BY DEF LossInv, Nonempty
<1>4. LossInv' BY <1>2, <1>3 DEF LossInv
<1>5. ASSUME HealInv, \A m \in Namespaces : Closed(m) PROVE HealInv'
  <2>1. ASSUME NEW n \in Namespaces, NEW v \in 1..Version(ver[n]), NEW d, Healed(n, v, d)
        PROVE  v \in 1..Version(ver'[n]) /\ (v > 1 => ackedAt'[n][v - 1] <= d)
    BY <1>5, <2>1 DEF Healed, Closed
  <2>2. StoredHealed'
    <3> SUFFICES ASSUME NEW e \in entries \cup lateSets, NEW n \in ScopeOf[e.site]
                 PROVE  /\ e.vers[n] \in 1..Version(ver'[n])
                        /\ e.vers[n] > 1 => ackedAt'[n][e.vers[n] - 1] <= e.val[n]
      BY DEF StoredHealed, Healed
    <3>1. n \in Namespaces BY DEF LossInv, TypeOK
    <3>2. e.vers[n] \in 1..Version(ver[n]) /\ Healed(n, e.vers[n], e.val[n])
      BY <1>5 DEF HealInv, StoredHealed
    <3> QED BY <2>1, <3>1, <3>2
  <2>3. ASSUME NEW p \in Readers PROVE Resolves(p)'
    <3>1. Resolves(p) /\ ScopeOf[site[p]] \subseteq Namespaces
      BY <1>5 DEF HealInv, LossInv, TypeOK
    <3>2. ASSUME hasVers[p], NEW n \in ScopeOf[site[p]]
          PROVE  /\ vers[p][n] \in 1..Version(ver'[n])
                 /\ HasLoaded(p, n) => (vers[p][n] > 1 => ackedAt'[n][vers[p][n] - 1] <= val[p][n])
      <4>1. n \in Namespaces /\ vers[p][n] \in 1..Version(ver[n])
            /\ (HasLoaded(p, n) => Healed(n, vers[p][n], val[p][n]))
        BY <3>1, <3>2 DEF Resolves
      <4>2. vers[p][n] \in 1..Version(ver'[n]) BY <1>5, <4>1 DEF Closed
      <4> QED BY <2>1, <4>1, <4>2
    <3> QED BY <1>1, <3>1, <3>2 DEF Resolves, HasLoaded, Healed
  <2> QED BY <1>4, <2>2, <2>3 DEF HealInv
<1> QED BY <1>4, <1>5

\* A commit only makes the database newer.
LEMMA CommitLoses ==
    ASSUME LossInv, NEW w \in Writers, NEW N \in WriteSets, Commit(w, N)
    PROVE  LossInv' /\ (HealInv => HealInv')
<1> USE SiteAssumption, ConfigAssumption
<1>1. /\ UNCHANGED <<ver, entries, lateSets, lateIncrs, rpc, site, hasVers, vers, toLoad, val,
                     again, ackedAt, floor>>
      /\ db' = [n \in Namespaces |-> IF n \in N THEN db[n] + 1 ELSE db[n]]
      /\ wdata' = [wdata EXCEPT ![w] = [n \in Namespaces |-> IF n \in N THEN db[n] + 1 ELSE 0]]
      /\ todo' = [todo EXCEPT ![w] = N]
  BY DEF Commit, store, reader, history
<1>2. TypeOK BY DEF LossInv
<1>3. \A n \in Namespaces : db[n] \in Nat /\ db'[n] \in Nat /\ db[n] <= db'[n]
  BY <1>1, <1>2 DEF TypeOK
<1>4. TypeOK'
  <2>1. db' \in [Namespaces -> Nat] BY <1>1, <1>3
  <2>2. wdata' \in [Writers -> [Namespaces -> Nat]] BY <1>1, <1>2, <1>3 DEF TypeOK
  <2>3. todo' \in [Writers -> SUBSET Namespaces] BY <1>1, <1>2 DEF TypeOK
  <2> QED BY <1>1, <1>2, <2>1, <2>2, <2>3 DEF TypeOK
<1>5. Below'
  <2> SUFFICES ASSUME NEW n \in Namespaces, NEW i \in 1..Len(ackedAt[n])
               PROVE  ackedAt[n][i] <= db'[n]
    BY <1>1 DEF Below
  <2>1. ackedAt[n][i] \in Nat /\ ackedAt[n][i] <= db[n]
    BY <1>2, AckedInRange, ElementOfSeq DEF LossInv, Below
  <2> QED BY <1>3, <2>1
<1>6. Written'
  <2> SUFFICES ASSUME NEW v \in Writers, NEW n \in Namespaces PROVE wdata'[v][n] <= db'[n]
    BY DEF Written
  <2>1. wdata[v][n] \in Nat /\ wdata[v][n] <= db[n]
    BY <1>2 DEF LossInv, Written, TypeOK
  <2>2. wdata'[v][n] = wdata[v][n] \/ wdata'[v][n] = db'[n] \/ wdata'[v][n] = 0
    BY <1>1, <1>2 DEF TypeOK
  <2> QED BY <1>3, <2>1, <2>2
<1>7. ASSUME NEW p \in Readers PROVE Keeps(p)'
  <2>1. \A n \in Namespaces : floor[p][n] \in Nat /\ floor[p][n] <= db[n]
    BY <1>2 DEF LossInv, Keeps, TypeOK
  <2>2. \A n \in Namespaces : floor[p][n] <= db'[n] BY <1>3, <2>1
  <2> QED BY <1>1, <2>2 DEF LossInv, Keeps
<1>8. Nonempty' BY <1>1 DEF LossInv, Nonempty
<1>9. LossInv' BY <1>4, <1>5, <1>6, <1>7, <1>8 DEF LossInv
<1>10. HealInv => HealInv'
  BY <1>1, <1>9 DEF HealInv, StoredHealed, Resolves, HasLoaded, Healed
<1> QED BY <1>9, <1>10

\* An INCR begins the next version, or makes the counter of the first.
LEMMA IncrementedIs ==
    ASSUME LossInv, NEW n \in Namespaces
    PROVE  /\ Incremented(ver[n]) \in Nat
           /\ Version(Incremented(ver[n])) \in {Version(ver[n]), Version(ver[n]) + 1}
           /\ Invisible(ver[n]) => Version(Incremented(ver[n])) = Version(ver[n])
           /\ ver[n] \in Nat
<1>1. ver[n] \in Nat BY DEF LossInv, TypeOK
<1> QED BY <1>1, ConfigAssumption DEF Incremented, Invisible, Version

\* What the INCRs of writers and of the store have in common.
LEMMA CounterLoses ==
    ASSUME LossInv, NEW n \in Namespaces, NEW c \in Nat, NEW d \in Nat, d <= db[n],
           UNCHANGED <<db, reader, wdata, floor, entries, lateSets>>,
           ver' = [ver EXCEPT ![n] = c],
           Version(c) \in {Version(ver[n]), Version(ver[n]) + 1},
           \/ ackedAt' = ackedAt /\ Version(c) = Version(ver[n])
           \/ ackedAt' = [ackedAt EXCEPT ![n] = History(n, c, d)],
           todo' \in [Writers -> SUBSET Namespaces], again' \in [Writers -> SUBSET Namespaces],
           lateIncrs' \subseteq Writers \X Namespaces \X BOOLEAN
    PROVE  LossInv' /\ (HealInv => HealInv')
<1>1. /\ ver' \in [Namespaces -> Nat] /\ ackedAt' \in [Namespaces -> Seq(Nat)]
      /\ \A m \in Namespaces : Len(ackedAt'[m]) = Version(ver'[m])
      /\ Below' /\ \A m \in Namespaces : Closed(m)
  BY HistoryStep
<1>2. TypeOK' BY <1>1 DEF LossInv, TypeOK, reader
<1>3. Written' BY DEF LossInv, Written
<1> QED BY <1>1, <1>2, <1>3, OtherKeeps

\* The INCRs of a write, and those that fail.
LEMMA InvalidateLoses ==
    ASSUME LossInv, NEW w \in Writers, InvalidateStep(w)
    PROVE  LossInv' /\ (HealInv => HealInv')
<1>1. PICK n \in Namespaces : Incr(w, n) \/ IncrAgain(w, n) \/ IncrFails(w, n)
  BY DEF InvalidateStep
<1> PICK d : d = wdata[w][n] OBVIOUS
<1>2. /\ d \in Nat /\ d <= db[n] /\ ver \in [Namespaces -> Nat]
      /\ todo \in [Writers -> SUBSET Namespaces] /\ again \in [Writers -> SUBSET Namespaces]
      /\ lateIncrs \subseteq Writers \X Namespaces \X BOOLEAN
  BY DEF LossInv, TypeOK, Written
<1>3. CASE Incr(w, n)
  <2> PICK c : c = Incremented(ver[n]) OBVIOUS
  <2>1. /\ UNCHANGED <<db, reader, wdata, floor, entries, lateSets, lateIncrs>>
        /\ ver' = [ver EXCEPT ![n] = c] /\ todo' = [todo EXCEPT ![w] = @ \ {n}]
        /\ again' = [again EXCEPT ![w] = @ \cup {n}] \/ again' = again
        /\ Invisible(ver[n]) => ackedAt' = ackedAt
        /\ ~Invisible(ver[n]) => ackedAt' = [ackedAt EXCEPT ![n] = History(n, c, d)]
    BY <1>3 DEF Incr
  <2>2. todo' \in [Writers -> SUBSET Namespaces] /\ again' \in [Writers -> SUBSET Namespaces]
    BY <1>2, <2>1
  <2> QED BY <1>2, <2>1, <2>2, IncrementedIs, CounterLoses
<1>4. CASE IncrAgain(w, n)
  <2> PICK c : c = Incremented(ver[n]) OBVIOUS
  <2>1. /\ UNCHANGED <<db, reader, wdata, floor, entries, lateSets, lateIncrs, todo>>
        /\ ver' = [ver EXCEPT ![n] = c] /\ again' = [again EXCEPT ![w] = @ \ {n}]
        /\ ackedAt' = [ackedAt EXCEPT ![n] = History(n, c, d)]
    BY <1>4 DEF IncrAgain
  <2>2. again' \in [Writers -> SUBSET Namespaces] BY <1>2, <2>1
  <2> QED BY <1>2, <2>1, <2>2, IncrementedIs, CounterLoses
<1>5. CASE IncrFails(w, n)
  <2> PICK c : c = ver[n] OBVIOUS
  <2>1. /\ UNCHANGED <<db, reader, wdata, floor, entries, lateSets, ver>>
        /\ todo' = [todo EXCEPT ![w] = @ \ {n}] /\ again' = [again EXCEPT ![w] = @ \ {n}]
        /\ lateIncrs' \in {lateIncrs, lateIncrs \cup {<<w, n, n \in again[w]>>}}
        /\ ackedAt' = [ackedAt EXCEPT ![n] = History(n, c, d)]
    BY <1>5 DEF IncrFails
  <2>2. todo' \in [Writers -> SUBSET Namespaces] /\ again' \in [Writers -> SUBSET Namespaces]
    BY <1>2, <2>1
  <2>3. PICK b \in BOOLEAN : b = (n \in again[w])
    <3>1. CASE n \in again[w]
      <4>1. (n \in again[w]) = TRUE BY <3>1, Zenon
      <4> QED BY <4>1
    <3>2. CASE n \notin again[w]
      <4>1. (n \in again[w]) = FALSE BY <3>2
      <4> QED BY <4>1
    <3> QED BY <3>1, <3>2
  <2>a. <<w, n, b>> \in Writers \X Namespaces \X BOOLEAN OBVIOUS
  <2>b. lateIncrs' \subseteq lateIncrs \cup {<<w, n, b>>} BY <2>1, <2>3
  <2>4. lateIncrs' \subseteq Writers \X Namespaces \X BOOLEAN BY <1>2, <2>a, <2>b
  <2>5. ver' = [ver EXCEPT ![n] = c] /\ c \in Nat BY <1>2, <2>1
  <2> QED BY <1>2, <2>1, <2>2, <2>4, <2>5, CounterLoses
<1> QED BY <1>1, <1>3, <1>4, <1>5

\* An INCR that comes late announces nothing.
LEMMA LateIncrLoses ==
    ASSUME LossInv, NEW w \in Writers, NEW n \in Namespaces, NEW second \in BOOLEAN,
           LateIncr(w, n, second)
    PROVE  LossInv' /\ (HealInv => HealInv')
<1> PICK c : c = Incremented(ver[n]) OBVIOUS
<1>1. /\ UNCHANGED <<db, reader, wdata, floor, entries, lateSets, todo, again>>
      /\ ver' = [ver EXCEPT ![n] = c] /\ ackedAt' = [ackedAt EXCEPT ![n] = History(n, c, 0)]
      /\ lateIncrs' \subseteq lateIncrs \cup {<<w, n, TRUE>>}
  BY DEF LateIncr, writer
<1>2. /\ todo \in [Writers -> SUBSET Namespaces] /\ again \in [Writers -> SUBSET Namespaces]
      /\ lateIncrs \subseteq Writers \X Namespaces \X BOOLEAN /\ db[n] \in Nat
  BY DEF LossInv, TypeOK
<1>a. <<w, n, TRUE>> \in Writers \X Namespaces \X BOOLEAN OBVIOUS
<1>3. lateIncrs' \subseteq Writers \X Namespaces \X BOOLEAN BY <1>1, <1>2, <1>a
<1>4. 0 \in Nat /\ 0 <= db[n] BY <1>2
<1> QED BY <1>1, <1>2, <1>3, <1>4, IncrementedIs, CounterLoses

\* A flush keeps what has completed, and forgets the versions.
LEMMA FlushLoses ==
    ASSUME LossInv, Flush
    PROVE  LossInv'
<1>1. /\ UNCHANGED <<db, reader, wdata, todo, again, floor, lateSets, lateIncrs>>
      /\ entries' = {} /\ ver' = NoData /\ ackedAt' = [n \in Namespaces |-> <<Acked(n)>>]
  BY DEF Flush, writer
<1>2. \A n \in Namespaces : ver'[n] = 0 /\ ackedAt'[n] = <<Acked(n)>> BY <1>1 DEF NoData
<1>3. \A n \in Namespaces : Acked(n) \in Nat /\ Acked(n) <= db[n] BY AckedBelow
<1>4. TypeOK'
  <2>1. ver' \in [Namespaces -> Nat] BY <1>1 DEF NoData
  <2>2. ackedAt' \in [Namespaces -> Seq(Nat)] BY <1>1, <1>3
  <2>a. Version(0) = 1 BY DEF Version
  <2>b. \A x : Len(<<x>>) = 1 OBVIOUS
  <2>3. \A n \in Namespaces : Len(ackedAt'[n]) = Version(ver'[n]) BY <1>2, <2>a, <2>b
  <2> QED BY <1>1, <2>1, <2>2, <2>3 DEF LossInv, TypeOK, reader
<1>5. Below' BY <1>1, <1>2, <1>3 DEF Below
<1>6. Written' BY <1>1 DEF LossInv, Written
<1> QED BY <1>1, <1>4, <1>5, <1>6, OtherKeeps

\* A late set, an expiry, or nothing at all.
LEMMA StoreLoses ==
    ASSUME LossInv, entries' \cup lateSets' \subseteq entries \cup lateSets,
           UNCHANGED <<db, ver, lateIncrs, reader, writer, history>>
    PROVE  LossInv' /\ (HealInv => HealInv')
<1>1. UNCHANGED <<wdata, todo, again, ackedAt, floor, rpc, site, hasVers, vers, toLoad, val>>
  BY DEF writer, history, reader
<1>2. TypeOK' BY <1>1 DEF LossInv, TypeOK
<1>3. Below' /\ Written' /\ \A m \in Namespaces : Closed(m)
  BY <1>1 DEF LossInv, Below, Written, Closed
<1> QED BY <1>1, <1>2, <1>3, OtherKeeps

\* What was lost stays lost.
LEMMA FlushedStays == flushed /\ [Next]_vars => flushed'
<1> SUFFICES ASSUME flushed, [Next]_vars PROVE flushed' OBVIOUS
<1>1. ASSUME NEW p \in Readers, ReadStep(p) PROVE flushed'
  BY <1>1 DEF ReadStep, Resolve, ResolveFails, Hit, Miss, Load, LoadFails, Set, SetTimesOut, NotStored,
              Finish, Idle, history
<1>2. ASSUME NEW p \in Readers, NEW s \in Sites, Begin(p, s) PROVE flushed' BY <1>2 DEF Begin
<1>3. ASSUME NEW w \in Writers, NEW N \in WriteSets, Commit(w, N) PROVE flushed'
  BY <1>3 DEF Commit, history
<1>4. ASSUME NEW w \in Writers, InvalidateStep(w) PROVE flushed'
  BY <1>4 DEF InvalidateStep, Incr, IncrAgain, IncrFails
<1>5. CASE StoreStep BY <1>5 DEF StoreStep, LateSet, LateIncr, Expire, Flush, history
<1>6. CASE UNCHANGED vars BY <1>6 DEF vars, history
<1> QED BY <1>1, <1>2, <1>3, <1>4, <1>5, <1>6 DEF Next

\* Every step.
LEMMA LossStep ==
    ASSUME LossInv, [Next]_vars
    PROVE  /\ LossInv' /\ (flushed => flushed')
           /\ HealInv /\ ~flushed' => HealInv'
<1> DEFINE Goal == LossInv' /\ (HealInv /\ ~flushed' => HealInv')
<1>1. ASSUME NEW p \in Readers, NEW s \in Sites, Begin(p, s) PROVE Goal
  BY <1>1, BeginLoses
<1>2. ASSUME NEW p \in Readers, ReadStep(p) PROVE Goal
  BY <1>2, LookLoses, HitLoses, LoadLoses, SetLoses, IdleLoses DEF ReadStep, Finish, LoadFails
<1>3. ASSUME NEW w \in Writers, NEW N \in WriteSets, Commit(w, N) PROVE Goal
  BY <1>3, CommitLoses
<1>4. ASSUME NEW w \in Writers, InvalidateStep(w) PROVE Goal
  BY <1>4, InvalidateLoses
<1>5. ASSUME NEW e \in lateSets, LateSet(e) PROVE Goal
  BY <1>5, StoreLoses DEF LateSet, Stored
<1>6. ASSUME NEW e \in entries, Expire(e) PROVE Goal
  BY <1>6, StoreLoses DEF Expire
<1>7. ASSUME NEW w \in Writers, NEW n \in Namespaces, NEW second \in BOOLEAN, LateIncr(w, n, second)
      PROVE  Goal
  BY <1>7, LateIncrLoses
<1>8. ASSUME Flush PROVE Goal BY <1>8, FlushLoses DEF Flush
<1>9. ASSUME UNCHANGED vars PROVE Goal BY <1>9, StoreLoses DEF vars, store, reader, writer, history
<1> HIDE DEF Goal
<1>10. ASSUME StoreStep PROVE Goal BY <1>5, <1>6, <1>7, <1>8, <1>10 DEF StoreStep
<1>11. Goal BY <1>1, <1>2, <1>3, <1>4, <1>9, <1>10 DEF Next
<1> QED BY <1>11, FlushedStays DEF Goal

\* Whatever INCRs and counters are lost: no entry is empty, what a loader has read is as
\* new as what had completed when the read began, and what has completed is in the database.
THEOREM LossInvariance == Spec => []LossInv
<1>1. Init => LossInv BY LossInit DEF HealInv
<1>2. LossInv /\ [Next]_vars => LossInv' BY LossStep
<1> QED BY <1>1, <1>2, PTL DEF Spec

\* The variables have their types, whatever faults occur.
THEOREM TypeCorrect == Spec => []TypeOK
<1>1. LossInv => TypeOK BY DEF LossInv
<1> QED BY <1>1, LossInvariance, PTL

\* No negative caching: whatever INCRs, sets and counters are lost, a read that begins
\* after a create has completed finds rows.
THEOREM CreatesAreSeen == Spec => []CreateIsSeen
<1>1. LossInv => CreateIsSeen BY DEF LossInv, Keeps, CreateIsSeen
<1> QED BY <1>1, LossInvariance, PTL

\* As long as the store keeps its counters, whatever INCRs are lost or late: what is read
\* under a version has seen all that had completed before the version began.
THEOREM LostIncrsHeal == Spec => []LostIncrHeals
<1> DEFINE Inv == LossInv /\ (~flushed => HealInv)
<1>1. Init => Inv BY LossInit DEF HealInv
<1>2. Inv /\ [Next]_vars => Inv' BY LossStep
<1>3. Inv => LostIncrHeals
  BY DEF HealInv, Resolves, HasLoaded, Healed, LostIncrHeals, Resolved
<1> HIDE DEF Inv
<1> QED BY <1>1, <1>2, <1>3, PTL DEF Spec

-----------------------------------------------------------------------------
(* The circuit breaker: what is in flight, and how often the circuit has      *)
(* opened.                                                                   *)

InFlight == {o \in Ops : Pending(o)}
Attempts == Cardinality(InFlight)
Requests == Cardinality(Ops)

\* Below the threshold.
Counting ==
    /\ failures < CbFailures /\ cooldown = 0
    /\ sent <= failures + Attempts

\* k openings at least, each paid for by a cooldown.
Opened(k) ==
    /\ failures = CbFailures
    /\ k * CooldownTime <= silent + cooldown
    /\ sent < CbFailures + Requests * k + IF cooldown = 0 THEN Attempts ELSE 0

Accounted == Counting \/ \E k \in Nat \ {0} : Opened(k)

BreakerInv ==
    /\ BreakerTypes
    /\ OpenMeansFailing
    /\ silent < MaxTime => Accounted

-----------------------------------------------------------------------------
(* Counting. *)

LEMMA Counts == Requests \in Nat /\ Attempts \in Nat /\ Attempts <= Requests
<1>1. IsFiniteSet(Ops) BY BreakerAssumption
<1>2. InFlight \subseteq Ops BY DEF InFlight
<1> QED BY <1>1, <1>2, FS_Subset, FS_CardinalityType DEF Requests, Attempts

\* An operation that is sent adds one to those in flight.
LEMMA OneMore ==
    ASSUME NEW o \in Ops, ~Pending(o), InFlight' = InFlight \cup {o}
    PROVE  Attempts' = Attempts + 1
<1>1. IsFiniteSet(InFlight)
  BY BreakerAssumption, FS_Subset DEF InFlight
<1>2. o \notin InFlight BY DEF InFlight
<1> QED BY <1>1, <1>2, FS_AddElement DEF Attempts

\* One that is answered or fails takes one away.
LEMMA OneLess ==
    ASSUME NEW o \in Ops, Pending(o), InFlight' = InFlight \ {o}
    PROVE  Attempts' = Attempts - 1
<1>1. IsFiniteSet(InFlight)
  BY BreakerAssumption, FS_Subset DEF InFlight
<1>2. o \in InFlight BY DEF InFlight
<1> QED BY <1>1, <1>2, FS_RemoveElement DEF Attempts

LEMMA StartedTimer ==
    ASSUME BreakerTypes, NEW o \in Ops, timer' = [timer EXCEPT ![o] = OpTimeout]
    PROVE  InFlight' = InFlight \cup {o} /\ timer' \in [Ops -> 0..None]
BY BreakerAssumption DEF BreakerTypes, InFlight, Pending, None

LEMMA StoppedTimer ==
    ASSUME BreakerTypes, NEW o \in Ops, timer' = [timer EXCEPT ![o] = None]
    PROVE  InFlight' = InFlight \ {o} /\ timer' \in [Ops -> 0..None]
BY BreakerAssumption DEF BreakerTypes, InFlight, Pending, None

-----------------------------------------------------------------------------
(* Arithmetic. *)

\* One cooldown more pays for one opening more.
LEMMA OneCooldownMore ==
    ASSUME NEW k \in Nat, NEW t \in Nat, k * CooldownTime <= t
    PROVE  (k + 1) * CooldownTime <= t + CooldownTime
BY BreakerAssumption

LEMMA RequestsTimes ==
    ASSUME NEW k \in Nat
    PROVE  /\ Requests * k \in Nat
           /\ Requests * (k + 1) = Requests * k + Requests
BY Counts

LEMMA RequestsTimesGrows ==
    ASSUME NEW k \in Nat, NEW l \in Nat, k <= l
    PROVE  Requests * k <= Requests * l
BY Counts

\* k cooldowns within t and one cooldown are at most t \div CooldownTime and one.
LEMMA Openings ==
    ASSUME NEW k \in Nat, NEW t \in Nat, k * CooldownTime <= t + CooldownTime
    PROVE  t \div CooldownTime \in Nat /\ k <= 1 + t \div CooldownTime
<1> DEFINE d == t \div CooldownTime
<1>1. CooldownTime \in Nat \ {0} BY BreakerAssumption
<1>2. d \in Nat /\ t < (d + 1) * CooldownTime BY <1>1
<1> QED
  <2> HIDE DEF d
  <2>1. SUFFICES ASSUME k > 1 + d PROVE FALSE BY <1>2 DEF d
  <2>2. k * CooldownTime >= (d + 2) * CooldownTime BY <1>1, <1>2, <2>1
  <2>3. (d + 2) * CooldownTime = (d + 1) * CooldownTime + CooldownTime BY <1>1, <1>2
  <2>4. (d + 1) * CooldownTime \in Nat /\ k * CooldownTime \in Nat BY <1>1, <1>2
  <2> QED BY <1>1, <1>2, <2>2, <2>3, <2>4

-----------------------------------------------------------------------------
(* The invariant. *)

LEMMA BreakerAtFirst == InitBreaker => BreakerInv
<1> SUFFICES ASSUME InitBreaker PROVE BreakerInv OBVIOUS
<1>1. BreakerTypes /\ OpenMeansFailing
  BY BreakerAssumption DEF InitBreaker, BreakerTypes, OpenMeansFailing, isCircuitOpen, None
<1>2. Counting BY BreakerAssumption, Counts DEF InitBreaker, Counting
<1> QED BY <1>1, <1>2 DEF BreakerInv, Accounted

\* An attempt that is sent was not in flight before.
LEMMA SendKeeps ==
    ASSUME BreakerInv, NEW o \in Ops, Send(o)
    PROVE  BreakerInv'
<1>1. /\ BreakerTypes /\ cooldown = 0
      /\ UNCHANGED <<failures, cooldown, silent>>
  BY BreakerAssumption DEF BreakerInv, Send, isCircuitOpen, BreakerTypes
<1>2. InFlight' = InFlight \cup {o} /\ timer' \in [Ops -> 0..None]
  BY StartedTimer DEF BreakerInv, Send
<1>3. Attempts' = Attempts + 1 BY <1>2, OneMore DEF Send
<1>4. BreakerTypes' BY <1>1, <1>2 DEF BreakerTypes, Send
<1>5. OpenMeansFailing' BY <1>1 DEF BreakerInv, OpenMeansFailing, isCircuitOpen
<1>6. ASSUME silent' < MaxTime PROVE Accounted'
  <2>1. sent' = sent + 1 /\ sent \in Nat /\ Accounted
    BY <1>1, <1>6 DEF Send, BreakerTypes, BreakerInv
  <2>2. CASE Counting
    BY <1>1, <1>3, <2>1, <2>2, Counts, BreakerAssumption DEF Counting, Accounted, BreakerTypes
  <2>3. CASE \E k \in Nat \ {0} : Opened(k)
    <3>1. PICK k \in Nat \ {0} : Opened(k) BY <2>3
    <3>2. Requests' = Requests BY DEF Requests
    <3>3. Opened(k)'
      BY <1>1, <1>3, <2>1, <3>1, <3>2, Counts, RequestsTimes, BreakerAssumption
      DEF Opened, BreakerTypes
    <3> QED BY <3>3 DEF Accounted
  <2> QED BY <2>1, <2>2, <2>3 DEF Accounted
<1> QED BY <1>4, <1>5, <1>6 DEF BreakerInv

\* An answer starts all over.
LEMMA AnswerKeeps ==
    ASSUME BreakerInv, NEW o \in Ops, Answer(o)
    PROVE  BreakerInv'
<1>1. InFlight' = InFlight \ {o} /\ timer' \in [Ops -> 0..None]
  BY StoppedTimer DEF BreakerInv, Answer
<1>2. Attempts' = Attempts - 1 BY <1>1, OneLess DEF Answer
<1>3. /\ failures' = 0 /\ cooldown' = 0 /\ silent' = 0
      /\ sent' = Attempts'
  BY <1>2 DEF Answer, recordSuccess, Attempts, InFlight
<1>4. Attempts' \in Nat BY <1>1, BreakerAssumption, FS_Subset, FS_CardinalityType
                         DEF Attempts, InFlight
<1>5. BreakerTypes' BY <1>1, <1>3, <1>4, BreakerAssumption DEF BreakerTypes
<1>6. OpenMeansFailing' BY <1>3 DEF OpenMeansFailing, isCircuitOpen
<1>7. Counting'
  <2> DEFINE a == Attempts'
  <2> HIDE DEF a
  <2>1. a \in Nat /\ sent' = a /\ failures' = 0 BY <1>3, <1>4 DEF a
  <2>2. sent' <= failures' + a BY <2>1
  <2>3. sent' <= failures' + Attempts' BY <2>2 DEF a
  <2>4. failures' < CbFailures BY <1>3, BreakerAssumption
  <2> QED BY <1>3, <2>3, <2>4 DEF Counting
<1> QED BY <1>5, <1>6, <1>7 DEF BreakerInv, Accounted

\* A failure is counted, or opens the circuit on behalf of all that was in flight.
LEMMA FailKeeps ==
    ASSUME BreakerInv, NEW o \in Ops, Fail(o)
    PROVE  BreakerInv'
<1>1. InFlight' = InFlight \ {o} /\ timer' \in [Ops -> 0..None]
  BY StoppedTimer DEF BreakerInv, Fail
<1>2. Attempts' = Attempts - 1 /\ Attempts \in Nat /\ Attempts <= Requests
  BY <1>1, OneLess, Counts DEF Fail
<1>3. /\ failures' = IF failures = CbFailures THEN failures ELSE failures + 1
      /\ cooldown' = IF failures' >= CbFailures THEN CooldownTime ELSE cooldown
      /\ UNCHANGED <<sent, silent>>
  BY DEF Fail, recordFailure
<1>4. BreakerTypes' BY <1>1, <1>3, BreakerAssumption DEF BreakerTypes, BreakerInv
<1>5. OpenMeansFailing'
  BY <1>3, BreakerAssumption DEF BreakerInv, BreakerTypes, OpenMeansFailing, isCircuitOpen
<1>6. ASSUME silent' < MaxTime PROVE Accounted'
  <2>1. Accounted /\ BreakerTypes BY <1>3, <1>6 DEF BreakerInv
  <2>2. CASE Counting /\ failures + 1 < CbFailures
    <3>1. Counting' BY <1>2, <1>3, <2>1, <2>2, BreakerAssumption DEF Counting, BreakerTypes
    <3> QED BY <3>1 DEF Accounted
  <2>3. CASE Counting /\ failures + 1 = CbFailures
    <3>1. /\ failures' = CbFailures /\ cooldown' = CooldownTime
          /\ sent < CbFailures + Attempts
      BY <1>2, <1>3, <2>1, <2>3, BreakerAssumption DEF Counting, BreakerTypes
    <3>2. Requests' = Requests /\ Requests * 1 = Requests BY Counts DEF Requests
    <3>3. 1 * CooldownTime <= silent' + cooldown' /\ cooldown' # 0
      BY <1>3, <2>1, <3>1, BreakerAssumption DEF BreakerTypes
    <3>4. sent' < CbFailures + Requests' * 1 + 0
      BY <1>2, <1>3, <2>1, <3>1, <3>2, Counts, BreakerAssumption DEF BreakerTypes
    <3>5. Opened(1)' BY <3>1, <3>3, <3>4 DEF Opened
    <3> QED BY <3>5 DEF Accounted
  <2>4. CASE \E k \in Nat \ {0} : Opened(k)
    <3>1. PICK k \in Nat \ {0} : Opened(k) BY <2>4
    <3>2. failures' = CbFailures /\ cooldown' = CooldownTime
      BY <1>3, <3>1, BreakerAssumption DEF Opened
    <3>3. Requests' = Requests BY DEF Requests
    <3>4. CASE cooldown = 0
      <4>1. (k + 1) * CooldownTime <= silent' + cooldown' /\ cooldown' # 0
        BY <1>3, <2>1, <3>1, <3>2, <3>4, OneCooldownMore, BreakerAssumption
        DEF Opened, BreakerTypes
      <4>2. sent < CbFailures + Requests * k + Attempts
        BY <3>1, <3>4 DEF Opened
      <4>3. sent' < CbFailures + Requests' * (k + 1) + 0
        BY <1>2, <1>3, <2>1, <3>3, <4>2, Counts, RequestsTimes, BreakerAssumption
        DEF BreakerTypes
      <4>4. Opened(k + 1)' BY <3>2, <4>1, <4>3 DEF Opened
      <4> QED BY <4>4 DEF Accounted
    <3>5. CASE cooldown # 0
      <4>1. Opened(k)'
        BY <1>2, <1>3, <2>1, <3>1, <3>2, <3>3, <3>5, RequestsTimes, BreakerAssumption
        DEF Opened, BreakerTypes
      <4> QED BY <4>1 DEF Accounted
    <3> QED BY <3>4, <3>5
  <2> QED BY <2>1, <2>2, <2>3, <2>4, BreakerAssumption DEF Accounted, Counting, BreakerTypes
<1> QED BY <1>4, <1>5, <1>6 DEF BreakerInv

\* What the cooldown loses the silence gains.
LEMMA TickKeeps ==
    ASSUME BreakerInv, Tick
    PROVE  BreakerInv'
<1>1. InFlight' = InFlight /\ timer' \in [Ops -> 0..None]
  BY BreakerAssumption DEF BreakerInv, BreakerTypes, Tick, Ticked, InFlight, Pending, None
<1>2. Attempts' = Attempts /\ Requests' = Requests BY <1>1 DEF Attempts, Requests
<1>3. /\ cooldown' = IF cooldown = 0 THEN 0 ELSE cooldown - 1
      /\ silent' = IF silent < MaxTime THEN silent + 1 ELSE silent
      /\ UNCHANGED <<failures, sent>>
  BY DEF Tick, Ticked
<1>4. BreakerTypes' BY <1>1, <1>3, BreakerAssumption DEF BreakerTypes, BreakerInv
<1>5. OpenMeansFailing'
  BY <1>3, BreakerAssumption DEF BreakerInv, BreakerTypes, OpenMeansFailing, isCircuitOpen
<1>6. ASSUME silent' < MaxTime PROVE Accounted'
  <2>1. Accounted /\ BreakerTypes /\ silent' = silent + 1
    BY <1>3, <1>6, BreakerAssumption DEF BreakerInv, BreakerTypes
  <2>2. CASE Counting
    BY <1>2, <1>3, <2>1, <2>2 DEF Counting, Accounted
  <2>3. CASE \E k \in Nat \ {0} : Opened(k)
    <3>1. PICK k \in Nat \ {0} : Opened(k) BY <2>3
    <3>2. Opened(k)'
      BY <1>2, <1>3, <2>1, <3>1, Counts, RequestsTimes, BreakerAssumption
      DEF Opened, BreakerTypes
    <3> QED BY <3>2 DEF Accounted
  <2> QED BY <2>1, <2>2, <2>3 DEF Accounted
<1> QED BY <1>4, <1>5, <1>6 DEF BreakerInv

LEMMA StutterKeeps == BreakerInv /\ UNCHANGED breakerVars => BreakerInv'
BY DEF breakerVars, BreakerInv, BreakerTypes, OpenMeansFailing, isCircuitOpen, Accounted, Counting, Opened,
       Attempts, Requests, InFlight, Pending

LEMMA NextKeeps == BreakerInv /\ [NextBreaker]_breakerVars => BreakerInv'
<1> SUFFICES ASSUME BreakerInv, [NextBreaker]_breakerVars PROVE BreakerInv' OBVIOUS
<1>1. ASSUME NEW o \in Ops, Skip(o) PROVE BreakerInv' BY <1>1, StutterKeeps DEF Skip
<1> QED BY <1>1, SendKeeps, AnswerKeeps, FailKeeps, TickKeeps, StutterKeeps DEF NextBreaker

-----------------------------------------------------------------------------
(* The theorems. *)

\* The inductive invariant, from which the others follow.
THEOREM BreakerInvariance == BreakerSpec => []BreakerInv
BY BreakerAtFirst, NextKeeps, PTL DEF BreakerSpec

\* The counters of executeOp keep their types.
THEOREM BreakerTypesHold == BreakerSpec => []BreakerTypes
<1>1. BreakerInv => BreakerTypes BY DEF BreakerInv
<1> QED BY <1>1, BreakerInvariance, PTL

\* recordFailure and recordSuccess: the circuit is open only on top of CbFailures
\* consecutive failures.
THEOREM OpenOnlyWhenFailing == BreakerSpec => []OpenMeansFailing
<1>1. BreakerInv => OpenMeansFailing BY DEF BreakerInv
<1> QED BY <1>1, BreakerInvariance, PTL

\* executeOp: while Redis is dead the attempts of all requests together stay within
\* the failures that open the circuit and one attempt each per cooldown.
THEOREM AttemptsBounded == BreakerSpec => []DeadRedisIsCheap
<1>1. BreakerInv => DeadRedisIsCheap
  <2> SUFFICES ASSUME BreakerInv, silent < MaxTime
               PROVE  sent < CbFailures + Requests * (1 + silent \div CooldownTime)
    BY DEF DeadRedisIsCheap, Requests
  <2>1. BreakerTypes /\ Accounted BY DEF BreakerInv
  <2>2. /\ silent \div CooldownTime \in Nat /\ silent \in Nat
        /\ 1 <= 1 + silent \div CooldownTime
    BY <2>1, BreakerAssumption DEF BreakerTypes
  <2>3. CASE Counting
    <3>1. Requests * 1 <= Requests * (1 + silent \div CooldownTime)
      BY <2>2, RequestsTimesGrows
    <3> QED BY <2>1, <2>2, <2>3, <3>1, Counts, RequestsTimes, BreakerAssumption
            DEF Counting, BreakerTypes
  <2>4. CASE \E k \in Nat \ {0} : Opened(k)
    <3>1. PICK k \in Nat \ {0} : Opened(k) BY <2>4
    <3>2. k <= 1 + silent \div CooldownTime
      BY <2>1, <2>2, <3>1, Openings, BreakerAssumption DEF Opened, BreakerTypes
    <3> QED
      <4>1. CASE cooldown # 0
        BY <2>1, <2>2, <3>1, <3>2, <4>1, RequestsTimes, RequestsTimesGrows,
           BreakerAssumption
        DEF Opened, BreakerTypes
      <4>2. CASE cooldown = 0
        \* Whatever is in flight was sent since the k-th cooldown ended.
        BY <2>1, <2>2, <3>1, <3>2, <4>2, Counts, RequestsTimes, RequestsTimesGrows,
           BreakerAssumption
        DEF Opened, BreakerTypes
      <4> QED BY <4>1, <4>2
  <2> QED BY <2>1, <2>3, <2>4 DEF Accounted
<1> QED BY <1>1, BreakerInvariance, PTL
=============================================================================

--------------------------- MODULE AccountsProofs ---------------------------
(***************************************************************************)
(* Proofs about the account and the row of a user.                         *)
(*                                                                         *)
(* None of the properties is inductive: a call changes one store by what   *)
(* an earlier one did to the other.  The inductive invariant says of every *)
(* request, per call, what it knows of its user (Knows), that two requests *)
(* on one user are updates that keep the name (Alone), and that two stores *)
(* which disagree on a user have a request between the two writes          *)
(* (Parting) or a failed one (Agreement).                                  *)
(*                                                                         *)
(* Effect is what a step of any request amounts to: it goes on about its   *)
(* user, changes that one alone, and settles what it has parted.  First    *)
(* Effect keeps the invariant, then every action has an Effect; the lists  *)
(* of devices are apart.                                                   *)
(*                                                                         *)
(* NamesAreKept, the hypothesis of the theorems, restricts which changes   *)
(* may overlap on one user.  Without it the first property fails: a save   *)
(* inserts the row again that a deletion has just taken away.              *)
(***************************************************************************)
EXTENDS Accounts, SequenceTheorems, TLAPS

\* The places of the handlers, and a request with its fields typed.
Ats == {"new", "account", "row", "mappings", "check", "find", "save", "status", "done"}

ReqRow == [at : Ats, op : {"create", "update", "delete", None}, id : Ids \cup {None},
           change : Changes \cup {NoChange}, name : Names \cup {None},
           devices : Seq(Devices) \cup {None}, entity : UserRow \cup {None}]

Types ==
    /\ accounts \in [Ids -> Account \cup {None}] /\ rows \in [Ids -> UserRow \cup {None}]
    /\ mapped \subseteq Ids /\ issued \subseteq Ids /\ failed \subseteq Ids
    /\ finished \subseteq {"create", "update", "delete"} \X Ids
    /\ req \in [Requests -> ReqRow]
    /\ syncs \in [Requests -> [id : Ids, enabled : BOOLEAN] \cup {None}]

\* What a request is, place by place.
Shape(q) ==
    \/ q.at = "new" /\ q = Waiting
    \/ q.at = "done"
    \/ q.op = "create" /\ q.at = "account" /\ q.id = None /\ q.name \in Names /\ q.change = NoChange
    \/ q.op = "create" /\ q.at \in {"row", "mappings"} /\ q.id \in Ids /\ q.name \in Names
       /\ q.change = NoChange
    \/ /\ q.op = "update" /\ q.at \in {"check", "account", "find", "save", "status"}
       /\ q.id \in Ids /\ q.change \in Changes
       /\ (q.at = "check" => q.change.name # None) /\ (q.at = "save" => q.entity \in UserRow)
    \/ q.op = "delete" /\ q.at \in {"mappings", "row", "account"} /\ q.id \in Ids
       /\ q.change = NoChange
Shapes == \A r \in Requests : Shape(req[r])

\* An id that Keycloak has not given out is nowhere.
Fresh == \A i \in Ids \ issued :
    /\ accounts[i] = None /\ rows[i] = None
    /\ \A r \in Requests : req[r].id # i

\* Requests on one user overlap as far as they may.
Alone == \A r, s \in UnderWay :
    r # s /\ req[r].id = req[s].id /\ req[r].id # None =>
        {req[r].change, req[s].change} \subseteq Overlapping

\* What a request knows of its user before each call.
Knows(q) ==
    /\ q.op = "create" /\ q.at = "row" =>
         accounts[q.id] # None /\ rows[q.id] = None /\ accounts[q.id].name = q.name
    /\ q.op = "create" /\ q.at = "mappings" => rows[q.id] # None
    /\ q.op = "update" /\ q.at \notin {"new", "done"} =>
         /\ rows[q.id] # None
         /\ q.at \in {"find", "save"} /\ q.change.name # None =>
              accounts[q.id].name = q.change.name
         /\ q.at = "save" => q.entity.name =
              IF q.change.name # None THEN q.change.name ELSE rows[q.id].name
    /\ q.op = "delete" /\ q.at \in {"mappings", "row"} => rows[q.id] # None
    /\ q.op = "delete" /\ q.at = "account" => rows[q.id] = None
Known == \A r \in Requests : Knows(req[r])

\* One store has what the other gets next.
Parting(q) ==
    \/ q.op = "create" /\ q.at = "row"
    \/ q.op = "update" /\ q.at \in {"find", "save"} /\ q.change.name # None
    \/ q.op = "delete" /\ q.at = "account"
Agreement == \A i \in Ids :
    Disagree(i) => i \in failed \/ \E r \in Requests : req[r].id = i /\ Parting(req[r])

\* At most three devices, none twice; in the rows, and in what a request will write.
Good(ds) == Len(ds) <= 3 /\ IsInjective(ds)
DevicesGood ==
    /\ DevicesBounded
    /\ \A r \in Requests : /\ req[r].devices # None => Good(req[r].devices)
                           /\ req[r].entity # None => Good(req[r].entity.devices)

AccountsInv == Types /\ Shapes /\ Fresh /\ Alone /\ Known /\ Agreement /\ RowsHaveAccounts
               /\ CreatedIsComplete /\ DevicesGood

-----------------------------------------------------------------------------
(* What a step does, whatever the request. *)

Others(r) == \A s \in Requests \ {r} : req'[s] = req[s]

\* A step leaves an id in both stores, or in neither, with the names it has.
Same(j) ==
    /\ (rows'[j] # None) <=> (rows[j] # None)
    /\ rows[j] # None => rows'[j].name = rows[j].name
    /\ (accounts'[j] # None) <=> (accounts[j] # None)
    /\ accounts[j] # None => accounts'[j].name = accounts[j].name
AllSame == \A j \in Ids : Same(j)

\* The request goes on about the user it is about, gets the id of a new one, or starts.
Goes(r, i) ==
    /\ Others(r) /\ req' \in [Requests -> ReqRow] /\ Shape(req'[r])
    /\ req[r].op = "delete" => req'[r].op = "delete" /\ req'[r].id = req[r].id
    /\ \/ r \in UnderWay /\ req'[r].id = req[r].id /\ req'[r].change = req[r].change
       \/ r \in UnderWay /\ req'[r].id = i /\ i \in Ids \ issued /\ issued' = issued \cup {i}
       \/ /\ req[r].at = "new"
          /\ req'[r].id # None => req'[r].id \in issued /\ MayStart(req'[r].id, req'[r].change)
    /\ issued' = issued \/ (i \in Ids \ issued /\ issued' = issued \cup {i})

\* Only an id that is new, or that the request is alone on, changes.
Touches(r, i) ==
    \/ AllSame
    \/ /\ i \in Ids /\ (\A j \in Ids \ {i} : Same(j)) /\ r \in UnderWay
       /\ rows'[i] # None => accounts'[i] # None
       /\ Disagree(i)' => i \in failed' \/ (req'[r].id = i /\ Parting(req'[r]))
       /\ \/ i \notin issued /\ issued' = issued \cup {i}
          \/ req[r].id = i /\ (req[r].op = "update" => req[r].change.name # None)

Settles(r) ==
    /\ failed \subseteq failed'
    /\ \A j \in Ids :
         Parting(req[r]) /\ req[r].id = j /\ Disagree(j)' =>
             j \in failed' \/ (Parting(req'[r]) /\ req'[r].id = j)

\* What takes a mapping or a row away is a deletion; a creation succeeds with both.
Completes(r) ==
    \A j \in Ids :
        \/ req'[r].op = "delete" /\ req'[r].id = j
        \/ /\ rows[j] # None => rows'[j] # None
           /\ j \in mapped => j \in mapped'
           /\ <<"create", j>> \in finished' =>
                <<"create", j>> \in finished \/ (rows'[j] # None /\ j \in mapped')

Effect(r, i) ==
    Goes(r, i) /\ Touches(r, i) /\ Settles(r) /\ Completes(r) /\ Knows(req[r])'

\* Where a request is says what it carries.
LEMMA Places == ASSUME NEW q \in ReqRow, Shape(q)
    PROVE  /\ q.at \notin {"new", "done"} /\ q.op # "update" => q.change = NoChange
           /\ Parting(q) => q.id \in Ids /\ q.at \notin {"new", "done"}
           /\ q.op \in {"update", "delete"} /\ q.at \notin {"new", "done"} => q.id \in Ids
           /\ q.op = "create" /\ q.at \in {"row", "mappings"} => q.id \in Ids
           /\ q.at = "new" => q = Waiting
<1>1. q.at = "new" => q = Waiting BY DEF Shape
<1>2. q.at \notin {"new", "done"} /\ q.op # "update" => q.change = NoChange BY DEF Shape
<1>3. q.op \in {"update", "delete"} /\ q.at \notin {"new", "done"} => q.id \in Ids BY DEF Shape
<1>4. q.op = "create" /\ q.at \in {"row", "mappings"} => q.id \in Ids BY DEF Shape
<1>5. q.at = "new" => q.op = None BY <1>1 DEF Waiting
<1>6. Parting(q) => q.id \in Ids /\ q.at \notin {"new", "done"} BY <1>3, <1>4 DEF Parting
<1> QED BY <1>1, <1>2, <1>3, <1>4, <1>5, <1>6

\* Two requests about one user are two updates, and neither renames.
LEMMA Together ==
    ASSUME Types, Shapes, Alone, NamesAreKept, NEW r \in UnderWay, NEW s \in UnderWay,
           r # s, req[r].id = req[s].id, req[r].id # None
    PROVE  req[r].op = "update" /\ req[r].change.name = None
<1>1. req[r].change \in Overlapping BY DEF Alone
<1>2. req[r].change.name = None /\ req[r].change # NoChange BY <1>1 DEF NamesAreKept
<1>3. req[r] \in ReqRow /\ Shape(req[r]) BY DEF Types, Shapes, UnderWay
<1> QED BY <1>2, <1>3, Places DEF UnderWay

\* What the others know stays so: the step is about another user, or keeps this one's name.
LEMMA KnownStep ==
    ASSUME AccountsInv, NamesAreKept, NEW r \in Requests, NEW i \in Ids \cup {None}, Effect(r, i)
    PROVE  Known'
<1> SUFFICES ASSUME NEW s \in Requests \ {r} PROVE Knows(req[s])'
  BY DEF Known, Effect
<1>1. req'[s] = req[s] /\ Knows(req[s]) BY DEF Effect, Goes, Others, AccountsInv, Known
<1>2. req[s] \in ReqRow /\ Shape(req[s]) BY DEF AccountsInv, Types, Shapes
<1> PICK q : q = req[s] OBVIOUS
<1>3. Knows(q) /\ q \in ReqRow /\ Shape(q) BY <1>1, <1>2
<1>4. CASE q.id \notin Ids \/ q.at \in {"new", "done"}
  <2>1. Knows(req[s])' BY <1>1, <1>3, <1>4, Places DEF Knows, Waiting
  <2> QED BY <2>1
<1>5. CASE q.id \in Ids /\ q.at \notin {"new", "done"}
  <2>1. Same(q.id)
    <3>1. CASE AllSame BY <1>5, <3>1 DEF AllSame
    <3>2. CASE ~AllSame
      <4>1. /\ i \in Ids /\ (\A j \in Ids \ {i} : Same(j)) /\ r \in UnderWay
            /\ i \notin issued \/ (req[r].id = i /\ (req[r].op = "update" => req[r].change.name # None))
        BY <3>2 DEF Effect, Touches
      <4>2. CASE q.id # i BY <1>5, <4>1, <4>2
      <4>3. CASE q.id = i
        <5>1. i \in issued BY <1>5, <4>3 DEF AccountsInv, Fresh
        <5>2. s \in UnderWay /\ r # s /\ req[s].id = i /\ i # None
          BY <1>5, <4>3, AccountAssumption DEF UnderWay
        <5>3. req[r].op = "update" /\ req[r].change.name = None
          BY <4>1, <5>1, <5>2, Together DEF AccountsInv
        <5> QED BY <4>1, <5>1, <5>3
      <4> QED BY <4>2, <4>3
    <3> QED BY <3>1, <3>2
  <2>2. rows[q.id] # None => accounts[q.id] # None BY <1>5 DEF AccountsInv, RowsHaveAccounts
  <2>3. Knows(req[s])' BY <1>1, <1>3, <1>5, <2>1, <2>2 DEF Knows, Same
  <2> QED BY <2>3
<1> QED BY <1>4, <1>5

\* The parts of the invariant about requests and ids alone.
LEMMA AloneStep ==
    ASSUME AccountsInv, NEW r \in Requests, NEW i \in Ids \cup {None}, Effect(r, i)
    PROVE  Alone' /\ Fresh' /\ Shapes'
<1> USE DEF Effect, Goes
<1>1. Shapes' BY DEF Shapes, AccountsInv, Others
<1>2. Fresh'
  <2> SUFFICES ASSUME NEW j \in Ids \ issued'
               PROVE  accounts'[j] = None /\ rows'[j] = None /\ \A s \in Requests : req'[s].id # j
    BY DEF Fresh
  <2>1. j \notin issued BY DEF Effect, Goes
  <2>2. accounts[j] = None /\ rows[j] = None /\ \A s \in Requests : req[s].id # j
    BY <2>1 DEF AccountsInv, Fresh
  <2>3. Same(j)
    <3>1. CASE AllSame BY <3>1 DEF AllSame
    <3>2. CASE ~AllSame
      <4>1. i \in Ids /\ i \in issued' /\ \A k \in Ids \ {i} : Same(k)
        BY <2>2, <3>2 DEF Touches, AccountsInv, Fresh
      <4> QED BY <4>1
    <3> QED BY <3>1, <3>2
  <2>4. req'[r].id # j BY <2>1, <2>2, AccountAssumption
  <2> QED BY <2>2, <2>3, <2>4 DEF Same, Others
<1>3. Alone'
  <2> SUFFICES ASSUME NEW p \in UnderWay', NEW s \in UnderWay', p # s, req'[p].id = req'[s].id,
                      req'[p].id # None
               PROVE  {req'[p].change, req'[s].change} \subseteq Overlapping
    BY DEF Alone
  <2>1. ASSUME NEW t \in UnderWay', t # r, req'[t].id = req'[r].id, req'[r].id # None, r \in UnderWay'
        PROVE  {req'[r].change, req'[t].change} \subseteq Overlapping
    <3>1. t \in UnderWay /\ req'[t] = req[t] /\ t \in Requests BY <2>1 DEF UnderWay, Others
    <3>2. CASE r \in UnderWay /\ req'[r].id = req[r].id /\ req'[r].change = req[r].change
      BY <2>1, <3>1, <3>2 DEF AccountsInv, Alone
    <3>3. CASE req'[r].id = i /\ i \in Ids \ issued
      BY <2>1, <3>1, <3>3 DEF AccountsInv, Fresh
    <3>4. CASE MayStart(req'[r].id, req'[r].change)
      BY <2>1, <3>1, <3>4 DEF MayStart
    <3> QED BY <2>1, <3>2, <3>3, <3>4
  <2>2. CASE p # r /\ s # r
    <3>1. p \in UnderWay /\ s \in UnderWay /\ req'[p] = req[p] /\ req'[s] = req[s]
      BY <2>2 DEF UnderWay, Others
    <3> QED BY <3>1 DEF AccountsInv, Alone
  <2>3. CASE p = r BY <2>1, <2>3
  <2>4. CASE s = r BY <2>1, <2>4
  <2> QED BY <2>2, <2>3, <2>4
<1> QED BY <1>1, <1>2, <1>3

\* A step leaves the stores in agreement, or its own request between the two writes.
LEMMA AgreementStep ==
    ASSUME AccountsInv, NEW r \in Requests, NEW i \in Ids \cup {None}, Effect(r, i)
    PROVE  Agreement' /\ RowsHaveAccounts'
<1>1. ASSUME NEW j \in Ids, Same(j)
      PROVE  (Disagree(j)' <=> Disagree(j)) /\ (rows'[j] # None => accounts'[j] # None)
  BY <1>1 DEF Same, Disagree, AccountsInv, RowsHaveAccounts
<1>2. ASSUME NEW j \in Ids, ~Same(j)
      PROVE  /\ rows'[j] # None => accounts'[j] # None
             /\ Disagree(j)' => j \in failed' \/ (req'[r].id = j /\ Parting(req'[r]))
  <2>1. ~AllSame BY <1>2 DEF AllSame
  <2>2. j = i BY <1>2, <2>1 DEF Effect, Touches
  <2> QED BY <2>1, <2>2 DEF Effect, Touches
<1>3. RowsHaveAccounts' BY <1>1, <1>2 DEF RowsHaveAccounts
<1>4. Agreement'
  <2> SUFFICES ASSUME NEW j \in Ids, Disagree(j)', j \notin failed'
               PROVE  \E s \in Requests : req'[s].id = j /\ Parting(req'[s])
    BY DEF Agreement
  <2>1. CASE ~Same(j) BY <1>2, <2>1
  <2>2. CASE Same(j)
    <3>1. Disagree(j) /\ j \notin failed BY <1>1, <2>2 DEF Effect, Settles
    <3>2. PICK s \in Requests : req[s].id = j /\ Parting(req[s])
      BY <3>1 DEF AccountsInv, Agreement
    <3>3. CASE s = r BY <3>2, <3>3 DEF Effect, Settles
    <3>4. CASE s # r
      <4>1. req'[s] = req[s] BY <3>4 DEF Effect, Goes, Others
      <4> QED BY <3>2, <4>1
    <3> QED BY <3>3, <3>4
  <2> QED BY <2>1, <2>2
<1> QED BY <1>3, <1>4

\* Only a deletion takes away what a creation has made.
LEMMA CompleteStep ==
    ASSUME AccountsInv, NEW r \in Requests, NEW i \in Ids \cup {None}, Effect(r, i)
    PROVE  CreatedIsComplete'
<1> SUFFICES ASSUME NEW j \in Ids, <<"create", j>> \in finished',
                    \A s \in Requests : req'[s].op = "delete" => req'[s].id # j
             PROVE  accounts'[j] # None /\ rows'[j] # None /\ j \in mapped'
  BY DEF CreatedIsComplete
<1>1. \A s \in Requests : req[s].op = "delete" => req[s].id # j
  BY DEF Effect, Goes, Others
<1>2. /\ rows[j] # None => rows'[j] # None
      /\ j \in mapped => j \in mapped'
      /\ <<"create", j>> \in finished \/ (rows'[j] # None /\ j \in mapped')
  BY DEF Effect, Completes
<1>3. <<"create", j>> \in finished => rows[j] # None /\ j \in mapped
  BY <1>1 DEF AccountsInv, CreatedIsComplete
<1>4. RowsHaveAccounts' BY AgreementStep
<1> QED BY <1>2, <1>3, <1>4 DEF RowsHaveAccounts

\* What has an Effect keeps the invariant.
LEMMA EffectKeeps ==
    ASSUME AccountsInv, NamesAreKept, NEW r \in Requests, NEW i \in Ids \cup {None}, Effect(r, i),
           Types', DevicesGood'
    PROVE  AccountsInv'
BY KnownStep, AloneStep, AgreementStep, CompleteStep DEF AccountsInv

-----------------------------------------------------------------------------
(* The request that takes the step. *)

Moved(r, a) ==
    /\ Others(r) /\ req' \in [Requests -> ReqRow]
    /\ req'[r].at = a /\ req'[r].op = req[r].op /\ req'[r].id = req[r].id
    /\ req'[r].change = req[r].change /\ req'[r].name = req[r].name
    /\ req'[r].devices = req[r].devices /\ req'[r].entity = req[r].entity

\* GoTo changes the place alone.
LEMMA MoveStep ==
    ASSUME Types, NEW r \in Requests, NEW a \in Ats, GoTo(r, a)
    PROVE  Moved(r, a)
<1> PICK q \in ReqRow : q = req[r] BY DEF Types
<1> PICK g : g = [q EXCEPT !.at = a] OBVIOUS
<1>1. req' = [req EXCEPT ![r] = g] BY DEF GoTo, Types
<1>2. /\ g \in ReqRow /\ g.at = a /\ g.op = q.op /\ g.id = q.id /\ g.change = q.change
      /\ g.name = q.name /\ g.devices = q.devices /\ g.entity = q.entity
  BY DEF ReqRow
<1>3. Others(r) /\ req' \in [Requests -> ReqRow] /\ req'[r] = g BY <1>1, <1>2 DEF Types, Others
<1> QED BY <1>2, <1>3 DEF Moved

\* A request under way knows what Knows says.
LEMMA UnderWayIs ==
    ASSUME AccountsInv, NEW r \in Requests, req[r].at \notin {"new", "done"}
    PROVE  /\ r \in UnderWay /\ req[r] \in ReqRow /\ Shape(req[r]) /\ Knows(req[r])
           /\ req[r].id \in Ids => req[r].id \in issued /\ req[r].id # None
BY AccountAssumption DEF AccountsInv, Types, Shapes, Known, UnderWay, Fresh

\* A step that fails, and leaves the tables.
LEMMA FailStep ==
    ASSUME AccountsInv, NEW r \in Requests, req[r].at \notin {"new", "done"},
           NEW i, i = req[r].id \/ (i = None /\ ~Parting(req[r])), Fail(r, i),
           UNCHANGED <<accounts, rows, mapped, syncs, issued>>
    PROVE  Effect(r, req[r].id) /\ Moved(r, "done")
<1>1. Moved(r, "done") BY MoveStep DEF Fail, Ats, AccountsInv
<1>2. r \in UnderWay /\ req[r] \in ReqRow /\ Shape(req[r]) BY UnderWayIs
<1>3. Goes(r, req[r].id)
  BY <1>1, <1>2 DEF Goes, Moved, Shape
<1>4. AllSame BY DEF AllSame, Same
<1>5. Settles(r)
  <2>1. failed' = failed \cup ({i} \ {None}) BY DEF Fail
  <2>2. Parting(req[r]) => req[r].id \in Ids BY <1>2, Places
  <2> QED BY <2>1, <2>2, AccountAssumption DEF Settles
<1>6. Completes(r) BY DEF Completes, Fail
<1>7. Knows(req[r])' BY <1>1 DEF Moved, Knows
<1> QED BY <1>1, <1>3, <1>4, <1>5, <1>6, <1>7 DEF Effect, Touches
-----------------------------------------------------------------------------
(* The requests begin. *)

\* A request that starts with what it may know has an Effect.
LEMMA StartStep ==
    ASSUME AccountsInv, NEW r \in Requests, req[r].at = "new", NEW g \in ReqRow,
           req' = [req EXCEPT ![r] = g], Shape(g), Knows(g),
           g.id # None => g.id \in issued /\ MayStart(g.id, g.change),
           UNCHANGED <<accounts, rows, mapped, syncs, issued, failed, finished>>
    PROVE  Effect(r, None) /\ Types'
<1>1. req[r] = Waiting BY DEF AccountsInv, Shapes, Shape
<1>2. Others(r) /\ req' \in [Requests -> ReqRow] /\ req'[r] = g
  BY DEF AccountsInv, Types, Others
<1>3. Types' BY <1>2 DEF AccountsInv, Types
<1>4. req[r].op = None /\ None # "delete" BY <1>1, AccountAssumption DEF Waiting
<1>5. Goes(r, None) BY <1>2, <1>4 DEF Goes
<1>6. AllSame BY DEF AllSame, Same
<1>7. ~Parting(req[r]) BY DEF Parting
<1>8. Settles(r) BY <1>7 DEF Settles
<1>9. Completes(r) BY DEF Completes
<1>10. Knows(req[r])' BY <1>2 DEF Knows
<1> QED BY <1>3, <1>5, <1>6, <1>8, <1>9, <1>10 DEF Effect, Touches

\* createUser starts with no user.
LEMMA CreateStep ==
    ASSUME AccountsInv, NEW r \in Requests, NEW n \in Names, Create(r, n)
    PROVE  Effect(r, None) /\ Types' /\ req'[r].devices = None /\ req'[r].entity = None
<1> PICK g : g = [Waiting EXCEPT !.at = "account", !.op = "create", !.name = n] OBVIOUS
<1>1. /\ g.at = "account" /\ g.op = "create" /\ g.id = None /\ g.name = n
      /\ g.change = NoChange /\ g \in ReqRow /\ g.devices = None /\ g.entity = None
  BY DEF Waiting, ReqRow, Ats
<1>2. Shape(g) /\ Knows(g) BY <1>1 DEF Shape, Knows
<1>3. Effect(r, None) /\ Types' BY <1>1, <1>2, StartStep DEF Create
<1>4. req'[r] = g BY DEF Create, AccountsInv, Types
<1> QED BY <1>1, <1>3, <1>4

\* deleteUserById starts with a user that has a row.
LEMMA DeleteStep ==
    ASSUME AccountsInv, NEW r \in Requests, NEW i \in Ids, Delete(r, i)
    PROVE  Effect(r, None) /\ Types' /\ req'[r].devices = None /\ req'[r].entity = None
<1> PICK g : g = [Waiting EXCEPT !.at = "mappings", !.op = "delete", !.id = i] OBVIOUS
<1>1. /\ g.at = "mappings" /\ g.op = "delete" /\ g.id = i
      /\ g.change = NoChange /\ g \in ReqRow /\ g.devices = None /\ g.entity = None
  BY DEF Waiting, ReqRow, Ats
<1>2. Shape(g) /\ Knows(g) BY <1>1 DEF Shape, Knows, Delete
<1>3. i \in issued BY DEF Delete, AccountsInv, Fresh
<1>4. Effect(r, None) /\ Types' BY <1>1, <1>2, <1>3, StartStep DEF Delete
<1>5. req'[r] = g BY DEF Delete, AccountsInv, Types
<1> QED BY <1>1, <1>4, <1>5

\* updateUser starts with a user that has a row.
LEMMA UpdateStep ==
    ASSUME AccountsInv, NEW r \in Requests, NEW i \in Ids, NEW c \in Changes, Update(r, i, c),
           NewDevices(rows[i].devices, c) \in Seq(Devices) \cup {None}
    PROVE  /\ Effect(r, None) /\ Types'
           /\ req'[r].devices = NewDevices(rows[i].devices, c) /\ req'[r].entity = None
<1> PICK d : d = NewDevices(rows[i].devices, c) OBVIOUS
<1> PICK a : a = IF c.name # None THEN "check" ELSE IF c.details THEN "account" ELSE "find"
  OBVIOUS
<1> PICK g : g = [Waiting EXCEPT !.at = a, !.op = "update", !.id = i, !.change = c, !.devices = d]
  OBVIOUS
<1>1. a \in {"check", "account", "find"} /\ (a = "check" <=> c.name # None) /\ a \in Ats
  BY DEF Ats
<1>2. /\ g.at = a /\ g.op = "update" /\ g.id = i /\ g.devices = d /\ g.entity = None
      /\ g.change = c /\ g \in ReqRow
  BY <1>1 DEF Waiting, ReqRow
<1>3. Shape(g) /\ Knows(g) BY <1>1, <1>2 DEF Shape, Knows, Update
<1>4. i \in issued BY DEF Update, AccountsInv, Fresh
<1>5. req' = [req EXCEPT ![r] = g] BY DEF Update
<1>6. req'[r] = g BY <1>5 DEF AccountsInv, Types
<1>7. /\ req[r].at = "new" /\ MayStart(i, c)
      /\ UNCHANGED <<accounts, rows, mapped, syncs, issued, failed, finished>>
  BY DEF Update
<1>8. Effect(r, None) /\ Types'
  BY <1>2, <1>3, <1>4, <1>5, <1>7, StartStep
<1> QED BY <1>2, <1>6, <1>8

-----------------------------------------------------------------------------
(* createUser. *)

\* A new account gets an id that is nowhere else.
LEMMA CreateAccountStep ==
    ASSUME AccountsInv, NEW r \in Requests, CreateAccount(r)
    PROVE  (\E i \in Ids : Effect(r, i)) /\ Types' /\ UNCHANGED rows
           /\ Others(r) /\ req'[r].devices = req[r].devices /\ req'[r].entity = req[r].entity
<1>1. At(r, "create", "account") BY DEF CreateAccount
<1>2. r \in UnderWay /\ Shape(req[r]) /\ req[r] \in ReqRow BY <1>1, UnderWayIs DEF At
<1>3. req[r].id = None /\ req[r].name \in Names /\ req[r].change = NoChange
  BY <1>1, <1>2 DEF Shape, At
<1> PICK i \in Ids \ issued :
      /\ accounts' = [accounts EXCEPT ![i] = [name |-> req[r].name, enabled |-> TRUE]]
      /\ issued' = issued \cup {i}
      /\ req' = [req EXCEPT ![r].at = "row", ![r].id = i]
  BY DEF CreateAccount
<1> PICK q \in ReqRow : q = req[r] BY <1>2
<1> PICK g : g = [q EXCEPT !.at = "row", !.id = i] OBVIOUS
<1>4. /\ g \in ReqRow /\ g.at = "row" /\ g.id = i /\ g.op = q.op /\ g.change = q.change
      /\ g.name = q.name /\ g.devices = q.devices /\ g.entity = q.entity
  BY DEF ReqRow, Ats
<1>5. req' = [req EXCEPT ![r] = g] BY DEF AccountsInv, Types
<1>6. Others(r) /\ req' \in [Requests -> ReqRow] /\ req'[r] = g
  BY <1>4, <1>5 DEF AccountsInv, Types, Others
<1>7. /\ accounts' \in [Ids -> Account \cup {None}] /\ accounts'[i].name = req[r].name
      /\ accounts'[i] # None /\ \A j \in Ids \ {i} : accounts'[j] = accounts[j]
  <2> PICK e : e = [name |-> req[r].name, enabled |-> TRUE] OBVIOUS
  <2>1. e \in Account /\ e.name = req[r].name BY <1>3 DEF Account
  <2>2. e # None BY <2>1, AccountAssumption
  <2> QED BY <2>1, <2>2 DEF AccountsInv, Types
<1>8. Types' BY <1>6, <1>7 DEF AccountsInv, Types, CreateAccount
<1>9. accounts[i] = None /\ rows[i] = None BY DEF AccountsInv, Fresh
<1>10. Shape(req'[r]) BY <1>1, <1>3, <1>4, <1>6 DEF Shape, At
<1>11. Goes(r, i) BY <1>1, <1>2, <1>6, <1>10, <1>4 DEF Goes, At
<1>12. Parting(req'[r]) /\ ~Parting(req[r]) BY <1>1, <1>4, <1>6 DEF Parting, At
<1>13. Touches(r, i)
  <2>1. \A j \in Ids \ {i} : Same(j) BY <1>7 DEF Same, CreateAccount
  <2> QED BY <1>2, <1>4, <1>6, <1>9, <1>12, <2>1 DEF Touches, CreateAccount
<1>14. Settles(r) BY <1>12 DEF Settles, CreateAccount
<1>15. Completes(r) BY DEF Completes, CreateAccount
<1>16. Knows(req[r])' BY <1>1, <1>4, <1>6, <1>7, <1>9 DEF Knows, CreateAccount, At
<1> QED BY <1>4, <1>6, <1>8, <1>11, <1>13, <1>14, <1>15, <1>16 DEF Effect, CreateAccount

\* An account that was made although the call failed is in failed.
LEMMA CreateAccountFailsStep ==
    ASSUME AccountsInv, NEW r \in Requests, CreateAccountFails(r)
    PROVE  (\E i \in Ids \cup {None} : Effect(r, i)) /\ Types' /\ UNCHANGED rows
           /\ Others(r) /\ req'[r].devices = req[r].devices /\ req'[r].entity = req[r].entity
<1>1. At(r, "create", "account") BY DEF CreateAccountFails
<1>2. r \in UnderWay /\ Shape(req[r]) /\ req[r] \in ReqRow BY <1>1, UnderWayIs DEF At
<1>3. req[r].id = None /\ req[r].name \in Names /\ ~Parting(req[r])
  BY <1>1, <1>2 DEF Shape, At, Parting
<1>4. CASE Fail(r, None) /\ UNCHANGED <<accounts, issued>>
  <2>1. Effect(r, None) /\ Moved(r, "done")
    BY <1>1, <1>3, <1>4, FailStep DEF At, CreateAccountFails
  <2>2. Types' BY <1>4, <2>1 DEF AccountsInv, Types, Moved, Fail, CreateAccountFails
  <2> QED BY <2>1, <2>2 DEF Moved, CreateAccountFails
<1>5. ASSUME NEW i \in Ids \ issued,
             accounts' = [accounts EXCEPT ![i] = [name |-> req[r].name, enabled |-> TRUE]],
             issued' = issued \cup {i}, Fail(r, i)
      PROVE  Effect(r, i) /\ Moved(r, "done") /\ Types'
  <2>1. Moved(r, "done") BY <1>5, MoveStep DEF Fail, Ats, AccountsInv
  <2>2. /\ accounts' \in [Ids -> Account \cup {None}]
        /\ accounts'[i] # None /\ \A j \in Ids \ {i} : accounts'[j] = accounts[j]
    <3> PICK e : e = [name |-> req[r].name, enabled |-> TRUE] OBVIOUS
    <3>1. e \in Account BY <1>3 DEF Account
    <3>2. e # None BY <3>1, AccountAssumption
    <3> QED BY <1>5, <3>1, <3>2 DEF AccountsInv, Types
  <2>3. failed' = failed \cup {i} /\ finished' = finished BY <1>5, AccountAssumption DEF Fail
  <2>4. Types' BY <1>5, <2>1, <2>2, <2>3 DEF AccountsInv, Types, Moved, CreateAccountFails
  <2>5. Shape(req'[r]) /\ ~Parting(req'[r]) BY <2>1 DEF Shape, Moved, Parting
  <2>6. Goes(r, i) BY <1>1, <1>2, <1>5, <2>1, <2>5 DEF Goes, Moved, At
  <2>7. rows'[i] = None /\ UNCHANGED <<rows, mapped>>
    BY <1>5 DEF AccountsInv, Fresh, CreateAccountFails
  <2>8. Touches(r, i)
    <3>1. \A j \in Ids \ {i} : Same(j) BY <2>2, <2>7 DEF Same
    <3> QED BY <1>2, <1>5, <2>3, <2>7, <3>1 DEF Touches
  <2>9. Settles(r) BY <1>3, <2>3 DEF Settles
  <2>10. Completes(r) BY <2>3, <2>7 DEF Completes
  <2>11. Knows(req[r])' BY <2>1 DEF Knows, Moved
  <2> QED BY <2>1, <2>4, <2>6, <2>8, <2>9, <2>10, <2>11 DEF Effect
<1> QED BY <1>4, <1>5 DEF CreateAccountFails, Moved

\* The request goes on, and no id appears or disappears or changes its name.
LEMMA QuietStep ==
    ASSUME AccountsInv, NEW r \in Requests, req[r].at \notin {"new", "done"},
           Others(r), req' \in [Requests -> ReqRow], req'[r].op = req[r].op,
           req'[r].id = req[r].id, req'[r].change = req[r].change,
           AllSame, Shape(req'[r]), Knows(req[r])', UNCHANGED issued,
           failed \subseteq failed', Completes(r),
           Parting(req[r]) => Parting(req'[r]) \/ req[r].id \in failed'
    PROVE  Effect(r, req[r].id)
<1>1. r \in UnderWay BY UnderWayIs
<1>2. Goes(r, req[r].id) BY <1>1 DEF Goes
<1>3. Settles(r) BY DEF Settles
<1> QED BY <1>2, <1>3 DEF Effect, Touches

\* The request changes what its own user has, alone.
LEMMA OwnStep ==
    ASSUME AccountsInv, NEW r \in Requests, req[r].at \notin {"new", "done"},
           Others(r), req' \in [Requests -> ReqRow], req'[r].op = req[r].op,
           req'[r].id = req[r].id, req'[r].change = req[r].change,
           req[r].id \in Ids, \A j \in Ids \ {req[r].id} : Same(j),
           req[r].op = "update" => req[r].change.name # None,
           rows'[req[r].id] # None => accounts'[req[r].id] # None,
           NEW i, i = req[r].id, Disagree(i)' => i \in failed' \/ Parting(req'[r]),
           Shape(req'[r]), Knows(req[r])', UNCHANGED issued,
           failed \subseteq failed', Completes(r)
    PROVE  Effect(r, req[r].id)
<1>1. r \in UnderWay BY UnderWayIs
<1>2. Goes(r, req[r].id) BY <1>1 DEF Goes
<1>3. Settles(r) BY DEF Settles
<1>4. Touches(r, req[r].id) BY <1>1 DEF Touches
<1> QED BY <1>2, <1>3, <1>4 DEF Effect

\* The row closes the gap that the account has opened.
LEMMA InsertRowStep ==
    ASSUME AccountsInv, NEW r \in Requests, InsertRow(r)
    PROVE  /\ Effect(r, req[r].id) /\ Types' /\ Moved(r, "mappings")
           /\ req[r].id \in Ids /\ rows'[req[r].id].devices = <<>>
           /\ \A j \in Ids \ {req[r].id} : rows'[j] = rows[j]
<1>1. At(r, "create", "row") /\ GoOn(r, "mappings") BY DEF InsertRow
<1>2. r \in UnderWay /\ Shape(req[r]) /\ req[r] \in ReqRow /\ Knows(req[r])
  BY <1>1, UnderWayIs DEF At
<1> PICK i : i = req[r].id OBVIOUS
<1>3. i \in Ids /\ req[r].name \in Names /\ req[r].change = NoChange
  BY <1>1, <1>2 DEF Shape, At
<1>4. accounts[i] # None /\ rows[i] = None /\ accounts[i].name = req[r].name
  BY <1>1, <1>2 DEF Knows, At
<1>5. Moved(r, "mappings") BY <1>1, MoveStep DEF GoOn, AccountsInv, Ats
<1> PICK e : e = [name |-> req[r].name, status |-> "active", devices |-> <<>>] OBVIOUS
<1>6. e \in UserRow /\ e.name = req[r].name /\ e.devices = <<>> BY <1>3 DEF UserRow
<1>7. e # None BY <1>6, AccountAssumption
<1>8. rows' = [rows EXCEPT ![i] = e] BY DEF InsertRow
<1>9. /\ rows' \in [Ids -> UserRow \cup {None}] /\ rows'[i] = e
      /\ \A j \in Ids \ {i} : rows'[j] = rows[j]
  BY <1>3, <1>6, <1>8 DEF AccountsInv, Types
<1>10. UNCHANGED <<accounts, mapped, syncs, issued, failed, finished>> BY <1>1 DEF InsertRow, GoOn
<1>11. Types' BY <1>5, <1>9, <1>10 DEF AccountsInv, Types, Moved
<1>12. \A j \in Ids \ {i} : Same(j) BY <1>9, <1>10 DEF Same
<1>13. ~Disagree(i)' BY <1>4, <1>6, <1>7, <1>9, <1>10 DEF Disagree
<1>14. Shape(req'[r]) BY <1>1, <1>3, <1>5 DEF Shape, Moved, At
<1>15. Knows(req[r])' BY <1>1, <1>5, <1>7, <1>9 DEF Knows, Moved, At
<1>16. Completes(r) BY <1>4, <1>9, <1>10 DEF Completes
<1>17. Effect(r, req[r].id)
  BY <1>1, <1>3, <1>4, <1>5, <1>10, <1>12, <1>13, <1>14, <1>15, <1>16, OwnStep DEF Moved, At
<1> QED BY <1>3, <1>5, <1>6, <1>9, <1>11, <1>17

\* A creation succeeds with its row and its mappings.
LEMMA InsertMappingsStep ==
    ASSUME AccountsInv, NEW r \in Requests, InsertMappings(r)
    PROVE  Effect(r, req[r].id) /\ Types' /\ Moved(r, "done")
<1>1. At(r, "create", "mappings") /\ Succeed(r, req[r].id) BY DEF InsertMappings
<1>2. r \in UnderWay /\ Shape(req[r]) /\ req[r] \in ReqRow /\ Knows(req[r])
  BY <1>1, UnderWayIs DEF At
<1> PICK i : i = req[r].id OBVIOUS
<1>3. i \in Ids /\ ~Parting(req[r]) BY <1>1, <1>2 DEF Shape, At, Parting
<1>4. Moved(r, "done") BY <1>1, MoveStep DEF Succeed, AccountsInv, Ats
<1>5. /\ rows[i] # None /\ mapped' = mapped \cup {i}
      /\ finished' = finished \cup {<<"create", i>>}
      /\ UNCHANGED <<accounts, rows, syncs, issued, failed>>
  BY <1>1 DEF InsertMappings, Succeed, At
<1>6. Types' BY <1>3, <1>4, <1>5 DEF AccountsInv, Types, Moved
<1>7. AllSame BY <1>5 DEF AllSame, Same
<1>8. Shape(req'[r]) /\ Knows(req[r])' BY <1>4 DEF Shape, Knows, Moved
<1>9. Completes(r) BY <1>5 DEF Completes
<1>10. Effect(r, req[r].id)
  BY <1>1, <1>3, <1>4, <1>5, <1>7, <1>8, <1>9, QuietStep DEF Moved, At
<1> QED BY <1>4, <1>6, <1>10

-----------------------------------------------------------------------------
(* updateUser. *)

\* What an update knows of its user.
LEMMA UpdateIs ==
    ASSUME AccountsInv, NEW r \in Requests, req[r].op = "update", req[r].at \notin {"new", "done"}
    PROVE  /\ r \in UnderWay /\ Shape(req[r]) /\ req[r] \in ReqRow /\ Knows(req[r])
           /\ req[r].id \in Ids /\ req[r].change \in Changes
           /\ rows[req[r].id] \in UserRow /\ accounts[req[r].id] \in Account
           /\ rows[req[r].id] # None /\ accounts[req[r].id] # None
           /\ req[r].change.name \in Names \cup {None}
           /\ req[r].change.status \in {"active", "inactive", None}
           /\ req[r].at = "save" => req[r].entity \in UserRow
<1>1. r \in UnderWay /\ Shape(req[r]) /\ req[r] \in ReqRow /\ Knows(req[r]) BY UnderWayIs
<1>2. /\ req[r].id \in Ids /\ req[r].change \in Changes
      /\ req[r].at = "save" => req[r].entity \in UserRow
  BY <1>1 DEF Shape
<1>3. rows[req[r].id] # None BY <1>1 DEF Knows
<1>4. accounts[req[r].id] # None BY <1>2, <1>3 DEF AccountsInv, RowsHaveAccounts
<1>5. rows[req[r].id] \in UserRow /\ accounts[req[r].id] \in Account
  BY <1>2, <1>3, <1>4 DEF AccountsInv, Types
<1>6. req[r].change \in Change BY <1>2, AccountAssumption
<1>7. /\ req[r].change.name \in Names \cup {None}
      /\ req[r].change.status \in {"active", "inactive", None}
  BY <1>6 DEF Change
<1> QED BY <1>1, <1>2, <1>3, <1>4, <1>5, <1>7

\* A check changes nothing.
LEMMA CheckNameStep ==
    ASSUME AccountsInv, NEW r \in Requests, CheckName(r)
    PROVE  Effect(r, req[r].id) /\ Types' /\ Moved(r, "account")
<1>1. At(r, "update", "check") /\ GoOn(r, "account") BY DEF CheckName
<1>2. /\ r \in UnderWay /\ Shape(req[r]) /\ req[r] \in ReqRow /\ Knows(req[r])
      /\ req[r].id \in Ids /\ req[r].change \in Changes /\ rows[req[r].id] # None
  BY <1>1, UpdateIs DEF At
<1>3. Moved(r, "account") BY <1>1, MoveStep DEF GoOn, AccountsInv, Ats
<1>4. UNCHANGED <<accounts, rows, mapped, syncs, issued, failed, finished>>
  BY <1>1 DEF CheckName, GoOn
<1>5. Types' BY <1>3, <1>4 DEF AccountsInv, Types, Moved
<1>6. AllSame BY <1>4 DEF AllSame, Same
<1>7. Shape(req'[r]) /\ Knows(req[r])' BY <1>1, <1>2, <1>3, <1>4 DEF Shape, Knows, Moved, At
<1>8. Completes(r) /\ ~Parting(req[r]) BY <1>1, <1>4 DEF Completes, Parting, At
<1>9. Effect(r, req[r].id)
  BY <1>1, <1>3, <1>4, <1>6, <1>7, <1>8, QuietStep DEF Moved, At
<1> QED BY <1>3, <1>5, <1>9

\* The account is renamed, or keeps its name.
LEMMA PutStep ==
    ASSUME AccountsInv, NEW r \in Requests, At(r, "update", "account"), Put(r),
           NEW a \in {"find", "done"}, Moved(r, a), a = "done" => req[r].id \in failed',
           failed \subseteq failed', failed' \subseteq Ids,
           UNCHANGED <<rows, mapped, syncs, issued, finished>>
    PROVE  Effect(r, req[r].id) /\ Types'
<1>1. /\ r \in UnderWay /\ Shape(req[r]) /\ req[r] \in ReqRow /\ Knows(req[r])
      /\ req[r].id \in Ids /\ req[r].change \in Changes /\ rows[req[r].id] # None
      /\ accounts[req[r].id] # None /\ accounts[req[r].id] \in Account
      /\ req[r].change.name \in Names \cup {None}
  BY UpdateIs DEF At
<1> PICK i \in Ids : i = req[r].id BY <1>1
<1> PICK n : n = NewName(r) OBVIOUS
<1>2. /\ n \in Names
      /\ req[r].change.name = None => n = accounts[i].name
      /\ req[r].change.name # None => n = req[r].change.name
  BY <1>1 DEF NewName, Account
<1> PICK e : e = [name |-> n, enabled |-> TRUE] OBVIOUS
<1>3. e \in Account /\ e.name = n BY <1>2 DEF Account
<1>4. e # None BY <1>3, AccountAssumption
<1>5. accounts' = [accounts EXCEPT ![i] = e] BY DEF Put
<1>6. /\ accounts' \in [Ids -> Account \cup {None}] /\ accounts'[i] = e
      /\ \A j \in Ids \ {i} : accounts'[j] = accounts[j]
  BY <1>3, <1>5 DEF AccountsInv, Types
<1>7. Types' BY <1>6 DEF AccountsInv, Types, Moved
<1>8. \A j \in Ids \ {i} : Same(j) BY <1>6 DEF Same
<1>9. Shape(req'[r]) BY <1>1 DEF Shape, Moved, At
<1>10. Knows(req[r])' BY <1>1, <1>2, <1>3, <1>6 DEF Knows, Moved, At
<1>11. Completes(r) /\ ~Parting(req[r]) BY DEF Completes, Parting, At
<1>12. CASE req[r].change.name = None
  <2>1. Same(i) BY <1>1, <1>2, <1>3, <1>4, <1>6, <1>12 DEF Same
  <2>2. AllSame BY <1>8, <2>1 DEF AllSame
  <2>3. Effect(r, req[r].id) BY <1>9, <1>10, <1>11, <2>2, QuietStep DEF Moved, At
  <2> QED BY <1>7, <2>3
<1>13. CASE req[r].change.name # None
  <2>1. i \in failed' \/ Parting(req'[r]) BY <1>13 DEF Parting, Moved, At
  <2>2. rows'[i] # None => accounts'[i] # None BY <1>4, <1>6
  <2>3. Effect(r, req[r].id)
    BY <1>8, <1>9, <1>10, <1>11, <1>13, <2>1, <2>2, OwnStep DEF Moved, At
  <2> QED BY <1>7, <2>3
<1> QED BY <1>12, <1>13

\* The account is put, and the row follows.
LEMMA PutAccountStep ==
    ASSUME AccountsInv, NEW r \in Requests, PutAccount(r)
    PROVE  Effect(r, req[r].id) /\ Types' /\ Moved(r, "find")
<1>1. At(r, "update", "account") /\ GoOn(r, "find") /\ Put(r) BY DEF PutAccount
<1>2. Moved(r, "find") BY <1>1, MoveStep DEF GoOn, AccountsInv, Ats
<1>3. UNCHANGED <<rows, mapped, syncs, issued, failed, finished>> BY <1>1 DEF PutAccount, GoOn
<1>4. failed \subseteq failed' /\ failed' \subseteq Ids BY <1>3 DEF AccountsInv, Types
<1>5. Effect(r, req[r].id) /\ Types' BY <1>1, <1>2, <1>3, <1>4, PutStep
<1> QED BY <1>2, <1>5

\* A put that fails is reported, whether it took effect or not.
LEMMA PutAccountFailsStep ==
    ASSUME AccountsInv, NEW r \in Requests, PutAccountFails(r)
    PROVE  Effect(r, req[r].id) /\ Types' /\ Moved(r, "done")
<1>1. At(r, "update", "account") /\ Fail(r, req[r].id) BY DEF PutAccountFails
<1>2. UNCHANGED <<rows, mapped, syncs, issued, finished>> BY <1>1 DEF PutAccountFails, Fail
<1>3. req[r].id \in Ids BY <1>1, UpdateIs DEF At
<1>4. failed' = failed \cup {req[r].id} BY <1>1, <1>3, AccountAssumption DEF Fail
<1>5. Moved(r, "done") BY <1>1, MoveStep DEF Fail, AccountsInv, Ats
<1>6. CASE UNCHANGED accounts
  <2>1. Effect(r, req[r].id) BY <1>1, <1>2, <1>6, FailStep DEF At
  <2>2. Types' BY <1>2, <1>3, <1>4, <1>5, <1>6 DEF AccountsInv, Types, Moved
  <2> QED BY <1>5, <2>1, <2>2
<1>7. CASE Put(r)
  <2>1. failed \subseteq failed' /\ failed' \subseteq Ids /\ req[r].id \in failed'
    BY <1>3, <1>4 DEF AccountsInv, Types
  <2>2. Effect(r, req[r].id) /\ Types' BY <1>1, <1>2, <1>5, <1>7, <2>1, PutStep
  <2> QED BY <1>5, <2>2
<1> QED BY <1>6, <1>7 DEF PutAccountFails

\* What will be saved has the name of the account.
LEMMA FindRowStep ==
    ASSUME AccountsInv, NEW r \in Requests, FindRow(r)
    PROVE  /\ Effect(r, req[r].id) /\ Types' /\ Others(r) /\ UNCHANGED rows
           /\ req[r].id \in Ids /\ rows[req[r].id] # None
           /\ req'[r].devices = req[r].devices
           /\ req'[r].entity.devices =
                IF req[r].devices # None THEN req[r].devices ELSE rows[req[r].id].devices
<1>1. At(r, "update", "find") BY DEF FindRow
<1>2. /\ r \in UnderWay /\ Shape(req[r]) /\ req[r] \in ReqRow /\ Knows(req[r])
      /\ req[r].id \in Ids /\ req[r].change \in Changes /\ rows[req[r].id] # None
      /\ rows[req[r].id] \in UserRow
      /\ req[r].change.name \in Names \cup {None}
      /\ req[r].change.status \in {"active", "inactive", None}
  BY <1>1, UpdateIs DEF At
<1> PICK i \in Ids : i = req[r].id BY <1>2
<1> PICK q \in ReqRow : q = req[r] BY <1>2
<1> PICK row \in UserRow : row = rows[i] BY <1>2
<1> PICK e : e = Assigned(row, q.change, q.devices) OBVIOUS
<1>3. q.devices \in Seq(Devices) \cup {None} BY DEF ReqRow
<1>4. /\ e \in UserRow
      /\ e.name = IF q.change.name # None THEN q.change.name ELSE row.name
      /\ e.devices = IF q.devices # None THEN q.devices ELSE row.devices
  BY <1>2, <1>3 DEF Assigned, UserRow
<1> PICK g : g = [q EXCEPT !.at = "save", !.entity = e] OBVIOUS
<1>5. /\ g \in ReqRow /\ g.at = "save" /\ g.op = q.op /\ g.id = q.id /\ g.change = q.change
      /\ g.devices = q.devices /\ g.entity = e
  BY <1>4 DEF ReqRow, Ats
<1>6. req' = [req EXCEPT ![r] = g] BY <1>2 DEF FindRow, AccountsInv, Types
<1>7. Others(r) /\ req' \in [Requests -> ReqRow] /\ req'[r] = g
  BY <1>5, <1>6 DEF AccountsInv, Types, Others
<1>8. UNCHANGED <<accounts, rows, mapped, syncs, issued, failed, finished>> BY DEF FindRow
<1>9. Types' BY <1>7, <1>8 DEF AccountsInv, Types
<1>10. AllSame BY <1>8 DEF AllSame, Same
<1>11. Shape(req'[r]) BY <1>1, <1>2, <1>4, <1>5, <1>7 DEF Shape, At
<1>12. Knows(req[r])' BY <1>1, <1>2, <1>4, <1>5, <1>7, <1>8 DEF Knows, At
<1>13. Completes(r) BY <1>8 DEF Completes
<1>14. Parting(req[r]) => Parting(req'[r]) BY <1>1, <1>5, <1>7 DEF Parting, At
<1>15. Effect(r, req[r].id)
  BY <1>1, <1>5, <1>7, <1>8, <1>10, <1>11, <1>12, <1>13, <1>14, QuietStep DEF At
<1> QED BY <1>2, <1>4, <1>5, <1>7, <1>8, <1>9, <1>15

\* The save closes the gap that the put has opened.
LEMMA SaveRowStep ==
    ASSUME AccountsInv, NEW r \in Requests, SaveRow(r)
    PROVE  /\ Effect(r, req[r].id) /\ Types' /\ Moved(r, "status") /\ req[r].id \in Ids
           /\ rows'[req[r].id] = req[r].entity /\ req[r].entity # None
           /\ \A j \in Ids \ {req[r].id} : rows'[j] = rows[j]
<1>1. At(r, "update", "save") /\ GoOn(r, "status") BY DEF SaveRow
<1>2. /\ r \in UnderWay /\ Shape(req[r]) /\ req[r] \in ReqRow /\ Knows(req[r])
      /\ req[r].id \in Ids /\ req[r].change \in Changes /\ rows[req[r].id] # None
      /\ accounts[req[r].id] # None /\ req[r].entity \in UserRow
  BY <1>1, UpdateIs DEF At
<1> PICK i \in Ids : i = req[r].id BY <1>2
<1> PICK e \in UserRow : e = req[r].entity BY <1>2
<1>3. e # None BY AccountAssumption
<1>4. e.name = IF req[r].change.name # None THEN req[r].change.name ELSE rows[i].name
  BY <1>1, <1>2 DEF Knows, At
<1>5. Moved(r, "status") BY <1>1, MoveStep DEF GoOn, AccountsInv, Ats
<1>6. rows' = [rows EXCEPT ![i] = e] BY DEF SaveRow
<1>7. /\ rows' \in [Ids -> UserRow \cup {None}] /\ rows'[i] = e
      /\ \A j \in Ids \ {i} : rows'[j] = rows[j]
  BY <1>6 DEF AccountsInv, Types
<1>8. UNCHANGED <<accounts, mapped, syncs, issued, failed, finished>> BY <1>1 DEF SaveRow, GoOn
<1>9. Types' BY <1>5, <1>7, <1>8 DEF AccountsInv, Types, Moved
<1>10. \A j \in Ids \ {i} : Same(j) BY <1>7, <1>8 DEF Same
<1>11. Shape(req'[r]) BY <1>1, <1>2, <1>5 DEF Shape, Moved, At
<1>12. Knows(req[r])' BY <1>1, <1>2, <1>3, <1>5, <1>7 DEF Knows, Moved, At
<1>13. Completes(r) BY <1>3, <1>7, <1>8 DEF Completes
<1>14. CASE req[r].change.name = None
  <2>1. Same(i) BY <1>2, <1>3, <1>4, <1>7, <1>8, <1>14 DEF Same
  <2>2. AllSame BY <1>10, <2>1 DEF AllSame
  <2>3. ~Parting(req[r]) BY <1>1, <1>14 DEF Parting, At
  <2> QED BY <1>1, <1>5, <1>8, <1>11, <1>12, <1>13, <2>2, <2>3, <1>2, <1>3, <1>7, <1>9, QuietStep
          DEF Moved, At
<1>15. CASE req[r].change.name # None
  <2>1. accounts[i].name = req[r].change.name BY <1>1, <1>2, <1>15 DEF Knows, At
  <2>2. ~Disagree(i)' BY <1>2, <1>3, <1>4, <1>7, <1>8, <1>15, <2>1 DEF Disagree
  <2>3. rows'[i] # None => accounts'[i] # None BY <1>2, <1>8
  <2>4. Effect(r, req[r].id)
    BY <1>1, <1>2, <1>5, <1>8, <1>10, <1>11, <1>12, <1>13, <1>15, <2>2, <2>3, OwnStep
       DEF Moved, At
  <2> QED BY <1>3, <1>5, <1>7, <1>9, <2>4
<1> QED BY <1>14, <1>15

\* An update succeeds when both stores have the name.
LEMMA StartSyncStep ==
    ASSUME AccountsInv, NEW r \in Requests, StartSync(r)
    PROVE  Effect(r, req[r].id) /\ Types' /\ Moved(r, "done")
<1>1. At(r, "update", "status") /\ Succeed(r, req[r].id) BY DEF StartSync
<1>2. req[r].id \in Ids /\ req[r] \in ReqRow BY <1>1, UpdateIs DEF At
<1>3. Moved(r, "done") BY <1>1, MoveStep DEF Succeed, AccountsInv, Ats
<1>4. /\ UNCHANGED <<accounts, rows, mapped, issued, failed>>
      /\ finished' = finished \cup {<<"update", req[r].id>>}
  BY <1>1 DEF StartSync, Succeed, At
<1>5. syncs' \in [Requests -> [id : Ids, enabled : BOOLEAN] \cup {None}]
  <2> PICK e : e = [id |-> req[r].id, enabled |-> req[r].change.status = "active"] OBVIOUS
  <2>1. e \in [id : Ids, enabled : BOOLEAN] BY <1>2
  <2>2. syncs' = syncs \/ syncs' = [syncs EXCEPT ![r] = e] BY DEF StartSync
  <2> QED BY <2>1, <2>2 DEF AccountsInv, Types
<1>6. Types' BY <1>2, <1>3, <1>4, <1>5 DEF AccountsInv, Types, Moved
<1>7. AllSame BY <1>4 DEF AllSame, Same
<1>8. Shape(req'[r]) /\ Knows(req[r])' /\ ~Parting(req[r])
  BY <1>1, <1>3 DEF Shape, Knows, Moved, Parting, At
<1>9. Completes(r) BY <1>4 DEF Completes
<1>10. Effect(r, req[r].id)
  BY <1>1, <1>3, <1>4, <1>7, <1>8, <1>9, QuietStep DEF Moved, At
<1> QED BY <1>3, <1>6, <1>10
-----------------------------------------------------------------------------
(* deleteUserById. *)

\* What a deletion knows of its user.
LEMMA DeletionIs ==
    ASSUME AccountsInv, NEW r \in Requests, req[r].op = "delete", req[r].at \notin {"new", "done"}
    PROVE  /\ r \in UnderWay /\ Shape(req[r]) /\ req[r] \in ReqRow /\ Knows(req[r])
           /\ req[r].id \in Ids /\ req[r].change = NoChange
BY UnderWayIs DEF Shape

\* A deletion takes the mappings first.
LEMMA DeleteMappingsStep ==
    ASSUME AccountsInv, NEW r \in Requests, DeleteMappings(r)
    PROVE  Effect(r, req[r].id) /\ Types' /\ Moved(r, "row")
<1>1. At(r, "delete", "mappings") /\ GoOn(r, "row") BY DEF DeleteMappings
<1>2. /\ Shape(req[r]) /\ Knows(req[r]) /\ req[r].id \in Ids /\ req[r].change = NoChange
  BY <1>1, DeletionIs DEF At
<1>3. Moved(r, "row") BY <1>1, MoveStep DEF GoOn, AccountsInv, Ats
<1>4. /\ UNCHANGED <<accounts, rows, syncs, issued, failed, finished>>
      /\ mapped' = mapped \ {req[r].id}
  BY <1>1 DEF DeleteMappings, GoOn
<1>5. Types' BY <1>3, <1>4 DEF AccountsInv, Types, Moved
<1>6. AllSame BY <1>4 DEF AllSame, Same
<1>7. Shape(req'[r]) /\ Knows(req[r])' /\ ~Parting(req[r])
  BY <1>1, <1>2, <1>3, <1>4 DEF Shape, Knows, Moved, Parting, At
<1>8. Completes(r) BY <1>1, <1>3, <1>4 DEF Completes, Moved, At
<1>9. Effect(r, req[r].id)
  BY <1>1, <1>3, <1>4, <1>6, <1>7, <1>8, QuietStep DEF Moved, At
<1> QED BY <1>3, <1>5, <1>9

\* The row goes before the account.
LEMMA DeleteRowStep ==
    ASSUME AccountsInv, NEW r \in Requests, DeleteRow(r)
    PROVE  /\ Effect(r, req[r].id) /\ Types' /\ Moved(r, "account")
           /\ \A j \in Ids : rows'[j] \in {rows[j], None}
<1>1. At(r, "delete", "row") /\ GoOn(r, "account") BY DEF DeleteRow
<1>2. /\ Shape(req[r]) /\ Knows(req[r]) /\ req[r].id \in Ids /\ req[r].change = NoChange
  BY <1>1, DeletionIs DEF At
<1> PICK i \in Ids : i = req[r].id BY <1>2
<1>3. Moved(r, "account") BY <1>1, MoveStep DEF GoOn, AccountsInv, Ats
<1>4. /\ UNCHANGED <<accounts, mapped, syncs, issued, failed, finished>>
      /\ rows' = [rows EXCEPT ![i] = None]
  BY <1>1 DEF DeleteRow, GoOn
<1>5. /\ rows' \in [Ids -> UserRow \cup {None}] /\ rows'[i] = None
      /\ \A j \in Ids \ {i} : rows'[j] = rows[j]
  BY <1>4 DEF AccountsInv, Types
<1>6. Types' BY <1>3, <1>4, <1>5 DEF AccountsInv, Types, Moved
<1>7. \A j \in Ids \ {i} : Same(j) BY <1>4, <1>5 DEF Same
<1>8. Shape(req'[r]) /\ Knows(req[r])' /\ Parting(req'[r])
  BY <1>1, <1>2, <1>3, <1>5 DEF Shape, Knows, Moved, Parting, At
<1>9. Completes(r) BY <1>1, <1>3, <1>4, <1>5 DEF Completes, Moved, At
<1>10. Effect(r, req[r].id)
  BY <1>1, <1>2, <1>3, <1>4, <1>5, <1>7, <1>8, <1>9, OwnStep DEF Moved, At
<1> QED BY <1>3, <1>5, <1>6, <1>10

\* The account goes last, and the stores agree again.
LEMMA DropAccountStep ==
    ASSUME AccountsInv, NEW r \in Requests, At(r, "delete", "account"), Moved(r, "done"),
           accounts' = [accounts EXCEPT ![req[r].id] = None],
           failed \subseteq failed', failed' \subseteq Ids, UNCHANGED <<rows, mapped, syncs, issued>>,
           finished' \subseteq finished \cup {<<"delete", req[r].id>>}
    PROVE  Effect(r, req[r].id) /\ Types'
<1>1. /\ Shape(req[r]) /\ Knows(req[r]) /\ req[r].id \in Ids /\ req[r].change = NoChange
  BY DeletionIs DEF At
<1> PICK i \in Ids : i = req[r].id BY <1>1
<1>2. /\ accounts' \in [Ids -> Account \cup {None}] /\ accounts'[i] = None
      /\ \A j \in Ids \ {i} : accounts'[j] = accounts[j]
  BY DEF AccountsInv, Types
<1>3. rows[i] = None BY <1>1 DEF Knows, At
<1>4. Types' BY <1>1, <1>2 DEF AccountsInv, Types, Moved
<1>5. \A j \in Ids \ {i} : Same(j) BY <1>2 DEF Same
<1>6. ~Disagree(i)' BY <1>2, <1>3 DEF Disagree
<1>7. Shape(req'[r]) /\ Knows(req[r])' BY DEF Shape, Knows, Moved
<1>8. Completes(r) BY DEF Completes, Moved, At
<1>9. Effect(r, req[r].id)
  BY <1>1, <1>3, <1>5, <1>6, <1>7, <1>8, OwnStep DEF Moved, At
<1> QED BY <1>4, <1>9

\* A deletion that succeeds.
LEMMA DeleteAccountStep ==
    ASSUME AccountsInv, NEW r \in Requests, DeleteAccount(r)
    PROVE  Effect(r, req[r].id) /\ Types' /\ Moved(r, "done")
<1>1. At(r, "delete", "account") /\ Succeed(r, req[r].id) BY DEF DeleteAccount
<1>2. Moved(r, "done") BY <1>1, MoveStep DEF Succeed, AccountsInv, Ats
<1>3. /\ UNCHANGED <<rows, mapped, syncs, issued, failed>>
      /\ finished' = finished \cup {<<"delete", req[r].id>>}
      /\ accounts' = [accounts EXCEPT ![req[r].id] = None]
  BY <1>1 DEF DeleteAccount, Succeed, At
<1>4. failed' \subseteq Ids BY <1>3 DEF AccountsInv, Types
<1> QED BY <1>1, <1>2, <1>3, <1>4, DropAccountStep

\* A deletion that fails is reported, whether the account is gone or not.
LEMMA DeleteAccountFailsStep ==
    ASSUME AccountsInv, NEW r \in Requests, DeleteAccountFails(r)
    PROVE  Effect(r, req[r].id) /\ Types' /\ Moved(r, "done")
<1>1. At(r, "delete", "account") /\ Fail(r, req[r].id) BY DEF DeleteAccountFails
<1>2. Moved(r, "done") BY <1>1, MoveStep DEF Fail, AccountsInv, Ats
<1>3. req[r].id \in Ids BY <1>1, DeletionIs DEF At
<1>4. /\ UNCHANGED <<rows, mapped, syncs, issued, finished>>
      /\ failed' = failed \cup {req[r].id}
  BY <1>1, <1>3, AccountAssumption DEF DeleteAccountFails, Fail
<1>5. failed \subseteq failed' /\ failed' \subseteq Ids BY <1>3, <1>4 DEF AccountsInv, Types
<1>6. CASE UNCHANGED accounts
  <2>1. Effect(r, req[r].id) BY <1>1, <1>4, <1>6, FailStep DEF At
  <2>2. Types' BY <1>2, <1>4, <1>5, <1>6 DEF AccountsInv, Types, Moved
  <2> QED BY <1>2, <2>1, <2>2
<1>7. CASE accounts' = [accounts EXCEPT ![req[r].id] = None]
  BY <1>1, <1>2, <1>4, <1>5, <1>7, DropAccountStep
<1> QED BY <1>6, <1>7 DEF DeleteAccountFails

\* The failures that leave all tables.
LEMMA FailsStep ==
    ASSUME AccountsInv, NEW r \in Requests,
           InsertRowFails(r) \/ InsertMappingsFails(r) \/ NameRefused(r) \/ SaveRowFails(r)
             \/ DeleteRowsFails(r)
    PROVE  Effect(r, req[r].id) /\ Types' /\ Moved(r, "done") /\ UNCHANGED rows
<1>1. /\ req[r].at \notin {"new", "done"}
      /\ Fail(r, req[r].id) \/ (Fail(r, None) /\ At(r, "update", "check"))
      /\ UNCHANGED <<accounts, rows, mapped, syncs, issued>>
  BY DEF InsertRowFails, InsertMappingsFails, NameRefused, SaveRowFails, DeleteRowsFails, At
<1>2. At(r, "update", "check") => ~Parting(req[r]) BY DEF At, Parting
<1>3. Effect(r, req[r].id) /\ Moved(r, "done") BY <1>1, <1>2, FailStep
<1>4. failed' \subseteq Ids /\ finished' = finished
  <2>1. req[r].id \in Ids \cup {None} BY DEF AccountsInv, Types, ReqRow
  <2> QED BY <1>1, <2>1 DEF Fail, AccountsInv, Types
<1>5. Types' BY <1>1, <1>3, <1>4 DEF AccountsInv, Types, Moved
<1> QED BY <1>1, <1>3, <1>5
-----------------------------------------------------------------------------
(* The lists of devices. *)

\* f[n] is what is left of the first n devices.
Keeps(s, d, f) ==
    /\ f[0] = <<>>
    /\ \A n \in 1..Len(s) : f[n] = IF s[n] = d THEN f[n - 1] ELSE Append(f[n - 1], s[n])

\* The recursive function in onLogoutDeviceId exists, for lists of at most three devices.
LEMMA WithoutIs ==
    ASSUME NEW s \in Seq(Devices), NEW d, Len(s) <= 3
    PROVE  \E f : Keeps(s, d, f) /\ onLogoutDeviceId(s, d) = f[Len(s)]
<1> DEFINE body(g) == [n \in 0..Len(s) |->
              IF n = 0 THEN <<>> ELSE IF s[n] = d THEN g[n - 1] ELSE Append(g[n - 1], s[n])]
<1>a. Len(s) \in Nat OBVIOUS
<1>b. PICK l \in Nat : l = Len(s) BY <1>a
<1>c. l \in 0..3 BY <1>b
<1>0. Len(s) \in 0..3 BY <1>b, <1>c
<1>1. onLogoutDeviceId(s, d) = (CHOOSE g : g = body(g))[Len(s)] BY DEF onLogoutDeviceId
<1>2. \E g : g = body(g)
  <2> PICK g1 : g1 = IF s[1] = d THEN <<>> ELSE Append(<<>>, s[1]) OBVIOUS
  <2> PICK g2 : g2 = IF s[2] = d THEN g1 ELSE Append(g1, s[2]) OBVIOUS
  <2> PICK g3 : g3 = IF s[3] = d THEN g2 ELSE Append(g2, s[3]) OBVIOUS
  <2> PICK h : h = [n \in 0..Len(s) |-> IF n = 0 THEN <<>> ELSE IF n = 1 THEN g1
                                        ELSE IF n = 2 THEN g2 ELSE g3] OBVIOUS
  <2>2. ASSUME NEW n \in 0..Len(s)
        PROVE  h[n] = IF n = 0 THEN <<>> ELSE IF s[n] = d THEN h[n - 1] ELSE Append(h[n - 1], s[n])
    <3>1. CASE n = 0 BY <3>1
    <3>2. CASE n = 1
      <4>1. h[n] = g1 /\ h[n - 1] = <<>> BY <3>2
      <4> QED BY <3>2, <4>1
    <3>3. CASE n = 2
      <4>1. h[n] = g2 /\ h[n - 1] = g1 BY <3>3
      <4> QED BY <3>3, <4>1
    <3>4. CASE n = 3
      <4>1. h[n] = g3 /\ h[n - 1] = g2 BY <3>4
      <4> QED BY <3>4, <4>1
    <3> QED BY <1>0, <3>1, <3>2, <3>3, <3>4
  <2>3. h = body(h) BY <2>2
  <2> HIDE DEF body
  <2> QED BY <2>3
<1> PICK f : f = (CHOOSE g : g = body(g)) OBVIOUS
<1>3. f = body(f)
  <2> HIDE DEF body
  <2> QED BY <1>2
<1>4. f[0] = <<>>
  <2>1. 0 \in 0..Len(s) BY <1>a
  <2> QED BY <1>3, <2>1
<1>5. ASSUME NEW n \in 1..Len(s)
      PROVE  f[n] = IF s[n] = d THEN f[n - 1] ELSE Append(f[n - 1], s[n])
  <2>1. n \in 0..Len(s) /\ n # 0 BY <1>0
  <2> QED BY <1>3, <2>1
<1>6. onLogoutDeviceId(s, d) = f[Len(s)] BY <1>1
<1>7. \A n \in 1..Len(s) : f[n] = IF s[n] = d THEN f[n - 1] ELSE Append(f[n - 1], s[n])
  BY <1>5
<1>8. Keeps(s, d, f) BY <1>4, <1>7 DEF Keeps
<1> HIDE DEF body
<1> QED BY <1>6, <1>8

Distinct(s) == \A i, j \in 1..Len(s) : s[i] = s[j] => i = j

\* Taking a device out adds none.
LEMMA WithoutShorter ==
    ASSUME NEW s \in Seq(Devices), NEW d, Len(s) <= 3, Distinct(s)
    PROVE  onLogoutDeviceId(s, d) \in Seq(Devices) /\ Len(onLogoutDeviceId(s, d)) <= 3 /\ Distinct(onLogoutDeviceId(s, d))
<1>0. PICK f : Keeps(s, d, f) /\ onLogoutDeviceId(s, d) = f[Len(s)] BY WithoutIs
<1>1. /\ f[0] = <<>>
      /\ \A n \in 1..Len(s) : f[n] = IF s[n] = d THEN f[n - 1] ELSE Append(f[n - 1], s[n])
      /\ onLogoutDeviceId(s, d) = f[Len(s)]
  BY <1>0 DEF Keeps
<1> DEFINE OK(n) == /\ f[n] \in Seq(Devices) /\ Len(f[n]) <= n /\ Distinct(f[n])
                    /\ \A k \in 1..Len(f[n]) : \E m \in 1..n : f[n][k] = s[m]
<1>2. OK(0) BY <1>1 DEF Distinct
<1>3. ASSUME NEW n \in 1..Len(s), OK(n - 1) PROVE OK(n)
  <2> PICK t : t = f[n - 1] OBVIOUS
  <2>1. /\ t \in Seq(Devices) /\ Len(t) <= n - 1 /\ Distinct(t)
        /\ \A k \in 1..Len(t) : \E m \in 1..(n - 1) : t[k] = s[m]
    BY <1>3
  <2>2. CASE s[n] = d
    <3>1. f[n] = t BY <1>1, <2>2
    <3>2. \A m \in 1..(n - 1) : m \in 1..n OBVIOUS
    <3>3. Len(t) \in Nat /\ n - 1 <= n BY <2>1
    <3>4. t \in Seq(Devices) /\ Len(t) <= n /\ Distinct(t) BY <2>1, <3>3
    <3>5. \A k \in 1..Len(t) : \E m \in 1..n : t[k] = s[m] BY <2>1, <3>2
    <3> QED BY <3>1, <3>4, <3>5
  <2>3. CASE s[n] # d
    <3> PICK e : e = Append(t, s[n]) OBVIOUS
    <3>1. f[n] = e BY <1>1, <2>3
    <3>2. s[n] \in Devices /\ Len(t) \in Nat OBVIOUS
    <3>3. e \in Seq(Devices) /\ Len(e) = Len(t) + 1 BY <2>1, <3>2
    <3>4. \A k \in 1..Len(t) : e[k] = t[k] BY <2>1, <3>2
    <3>5. e[Len(t) + 1] = s[n] BY <2>1, <3>2
    <3>6. \A k \in 1..Len(t) : t[k] # s[n]
      BY <2>1 DEF Distinct
    <3>7. Distinct(e)
      <4> SUFFICES ASSUME NEW i \in 1..Len(e), NEW j \in 1..Len(e), e[i] = e[j] PROVE i = j
        BY DEF Distinct
      <4>1. (i \in 1..Len(t) \/ i = Len(t) + 1) /\ (j \in 1..Len(t) \/ j = Len(t) + 1)
        BY <3>2, <3>3
      <4> QED BY <2>1, <3>4, <3>5, <3>6, <4>1 DEF Distinct
    <3>8. \A k \in 1..Len(e) : \E m \in 1..n : e[k] = s[m]
      <4> SUFFICES ASSUME NEW k \in 1..Len(e) PROVE \E m \in 1..n : e[k] = s[m] OBVIOUS
      <4>1. CASE k = Len(t) + 1 BY <3>5, <4>1
      <4>2. CASE k \in 1..Len(t)
        <5>1. PICK m \in 1..(n - 1) : t[k] = s[m] BY <2>1, <4>2
        <5>2. m \in 1..n OBVIOUS
        <5> QED BY <3>4, <4>2, <5>1, <5>2
      <4> QED BY <3>2, <3>3, <4>1, <4>2
    <3>9. Len(e) <= n BY <2>1, <3>2, <3>3
    <3> QED BY <3>1, <3>3, <3>7, <3>8, <3>9
  <2> QED BY <2>2, <2>3
<1> HIDE DEF OK
<1>4. CASE Len(s) = 0
  <2>1. f[0] \in Seq(Devices) /\ Len(f[0]) <= 0 /\ Distinct(f[0]) BY <1>2 DEF OK
  <2>2. onLogoutDeviceId(s, d) = f[0] BY <1>1, <1>4
  <2> QED BY <2>1, <2>2
<1>5. CASE Len(s) = 1
  <2>1. OK(1) BY <1>2, <1>3, <1>5
  <2> QED BY <1>1, <1>5, <2>1 DEF OK
<1>6. CASE Len(s) = 2
  <2>1. OK(1) BY <1>2, <1>3, <1>6
  <2>2. OK(2) BY <1>3, <1>6, <2>1
  <2> QED BY <1>1, <1>6, <2>2 DEF OK
<1>7. CASE Len(s) = 3
  <2>1. OK(1) BY <1>2, <1>3, <1>7
  <2>2. OK(2) BY <1>3, <1>7, <2>1
  <2>3. OK(3) BY <1>3, <1>7, <2>2
  <2> QED BY <1>1, <1>7, <2>3 DEF OK
<1>a. Len(s) \in Nat OBVIOUS
<1>b. PICK l \in Nat : l = Len(s) BY <1>a
<1>c. l \in 0..3 BY <1>b
<1>8. Len(s) = 0 \/ Len(s) = 1 \/ Len(s) = 2 \/ Len(s) = 3 BY <1>b, <1>c
<1> QED BY <1>4, <1>5, <1>6, <1>7, <1>8

\* A device that is not in the list may be appended to two.
LEMMA AppendShorter ==
    ASSUME NEW t \in Seq(Devices), NEW d \in Devices, Len(t) <= 2, Distinct(t), \A k \in 1..Len(t) : t[k] # d
    PROVE  Append(t, d) \in Seq(Devices) /\ Len(Append(t, d)) <= 3 /\ Distinct(Append(t, d))
<1> PICK e : e = Append(t, d) OBVIOUS
<1>1. e \in Seq(Devices) /\ Len(t) \in Nat /\ Len(e) = Len(t) + 1 OBVIOUS
<1>2. (\A k \in 1..Len(t) : e[k] = t[k]) /\ e[Len(t) + 1] = d OBVIOUS
<1>3. Distinct(e)
  <2> SUFFICES ASSUME NEW i \in 1..Len(e), NEW j \in 1..Len(e), e[i] = e[j] PROVE i = j
    BY DEF Distinct
  <2>1. (i \in 1..Len(t) \/ i = Len(t) + 1) /\ (j \in 1..Len(t) \/ j = Len(t) + 1)
    BY <1>1
  <2> QED BY <1>2, <2>1 DEF Distinct
<1> QED BY <1>1, <1>3

\* The oldest of three devices is dropped.
LEMMA TailShorter ==
    ASSUME NEW s \in Seq(Devices), Len(s) = 3, Distinct(s)
    PROVE  /\ Tail(s) \in Seq(Devices) /\ Len(Tail(s)) = 2 /\ Distinct(Tail(s))
           /\ \A k \in 1..2 : Tail(s)[k] = s[k + 1]
<1>0. s # <<>> OBVIOUS
<1>1. Tail(s) \in Seq(Devices) /\ Len(Tail(s)) = 2 BY <1>0
<1>2. \A k \in 1..2 : Tail(s)[k] = s[k + 1] BY <1>0, <1>1, HeadTailProperties
<1>3. Distinct(Tail(s))
  <2> SUFFICES ASSUME NEW i \in 1..2, NEW j \in 1..2, s[i + 1] = s[j + 1] PROVE i = j
    BY <1>1, <1>2 DEF Distinct
  <2>1. i + 1 \in 1..Len(s) /\ j + 1 \in 1..Len(s) OBVIOUS
  <2> QED BY <2>1 DEF Distinct
<1> QED BY <1>1, <1>2, <1>3

\* The indices of a list are its domain.
LEMMA GoodIs == ASSUME NEW s \in Seq(Devices) PROVE Good(s) <=> Len(s) <= 3 /\ Distinct(s)
BY DEF Good, Distinct, IsInjective

\* A login leaves a good list.
LEMMA LoginIsGood ==
    ASSUME NEW s \in Seq(Devices), NEW d \in Devices, Good(s)
    PROVE  loginDeviceIdAction(s, d) \in Seq(Devices) /\ Good(loginDeviceIdAction(s, d))
<1>1. Len(s) <= 3 /\ Distinct(s) BY GoodIs
<1> PICK e : e = loginDeviceIdAction(s, d) OBVIOUS
<1>2. CASE Contains(s, d)
  <2>1. e = s BY <1>2 DEF loginDeviceIdAction
  <2> QED BY <2>1
<1>3. CASE ~Contains(s, d)
  <2>0. \A k \in 1..Len(s) : s[k] # d BY <1>3 DEF Contains
  <2>1. CASE Len(s) = 3
    <3>1. e = Append(Tail(s), d) BY <1>3, <2>1 DEF loginDeviceIdAction
    <3>2. /\ Tail(s) \in Seq(Devices) /\ Len(Tail(s)) = 2 /\ Distinct(Tail(s))
          /\ \A k \in 1..2 : Tail(s)[k] = s[k + 1]
      BY <1>1, <2>1, TailShorter
    <3>3. \A k \in 1..2 : k + 1 \in 1..Len(s) BY <2>1
    <3>4. \A k \in 1..Len(Tail(s)) : Tail(s)[k] # d BY <2>0, <3>2, <3>3
    <3> PICK t \in Seq(Devices) : t = Tail(s) BY <3>2
    <3>5. Len(t) <= 2 /\ Distinct(t) /\ (\A k \in 1..Len(t) : t[k] # d) BY <3>2, <3>4
    <3>6. Append(t, d) \in Seq(Devices) /\ Len(Append(t, d)) <= 3 /\ Distinct(Append(t, d))
      BY <3>5, AppendShorter
    <3>7. Append(t, d) \in Seq(Devices) /\ Good(Append(t, d)) BY <3>6, GoodIs
    <3> QED BY <3>1, <3>7
  <2>2. CASE Len(s) # 3
    <3>1. e = Append(s, d) BY <1>3, <2>2 DEF loginDeviceIdAction
    <3>2. Len(s) \in Nat OBVIOUS
    <3>2b. PICK l \in Nat : l = Len(s) BY <3>2
    <3>2c. l <= 2 BY <1>1, <2>2, <3>2b
    <3>3. Len(s) <= 2 BY <3>2b, <3>2c
    <3> QED BY <1>1, <2>0, <3>1, <3>3, AppendShorter, GoodIs
  <2> QED BY <2>1, <2>2
<1> QED BY <1>2, <1>3

\* Whatever the body of an update does to a good list.
LEMMA NewDevicesGood ==
    ASSUME NEW s \in Seq(Devices), NEW c \in Changes, Good(s), NewDevices(s, c) # None
    PROVE  NewDevices(s, c) \in Seq(Devices) /\ Good(NewDevices(s, c))
<1>1. c \in Change BY AccountAssumption
<1>2. c.device # None BY DEF NewDevices
<1>3. c.device[1] \in {"add", "remove"} /\ c.device[2] \in Devices BY <1>1, <1>2 DEF Change
<1>4. CASE c.device[1] = "add"
  <2>1. NewDevices(s, c) = loginDeviceIdAction(s, c.device[2]) BY <1>2, <1>4 DEF NewDevices
  <2> QED BY <1>3, <2>1, LoginIsGood
<1>5. CASE c.device[1] # "add"
  <2>1. NewDevices(s, c) = onLogoutDeviceId(s, c.device[2]) BY <1>2, <1>5 DEF NewDevices
  <2> QED BY <2>1, WithoutShorter, GoodIs
<1> QED BY <1>4, <1>5

\* What holds a list of devices keeps it, or gets a good one.
LEMMA DevicesStep ==
    ASSUME AccountsInv, NEW r \in Requests, Others(r),
           \A j \in Ids : rows'[j] # None =>
               (rows[j] # None /\ rows'[j].devices = rows[j].devices) \/ Good(rows'[j].devices),
           req'[r].devices # None => req'[r].devices = req[r].devices \/ Good(req'[r].devices),
           req'[r].entity # None => req'[r].entity = req[r].entity \/ Good(req'[r].entity.devices)
    PROVE  DevicesGood'
<1>1. \A j \in Ids : rows[j] # None => Good(rows[j].devices)
  BY DEF AccountsInv, DevicesGood, DevicesBounded, Good
<1>2. \A s \in Requests : /\ req[s].devices # None => Good(req[s].devices)
                          /\ req[s].entity # None => Good(req[s].entity.devices)
  BY DEF AccountsInv, DevicesGood
<1>3. \A j \in Ids : rows'[j] # None => Good(rows'[j].devices) BY <1>1
<1>4. DevicesBounded' BY <1>3 DEF DevicesBounded, Good
<1>5. ASSUME NEW s \in Requests
      PROVE  /\ req'[s].devices # None => Good(req'[s].devices)
             /\ req'[s].entity # None => Good(req'[s].entity.devices)
  <2>1. CASE s = r BY <1>2, <2>1
  <2>2. CASE s # r
    <3>1. req'[s] = req[s] BY <2>2 DEF Others
    <3> QED BY <1>2, <3>1
  <2> QED BY <2>1, <2>2
<1> QED BY <1>4, <1>5 DEF DevicesGood

\* A request that only moves.
LEMMA MovedDevices ==
    ASSUME AccountsInv, NEW r \in Requests, NEW a, Moved(r, a), UNCHANGED rows
    PROVE  DevicesGood'
BY DevicesStep DEF Moved

\* What starts brings no list of devices, or a good one.
LEMMA StartDevices ==
    ASSUME AccountsInv, NEW r \in Requests, Others(r), UNCHANGED rows, req'[r].entity = None,
           req'[r].devices = None \/ Good(req'[r].devices)
    PROVE  DevicesGood'
BY DevicesStep

\* An update starts with a list made from the row.
LEMMA UpdateKeeps ==
    ASSUME AccountsInv, NEW r \in Requests, NEW i \in Ids, NEW c \in Changes, Update(r, i, c)
    PROVE  Effect(r, None) /\ Types' /\ DevicesGood'
<1>1. rows[i] # None /\ UNCHANGED rows BY DEF Update
<1>2. rows[i].devices \in Seq(Devices) BY <1>1 DEF AccountsInv, Types, UserRow
<1>3. Good(rows[i].devices) BY <1>1 DEF AccountsInv, DevicesGood, DevicesBounded, Good
<1> PICK d : d = NewDevices(rows[i].devices, c) OBVIOUS
<1>4. d = None \/ (d \in Seq(Devices) /\ Good(d)) BY <1>2, <1>3, NewDevicesGood
<1>5. Effect(r, None) /\ Types' /\ req'[r].devices = d /\ req'[r].entity = None
  BY <1>4, UpdateStep
<1>6. Others(r) BY <1>5 DEF Effect, Goes
<1> QED BY <1>1, <1>4, <1>5, <1>6, StartDevices

\* The entity has the list of the request, or that of the row.
LEMMA FindRowKeeps ==
    ASSUME AccountsInv, NEW r \in Requests, FindRow(r)
    PROVE  DevicesGood'
<1>1. /\ Others(r) /\ UNCHANGED rows /\ req[r].id \in Ids /\ rows[req[r].id] # None
      /\ req'[r].devices = req[r].devices
      /\ req'[r].entity.devices =
           IF req[r].devices # None THEN req[r].devices ELSE rows[req[r].id].devices
  BY FindRowStep
<1>2. Good(rows[req[r].id].devices)
  BY <1>1 DEF AccountsInv, DevicesGood, DevicesBounded, Good
<1>3. req[r].devices # None => Good(req[r].devices) BY DEF AccountsInv, DevicesGood
<1>4. Good(req'[r].entity.devices) BY <1>1, <1>2, <1>3
<1> QED BY <1>1, <1>4, DevicesStep

\* The rows that are written.
LEMMA RowsGood ==
    ASSUME AccountsInv, NEW r \in Requests, InsertRow(r) \/ SaveRow(r) \/ DeleteRow(r)
    PROVE  DevicesGood'
<1>1. CASE InsertRow(r)
  <2>1. /\ Moved(r, "mappings") /\ req[r].id \in Ids /\ rows'[req[r].id].devices = <<>>
        /\ \A j \in Ids \ {req[r].id} : rows'[j] = rows[j]
    BY <1>1, InsertRowStep
  <2>2. Good(<<>>) BY DEF Good, IsInjective
  <2>3. \A j \in Ids : rows'[j] # None =>
          (rows[j] # None /\ rows'[j].devices = rows[j].devices) \/ Good(rows'[j].devices)
    BY <2>1, <2>2
  <2> QED BY <2>1, <2>3, DevicesStep DEF Moved
<1>2. CASE SaveRow(r)
  <2>1. /\ Moved(r, "status") /\ req[r].id \in Ids /\ rows'[req[r].id] = req[r].entity
        /\ req[r].entity # None /\ \A j \in Ids \ {req[r].id} : rows'[j] = rows[j]
    BY <1>2, SaveRowStep
  <2>2. Good(req[r].entity.devices) BY <2>1 DEF AccountsInv, DevicesGood
  <2>3. \A j \in Ids : rows'[j] # None =>
          (rows[j] # None /\ rows'[j].devices = rows[j].devices) \/ Good(rows'[j].devices)
    BY <2>1, <2>2
  <2> QED BY <2>1, <2>3, DevicesStep DEF Moved
<1>3. CASE DeleteRow(r)
  <2>1. Moved(r, "account") /\ \A j \in Ids : rows'[j] \in {rows[j], None}
    BY <1>3, DeleteRowStep
  <2> QED BY <2>1, DevicesStep DEF Moved
<1> QED BY <1>1, <1>2, <1>3

-----------------------------------------------------------------------------
(* Steps that no request takes. *)

\* A step that changes no request, no row and no name.
LEMMA IdleKeeps ==
    ASSUME AccountsInv, AllSame, Types', UNCHANGED <<rows, mapped, req, issued, failed, finished>>
    PROVE  AccountsInv'
<1>1. \A j \in Ids : /\ (accounts'[j] # None) <=> (accounts[j] # None)
                     /\ accounts[j] # None => accounts'[j].name = accounts[j].name
  BY DEF AllSame, Same
<1>2. Shapes' /\ Alone' BY DEF AccountsInv, Shapes, Alone, UnderWay
<1>3. DevicesGood' BY DEF AccountsInv, DevicesGood, DevicesBounded
<1>4. Fresh' BY <1>1 DEF AccountsInv, Fresh
<1>5. RowsHaveAccounts' BY <1>1 DEF AccountsInv, RowsHaveAccounts
<1>6. CreatedIsComplete' BY <1>1 DEF AccountsInv, CreatedIsComplete
<1>7. Agreement'
  <2> SUFFICES ASSUME NEW j \in Ids, Disagree(j)'
               PROVE  j \in failed \/ \E s \in Requests : req[s].id = j /\ Parting(req[s])
    BY DEF Agreement
  <2>1. Disagree(j) BY <1>1 DEF Disagree
  <2> QED BY <2>1 DEF AccountsInv, Agreement
<1>8. Known'
  <2> SUFFICES ASSUME NEW s \in Requests PROVE Knows(req[s])' BY DEF Known
  <2>1. Knows(req[s]) /\ req[s] \in ReqRow /\ Shape(req[s])
    BY DEF AccountsInv, Known, Types, Shapes
  <2> PICK q : q = req[s] OBVIOUS
  <2>2. Knows(q) /\ q \in ReqRow /\ Shape(q) /\ req'[s] = q BY <2>1
  <2>3. CASE q.id \notin Ids \/ q.at \in {"new", "done"}
    BY <2>2, <2>3, Places DEF Knows, Waiting
  <2>4. CASE q.id \in Ids
    <3>1. rows[q.id] # None => accounts[q.id] # None BY <2>4 DEF AccountsInv, RowsHaveAccounts
    <3> QED BY <1>1, <2>2, <2>4, <3>1 DEF Knows
  <2> QED BY <2>3, <2>4
<1> QED BY <1>2, <1>3, <1>4, <1>5, <1>6, <1>7, <1>8 DEF AccountsInv

\* The status update in the background.
LEMMA SyncKeeps ==
    ASSUME AccountsInv, NEW r \in Requests, Sync(r) \/ SyncFails(r)
    PROVE  AccountsInv'
<1>1. syncs'= [syncs EXCEPT ![r] = None] BY DEF Sync, SyncFails
<1>2. syncs' \in [Requests -> [id : Ids, enabled : BOOLEAN] \cup {None}]
  BY <1>1 DEF AccountsInv, Types
<1>3. CASE Sync(r)
  <2> PICK y : y = syncs[r] OBVIOUS
  <2>1. y.id \in Ids /\ y.enabled \in BOOLEAN BY <1>3 DEF Sync, AccountsInv, Types
  <2> PICK i \in Ids : i = y.id BY <2>1
  <2>2. accounts[i] \in Account /\ accounts[i] # None
    BY <1>3, <2>1 DEF Sync, AccountsInv, Types
  <2> PICK a : a = [accounts[i] EXCEPT !.enabled = y.enabled] OBVIOUS
  <2>3. accounts' = [accounts EXCEPT ![i] = a] BY <1>3 DEF Sync
  <2>4. a \in Account /\ a.name = accounts[i].name BY <2>1, <2>2 DEF Account
  <2>5. a # None BY <2>4, AccountAssumption
  <2>6. accounts' \in [Ids -> Account \cup {None}] /\ accounts'[i] = a
        /\ \A j \in Ids \ {i} : accounts'[j] = accounts[j]
    BY <2>3, <2>4 DEF AccountsInv, Types
  <2>7. UNCHANGED <<rows, mapped, req, issued, failed, finished>> BY <1>3 DEF Sync
  <2>8. Types' BY <1>2, <2>6, <2>7 DEF AccountsInv, Types
  <2>9. AllSame BY <2>2, <2>4, <2>5, <2>6, <2>7 DEF AllSame, Same
  <2> QED BY <2>7, <2>8, <2>9, IdleKeeps
<1>4. CASE SyncFails(r)
  <2>1. UNCHANGED <<accounts, rows, mapped, req, issued, failed, finished>> BY <1>4 DEF SyncFails
  <2>2. Types' BY <1>2, <2>1 DEF AccountsInv, Types
  <2>3. AllSame BY <2>1 DEF AllSame, Same
  <2> QED BY <2>1, <2>2, <2>3, IdleKeeps
<1> QED BY <1>3, <1>4

\* No step at all.
LEMMA StutterKeeps ==
    ASSUME AccountsInv, UNCHANGED vars
    PROVE  AccountsInv'
<1>1. UNCHANGED <<accounts, rows, mapped, req, syncs, issued, failed, finished>> BY DEF vars
<1>2. Types' BY <1>1 DEF AccountsInv, Types
<1>3. AllSame BY <1>1 DEF AllSame, Same
<1> QED BY <1>1, <1>2, <1>3, IdleKeeps

-----------------------------------------------------------------------------
(* The inductive invariant. *)

\* The users at first are complete.
LEMMA InitHolds ==
    ASSUME Init
    PROVE  AccountsInv
<1>1. /\ \A i \in DOMAIN FirstName : i \in Ids /\ FirstName[i] \in Names
      /\ Carried \in Seq(Devices) /\ Good(Carried)
  BY AccountAssumption DEF Range, Good
<1>2. \A i \in Ids : accounts[i] =
        IF i \in DOMAIN FirstName THEN [name |-> FirstName[i], enabled |-> TRUE] ELSE None
  BY DEF Init
<1>3. \A i \in Ids : rows[i] = IF i \in DOMAIN FirstName
        THEN [name |-> FirstName[i], status |-> "active", devices |-> Carried] ELSE None
  BY DEF Init
<1>4. /\ \A r \in Requests : req[r] = Waiting
      /\ mapped = DOMAIN FirstName /\ issued = DOMAIN FirstName /\ failed = {} /\ finished = {}
  BY DEF Init
<1>5. \A i \in Ids \cap DOMAIN FirstName : /\ rows[i] \in UserRow /\ rows[i] # None
                                           /\ accounts[i] \in Account /\ accounts[i] # None
                                           /\ rows[i].name = accounts[i].name
                                           /\ rows[i].devices = Carried
  <2> SUFFICES ASSUME NEW i \in Ids \cap DOMAIN FirstName
               PROVE  /\ rows[i] \in UserRow /\ rows[i] # None
                      /\ accounts[i] \in Account /\ accounts[i] # None
                      /\ rows[i].name = accounts[i].name /\ rows[i].devices = Carried
    OBVIOUS
  <2>1. rows[i] = [name |-> FirstName[i], status |-> "active", devices |-> Carried] BY <1>3
  <2>2. accounts[i] = [name |-> FirstName[i], enabled |-> TRUE] BY <1>2
  <2>3. rows[i] \in UserRow BY <1>1, <2>1 DEF UserRow
  <2>4. accounts[i] \in Account BY <1>1, <2>2 DEF Account
  <2>5. rows[i] # None /\ accounts[i] # None BY <2>3, <2>4, AccountAssumption
  <2> QED BY <2>1, <2>2, <2>3, <2>4, <2>5
<1>6. Waiting \in ReqRow BY DEF Waiting, ReqRow, Ats
<1>7. Types
  <2>1. req \in [Requests -> ReqRow] BY <1>6 DEF Init
  <2>2. accounts \in [Ids -> Account \cup {None}] BY <1>2, <1>5 DEF Init
  <2>3. rows \in [Ids -> UserRow \cup {None}] BY <1>3, <1>5 DEF Init
  <2>4. syncs \in [Requests -> [id : Ids, enabled : BOOLEAN] \cup {None}] BY DEF Init
  <2> QED BY <1>1, <1>4, <2>1, <2>2, <2>3, <2>4 DEF Types
<1>8. Waiting.at = "new" /\ Waiting.op = None /\ Waiting.id = None /\ Waiting.devices = None
      /\ Waiting.entity = None
  BY DEF Waiting
<1>9. Shapes BY <1>4, <1>8 DEF Shapes, Shape
<1>10. Fresh BY <1>2, <1>3, <1>4, <1>8, AccountAssumption DEF Fresh
<1>11. Alone BY <1>4, <1>8 DEF Alone, UnderWay
<1>12. Known BY <1>4, <1>8, AccountAssumption DEF Known, Knows
<1>13. Agreement
  <2> SUFFICES ASSUME NEW i \in Ids PROVE ~Disagree(i) BY DEF Agreement
  <2>1. CASE i \in DOMAIN FirstName BY <1>5, <2>1 DEF Disagree
  <2>2. CASE i \notin DOMAIN FirstName BY <1>2, <1>3, <2>2 DEF Disagree
  <2> QED BY <2>1, <2>2
<1>14. RowsHaveAccounts BY <1>3, <1>5 DEF RowsHaveAccounts
<1>15. CreatedIsComplete BY <1>4 DEF CreatedIsComplete
<1>16. DevicesBounded
  <2> SUFFICES ASSUME NEW i \in Ids, rows[i] # None PROVE Good(rows[i].devices)
    BY DEF DevicesBounded, Good
  <2>1. i \in DOMAIN FirstName BY <1>3
  <2> QED BY <1>1, <1>5, <2>1
<1>17. DevicesGood BY <1>4, <1>8, <1>16 DEF DevicesGood
<1> QED BY <1>7, <1>9, <1>10, <1>11, <1>12, <1>13, <1>14, <1>15, <1>17 DEF AccountsInv

\* The request keeps the rows, and its own lists.
LEMMA MovedKeeps ==
    ASSUME AccountsInv, NamesAreKept, NEW r \in Requests, NEW i \in Ids \cup {None}, NEW a,
           Effect(r, i), Types', Moved(r, a), UNCHANGED rows
    PROVE  AccountsInv'
BY EffectKeeps, MovedDevices

\* The calls of createUser.
LEMMA CreationKeeps ==
    ASSUME AccountsInv, NamesAreKept, NEW r \in Requests,
           \/ \E n \in Names : Create(r, n)
           \/ CreateAccount(r) \/ CreateAccountFails(r) \/ InsertRow(r) \/ InsertMappings(r)
    PROVE  AccountsInv'
<1>0. Types /\ Shapes BY DEF AccountsInv
<1>1. ASSUME NEW n \in Names, Create(r, n) PROVE AccountsInv'
  <2>1. Effect(r, None) /\ Types' /\ req'[r].devices = None /\ req'[r].entity = None
    BY <1>1, CreateStep
  <2>2. Others(r) /\ UNCHANGED rows BY <1>1, <2>1 DEF Effect, Goes, Create
  <2>3. DevicesGood' BY <2>1, <2>2, StartDevices
  <2> QED BY <2>1, <2>3, EffectKeeps
<1>2. CASE CreateAccount(r)
  <2>1. /\ (\E i \in Ids : Effect(r, i)) /\ Types' /\ UNCHANGED rows
        /\ Others(r) /\ req'[r].devices = req[r].devices /\ req'[r].entity = req[r].entity
    BY <1>2, CreateAccountStep
  <2>2. DevicesGood' BY <2>1, DevicesStep
  <2> QED BY <2>1, <2>2, EffectKeeps
<1>3. CASE CreateAccountFails(r)
  <2>1. /\ (\E i \in Ids \cup {None} : Effect(r, i)) /\ Types' /\ UNCHANGED rows
        /\ Others(r) /\ req'[r].devices = req[r].devices /\ req'[r].entity = req[r].entity
    BY <1>3, CreateAccountFailsStep
  <2>2. DevicesGood' BY <2>1, DevicesStep
  <2> QED BY <2>1, <2>2, EffectKeeps
<1>4. CASE InsertRow(r)
  <2>1. Effect(r, req[r].id) /\ Types' /\ req[r].id \in Ids BY <1>4, InsertRowStep
  <2>2. DevicesGood' BY <1>4, RowsGood
  <2> QED BY <2>1, <2>2, EffectKeeps
<1>5. CASE InsertMappings(r)
  <2>1. Effect(r, req[r].id) /\ Types' /\ Moved(r, "done") BY <1>5, InsertMappingsStep
  <2>2. UNCHANGED rows /\ req[r].id \in Ids \cup {None}
    BY <1>5 DEF InsertMappings, AccountsInv, Types, ReqRow
  <2> QED BY <2>1, <2>2, MovedKeeps
<1> QED BY <1>1, <1>2, <1>3, <1>4, <1>5

\* The calls of updateUser.
LEMMA UpdateActionsKeep ==
    ASSUME AccountsInv, NamesAreKept, NEW r \in Requests,
           \/ \E i \in Ids, c \in Changes : Update(r, i, c)
           \/ CheckName(r) \/ PutAccount(r) \/ PutAccountFails(r) \/ FindRow(r) \/ SaveRow(r)
           \/ StartSync(r)
    PROVE  AccountsInv'
<1>0. req[r].id \in Ids \cup {None} BY DEF AccountsInv, Types, ReqRow
<1>1. ASSUME NEW i \in Ids, NEW c \in Changes, Update(r, i, c) PROVE AccountsInv'
  BY <1>1, UpdateKeeps, EffectKeeps
<1>2. CASE CheckName(r)
  <2>1. UNCHANGED rows BY <1>2 DEF CheckName
  <2> QED BY <1>0, <1>2, <2>1, CheckNameStep, MovedKeeps
<1>3. CASE PutAccount(r)
  <2>1. UNCHANGED rows BY <1>3 DEF PutAccount
  <2> QED BY <1>0, <1>3, <2>1, PutAccountStep, MovedKeeps
<1>4. CASE PutAccountFails(r)
  <2>1. UNCHANGED rows BY <1>4 DEF PutAccountFails
  <2> QED BY <1>0, <1>4, <2>1, PutAccountFailsStep, MovedKeeps
<1>5. CASE FindRow(r)
  BY <1>0, <1>5, FindRowStep, FindRowKeeps, EffectKeeps
<1>6. CASE SaveRow(r)
  BY <1>0, <1>6, SaveRowStep, RowsGood, EffectKeeps
<1>7. CASE StartSync(r)
  <2>1. UNCHANGED rows BY <1>7 DEF StartSync
  <2> QED BY <1>0, <1>7, <2>1, StartSyncStep, MovedKeeps
<1> QED BY <1>1, <1>2, <1>3, <1>4, <1>5, <1>6, <1>7

\* The calls of deleteUserById.
LEMMA DeletionKeeps ==
    ASSUME AccountsInv, NamesAreKept, NEW r \in Requests,
           \/ \E i \in Ids : Delete(r, i)
           \/ DeleteMappings(r) \/ DeleteRow(r) \/ DeleteAccount(r) \/ DeleteAccountFails(r)
    PROVE  AccountsInv'
<1>0. req[r].id \in Ids \cup {None} BY DEF AccountsInv, Types, ReqRow
<1>1. ASSUME NEW i \in Ids, Delete(r, i) PROVE AccountsInv'
  <2>1. Effect(r, None) /\ Types' /\ req'[r].devices = None /\ req'[r].entity = None
    BY <1>1, DeleteStep
  <2>2. Others(r) /\ UNCHANGED rows BY <1>1, <2>1 DEF Effect, Goes, Delete
  <2>3. DevicesGood' BY <2>1, <2>2, StartDevices
  <2> QED BY <2>1, <2>3, EffectKeeps
<1>2. CASE DeleteMappings(r)
  <2>1. UNCHANGED rows BY <1>2 DEF DeleteMappings
  <2> QED BY <1>0, <1>2, <2>1, DeleteMappingsStep, MovedKeeps
<1>3. CASE DeleteRow(r)
  BY <1>0, <1>3, DeleteRowStep, RowsGood, EffectKeeps
<1>4. CASE DeleteAccount(r)
  <2>1. UNCHANGED rows BY <1>4 DEF DeleteAccount
  <2> QED BY <1>0, <1>4, <2>1, DeleteAccountStep, MovedKeeps
<1>5. CASE DeleteAccountFails(r)
  <2>1. UNCHANGED rows BY <1>5 DEF DeleteAccountFails
  <2> QED BY <1>0, <1>5, <2>1, DeleteAccountFailsStep, MovedKeeps
<1> QED BY <1>1, <1>2, <1>3, <1>4, <1>5

\* The calls that fail and leave both stores.
LEMMA FailureKeeps ==
    ASSUME AccountsInv, NamesAreKept, NEW r \in Requests,
           InsertRowFails(r) \/ InsertMappingsFails(r) \/ NameRefused(r) \/ SaveRowFails(r)
             \/ DeleteRowsFails(r)
    PROVE  AccountsInv'
<1>0. req[r].id \in Ids \cup {None} BY DEF AccountsInv, Types, ReqRow
<1> QED BY <1>0, FailsStep, MovedKeeps

\* Every step.
LEMMA NextKeeps ==
    ASSUME NamesAreKept, AccountsInv, [Next]_vars
    PROVE  AccountsInv'
<1>1. ASSUME NEW r \in Requests, \E n \in Names : Create(r, n) PROVE AccountsInv'
  BY <1>1, CreationKeeps
<1>2. ASSUME NEW r \in Requests,
             CreateAccount(r) \/ CreateAccountFails(r) \/ InsertRow(r) \/ InsertMappings(r)
      PROVE  AccountsInv'
  BY <1>2, CreationKeeps
<1>3. ASSUME NEW r \in Requests, \E i \in Ids, c \in Changes : Update(r, i, c) PROVE AccountsInv'
  BY <1>3, UpdateActionsKeep
<1>4. ASSUME NEW r \in Requests, CheckName(r) \/ PutAccount(r) \/ PutAccountFails(r) \/ FindRow(r)
                                   \/ SaveRow(r) \/ StartSync(r)
      PROVE  AccountsInv'
  BY <1>4, UpdateActionsKeep
<1>5. ASSUME NEW r \in Requests, \E i \in Ids : Delete(r, i) PROVE AccountsInv'
  BY <1>5, DeletionKeeps
<1>6. ASSUME NEW r \in Requests,
             DeleteMappings(r) \/ DeleteRow(r) \/ DeleteAccount(r) \/ DeleteAccountFails(r)
      PROVE  AccountsInv'
  BY <1>6, DeletionKeeps
<1>7. ASSUME NEW r \in Requests, InsertRowFails(r) \/ InsertMappingsFails(r) \/ NameRefused(r)
                                   \/ SaveRowFails(r) \/ DeleteRowsFails(r)
      PROVE  AccountsInv'
  BY <1>7, FailureKeeps
<1>8. ASSUME NEW r \in Requests, Sync(r) \/ SyncFails(r) PROVE AccountsInv'
  BY <1>8, SyncKeeps
<1>9. CASE UNCHANGED vars BY <1>9, StutterKeeps
<1> QED BY <1>1, <1>2, <1>3, <1>4, <1>5, <1>6, <1>7, <1>8, <1>9 DEF Next

\* The calls of all requests keep the inductive invariant.
THEOREM Invariance == ASSUME NamesAreKept PROVE Spec => []AccountsInv
<1>1. Init => AccountsInv BY InitHolds
<1>2. AccountsInv /\ [Next]_vars => AccountsInv' BY NextKeeps
<1> QED BY <1>1, <1>2, PTL DEF Spec

\* The variables of the two stores and of the requests keep their types.
THEOREM TypesHold == ASSUME NamesAreKept PROVE Spec => []TypeOK
<1>1. AccountsInv => TypeOK BY DEF AccountsInv, Types, TypeOK, ReqRow
<1> QED BY <1>1, Invariance, PTL

\* A user in Users always has its account in Keycloak: createUser makes the account
\* first, and deleteUserById deletes it last.
THEOREM RowsHoldAccounts == ASSUME NamesAreKept PROVE Spec => []RowsHaveAccounts
<1>1. AccountsInv => RowsHaveAccounts BY DEF AccountsInv
<1> QED BY <1>1, Invariance, PTL

\* Where the two stores disagree on a user, a request about that user is under way or
\* has answered with an error.
THEOREM DivergenceReported == ASSUME NamesAreKept PROVE Spec => []DivergenceIsReported
<1>1. AccountsInv => DivergenceIsReported
  <2> SUFFICES ASSUME AccountsInv, NEW i \in Ids, Disagree(i) PROVE i \in Busy \cup failed
    BY DEF DivergenceIsReported
  <2>1. CASE i \in failed BY <2>1
  <2>2. CASE i \notin failed
    <3>1. PICK r \in Requests : req[r].id = i /\ Parting(req[r])
      BY <2>2 DEF AccountsInv, Agreement
    <3>2. req[r] \in ReqRow /\ Shape(req[r]) BY DEF AccountsInv, Types, Shapes
    <3>3. req[r].at \notin {"new", "done"} BY <3>1, <3>2, Places
    <3>4. r \in UnderWay /\ i # None BY <3>3, AccountAssumption DEF UnderWay
    <3> QED BY <3>1, <3>4 DEF Busy
  <2> QED BY <2>1, <2>2
<1> QED BY <1>1, Invariance, PTL

\* A user whose createUser succeeded has its account, its row and its mappings until a
\* deleteUserById of it begins.
THEOREM CreatedStaysComplete == ASSUME NamesAreKept PROVE Spec => []CreatedIsComplete
<1>1. AccountsInv => CreatedIsComplete BY DEF AccountsInv
<1> QED BY <1>1, Invariance, PTL

\* Logins and logouts leave a user at most three devices, none of them twice.
THEOREM DevicesStayBounded == ASSUME NamesAreKept PROVE Spec => []DevicesBounded
<1>1. AccountsInv => DevicesBounded BY DEF AccountsInv, DevicesGood
<1> QED BY <1>1, Invariance, PTL

=============================================================================

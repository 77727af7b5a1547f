---------------------------- MODULE ViewsProofs -----------------------------
(***************************************************************************)
(* Proofs about what is put together from several reads of the tables.     *)
(*                                                                         *)
(* Events.  A publication reads the parts of its event one after the other *)
(* while others write the tables.  For a key that is not excused, what one *)
(* has read so far is still so (Reads), and there is no other whose event  *)
(* could arrive after it (Alone); so the last event to arrive tells what   *)
(* the tables hold.  Every action that writes a table excuses the keys     *)
(* whose view it changes (Wrote), and one lemma does for all of them.      *)
(*                                                                         *)
(* Hierarchies and searches.  A request during which somebody writes is    *)
(* torn.  Of one that is not, what it has read so far is still what its    *)
(* queries would find (Whole, Right): each of its steps adds to it, and    *)
(* those of the others leave it alone.  Of every hierarchy, what it has    *)
(* placed is so of each center that nobody has written since (Apart).      *)
(***************************************************************************)
EXTENDS Views, FiniteSetTheorems, TLAPS

\* What a publication of k may send when its view is v.
Tellable(k, v) == {v} \cup (IF k \in Cohorts /\ v.status = "archived" THEN {Blank} ELSE {})

\* What p has read so far, when the view of its key is v.
Reads(p, v) ==
    CASE p.at = "row" -> p.data = Blank /\ p.key \in Users \cup Cohorts
      [] p.at = "tenants" ->
            p.data = [Blank EXCEPT !.name = v.name] /\ p.key \in Users /\ v.name # None
      [] p.at = "fields" ->
            \/ p.data = [Blank EXCEPT !.name = v.name, !.tenants = v.tenants]
               /\ p.key \in Users /\ v.name # None
            \/ p.data = [Blank EXCEPT !.status = v.status] /\ p.key \in Cohorts
      [] p.at = "cohorts" ->
            /\ p.data = [Blank EXCEPT !.name = v.name, !.tenants = v.tenants, !.fields = v.fields]
            /\ p.key \in Users /\ v.name # None
      [] p.at = "type" ->
            p.data = [Blank EXCEPT !.status = v.status, !.fields = v.fields] /\ p.key \in Cohorts
      [] p.at = "send" -> p.data \in Tellable(p.key, v)
      [] OTHER -> FALSE

\* The publications that tell of k; a login tells nothing that is kept.
Telling(k) == {p \in pubs : p.key = k /\ p.kind # "login"}
Alone(k) == \A p, q \in Telling(k) : p = q

PubFields == {"by", "key", "kind", "data", "at"}

EventsInv ==
    /\ DOMAIN copy = Keys
    /\ \A p \in pubs : DOMAIN p = PubFields
    /\ \A k \in Keys \ excused :
        /\ Alone(k)
        /\ \A p \in Telling(k) : Reads(p, View(k))
        /\ Telling(k) = {} => copy[k] \in Tellable(k, View(k))

(* ------------------------- What a view is made of ------------------------- *)

LEMMA UserView ==
    ASSUME NEW u \in Users
    PROVE  View(u) = IF name[u] = None THEN Blank
                     ELSE [Blank EXCEPT !.name = name[u], !.tenants = TenantsOf(u),
                                        !.fields = FieldsOf(u), !.cohorts = CohortsOf(u)]
<1>1. u \notin Cohorts BY TablesAssumption
<1> QED BY <1>1 DEF View

\* The parts of the view of a user that there is.
LEMMA UserParts ==
    ASSUME NEW u \in Users, View(u).name # None
    PROVE  /\ name[u] # None
           /\ View(u).tenants = TenantsOf(u) /\ View(u).fields = FieldsOf(u)
           /\ View(u).cohorts = CohortsOf(u)
<1>1. name[u] # None
  <2>1. ASSUME name[u] = None PROVE View(u) = Blank BY <2>1, UserView
  <2>2. Blank.name = None BY DEF Blank
  <2> QED BY <2>1, <2>2
<1>2. View(u) = [Blank EXCEPT !.name = name[u], !.tenants = TenantsOf(u),
                              !.fields = FieldsOf(u), !.cohorts = CohortsOf(u)]
  BY <1>1, UserView
<1> QED BY <1>1, <1>2 DEF Blank

LEMMA CohortView ==
    ASSUME NEW c \in Cohorts
    PROVE  View(c) = [Blank EXCEPT !.status = status[c], !.fields = FieldsOf(c),
                        !.type = Told(c, CenterType(IF TypeOf[c] = "BATCH" THEN ParentOf[c] ELSE c))]
<1>1. c \notin Users BY TablesAssumption
<1> QED BY <1>1 DEF View

LEMMA TellableIs ==
    ASSUME NEW k \in Keys, NEW data
    PROVE  data \in Tellable(k, View(k)) <=> Tells(k, data)
<1>1. k \in Cohorts => View(k).status = status[k]
  BY CohortView DEF Blank
<1> QED BY <1>1 DEF Tellable, Tells

\* The type that the event of a cohort is given is that of its view, when its fields are.
LEMMA TypeIs ==
    ASSUME NEW p, p.key \in Cohorts, p.data.fields = FieldsOf(p.key)
    PROVE  transformedType(p) = View(p.key).type
<1> DEFINE c == p.key
           of == {f \in FieldsOf(c) : f[1] = "TYPE_OF_CENTER"}
<1>1. View(c).type = Told(c, CenterType(IF TypeOf[c] = "BATCH" THEN ParentOf[c] ELSE c))
  BY CohortView DEF Blank
<1>2. CASE TypeOf[c] = "BATCH"
  BY <1>1, <1>2 DEF transformedType, queryTypeOfCenter
<1>3. CASE TypeOf[c] # "BATCH"
  <2>1. c # None BY TablesAssumption
  <2>2. extractTypeOfCenter(p.data) = ValueOf(c, "TYPE_OF_CENTER")
    <3>1. CASE of = {}
      <4>1. {w \in values : w.item = c /\ w.field = "TYPE_OF_CENTER"} = {}
        <5>1. ASSUME NEW w \in values, w.item = c, w.field = "TYPE_OF_CENTER" PROVE FALSE
          <6>1. <<w.field, ValueOf(c, w.field)>> \in FieldsOf(c) BY <5>1 DEF FieldsOf, ValuesOf
          <6> QED BY <3>1, <5>1, <6>1
        <5> QED BY <5>1
      <4> QED BY <3>1, <4>1 DEF extractTypeOfCenter, ValueOf, ValuesOf
    <3>2. CASE of # {}
      <4>1. \A f \in of : f[2] = ValueOf(c, "TYPE_OF_CENTER")
        BY DEF FieldsOf, ValuesOf
      <4>2. (CHOOSE f \in of : TRUE) \in of
        BY <3>2
      <4> QED BY <3>2, <4>1, <4>2 DEF extractTypeOfCenter
    <3> QED BY <3>1, <3>2
  <2> QED BY <1>1, <1>3, <2>1, <2>2 DEF transformedType, CenterType
<1> QED BY <1>2, <1>3

(* ------------------------------- The steps ------------------------------- *)

\* A write to the tables: whoever's view it changes is excused.
LEMMA WroteKeepsEvents ==
    ASSUME EventsInv, Wrote, UNCHANGED events
    PROVE  EventsInv'
<1>1. /\ pubs' = pubs /\ copy' = copy
      /\ excused' = excused \cup {k \in Keys : View(k)' # View(k)}
  BY DEF Wrote, events
<1>2. ASSUME NEW k \in Keys, k \notin excused'
      PROVE  /\ Alone(k)'
             /\ \A p \in Telling(k)' : Reads(p, View(k)')
             /\ Telling(k)' = {} => copy'[k] \in Tellable(k, View(k)')
  <2>1. k \notin excused /\ View(k)' = View(k)
    BY <1>1, <1>2
  <2>2. Telling(k)' = Telling(k)
    BY <1>1 DEF Telling
  <2> QED BY <1>1, <2>1, <2>2 DEF EventsInv, Alone
<1> QED BY <1>1, <1>2 DEF EventsInv

LEMMA IdleKeepsEvents ==
    ASSUME EventsInv, UNCHANGED <<tables, excused, events>>
    PROVE  EventsInv'
<1>1. \A k : View(k)' = View(k)
  BY DEF View, tables, TenantsOf, RolesIn, FieldsOf, ValueOf, ValuesOf, CohortsOf, Joined, CenterType
<1> QED BY <1>1 DEF EventsInv, events, Alone, Telling

\* The views after a step that writes no table.
LEMMA SameView ==
    ASSUME UNCHANGED tables
    PROVE  \A k : View(k)' = View(k)
BY DEF View, tables, TenantsOf, RolesIn, FieldsOf, ValueOf, ValuesOf, CohortsOf, Joined, CenterType

LEMMA HandleKeepsEvents ==
    ASSUME EventsInv, NEW r \in Requests, Handle(r), ~Reply(r)
    PROVE  EventsInv'
<1> USE WroteKeepsEvents, IdleKeepsEvents DEF Saved, Refuse, notes
<1>1. CASE SaveUser(r)
  BY <1>1 DEF SaveUser
<1>2. CASE deleteUserById(r) \/ login(r)
  BY <1>2 DEF deleteUserById, login
<1>3. CASE UpdateCohortRow(r) \/ UpdateCohortValues(r) \/ FindMembers(r) \/ UpdateMembers(r)
  BY <1>3 DEF UpdateCohortRow, UpdateCohortValues, FindMembers, UpdateMembers
<1>4. CASE ArchiveCohort(r) \/ ArchiveMembers(r) \/ ArchiveValues(r)
  BY <1>4 DEF ArchiveCohort, ArchiveMembers, ArchiveValues
<1>5. CASE SaveMember(r) \/ BulkMember(r)
  BY <1>5 DEF SaveMember, BulkMember
<1> QED BY <1>1, <1>2, <1>3, <1>4, <1>5 DEF Handle

\* The reply: the keys whose publication starts alone, and which it can keep its word about, are
\* no longer excused.
LEMMA ReplyKeepsEvents ==
    ASSUME EventsInv, NEW r \in Requests, Reply(r)
    PROVE  EventsInv'
<1> DEFINE told == TellsOf(r)
           alone == {k \in told : /\ \A p \in pubs : p.key # k \/ p.kind = "login"
                                  /\ Start(r, k).at = "send" => Tells(k, Start(r, k).data)}
<1>1. /\ pubs' = pubs \cup {Start(r, k) : k \in told} /\ copy' = copy
      /\ excused' = IF run[r].op.name = "login" THEN excused ELSE (excused \ alone) \cup (told \ alone)
      /\ \A k : View(k)' = View(k)
  BY SameView DEF Reply
<1>2. \A k : /\ Start(r, k).key = k /\ Start(r, k).kind = KindOf(run[r].op)
             /\ DOMAIN Start(r, k) = PubFields
  BY DEF Start, PubFields
<1>3. KindOf(run[r].op) = "login" <=> run[r].op.name = "login"
  BY DEF KindOf
<1>4. ASSUME NEW k \in Keys, k \notin excused', NEW v, v = View(k)
      PROVE  /\ Alone(k)'
             /\ \A p \in Telling(k)' : Reads(p, v)
             /\ Telling(k)' = {} => copy[k] \in Tellable(k, v)
  <2>1. CASE k \notin told \/ run[r].op.name = "login"
    <3>1. Telling(k)' = Telling(k) BY <1>1, <1>2, <1>3, <2>1 DEF Telling
    <3>2. k \notin excused BY <1>1, <1>4, <2>1
    <3> QED BY <1>4, <3>1, <3>2 DEF EventsInv, Alone
  <2>2. CASE k \in told /\ run[r].op.name # "login"
    <3>1. k \in alone BY <1>1, <1>4, <2>2
    <3>2. Telling(k)' = {Start(r, k)}
      BY <1>1, <1>2, <1>3, <2>2, <3>1 DEF Telling
    <3>3. Reads(Start(r, k), v)
      <4>1. CASE Start(r, k).at = "send"
        <5>1. Start(r, k).data \in Tellable(k, v) BY <1>4, <3>1, <4>1, TellableIs
        <5> QED BY <1>2, <4>1, <5>1 DEF Reads
      <4>2. CASE Start(r, k).at # "send"
        BY <4>2 DEF Start, Reads, Keys
      <4> QED BY <4>1, <4>2
    <3> QED BY <3>2, <3>3 DEF Alone
  <2> QED BY <2>1, <2>2
<1> QED BY <1>1, <1>2, <1>4 DEF EventsInv

\* A publication goes on, with what it has read, or its key is excused.
LEMMA StepKeepsEvents ==
    ASSUME EventsInv, NEW p \in pubs, NEW q, Step(p, q), q.key = p.key, q.kind = p.kind,
           DOMAIN q = PubFields,
           UNCHANGED <<tables, copy>>, excused \subseteq excused',
           ASSUME p.kind # "login", p.key \in Keys \ excused', Reads(p, View(p.key))
           PROVE  Reads(q, View(p.key))
    PROVE  EventsInv'
<1>1. \A k : View(k)' = View(k)
  BY SameView
<1>2. \A k : Telling(k)' = IF k = p.key /\ p.kind # "login" THEN (Telling(k) \ {p}) \cup {q} ELSE Telling(k)
  BY DEF Step, Telling
<1>3. ASSUME NEW k \in Keys, k \notin excused', NEW v, v = View(k)
      PROVE  /\ Alone(k)'
             /\ \A s \in Telling(k)' : Reads(s, v)
             /\ Telling(k)' = {} => copy[k] \in Tellable(k, v)
  <2>1. Alone(k) /\ (\A s \in Telling(k) : Reads(s, v)) /\ (Telling(k) = {} => copy[k] \in Tellable(k, v))
    BY <1>3 DEF EventsInv
  <2>2. CASE k = p.key /\ p.kind # "login"
    <3>1. Telling(k) = {p} BY <2>1, <2>2 DEF Telling, Alone
    <3>2. Telling(k)' = {q} BY <1>2, <2>2, <3>1
    <3>3. Reads(q, v) BY <1>3, <2>1, <2>2, <3>1
    <3> QED BY <3>2, <3>3 DEF Alone
  <2>3. CASE ~(k = p.key /\ p.kind # "login")
    <3>1. Telling(k)' = Telling(k) BY <1>2, <2>3
    <3> QED BY <2>1, <3>1 DEF Alone
  <2> QED BY <2>2, <2>3
<1> QED BY <1>1, <1>3 DEF EventsInv, Step

\* A publication ends: its event has arrived, or its key is excused.
LEMMA EndKeepsEvents ==
    ASSUME EventsInv, NEW p \in pubs, pubs' = pubs \ {p}, UNCHANGED tables,
           excused \subseteq excused', DOMAIN copy' = Keys,
           \A k \in Keys : k # p.key \/ p.kind = "login" => copy'[k] = copy[k],
           p.kind # "login" /\ p.key \in Keys \ excused' =>
                copy'[p.key] = p.data /\ p.at = "send"
    PROVE  EventsInv'
<1>1. \A k : View(k)' = View(k)
  BY SameView
<1>3. ASSUME NEW k \in Keys, k \notin excused', NEW v, v = View(k)
      PROVE  /\ Alone(k)'
             /\ \A s \in Telling(k)' : Reads(s, v)
             /\ Telling(k)' = {} => copy'[k] \in Tellable(k, v)
  <2>1. Alone(k) /\ (\A s \in Telling(k) : Reads(s, v)) /\ (Telling(k) = {} => copy[k] \in Tellable(k, v))
    BY <1>3 DEF EventsInv
  <2>2. CASE k = p.key /\ p.kind # "login"
    <3>1. p \in Telling(k) /\ Telling(k)' = {} BY <2>1, <2>2 DEF Telling, Alone
    <3> QED BY <1>3, <2>1, <2>2, <3>1 DEF Reads, Alone
  <2>3. CASE ~(k = p.key /\ p.kind # "login")
    <3>1. Telling(k)' = Telling(k) BY <2>3 DEF Telling
    <3> QED BY <2>1, <2>3, <3>1 DEF Alone
  <2> QED BY <2>2, <2>3
<1> QED BY <1>1, <1>3 DEF EventsInv

LEMMA PublishKeepsEvents ==
    ASSUME EventsInv, Publish
    PROVE  EventsInv'
<1>1. PICK p \in pubs :
        \/ Row(p) \/ TenantsAndRoles(p) \/ CustomFields(p) \/ CohortsOfUser(p) \/ CohortType(p)
        \/ ReadFails(p) \/ Send(p) \/ SendFails(p)
  BY DEF Publish
<1>2. DOMAIN p = PubFields BY DEF EventsInv
<1>t. ASSUME NEW there, NEW f, Told1(p, there, f), UNCHANGED tables,
             ASSUME p.kind # "login", p.key \in Keys \ excused', Reads(p, View(p.key)),
                    NEW q, q.at = there, q.data = f, q.key = p.key
             PROVE  Reads(q, View(p.key))
      PROVE  EventsInv'
  <2> DEFINE q == [p EXCEPT !.at = there, !.data = f]
  <2>1. q.at = there /\ q.data = f /\ q.key = p.key /\ q.kind = p.kind /\ DOMAIN q = PubFields
    BY <1>2 DEF PubFields
  <2>2. Step(p, q) /\ copy' = copy /\ excused' = excused
    BY <1>t DEF Told1
  <2> HIDE DEF q
  <2> QED BY <1>t, <2>1, <2>2, StepKeepsEvents
<1>3. CASE Row(p)
  <2>1. CASE p.kind = "login"
    BY <1>3, <1>t, <2>1 DEF Row, Silent
  <2>2. CASE p.kind # "login" /\ p.key \in Users /\ name[p.key] = None
    <3>1. View(p.key) = Blank BY <2>2, UserView
    <3> QED BY <1>3, <1>t, <2>2, <3>1 DEF Row, Silent, Reads, Tellable
  <2>3. CASE p.kind # "login" /\ p.key \in Users /\ name[p.key] # None
    <3>1. View(p.key).name = name[p.key] BY <2>3, UserView DEF Blank
    <3> QED BY <1>3, <1>t, <2>3, <3>1 DEF Row, Silent, Reads
  <2>4. CASE p.kind # "login" /\ p.key \notin Users
    <3>1. p.key \in Cohorts => View(p.key).status = status[p.key] BY CohortView DEF Blank
    <3> QED BY <1>3, <1>t, <2>4, <3>1 DEF Row, Silent, Reads
  <2> QED BY <2>1, <2>2, <2>3, <2>4
<1>4. CASE TenantsAndRoles(p)
  <2>1. ASSUME p.kind # "login", p.key \in Keys \ excused', Reads(p, View(p.key)),
               NEW q, q.at = "fields", q.data = [p.data EXCEPT !.tenants = TenantsOf(p.key)], q.key = p.key
        PROVE  Reads(q, View(p.key))
    <3>1. p.at = "tenants" BY <1>4 DEF TenantsAndRoles
    <3>2. p.key \in Users /\ View(p.key).name # None /\ p.data = [Blank EXCEPT !.name = View(p.key).name]
      BY <2>1, <3>1 DEF Reads
    <3>3. View(p.key).tenants = TenantsOf(p.key) BY <3>2, UserParts
    <3>4. q.data = [Blank EXCEPT !.name = View(p.key).name, !.tenants = View(p.key).tenants]
      BY <2>1, <3>2, <3>3 DEF Blank
    <3> QED BY <2>1, <3>2, <3>4 DEF Reads
  <2> QED BY <1>4, <1>t, <2>1 DEF TenantsAndRoles, Silent
<1>5. CASE CustomFields(p)
  <2> DEFINE there == IF p.key \in Users THEN "cohorts" ELSE "type"
  <2>1. ASSUME p.kind # "login", p.key \in Keys \ excused', Reads(p, View(p.key)),
               NEW q, q.at = there, q.data = [p.data EXCEPT !.fields = FieldsOf(p.key)], q.key = p.key
        PROVE  Reads(q, View(p.key))
    <3>1. p.at = "fields" BY <1>5 DEF CustomFields
    <3>2. CASE p.key \in Users
      <4>1. /\ View(p.key).name # None
            /\ p.data = [Blank EXCEPT !.name = View(p.key).name, !.tenants = View(p.key).tenants]
        BY <2>1, <3>1, <3>2, TablesAssumption DEF Reads
      <4>2. View(p.key).fields = FieldsOf(p.key) BY <3>2, <4>1, UserParts
      <4>3. q.data = [Blank EXCEPT !.name = View(p.key).name, !.tenants = View(p.key).tenants,
                                   !.fields = View(p.key).fields]
        BY <2>1, <4>1, <4>2 DEF Blank
      <4> QED BY <2>1, <3>2, <4>1, <4>3 DEF Reads
    <3>3. CASE p.key \notin Users
      <4>1. p.key \in Cohorts /\ p.data = [Blank EXCEPT !.status = View(p.key).status]
        BY <2>1, <3>1, <3>3 DEF Reads
      <4>2. View(p.key).fields = FieldsOf(p.key) BY <4>1, CohortView DEF Blank
      <4>3. q.data = [Blank EXCEPT !.status = View(p.key).status, !.fields = View(p.key).fields]
        BY <2>1, <4>1, <4>2 DEF Blank
      <4> QED BY <2>1, <3>3, <4>1, <4>3 DEF Reads
    <3> QED BY <3>2, <3>3
  <2> QED BY <1>5, <1>t, <2>1 DEF CustomFields, Silent
<1>6. CASE CohortsOfUser(p)
  <2>1. ASSUME p.kind # "login", p.key \in Keys \ excused', Reads(p, View(p.key)),
               NEW q, q.at = "send", q.data = [p.data EXCEPT !.cohorts = CohortsOf(p.key)], q.key = p.key
        PROVE  Reads(q, View(p.key))
    <3>1. p.at = "cohorts" BY <1>6 DEF CohortsOfUser
    <3>2. /\ p.key \in Users /\ View(p.key).name # None
          /\ p.data = [Blank EXCEPT !.name = View(p.key).name, !.tenants = View(p.key).tenants,
                                    !.fields = View(p.key).fields]
      BY <2>1, <3>1 DEF Reads
    <3>3. /\ name[p.key] # None
          /\ View(p.key).tenants = TenantsOf(p.key) /\ View(p.key).fields = FieldsOf(p.key)
      BY <3>2, UserParts
    <3>4. View(p.key) = [Blank EXCEPT !.name = name[p.key], !.tenants = TenantsOf(p.key),
                                      !.fields = FieldsOf(p.key), !.cohorts = CohortsOf(p.key)]
      BY <3>2, <3>3, UserView
    <3>5. View(p.key).name = name[p.key] BY <3>4 DEF Blank
    <3>6. q.data = View(p.key)
      <4>1. q.data = [Blank EXCEPT !.name = name[p.key], !.tenants = TenantsOf(p.key),
                                   !.fields = FieldsOf(p.key), !.cohorts = CohortsOf(p.key)]
        BY <2>1, <3>2, <3>3, <3>5 DEF Blank
      <4> QED BY <3>4, <4>1
    <3> QED BY <2>1, <3>6 DEF Reads, Tellable
  <2> QED BY <1>6, <1>t, <2>1 DEF CohortsOfUser, Silent
<1>7. CASE CohortType(p)
  <2>1. ASSUME p.kind # "login", p.key \in Keys \ excused', Reads(p, View(p.key)),
               NEW q, q.at = "send", q.data = [p.data EXCEPT !.type = transformedType(p)], q.key = p.key
        PROVE  Reads(q, View(p.key))
    <3>1. p.at = "type" BY <1>7 DEF CohortType
    <3>2. /\ p.key \in Cohorts
          /\ p.data = [Blank EXCEPT !.status = View(p.key).status, !.fields = View(p.key).fields]
      BY <2>1, <3>1 DEF Reads
    <3>3. View(p.key).fields = FieldsOf(p.key) BY <3>2, CohortView DEF Blank
    <3>4. p.data.fields = FieldsOf(p.key) BY <3>2, <3>3 DEF Blank
    <3>5. transformedType(p) = View(p.key).type BY <3>2, <3>4, TypeIs
    <3>6. q.data = View(p.key)
      <4> DEFINE type == Told(p.key, CenterType(IF TypeOf[p.key] = "BATCH" THEN ParentOf[p.key]
                                                ELSE p.key))
      <4>1. View(p.key) = [Blank EXCEPT !.status = status[p.key], !.fields = FieldsOf(p.key),
                                        !.type = type]
        BY <3>2, CohortView
      <4> HIDE DEF type
      <4>2. View(p.key).status = status[p.key] /\ View(p.key).type = type BY <4>1 DEF Blank
      <4>3. q.data = [Blank EXCEPT !.status = status[p.key], !.fields = FieldsOf(p.key), !.type = type]
        BY <2>1, <3>2, <3>3, <3>5, <4>2 DEF Blank
      <4> QED BY <4>1, <4>3
    <3> QED BY <2>1, <3>6 DEF Reads, Tellable
  <2> QED BY <1>7, <1>t, <2>1 DEF CohortType, Silent
<1>8. CASE ReadFails(p)
  <2> DEFINE partial ==
        CASE p.at = "cohorts" -> [p EXCEPT !.at = "send"]
          [] p.at = "fields" -> [p EXCEPT !.at = IF p.key \in Users THEN "cohorts" ELSE "type"]
          [] p.at = "type" -> [p EXCEPT !.at = "send", !.data.type = Told(p.key, None)]
          [] OTHER -> [p EXCEPT !.at = "send", !.data = Blank]
  <2>1. partial.key = p.key /\ partial.kind = p.kind /\ DOMAIN partial = PubFields
    BY <1>2 DEF PubFields
  <2>2. Step(p, partial) /\ excused' = excused \cup {p.key} /\ UNCHANGED <<tables, copy>>
    BY <1>8 DEF ReadFails, Silent
  <2> HIDE DEF partial
  <2> QED BY <2>1, <2>2, StepKeepsEvents
<1>9. CASE Send(p)
  BY <1>9, EndKeepsEvents DEF Send, Silent, EventsInv
<1>10. CASE SendFails(p)
  BY <1>10, EndKeepsEvents DEF SendFails, Silent, EventsInv
<1> QED BY <1>1, <1>3, <1>4, <1>5, <1>6, <1>7, <1>8, <1>9, <1>10

LEMMA EventsInit == Init => EventsInv
<1> SUFFICES ASSUME Init PROVE EventsInv OBVIOUS
<1>1. \A k \in Keys : copy[k] = View(k)
  BY DEF Init, InitEvents
<1> QED BY <1>1 DEF Init, InitEvents, EventsInv, Telling, Alone, Tellable

LEMMA EventsStep == EventsInv /\ [Next]_vars => EventsInv'
<1> SUFFICES ASSUME EventsInv, [Next]_vars PROVE EventsInv' OBVIOUS
<1>1. CASE UNCHANGED vars
  BY <1>1, IdleKeepsEvents DEF vars, notes
<1>2. ASSUME NEW r \in Requests, Arrive(r) PROVE EventsInv'
  BY <1>2, IdleKeepsEvents DEF Arrive, notes
<1>3. ASSUME NEW r \in Requests, Search(r), UNCHANGED events PROVE EventsInv'
  BY <1>3, IdleKeepsEvents
     DEF Search, ParentTenant, Page, getCustomFieldsData, Assignments, Batches, CentersAndReply, SearchFails, notes
<1>4. ASSUME NEW r \in Requests, Hierarchy(r), UNCHANGED events PROVE EventsInv'
  BY <1>4, IdleKeepsEvents
     DEF Hierarchy, FindCohorts, PlaceCenter, BuildTree, HierarchyFails, notes
<1>5. ASSUME NEW r \in Requests, Handle(r) PROVE EventsInv'
  BY <1>5, HandleKeepsEvents, ReplyKeepsEvents
<1>6. CASE Change /\ UNCHANGED events
  BY <1>6, WroteKeepsEvents DEF Change
<1> QED BY <1>1, <1>2, <1>3, <1>4, <1>5, <1>6, PublishKeepsEvents DEF Next

\* Events: whatever users, cohorts and members were written meanwhile, what consumers were last
\* told of a key is what the tables hold, unless its publications overlapped or failed, or it was
\* written since without a publication (user.service.ts:3725, cohort.service.ts:1468,
\* kafka.service.ts:377).
THEOREM EventsStayCurrent == Spec => []EventsAreCurrent
<1>1. EventsInv => EventsAreCurrent
  <2> SUFFICES ASSUME EventsInv, NEW k \in Keys \ excused, \A p \in pubs : p.key # k
               PROVE  Tells(k, copy[k])
    BY DEF EventsAreCurrent
  <2>1. Telling(k) = {} BY DEF Telling
  <2> QED BY <2>1, TellableIs DEF EventsInv
<1> QED BY <1>1, EventsInit, EventsStep, PTL DEF Spec

(* -------------------------- Requests and their steps -------------------------- *)

RunFields == {"at", "op", "page", "found", "shown", "data", "total", "seen", "failed"}
TreePlaces == {"cohorts", "places", "tree", "done"}
SearchPlaces == {"parent", "page", "fields", "assignments", "batches", "centers", "done"}

OfTree(r) == run[r].op # None /\ run[r].op.name = "hierarchy"
OfSearch(r) == run[r].op # None /\ run[r].op.name = "search"

RequestOK(r) ==
    /\ DOMAIN run[r] = RunFields
    /\ run[r].at = "new" => run[r] = Waiting
    /\ run[r].op # None => run[r].op \in scenario.ops
    /\ OfTree(r) => run[r].at \in TreePlaces
    /\ OfSearch(r) => run[r].at \in SearchPlaces

RequestsOK ==
    /\ scenario \in Scenarios
    /\ DOMAIN run = Requests
    /\ \A r \in Requests : RequestOK(r)

\* A step writes no table, or tears whoever is under way.
Torn ==
    \/ UNCHANGED <<tables, torn, moved>>
    \/ /\ torn' = torn \cup UnderWay
       /\ moved' = moved \cup (UnderWay \X {c \in Cohorts : ValuesOf(c)' # ValuesOf(c)})

Only(r) == run' = [run EXCEPT ![r] = run'[r]] /\ scenario' = scenario /\ Torn

LEMMA SearchIs ==
    ASSUME RequestsOK, NEW r \in Requests, Search(r)
    PROVE  /\ Only(r) /\ UNCHANGED <<tables, torn, moved>>
           /\ run'[r].op = run[r].op /\ DOMAIN run'[r] = RunFields
           /\ run[r].at \in SearchPlaces \ {"done"} /\ run'[r].at \in SearchPlaces \ {"parent"}
<1> DEFINE Is == /\ run' = [run EXCEPT ![r] = run'[r]]
                 /\ run'[r].op = run[r].op /\ DOMAIN run'[r] = RunFields
                 /\ run[r].at \in SearchPlaces \ {"done"} /\ run'[r].at \in SearchPlaces \ {"parent"}
<1>1. DOMAIN run = Requests /\ DOMAIN run[r] = RunFields
  BY DEF RequestsOK, RequestOK
<1>3. UNCHANGED <<tables, torn, moved, scenario>>
  BY DEF Search, ParentTenant, Page, getCustomFieldsData, Assignments, Batches, CentersAndReply, SearchFails, notes
<1>5. CASE ParentTenant(r) BY <1>1, <1>3, <1>5 DEF ParentTenant, Only, Torn, Set, At, RunFields, SearchPlaces
<1>6. CASE Page(r) BY <1>1, <1>3, <1>6 DEF Page, Only, Torn, Set, At, RunFields, SearchPlaces
<1>7. CASE getCustomFieldsData(r)
  BY <1>1, <1>3, <1>7 DEF getCustomFieldsData, Only, Torn, Set, At, RunFields, SearchPlaces
<1>8. CASE Assignments(r) BY <1>1, <1>3, <1>8 DEF Assignments, Only, Torn, Set, At, RunFields, SearchPlaces
<1>9. CASE Batches(r) BY <1>1, <1>3, <1>9 DEF Batches, Only, Torn, Set, At, RunFields, SearchPlaces
<1>10. CASE CentersAndReply(r)
  BY <1>1, <1>3, <1>10 DEF CentersAndReply, Only, Torn, Set, At, RunFields, SearchPlaces
<1>11. CASE SearchFails(r) BY <1>1, <1>3, <1>11 DEF SearchFails, Only, Torn, Set, At, RunFields, SearchPlaces
<1> QED BY <1>5, <1>6, <1>7, <1>8, <1>9, <1>10, <1>11 DEF Search

LEMMA HierarchyIs ==
    ASSUME RequestsOK, NEW r \in Requests, Hierarchy(r)
    PROVE  /\ Only(r) /\ UNCHANGED <<tables, torn, moved>>
           /\ run'[r].op = run[r].op /\ DOMAIN run'[r] = RunFields
           /\ run[r].at \in TreePlaces \ {"done"} /\ run'[r].at \in TreePlaces \ {"cohorts"}
<1>1. DOMAIN run = Requests /\ DOMAIN run[r] = RunFields
  BY DEF RequestsOK, RequestOK
<1>2. UNCHANGED <<tables, torn, moved, scenario>>
  BY DEF Hierarchy, FindCohorts, PlaceCenter, BuildTree, HierarchyFails, notes
<1>3. CASE FindCohorts(r) BY <1>1, <1>2, <1>3 DEF FindCohorts, Only, Torn, Set, At, RunFields, TreePlaces
<1>4. CASE PlaceCenter(r) BY <1>1, <1>2, <1>4 DEF PlaceCenter, Only, Torn, Set, At, RunFields, TreePlaces
<1>5. CASE BuildTree(r) BY <1>1, <1>2, <1>5 DEF BuildTree, Only, Torn, Set, At, RunFields, TreePlaces
<1>6. CASE HierarchyFails(r) BY <1>1, <1>2, <1>6 DEF HierarchyFails, Only, Torn, Set, At, RunFields, TreePlaces
<1> QED BY <1>3, <1>4, <1>5, <1>6 DEF Hierarchy

LEMMA HandlerIs ==
    ASSUME RequestsOK, NEW r \in Requests, Handle(r)
    PROVE  /\ Only(r) /\ ~OfTree(r) /\ ~OfSearch(r)
           /\ run'[r].op = run[r].op /\ DOMAIN run'[r] = RunFields /\ run'[r].at # "new"
<1>1. DOMAIN run = Requests /\ DOMAIN run[r] = RunFields
  BY DEF RequestsOK, RequestOK
<1>2. OfTree(r) => run[r].at \in TreePlaces BY DEF RequestsOK, RequestOK
<1>3. OfSearch(r) => run[r].at \in SearchPlaces BY DEF RequestsOK, RequestOK
<1> USE <1>1, <1>2, <1>3
    DEF Only, Torn, Set, Go, At, Doing, Refuse, Saved, Wrote, notes, RunFields, TreePlaces, SearchPlaces, OfTree, OfSearch
<1>4. CASE SaveUser(r) BY <1>4 DEF SaveUser
<1>5. CASE deleteUserById(r) BY <1>5 DEF deleteUserById
<1>6. CASE login(r) BY <1>6 DEF login
<1>7. CASE UpdateCohortRow(r) BY <1>7 DEF UpdateCohortRow
<1>8. CASE UpdateCohortValues(r) BY <1>8 DEF UpdateCohortValues
<1>9. CASE FindMembers(r) BY <1>9 DEF FindMembers
<1>10. CASE UpdateMembers(r) BY <1>10 DEF UpdateMembers
<1>11. CASE ArchiveCohort(r) BY <1>11 DEF ArchiveCohort
<1>12. CASE ArchiveMembers(r) BY <1>12 DEF ArchiveMembers
<1>13. CASE ArchiveValues(r) BY <1>13 DEF ArchiveValues
<1>14. CASE SaveMember(r) BY <1>14 DEF SaveMember
<1>15. CASE BulkMember(r) BY <1>15 DEF BulkMember
<1>16. CASE Reply(r) BY <1>16 DEF Reply
<1> QED BY <1>4, <1>5, <1>6, <1>7, <1>8, <1>9, <1>10, <1>11, <1>12, <1>13, <1>14, <1>15, <1>16 DEF Handle

LEMMA ArriveIs ==
    ASSUME RequestsOK, NEW r \in Requests, Arrive(r)
    PROVE  /\ Only(r) /\ run[r] = Waiting /\ DOMAIN run'[r] = RunFields
           /\ run'[r].op \in scenario.ops /\ run'[r].data = {} /\ run'[r].shown = {}
           /\ run'[r].at \in {"parent", "cohorts", "write"}
           /\ run'[r].op.name = "hierarchy" => run'[r].at = "cohorts"
           /\ run'[r].op.name = "search" => run'[r].at = "parent"
<1>1. PICK o \in scenario.ops :
        Set(r, [run[r] EXCEPT !.op = o, !.at = CASE o.name = "search" -> "parent"
                                                  [] o.name = "hierarchy" -> "cohorts"
                                                  [] OTHER -> "write"])
  BY DEF Arrive
<1>2. run[r] = Waiting /\ DOMAIN run = Requests /\ DOMAIN run[r] = RunFields
  BY DEF Arrive, At, RequestsOK, RequestOK
<1>3. run'[r].op = o /\ run'[r].data = {} /\ run'[r].shown = {} /\ DOMAIN run'[r] = RunFields
  BY <1>1, <1>2 DEF Set, Waiting, RunFields
<1>4. /\ run'[r].at \in {"parent", "cohorts", "write"}
      /\ o.name = "hierarchy" => run'[r].at = "cohorts"
      /\ o.name = "search" => run'[r].at = "parent"
  BY <1>1, <1>2 DEF Set, Waiting
<1>5. Only(r) BY <1>1, <1>2 DEF Only, Set, Arrive, notes, Torn
<1> QED BY <1>2, <1>3, <1>4, <1>5

\* What a step may be to one request.
LEMMA StepIs ==
    ASSUME RequestsOK, [Next]_vars
    PROVE  /\ Torn /\ scenario' = scenario /\ DOMAIN run' = Requests
           /\ \A r \in Requests : run'[r] = run[r] \/ Arrive(r) \/ Search(r) \/ Hierarchy(r) \/ Handle(r)
<1>1. ASSUME NEW s \in Requests, Arrive(s) \/ Search(s) \/ Hierarchy(s) \/ Handle(s)
      PROVE  /\ Torn /\ scenario' = scenario /\ DOMAIN run' = Requests
             /\ \A r \in Requests : run'[r] = run[r] \/ r = s
  <2>1. Only(s) BY <1>1, ArriveIs, SearchIs, HierarchyIs, HandlerIs
  <2> QED BY <2>1 DEF Only, RequestsOK
<1>2. CASE UNCHANGED <<run, torn, moved, scenario, tables>>
  BY <1>2 DEF Torn, RequestsOK
<1>3. CASE UNCHANGED vars BY <1>2, <1>3 DEF vars, notes
<1>4. CASE Publish
  BY <1>2, <1>4 DEF Publish, Row, TenantsAndRoles, CustomFields, CohortsOfUser, CohortType,
                    ReadFails, Send, SendFails, Silent
<1>5. CASE Change BY <1>5 DEF Change, Wrote, Torn, RequestsOK
<1> QED BY <1>1, <1>3, <1>4, <1>5 DEF Next

LEMMA RequestsStep ==
    ASSUME RequestsOK, [Next]_vars
    PROVE  RequestsOK'
<1>1. ASSUME NEW r \in Requests PROVE RequestOK(r)'
  <2>1. scenario' = scenario BY StepIs
  <2>2. RequestOK(r) BY DEF RequestsOK
  <2>3. CASE run'[r] = run[r] BY <2>1, <2>2, <2>3 DEF RequestOK, OfTree, OfSearch
  <2>4. CASE Arrive(r) BY <2>1, <2>4, ArriveIs DEF RequestOK, OfTree, OfSearch, TreePlaces, SearchPlaces
  <2>5. CASE Search(r)
    BY <2>1, <2>2, <2>5, SearchIs DEF RequestOK, OfTree, OfSearch, TreePlaces, SearchPlaces
  <2>6. CASE Hierarchy(r)
    BY <2>1, <2>2, <2>6, HierarchyIs DEF RequestOK, OfTree, OfSearch, TreePlaces, SearchPlaces
  <2>7. CASE Handle(r) BY <2>1, <2>2, <2>7, HandlerIs DEF RequestOK, OfTree, OfSearch
  <2> QED BY <2>3, <2>4, <2>5, <2>6, <2>7, StepIs
<1> QED BY <1>1, StepIs DEF RequestsOK

LEMMA RequestsInit == Init => RequestsOK
BY DEF Init, InitTables, RequestsOK, RequestOK, OfTree, OfSearch, Waiting, RunFields

\* How values change: some go, or one comes for those of its field.
LEMMA ValuesStep ==
    ASSUME RequestsOK, [Next]_vars
    PROVE  \/ values' \subseteq values
           \/ \E o \in scenario.ops :
                /\ o.name = "updateCohort" /\ o.value # None
                /\ values' = {v \in values : v.item # o.key \/ v.field # o.value.field} \cup {o.value}
           \/ \E w \in scenario.writes :
                /\ w.of = "values"
                /\ values' = {v \in values : v.item # w.row.item \/ v.field # w.row.field
                                                \/ v.tenant # w.row.tenant} \cup {w.row}
<1>1. ASSUME NEW r \in Requests, UpdateCohortValues(r), run[r].op.value # None
      PROVE  \E o \in scenario.ops :
                /\ o.name = "updateCohort" /\ o.value # None
                /\ values' = {v \in values : v.item # o.key \/ v.field # o.value.field} \cup {o.value}
  <2>1. run[r].op \in scenario.ops /\ run[r].op.name = "updateCohort"
    BY <1>1 DEF UpdateCohortValues, Doing, RequestsOK, RequestOK
  <2> QED BY <1>1, <2>1 DEF UpdateCohortValues
<1>2. ASSUME NEW r \in Requests, Handle(r), ~(UpdateCohortValues(r) /\ run[r].op.value # None)
      PROVE  values' \subseteq values
  <2>1. CASE UpdateCohortValues(r) BY <1>2, <2>1 DEF UpdateCohortValues
  <2>2. CASE SaveUser(r) \/ deleteUserById(r) \/ login(r) \/ UpdateCohortRow(r) \/ FindMembers(r) \/ UpdateMembers(r)
    BY <2>2 DEF SaveUser, deleteUserById, login, UpdateCohortRow, FindMembers, UpdateMembers, Refuse, tables
  <2>3. CASE ArchiveCohort(r) \/ ArchiveMembers(r) \/ ArchiveValues(r) \/ SaveMember(r) \/ BulkMember(r) \/ Reply(r)
    BY <2>3 DEF ArchiveCohort, ArchiveMembers, ArchiveValues, SaveMember, BulkMember, Reply, Refuse, tables
  <2> QED BY <1>2, <2>1, <2>2, <2>3 DEF Handle
<1>3. CASE UNCHANGED tables BY <1>3 DEF tables
<1>4. CASE UNCHANGED vars BY <1>3, <1>4 DEF vars
<1>5. CASE Publish
  BY <1>3, <1>5 DEF Publish, Row, TenantsAndRoles, CustomFields, CohortsOfUser, CohortType,
                    ReadFails, Send, SendFails, Silent
<1>6. ASSUME NEW r \in Requests, Arrive(r) \/ Search(r) \/ Hierarchy(r) PROVE values' \subseteq values
  <2>1. UNCHANGED tables BY <1>6, SearchIs, HierarchyIs DEF Arrive
  <2> QED BY <2>1 DEF tables
<1>7. CASE Change
  <2>1. \A w \in scenario.writes : w.of \in {"mapped", "roles", "member", "values", "status"}
    BY TablesAssumption DEF RequestsOK
  <2> QED BY <1>7, <2>1 DEF Change
<1> QED BY <1>1, <1>2, <1>4, <1>5, <1>6, <1>7 DEF Next

(* ------------------------------ Hierarchies ------------------------------ *)

\* The values of a cohort are kept for its own tenant, one of each field, and stay so.
CohortsHaveOneTenant ==
    \A s \in Scenarios :
        /\ \A v, w \in s.rows.values :
              (v.item \in Cohorts /\ w.item = v.item /\ w.field = v.field)
                => v.tenant = TenantOf[v.item] /\ w.place = v.place
        /\ \A w \in s.writes :
              (w.of = "values" /\ w.row.item \in Cohorts) => w.row.tenant = TenantOf[w.row.item]
        /\ \A o \in s.ops :
              (o.name = "updateCohort" /\ o.value # None)
                => o.value.item = o.key /\ (o.key \in Cohorts => o.value.tenant = TenantOf[o.key])

\* Who asks for a hierarchy names places, of the levels that there are.
PlacesAreNamed ==
    \A s \in Scenarios : \A o \in s.ops :
        o.name = "hierarchy" =>
            /\ o.limit \in Nat /\ o.offset \in Nat
            /\ DOMAIN o.places \subseteq PlaceLevels
            /\ \A level \in DOMAIN o.places : None \notin o.places[level]

OneValueEach ==
    \A v, w \in values :
        (v.item \in Cohorts /\ w.item = v.item /\ w.field = v.field)
            => v.tenant = TenantOf[v.item] /\ w.place = v.place

Shown(o, c) == Included(o, c) /\ Kept(o, c)

\* The batches below c of the memberships that r has found.
Below(r, c) ==
    {CohortOf(m) : m \in {n \in run[r].found : BelowCenter(CohortOf(n)) /\ CenterOf(n) = c}}

\* Of every hierarchy: a center at a time, and one whose values nobody wrote as it still is.
Apart(r) ==
    /\ run[r].op.year # None
    /\ run[r].at = "tree" => run[r].page = {}
    /\ run[r].found \subseteq Memberships
    /\ run[r].page \subseteq CentersOf(run[r].found)
    /\ \A d \in run[r].data :
          /\ d.center \in CentersOf(run[r].found) \ run[r].page /\ d.batches = Below(r, d.center)
          /\ <<r, d.center>> \notin moved => d = Placed(r, d.center)
    /\ \A d, e \in run[r].data : d.center = e.center => d = e
    /\ run[r].op.custom = <<>> =>
          \A c \in CentersOf(run[r].found) \ run[r].page : <<r, c>> \notin moved =>
             (c \in {d.center : d \in run[r].data} <=> Included(run[r].op, c))

\* Of a hierarchy that no write has torn: what it has found, and what it has placed of it.
Whole(r) ==
    /\ run[r].found = Mine(run[r].op)
    /\ {d.center : d \in run[r].data} =
          {c \in CentersOf(run[r].found) \ run[r].page : Shown(run[r].op, c)}

TreeOK(r) ==
    OfTree(r) =>
        /\ run[r].at = "cohorts" => run[r].data = {} /\ run[r].shown = {}
        /\ run[r].at \in {"places", "tree"} => IsFiniteSet(run[r].data) /\ Apart(r)
        /\ run[r].at \in {"places", "tree"} /\ r \notin torn => Whole(r)

TreesInv == RequestsOK /\ OneValueEach /\ \A r \in Requests : TreeOK(r)

LEMMA OneValueStep ==
    ASSUME RequestsOK, OneValueEach, CohortsHaveOneTenant, [Next]_vars
    PROVE  OneValueEach'
<1>1. CASE values' \subseteq values BY <1>1 DEF OneValueEach
<1>2. ASSUME NEW o \in scenario.ops, o.name = "updateCohort", o.value # None,
             values' = {v \in values : v.item # o.key \/ v.field # o.value.field} \cup {o.value}
      PROVE  OneValueEach'
  <2>1. o.value.item = o.key /\ (o.key \in Cohorts => o.value.tenant = TenantOf[o.key])
    BY <1>2 DEF RequestsOK, CohortsHaveOneTenant
  <2> QED BY <1>2, <2>1 DEF OneValueEach
<1>3. ASSUME NEW w \in scenario.writes, w.of = "values",
             values' = {v \in values : v.item # w.row.item \/ v.field # w.row.field
                                            \/ v.tenant # w.row.tenant} \cup {w.row}
      PROVE  OneValueEach'
  <2>1. w.row.item \in Cohorts => w.row.tenant = TenantOf[w.row.item]
    BY <1>3 DEF RequestsOK, CohortsHaveOneTenant
  <2> QED BY <1>3, <2>1 DEF OneValueEach
<1> QED BY <1>1, <1>2, <1>3, ValuesStep

LEMMA CenterIsCohort ==
    ASSUME NEW m \in Memberships, CenterOf(m) # None
    PROVE  CenterOf(m) \in Cohorts
<1>1. CohortOf(m) \in Cohorts BY TablesAssumption DEF CohortOf
<1> QED BY <1>1, TablesAssumption DEF CenterOf

LEMMA CentersAreCohorts ==
    ASSUME NEW found \in SUBSET Memberships
    PROVE  CentersOf(found) \subseteq Cohorts
BY CenterIsCohort DEF CentersOf

\* Where the values of a center are the same, it is placed the same.
LEMMA SameCenter ==
    ASSUME NEW r, NEW c, NEW o, run'[r].found = run[r].found, ValuesOf(c)' = ValuesOf(c)
    PROVE  Placed(r, c)' = Placed(r, c) /\ (Included(o, c)' <=> Included(o, c))
<1>1. \A level : ValueOf(c, level)' = ValueOf(c, level) BY DEF ValueOf
<1> QED BY <1>1 DEF Placed, Included

LEMMA SameShown ==
    ASSUME UNCHANGED tables
    PROVE  \A o, c : (Shown(o, c) <=> Shown(o, c)') /\ Mine(o)' = Mine(o)
BY DEF Shown, Included, Kept, Matching, Fits, Mine, findCohortName, Joined, ValueOf, ValuesOf, tables

\* A step of another: what it wrote is marked, and the rest is as it was.
LEMMA ApartStays ==
    ASSUME NEW r \in Requests, Apart(r), run[r].at \in {"places", "tree"}, run'[r] = run[r], Torn
    PROVE  Apart(r)'
<1> DEFINE all == CentersOf(run[r].found)
<1>1. all \subseteq Cohorts BY CentersAreCohorts DEF Apart
<1>2. ASSUME NEW c \in all, <<r, c>> \notin moved'
      PROVE  /\ <<r, c>> \notin moved
             /\ Placed(r, c)' = Placed(r, c) /\ (Included(run[r].op, c)' <=> Included(run[r].op, c))
  <2>1. ValuesOf(c)' = ValuesOf(c) /\ <<r, c>> \notin moved
    <3>1. CASE UNCHANGED <<tables, moved>> BY <1>2, <3>1 DEF tables, ValuesOf
    <3>2. CASE moved' = moved \cup (UnderWay \X {x \in Cohorts : ValuesOf(x)' # ValuesOf(x)})
      <4>1. r \in UnderWay BY DEF UnderWay
      <4>2. c \in Cohorts BY <1>1
      <4> QED BY <1>2, <3>2, <4>1, <4>2
    <3> QED BY <3>1, <3>2 DEF Torn
  <2>2. \A o : Placed(r, c)' = Placed(r, c) /\ (Included(o, c)' <=> Included(o, c))
    BY <2>1, SameCenter
  <2>3. run'[r].op = run[r].op OBVIOUS
  <2> QED BY <2>1, <2>2, <2>3
<1>3. CentersOf(run[r].found)' = all BY DEF CentersOf
<1>4. \A c : Below(r, c)' = Below(r, c) BY DEF Below
<1> HIDE DEF all
<1>5. ASSUME NEW d \in run[r].data
      PROVE  /\ d.center \in all \ run[r].page /\ d.batches = Below(r, d.center)'
             /\ <<r, d.center>> \notin moved' => d = Placed(r, d.center)'
  <2>1. /\ d.center \in all \ run[r].page /\ d.batches = Below(r, d.center)
        /\ <<r, d.center>> \notin moved => d = Placed(r, d.center)
    BY DEF Apart, all
  <2> QED BY <1>2, <1>4, <2>1
<1>6. ASSUME run[r].op.custom = <<>>, NEW c \in all \ run[r].page, <<r, c>> \notin moved'
      PROVE  c \in {d.center : d \in run[r].data} <=> Included(run[r].op, c)'
  <2>1. <<r, c>> \notin moved /\ (Included(run[r].op, c)' <=> Included(run[r].op, c)) BY <1>2, <1>6
  <2> QED BY <1>6, <2>1 DEF Apart, all
<1> QED BY <1>3, <1>5, <1>6 DEF Apart, all

\* What a request has found stays whole as long as nobody writes.
LEMMA TreeStaysOK ==
    ASSUME NEW r \in Requests, TreeOK(r), run'[r] = run[r], scenario' = scenario, Torn
    PROVE  TreeOK(r)'
<1>1. OfTree(r)' = OfTree(r) BY DEF OfTree
<1>2. ASSUME OfTree(r), run[r].at \in {"places", "tree"}, r \notin torn' PROVE Whole(r)'
  <2>1. UNCHANGED tables /\ torn' = torn
    <3>1. r \in UnderWay BY <1>2 DEF UnderWay
    <3> QED BY <1>2, <3>1 DEF Torn
  <2>2. Whole(r) BY <1>2, <2>1 DEF TreeOK
  <2>3. \A o, c : (Shown(o, c) <=> Shown(o, c)') /\ Mine(o)' = Mine(o) BY <2>1, SameShown
  <2> QED BY <2>2, <2>3 DEF Whole, CentersOf
<1>3. ASSUME OfTree(r), run[r].at \in {"places", "tree"} PROVE Apart(r)'
  BY <1>3, ApartStays DEF TreeOK
<1> QED BY <1>1, <1>2, <1>3 DEF TreeOK

LEMMA FindKeepsTrees ==
    ASSUME TreesInv, NEW r \in Requests, FindCohorts(r)
    PROVE  TreeOK(r)'
<1>o. PICK o : o = run[r].op OBVIOUS
<1> DEFINE found == Mine(o)
           f == IF o.year = None THEN [run[r] EXCEPT !.at = "done", !.failed = TRUE]
                ELSE [run[r] EXCEPT !.found = found, !.page = CentersOf(found),
                                    !.at = IF CentersOf(found) = {} THEN "done" ELSE "places"]
<1>1. Set(r, f) /\ run[r].at = "cohorts" /\ UNCHANGED <<tables, notes>>
  BY <1>o DEF FindCohorts, At
<1>2. DOMAIN run = Requests /\ DOMAIN run[r] = RunFields /\ TreeOK(r)
  BY DEF TreesInv, RequestsOK, RequestOK
<1>3. DOMAIN f = RunFields /\ f.op = o /\ f.at \in {"done", "places"} /\ f.data = run[r].data
  BY <1>o, <1>2 DEF RunFields
<1>4. f.at = "places" => o.year # None /\ f.found = found /\ f.page = CentersOf(found)
  BY <1>2 DEF RunFields
<1>5. run'[r] = f BY <1>1, <1>2 DEF Set
<1> HIDE DEF f
<1>6. OfTree(r)' => OfTree(r) BY <1>o, <1>3, <1>5 DEF OfTree
<1>7. ASSUME OfTree(r), f.at = "places" PROVE IsFiniteSet(f.data) /\ Whole(r)' /\ Apart(r)'
  <2>1. f.data = {} BY <1>1, <1>2, <1>3, <1>7 DEF TreeOK
  <2>2. Mine(o)' = Mine(o) BY <1>1, SameShown
  <2>3. /\ run'[r].found = Mine(o) /\ run'[r].page = CentersOf(Mine(o)) /\ run'[r].op = o
        /\ run'[r].at = "places" /\ run'[r].data = {}
    BY <1>3, <1>4, <1>5, <1>7, <2>1
  <2>4. Mine(o) \subseteq Memberships BY DEF Mine, findCohortName, Joined
  <2>5. CentersOf(run'[r].found) \ run'[r].page = {} BY <2>3
  <2>6. Whole(r)' BY <2>2, <2>3, <2>5 DEF Whole, CentersOf
  <2>7. Apart(r)' BY <1>4, <1>7, <2>3, <2>4, <2>5 DEF Apart, CentersOf
  <2> QED BY <2>1, <2>6, <2>7, FS_EmptySet
<1> QED BY <1>o, <1>1, <1>2, <1>3, <1>5, <1>6, <1>7 DEF TreeOK, notes

LEMMA PlaceKeepsTrees ==
    ASSUME TreesInv, NEW r \in Requests, PlaceCenter(r)
    PROVE  TreeOK(r)'
<1>o. PICK o : o = run[r].op OBVIOUS
<1>1. PICK c \in run[r].page :
        Set(r, [run[r] EXCEPT !.page = run[r].page \ {c},
                              !.at = IF run[r].page \ {c} = {} THEN "tree" ELSE "places",
                              !.data = IF Shown(o, c) THEN run[r].data \cup {Placed(r, c)} ELSE run[r].data])
  BY <1>o DEF PlaceCenter, Shown
<1>2. DOMAIN run = Requests /\ DOMAIN run[r] = RunFields /\ TreeOK(r)
  BY DEF TreesInv, RequestsOK, RequestOK
<1>3. run[r].at = "places" /\ UNCHANGED <<tables, notes>>
  BY DEF PlaceCenter, At
<1>4. /\ DOMAIN run'[r] = RunFields /\ run'[r].op = o /\ run'[r].found = run[r].found
      /\ run'[r].page = run[r].page \ {c}
      /\ run'[r].at = IF run'[r].page = {} THEN "tree" ELSE "places"
      /\ run'[r].data = IF Shown(o, c) THEN run[r].data \cup {Placed(r, c)} ELSE run[r].data
  BY <1>o, <1>1, <1>2 DEF Set, RunFields
<1>5. OfTree(r)' <=> OfTree(r) BY <1>o, <1>4 DEF OfTree
<1>6. ASSUME OfTree(r) PROVE IsFiniteSet(run'[r].data)
  <2>1. IsFiniteSet(run[r].data) BY <1>2, <1>3, <1>6 DEF TreeOK
  <2> QED BY <1>4, <2>1, FS_AddElement
<1> DEFINE all == CentersOf(run[r].found)
           old == {d.center : d \in run[r].data}
           new == {d.center : d \in run'[r].data}
<1>a. ASSUME OfTree(r) PROVE c \in all /\ all \ run'[r].page = (all \ run[r].page) \cup {c}
  BY <1>1, <1>2, <1>3, <1>4, <1>a DEF TreeOK, Apart
<1>b. new = IF Shown(o, c) THEN old \cup {c} ELSE old
  <2>1. Placed(r, c).center = c BY DEF Placed
  <2> QED BY <1>4, <2>1
<1>c. CentersOf(run[r].found)' = all BY <1>4 DEF CentersOf
<1>7. ASSUME OfTree(r), r \notin torn PROVE Whole(r)'
  <2>1. Whole(r) BY <1>2, <1>3, <1>7 DEF TreeOK
  <2>2. Mine(o)' = Mine(o) /\ \A x : Shown(o, x) <=> Shown(o, x)' BY <1>3, SameShown
  <2>3. old = {x \in all \ run[r].page : Shown(o, x)} BY <1>o, <2>1 DEF Whole
  <2>4. all \ run'[r].page = (all \ run[r].page) \cup {c} BY <1>7, <1>a
  <2> HIDE DEF all, old, new
  <2>5. new = {x \in all \ run'[r].page : Shown(o, x)} BY <1>b, <2>3, <2>4
  <2> USE DEF all, new
  <2> QED BY <1>o, <1>4, <1>c, <2>1, <2>2, <2>5 DEF Whole
<1>8. ASSUME OfTree(r) PROVE Apart(r)'
  <2>1. Apart(r) BY <1>2, <1>3, <1>8 DEF TreeOK
  <2>2. \A x : /\ Placed(r, x)' = Placed(r, x) /\ Below(r, x)' = Below(r, x)
               /\ Included(o, x)' <=> Included(o, x)
    <3>1. \A x : ValuesOf(x)' = ValuesOf(x) BY <1>3 DEF tables, ValuesOf
    <3>2. \A x : Below(r, x)' = Below(r, x) BY <1>4 DEF Below
    <3> QED BY <1>4, <3>1, <3>2, SameCenter
  <2>3. moved' = moved BY <1>3 DEF notes
  <2>4. c \in all /\ all \ run'[r].page = (all \ run[r].page) \cup {c} BY <1>8, <1>a
  <2>5. Placed(r, c).center = c /\ Placed(r, c).batches = Below(r, c) BY DEF Placed, Below
  <2>6. \A d \in run[r].data :
          /\ d.center \in all \ run[r].page /\ d.batches = Below(r, d.center)
          /\ <<r, d.center>> \notin moved => d = Placed(r, d.center)
    BY <2>1 DEF Apart
  <2>7. run[r].op.custom = <<>> => \A x : Kept(run[r].op, x) BY DEF Kept
  <2>8. run[r].op.custom = <<>> =>
          \A x \in all \ run[r].page : <<r, x>> \notin moved => (x \in old <=> Included(o, x))
    BY <1>o, <2>1 DEF Apart
  <2>9. \A d, e \in run[r].data : d.center = e.center => d = e BY <2>1 DEF Apart
  <2>10. c \notin old BY <1>1, <2>6
  <2> HIDE DEF all
  <2>11. ASSUME NEW d \in run'[r].data
         PROVE  /\ d.center \in all \ run'[r].page /\ d.batches = Below(r, d.center)
                /\ <<r, d.center>> \notin moved => d = Placed(r, d.center)
    <3>1. d \in run[r].data \/ d = Placed(r, c) BY <1>4
    <3> QED BY <2>4, <2>5, <2>6, <3>1
  <2>12. ASSUME NEW d \in run'[r].data, NEW e \in run'[r].data, d.center = e.center PROVE d = e
    <3>1. (d \in run[r].data \/ d = Placed(r, c)) /\ (e \in run[r].data \/ e = Placed(r, c)) BY <1>4
    <3>2. \A x \in run[r].data : x.center # c BY <2>10
    <3> QED BY <2>5, <2>9, <2>12, <3>1, <3>2
  <2>13. ASSUME o.custom = <<>>, NEW x \in all \ run'[r].page, <<r, x>> \notin moved
         PROVE  x \in new <=> Included(o, x)
    <3>1. Shown(o, c) <=> Included(o, c) BY <1>o, <2>7, <2>13 DEF Shown
    <3> HIDE DEF old, new
    <3>2. CASE x = c BY <1>b, <2>10, <3>1, <3>2
    <3>3. CASE x # c
      <4>1. x \in old <=> Included(o, x) BY <1>o, <2>4, <2>8, <2>13, <3>3
      <4> QED BY <1>b, <3>3, <4>1
    <3> QED BY <3>2, <3>3
  <2>14. /\ o.year # None /\ run'[r].found \subseteq Memberships /\ run'[r].page \subseteq all
         /\ run'[r].at = "tree" => run'[r].page = {}
    BY <1>o, <1>4, <2>1 DEF Apart, all
  <2> HIDE DEF new
  <2>15. \A d \in run'[r].data :
           /\ d.center \in CentersOf(run[r].found)' \ run'[r].page /\ d.batches = Below(r, d.center)'
           /\ <<r, d.center>> \notin moved' => d = Placed(r, d.center)'
    BY <1>c, <2>2, <2>3, <2>11
  <2>16. o.custom = <<>> =>
          \A x \in CentersOf(run[r].found)' \ run'[r].page : <<r, x>> \notin moved' =>
             (x \in new <=> Included(o, x)')
    BY <1>c, <2>2, <2>3, <2>13
  <2> QED BY <1>4, <1>c, <2>12, <2>14, <2>15, <2>16 DEF Apart, new
<1> QED BY <1>o, <1>2, <1>3, <1>4, <1>5, <1>6, <1>7, <1>8 DEF TreeOK, notes

LEMMA TreesStep == TreesInv /\ CohortsHaveOneTenant /\ [Next]_vars => TreesInv'
<1> SUFFICES ASSUME TreesInv, CohortsHaveOneTenant, [Next]_vars PROVE TreesInv' OBVIOUS
<1>1. RequestsOK' /\ OneValueEach' BY RequestsStep, OneValueStep DEF TreesInv
<1>2. ASSUME NEW r \in Requests PROVE TreeOK(r)'
  <2>1. RequestsOK /\ TreeOK(r) BY DEF TreesInv
  <2>2. CASE run'[r] = run[r] BY <2>1, <2>2, TreeStaysOK, StepIs
  <2>3. CASE Arrive(r) BY <2>1, <2>3, ArriveIs DEF TreeOK, OfTree
  <2>4. CASE Search(r) \/ Handle(r)
    <3>1. ~OfTree(r)
      BY <2>1, <2>4, SearchIs, HandlerIs DEF RequestsOK, RequestOK, TreePlaces, SearchPlaces
    <3> QED BY <2>1, <2>4, <3>1, SearchIs, HandlerIs DEF TreeOK, OfTree
  <2>5. CASE FindCohorts(r) BY <2>5, FindKeepsTrees
  <2>6. CASE PlaceCenter(r) BY <2>6, PlaceKeepsTrees
  <2>7. CASE BuildTree(r) \/ HierarchyFails(r)
    <3>1. run'[r].at = "done"
      BY <2>1, <2>7 DEF BuildTree, HierarchyFails, Set, RequestsOK, RequestOK, RunFields
    <3> QED BY <3>1 DEF TreeOK
  <2> QED BY <2>1, <2>2, <2>3, <2>4, <2>5, <2>6, <2>7, StepIs DEF Hierarchy
<1> QED BY <1>1, <1>2 DEF TreesInv

LEMMA TreesInit == Init /\ CohortsHaveOneTenant => TreesInv
<1> SUFFICES ASSUME Init, CohortsHaveOneTenant PROVE TreesInv OBVIOUS
<1>1. scenario \in Scenarios /\ values = scenario.rows.values /\ run = [r \in Requests |-> Waiting]
  BY DEF Init, InitTables
<1>2. OneValueEach BY <1>1 DEF CohortsHaveOneTenant, OneValueEach
<1>3. RequestsOK BY RequestsInit
<1> QED BY <1>1, <1>2, <1>3 DEF TreesInv, TreeOK, OfTree, Waiting

(* ------------------------- What a hierarchy answers ------------------------- *)

\* A center lies in the places that a value of its own is of.
LEMMA PlaceIs ==
    ASSUME OneValueEach, NEW c \in Cohorts, NEW level, NEW places, None \notin places
    PROVE  ValueOf(c, level) \in places <=> Has(c, level, places)
<1> DEFINE mine == {w \in ValuesOf(c) : w.field = level}
           of == {v.place : v \in mine}
<1>1. Has(c, level, places) <=> \E v \in mine : v.place \in places BY DEF Has
<1>2. CASE mine = {}
  <2>1. ValueOf(c, level) = None BY <1>2 DEF ValueOf
  <2> QED BY <1>1, <1>2, <2>1
<1>3. CASE mine # {}
  <2>1. ValueOf(c, level) = CHOOSE p \in of : TRUE BY <1>3 DEF ValueOf
  <2>2. (CHOOSE p \in of : TRUE) \in of BY <1>3
  <2>3. \A v \in mine : v.place = ValueOf(c, level) BY <2>1, <2>2 DEF OneValueEach, ValuesOf
  <2> HIDE DEF mine
  <2> QED BY <1>1, <1>3, <2>3
<1> QED BY <1>2, <1>3

\* The value that a center is placed by is one that it has.
LEMMA ValueIs ==
    ASSUME NEW c, NEW level
    PROVE  IF Has(c, level, {v.place : v \in values})
           THEN Has(c, level, {ValueOf(c, level)}) ELSE ValueOf(c, level) = None
<1> DEFINE mine == {w \in ValuesOf(c) : w.field = level}
           of == {v.place : v \in mine}
<1>1. \A places : Has(c, level, places) <=> \E v \in mine : v.place \in places BY DEF Has
<1>2. mine \subseteq values BY DEF ValuesOf
<1>3. CASE mine = {}
  <2>1. ValueOf(c, level) = None BY <1>3 DEF ValueOf
  <2> QED BY <1>1, <1>3, <2>1
<1>4. CASE mine # {}
  <2>1. ValueOf(c, level) = CHOOSE p \in of : TRUE BY <1>4 DEF ValueOf
  <2>2. (CHOOSE p \in of : TRUE) \in of BY <1>4
  <2>3. PICK v \in mine : v.place = ValueOf(c, level) BY <2>1, <2>2
  <2> HIDE DEF mine
  <2> QED BY <1>1, <1>2, <2>3
<1> QED BY <1>3, <1>4

LEMMA PlacedIsInPlace ==
    ASSUME NEW r, NEW c
    PROVE  InPlace(Placed(r, c))
<1>1. PICK d : d = Placed(r, c) OBVIOUS
<1>2. /\ d.center = c /\ d["state"] = ValueOf(c, "state") /\ d["district"] = ValueOf(c, "district")
      /\ d["block"] = ValueOf(c, "block")
  BY <1>1 DEF Placed
<1>3. InPlace(d) BY <1>2, ValueIs DEF InPlace
<1> QED BY <1>1, <1>3

\* A hierarchy ends by a step of its own.
LEMMA TreeEnds ==
    ASSUME TreesInv, [Next]_vars, NEW r \in Requests, OfTree(r), run'[r].at # run[r].at
    PROVE  Hierarchy(r) /\ UNCHANGED tables
<1>1. RequestsOK /\ run[r].at \in TreePlaces BY DEF TreesInv, RequestsOK, RequestOK
<1>2. ~Arrive(r) /\ ~Search(r) /\ ~Handle(r)
  BY <1>1, ArriveIs, SearchIs, HandlerIs DEF TreePlaces, SearchPlaces, Waiting
<1> QED BY <1>1, <1>2, StepIs, HierarchyIs

Lying(o) == {c \in Cohorts : \A level \in DOMAIN o.places : Has(c, level, o.places[level])}
Alike(o) == {c \in Cohorts : \A field \in DOMAIN o.custom : Has(c, field, o.custom[field])}

\* What the property says of an answer, with the centers and batches of data and what r has found.
AnswerIsWhole(r, o, found, data) ==
    LET shown == {d.center : d \in data}
    IN  /\ o.year # None
        /\ shown \subseteq CentersOf(found) /\ \A d, e \in data : d.center = e.center => d = e
        /\ \A m \in found : TypeOf[CohortOf(m)] = "BATCH" =>
              {d \in data : CohortOf(m) \in d.batches} = {d \in data : d.center = CenterOf(m)}
        /\ \A d \in data : <<r, d.center>> \notin moved => InPlace(d)
        /\ o.custom = <<>> =>
              \A c \in CentersOf(found) : <<r, c>> \notin moved => (c \in shown <=> c \in Lying(o))
        /\ r \notin torn =>
              shown = CentersOf(Mine(o)) \cap Lying(o)
                         \cap (IF o.custom = <<>> \/ Alike(o) = {} THEN Cohorts ELSE Alike(o))

\* Who fits the filters is who lies in the places and has the fields.
LEMMA LyingIs ==
    ASSUME OneValueEach, NEW o, DOMAIN o.places \subseteq PlaceLevels,
           \A level \in DOMAIN o.places : None \notin o.places[level], NEW c \in Cohorts
    PROVE  c \in Lying(o) <=> Included(o, c)
<1>1. \A level \in DOMAIN o.places :
          Has(c, level, o.places[level]) <=> ValueOf(c, level) \in o.places[level]
  BY PlaceIs
<1>2. PlaceLevels \cap DOMAIN o.places = DOMAIN o.places OBVIOUS
<1> QED BY <1>1, <1>2 DEF Included, Lying

LEMMA AlikeIs == \A o : Alike(o) = Matching(o)
BY DEF Alike, Matching, Has

\* What Apart and Whole say, in the words of the property.
LEMMA ApartAnswers ==
    ASSUME OneValueEach, NEW r \in Requests, Apart(r), r \notin torn => Whole(r), run[r].page = {},
           NEW o, o = run[r].op, NEW data, data = run[r].data, NEW found, found = run[r].found,
           DOMAIN o.places \subseteq PlaceLevels,
           \A level \in DOMAIN o.places : None \notin o.places[level]
    PROVE  AnswerIsWhole(r, o, found, data)
<1> DEFINE shown == {d.center : d \in data}
<1>1. /\ o.year # None /\ found \subseteq Memberships
      /\ \A d \in data : d.center \in CentersOf(found) /\ d.batches = Below(r, d.center)
      /\ \A d, e \in data : d.center = e.center => d = e
  BY DEF Apart
<1>2. CentersOf(found) \subseteq Cohorts BY <1>1, CentersAreCohorts
<1>3. \A c \in Cohorts : c \in Lying(o) <=> Included(o, c) BY LyingIs
<1>4. ASSUME NEW m \in found, TypeOf[CohortOf(m)] = "BATCH"
      PROVE  {d \in data : CohortOf(m) \in d.batches} = {d \in data : d.center = CenterOf(m)}
  <2>1. ASSUME NEW d \in data PROVE CohortOf(m) \in d.batches <=> d.center = CenterOf(m)
    <3>1. d.batches = Below(r, d.center) /\ d.center # None BY <1>1, <2>1 DEF CentersOf
    <3>2. \A n : CohortOf(n) = CohortOf(m) => CenterOf(n) = CenterOf(m) BY DEF CenterOf
    <3>3. CenterOf(m) # None => BelowCenter(CohortOf(m)) BY <1>4 DEF BelowCenter, CenterOf
    <3> QED BY <3>1, <3>2, <3>3 DEF Below
  <2> QED BY <2>1
<1>5. ASSUME NEW d \in data, <<r, d.center>> \notin moved PROVE InPlace(d)
  BY <1>5, PlacedIsInPlace DEF Apart
<1>6. ASSUME o.custom = <<>>, NEW c \in CentersOf(found), <<r, c>> \notin moved
      PROVE  c \in shown <=> c \in Lying(o)
  <2>1. c \in shown <=> Included(o, c) BY <1>6 DEF Apart
  <2> HIDE DEF shown
  <2> QED BY <1>2, <1>3, <1>6, <2>1
<1>7. ASSUME r \notin torn
      PROVE  shown = CentersOf(Mine(o)) \cap Lying(o)
                        \cap (IF o.custom = <<>> \/ Alike(o) = {} THEN Cohorts ELSE Alike(o))
  <2>1. found = Mine(o) /\ shown = {c \in CentersOf(found) : Shown(o, c)} BY <1>7 DEF Whole
  <2>2. Alike(o) = Matching(o) BY AlikeIs
  <2>3. \A c \in Cohorts : Kept(o, c) <=> c \in (IF o.custom = <<>> \/ Alike(o) = {} THEN Cohorts ELSE Alike(o))
    BY <2>2 DEF Kept
  <2> HIDE DEF shown
  <2> QED BY <1>2, <1>3, <2>1, <2>3 DEF Shown
<1>8. shown \subseteq CentersOf(found) BY <1>1
<1> HIDE DEF shown
<1> QED BY <1>1, <1>4, <1>5, <1>6, <1>7, <1>8 DEF AnswerIsWhole, shown

LEMMA MinIs == \A a, b \in Int : Min({a, b}) = IF a <= b THEN a ELSE b
<1> TAKE a, b \in Int
<1>1. CASE a <= b
  <2>1. \E x \in {a, b} : \A y \in {a, b} : x <= y BY <1>1
  <2> QED BY <1>1, <2>1 DEF Min
<1>2. CASE ~(a <= b)
  <2>1. \E x \in {a, b} : \A y \in {a, b} : x <= y BY <1>2
  <2> QED BY <1>2, <2>1 DEF Min
<1> QED BY <1>1, <1>2

LEMMA MaxIs == \A a, b \in Int : Max({a, b}) = IF a >= b THEN a ELSE b
<1> TAKE a, b \in Int
<1>1. CASE a >= b
  <2>1. \E x \in {a, b} : \A y \in {a, b} : x >= y BY <1>1
  <2> QED BY <1>1, <2>1 DEF Max
<1>2. CASE ~(a >= b)
  <2>1. \E x \in {a, b} : \A y \in {a, b} : x >= y BY <1>2
  <2> QED BY <1>2, <2>1 DEF Max
<1> QED BY <1>1, <1>2

\* A page is no longer than was asked for.
LEMMA PageFits ==
    ASSUME NEW n \in Nat, NEW limit \in Nat, NEW offset \in Nat
    PROVE  Min({limit, Max({0, n - offset})}) <= limit
<1>1. PICK rest \in Int : rest = n - offset OBVIOUS
<1>2. PICK left \in Int : left = Max({0, rest}) BY MaxIs
<1> QED BY <1>1, <1>2, MinIs

LEMMA TreeAnswer ==
    ASSUME TreesInv, PlacesAreNamed, [Next]_vars, NEW r \in Requests, OfTree(r),
           run[r].at # "done", run'[r].at = "done", ~run'[r].failed
    PROVE  /\ AnswerIsWhole(r, run[r].op, run'[r].found, run'[r].data)
           /\ run'[r].shown \subseteq {d.state : d \in run'[r].data}
           /\ Cardinality(run'[r].shown) <= run[r].op.limit
<1>o. PICK o : o = run[r].op OBVIOUS
<1>1. Hierarchy(r) BY TreeEnds
<1>2. DOMAIN run = Requests /\ DOMAIN run[r] = RunFields /\ TreeOK(r) /\ OneValueEach
  BY DEF TreesInv, RequestsOK, RequestOK
<1>3. o \in scenario.ops /\ o.name = "hierarchy" /\ scenario \in Scenarios
  BY <1>o DEF RequestsOK, RequestOK, OfTree, TreesInv
<1>4. /\ o.limit \in Nat /\ o.offset \in Nat /\ DOMAIN o.places \subseteq PlaceLevels
      /\ \A level \in DOMAIN o.places : None \notin o.places[level]
  BY <1>3 DEF PlacesAreNamed
<1>5. CASE FindCohorts(r)
  <2>1. run[r].at = "cohorts" BY <1>5 DEF FindCohorts, At
  <2>2. run[r].data = {} /\ run[r].shown = {} BY <1>2, <2>1 DEF TreeOK
  <2>3. /\ o.year # None /\ CentersOf(Mine(o)) = {} /\ run'[r].found = Mine(o)
        /\ run'[r].data = {} /\ run'[r].shown = {}
    BY <1>o, <1>2, <1>5, <2>2 DEF FindCohorts, Set, RunFields
  <2>4. Cardinality({}) = 0 BY FS_EmptySet
  <2>5. AnswerIsWhole(r, o, Mine(o), {}) BY <2>3 DEF AnswerIsWhole
  <2> QED BY <1>o, <1>4, <2>3, <2>4, <2>5
<1>6. CASE BuildTree(r)
  <2> DEFINE states == {d.state : d \in run[r].data}
             size == Min({o.limit, Max({0, Cardinality(states) - o.offset})})
  <2>1. run[r].at = "tree" BY <1>6 DEF BuildTree, At
  <2>2. IsFiniteSet(run[r].data) /\ Apart(r) /\ (r \notin torn => Whole(r)) BY <1>2, <2>1 DEF TreeOK
  <2>p. run[r].page = {} BY <2>1, <2>2 DEF Apart
  <2>3. /\ run'[r].data = run[r].data /\ run'[r].found = run[r].found
        /\ run'[r].shown \subseteq states /\ Cardinality(run'[r].shown) = size
    BY <1>o, <1>2, <1>6 DEF BuildTree, Set, RunFields
  <2>4. Cardinality(states) \in Nat
    <3>1. IsFiniteSet(states)
      <4> DEFINE f == [d \in run[r].data |-> d.state]
      <4>1. f \in Surjection(run[r].data, states) BY DEF Surjection
      <4> QED BY <2>2, <4>1, FS_Surjection
    <3> QED BY <3>1, FS_CardinalityType
  <2>5. size <= o.limit BY <1>4, <2>4, PageFits
  <2>6. AnswerIsWhole(r, run[r].op, run[r].found, run[r].data)
    BY <1>o, <1>2, <1>4, <2>2, <2>p, ApartAnswers
  <2>7. Cardinality(run'[r].shown) <= run[r].op.limit BY <1>o, <2>3, <2>5
  <2> HIDE DEF size
  <2> QED BY <2>3, <2>6, <2>7
<1>7. ~PlaceCenter(r)
  <2>1. SUFFICES ASSUME PlaceCenter(r) PROVE FALSE OBVIOUS
  <2> QED BY <1>2, <2>1 DEF PlaceCenter, Set, RunFields
<1>8. ~HierarchyFails(r)
  <2>1. SUFFICES ASSUME HierarchyFails(r) PROVE FALSE OBVIOUS
  <2> QED BY <1>2, <2>1 DEF HierarchyFails, Set, RunFields
<1> QED BY <1>1, <1>5, <1>6, <1>7, <1>8 DEF Hierarchy

\* Hierarchies: each center once, with the batches of one reading of the memberships; whose values
\* nobody writes meanwhile under the places it has, there if and only if it lies in those asked for; and
\* where nothing is written the centers are those of the memberships, places and custom fields
\* asked for, although they are read one by one (cohort.service.ts:1557).
THEOREM HierarchiesAreWhole ==
    ASSUME CohortsHaveOneTenant, PlacesAreNamed PROVE Spec => HierarchyIsWhole
<1>1. TreesInv /\ [Next]_vars => [\A r \in Requests : Answers(r) => IsWhole(r)]_<<tables, notes, run>>
  <2> SUFFICES ASSUME TreesInv, [Next]_vars, NEW r \in Requests, Answers(r) PROVE IsWhole(r)
    OBVIOUS
  <2>1. /\ AnswerIsWhole(r, run[r].op, run'[r].found, run'[r].data)
        /\ run'[r].shown \subseteq {d.state : d \in run'[r].data}
        /\ Cardinality(run'[r].shown) <= run[r].op.limit
    BY TreeAnswer DEF Answers, OfTree
  <2> QED BY <2>1 DEF IsWhole, AnswerIsWhole, Lying, Alike
<1>2. TreesInv /\ [Next]_vars => TreesInv' BY TreesStep
<1>3. Init => TreesInv BY TreesInit
<1> QED BY <1>1, <1>2, <1>3, PTL DEF Spec, HierarchyIsWhole

(* --------------------------------- Searches --------------------------------- *)

\* Names can be sorted, there are finitely many rows, and a search asks for a page of users by
\* fields that have names.
SearchesAreSorted ==
    /\ None \notin Fields /\ IsFiniteSet(Users)
    /\ \A s \in Scenarios :
        /\ s.rows.name \in [Users -> Int \cup {None}] /\ IsFiniteSet(s.rows.values)
        /\ \A o \in s.ops :
            /\ o.name \in {"createUser", "updateUser"} => o.to \in Int
            /\ o.name = "search" => o.limit \in Nat /\ o.offset \in Nat /\ o.named \subseteq Users

Slice(s, a, b) == {s[i] : i \in a..b}
Lists(n, T) == {s \in [1..n -> T] : \A i, j \in 1..n : i # j => s[i] # s[j]}

\* A part of a list without repetitions has as many elements as places.
LEMMA SliceSize ==
    ASSUME NEW T, NEW n \in Nat, NEW s \in Lists(n, T),
           NEW a \in Int, NEW b \in Int, 1 <= a, b <= n
    PROVE  /\ IsFiniteSet(Slice(s, a, b))
           /\ Cardinality(Slice(s, a, b)) = IF a > b THEN 0 ELSE b - a + 1
<1> DEFINE I == a..b
           slice == {s[i] : i \in I}
           g == [i \in I |-> s[i]]
<1>1. IsFiniteSet(I) /\ Cardinality(I) = IF a > b THEN 0 ELSE b - a + 1 BY FS_Interval
<1>2. g \in Surjection(I, slice) BY DEF Surjection
<1>3. g \in Injection(I, slice)
  <2>1. g \in [I -> slice] OBVIOUS
  <2>2. \A i, j \in I : g[i] = g[j] => i = j BY DEF Lists
  <2> QED BY <2>1, <2>2 DEF Injection, IsInjective
<1> HIDE DEF I, slice, g
<1>4. IsFiniteSet(slice) /\ Cardinality(slice) = Cardinality(I) BY <1>1, <1>2, <1>3, FS_Surjection
<1> QED BY <1>1, <1>4 DEF slice, I, Slice

\* A page of a sorted list: as many as there are after the offset, up to the limit, and each in
\* its place.
SitsIn(page, found, o) ==
    /\ page \subseteq found
    /\ Cardinality(page) = Min({o.limit, Max({0, Cardinality(found) - o.offset})})
    /\ \A u \in page :
         /\ Cardinality({v \in found : name[v] < name[u]}) < o.offset + o.limit
         /\ Cardinality({v \in found : name[v] <= name[u]}) > o.offset

LEMMA PagesAreSlices ==
    ASSUME NEW found, IsFiniteSet(found), \A u \in found : name[u] \in Int,
           NEW o, o.limit \in Nat, o.offset \in Nat, NEW page \in Pages(found, o)
    PROVE  SitsIn(page, found, o)
<1>n. PICK n \in Nat : n = Cardinality(found) BY FS_CardinalityType
<1>o. PICK from \in Nat, limit \in Nat : from = o.offset /\ limit = o.limit OBVIOUS
<1>1. PICK s \in SetToSeqs(found) :
        /\ \A i, j \in DOMAIN s : i < j => name[s[i]] <= name[s[j]]
        /\ page = {s[i] : i \in {j \in DOMAIN s : from < j /\ j <= from + limit}}
  BY <1>o DEF Pages
<1>2. s \in [1..n -> found] /\ \A i, j \in 1..n : i # j => s[i] # s[j]
  BY <1>n, <1>1 DEF SetToSeqs
<1>3. \A v \in found : \E i \in 1..n : s[i] = v
  <2>1. s \in Injection(1..n, found) BY <1>2 DEF Injection, IsInjective
  <2>2. Cardinality(1..n) = n BY FS_Interval
  <2>3. s \in Surjection(1..n, found) BY <1>n, <2>1, <2>2, FS_Injection
  <2> QED BY <2>3 DEF Surjection
<1>s. \A a, b \in Int : 1 <= a /\ b <= n =>
        /\ IsFiniteSet(Slice(s, a, b))
        /\ Cardinality(Slice(s, a, b)) = IF a > b THEN 0 ELSE b - a + 1
  <2>1. s \in Lists(n, found) BY <1>2 DEF Lists
  <2> QED BY <2>1, SliceSize
<1>l. PICK first \in Nat, last \in Nat :
        first = from + 1 /\ last = IF n <= from + limit THEN n ELSE from + limit
  OBVIOUS
<1>4. page = Slice(s, first, last)
  <2>1. {j \in DOMAIN s : from < j /\ j <= from + limit} = first..last
    BY <1>2, <1>l
  <2> QED BY <1>1, <2>1 DEF Slice
<1>5. 1 <= first /\ last <= n BY <1>l
<1>6. page \subseteq found BY <1>2, <1>4, <1>5 DEF Slice
<1>7. Cardinality(page) = Min({o.limit, Max({0, Cardinality(found) - o.offset})})
  <2>1. Cardinality(page) = IF first > last THEN 0 ELSE last - first + 1
    BY <1>4, <1>5, <1>s
  <2>d. PICK rest \in Int : rest = n - from OBVIOUS
  <2>2. Max({0, rest}) = IF 0 >= rest THEN 0 ELSE rest BY MaxIs
  <2>m. PICK left \in Int : left = Max({0, rest}) BY <2>2
  <2>3. Min({limit, left}) = IF limit <= left THEN limit ELSE left BY MinIs
  <2>4. Cardinality(page) = Min({limit, left}) BY <1>l, <2>1, <2>d, <2>2, <2>m, <2>3
  <2> QED BY <1>n, <1>o, <2>d, <2>m, <2>4
<1>8. ASSUME NEW u \in page
      PROVE  /\ Cardinality({v \in found : name[v] < name[u]}) < o.offset + o.limit
             /\ Cardinality({v \in found : name[v] <= name[u]}) > o.offset
  <2>1. PICK i \in 1..n : s[i] = u /\ from < i /\ i <= from + limit BY <1>1, <1>2
  <2>2. \A j \in 1..n : name[s[j]] \in Int BY <1>2
  <2>3. {v \in found : name[v] < name[u]} \subseteq Slice(s, 1, i - 1)
    <3>1. ASSUME NEW v \in found, name[v] < name[u] PROVE v \in Slice(s, 1, i - 1)
      <4>1. PICK j \in 1..n : s[j] = v BY <1>3
      <4>2. j < i
        <5>1. CASE j = i BY <2>1, <2>2, <3>1, <4>1, <5>1
        <5>2. CASE i < j
          <6>1. name[s[i]] <= name[s[j]] BY <1>1, <1>2, <5>2
          <6> QED BY <2>1, <2>2, <3>1, <4>1, <6>1
        <5> QED BY <5>1, <5>2
      <4> QED BY <4>1, <4>2 DEF Slice
    <3> QED BY <3>1
  <2>4. Slice(s, 1, i) \subseteq {v \in found : name[v] <= name[u]}
    <3>1. ASSUME NEW j \in 1..i PROVE s[j] \in found /\ name[s[j]] <= name[u]
      <4>1. j \in 1..n BY <2>1
      <4>2. CASE j = i BY <1>2, <2>1, <2>2, <4>2
      <4>3. CASE j < i BY <1>1, <1>2, <2>1, <4>1, <4>3
      <4> QED BY <4>2, <4>3
    <3> QED BY <3>1 DEF Slice
  <2>5. /\ IsFiniteSet(Slice(s, 1, i - 1)) /\ Cardinality(Slice(s, 1, i - 1)) = i - 1
        /\ Cardinality(Slice(s, 1, i)) = i
    <3>1. PICK j \in Int : j = i - 1 OBVIOUS
    <3>2. j <= n /\ i <= n /\ i \in Int BY <3>1
    <3>3. IsFiniteSet(Slice(s, 1, j)) /\ Cardinality(Slice(s, 1, j)) = IF 1 > j THEN 0 ELSE j - 1 + 1
      BY <1>s, <3>2
    <3>4. Cardinality(Slice(s, 1, i)) = IF 1 > i THEN 0 ELSE i - 1 + 1
      BY <1>s, <3>2
    <3> QED BY <3>1, <3>3, <3>4
  <2>6. /\ IsFiniteSet({v \in found : name[v] < name[u]})
        /\ Cardinality({v \in found : name[v] < name[u]}) <= i - 1
    BY <2>3, <2>5, FS_Subset
  <2>7. IsFiniteSet({v \in found : name[v] <= name[u]}) BY FS_Subset
  <2>8. i <= Cardinality({v \in found : name[v] <= name[u]}) BY <2>4, <2>5, <2>7, FS_Subset
  <2>9. /\ Cardinality({v \in found : name[v] < name[u]}) \in Nat
        /\ Cardinality({v \in found : name[v] <= name[u]}) \in Nat
    BY <2>6, <2>7, FS_CardinalityType
  <2> QED BY <1>o, <2>1, <2>6, <2>8, <2>9
<1> QED BY <1>6, <1>7, <1>8 DEF SitsIn

\* The memberships that a page is shown with.
Enrolled(o, page) ==
    {m \in Joined : UserOf(m) \in page /\ YearOf(m) = o.year /\ TenantOf[CohortOf(m)] = o.tenant}

\* A user who was found by a place is shown with it, or has another of another tenant.
ShowsField(o, page, shown) ==
    LET level == findDeepestFilter(o.filters)
    IN  level \in Asked(o) =>
          \A u \in page :
            \/ \E s \in shown : s.user = u /\ s.field = level /\ s.place \in Ids(o.filters, level)
            \/ Cardinality({v \in values : v.item = u /\ v.field = level}) > 1

\* Of a search that no write has torn: its page, and what it has read for it.
Right(r) ==
    /\ run[r].page \in Pages(buildOptimizedUserQuery(run[r].op, run[r].seen), run[r].op)
    /\ run[r].total = Cardinality(buildOptimizedUserQuery(run[r].op, run[r].seen))
    /\ run[r].at \in {"assignments", "batches", "centers"} /\ ~run[r].failed =>
          ShowsField(run[r].op, run[r].page, run[r].shown)
    /\ run[r].at \in {"batches", "centers"} => run[r].found = Enrolled(run[r].op, run[r].page)
    /\ run[r].at = "centers" => run[r].data = {Entry(m) : m \in Again(r, Batched)}

SearchOK(r) ==
    /\ OfSearch(r) /\ r \notin torn /\ run[r].at \in {"fields", "assignments", "batches", "centers"}
    => Right(r)

SearchesInv ==
    /\ RequestsOK
    /\ name \in [Users -> Int \cup {None}] /\ IsFiniteSet(values)
    /\ \A r \in Requests : SearchOK(r)

LEMMA SameQueries ==
    ASSUME UNCHANGED tables
    PROVE  /\ \A o, parent : buildOptimizedUserQuery(o, parent)' = buildOptimizedUserQuery(o, parent)
           /\ \A found, o : Pages(found, o)' = Pages(found, o)
           /\ \A o, page : Enrolled(o, page)' = Enrolled(o, page)
           /\ \A o, page, shown : ShowsField(o, page, shown)' <=> ShowsField(o, page, shown)
           /\ \A m : Entry(m)' = Entry(m)
           /\ Joined' = Joined
<1>1. /\ name' = name /\ mapped' = mapped /\ roles' = roles /\ member' = member /\ values' = values
      /\ Joined' = Joined
  BY DEF tables, Joined
<1>2. \A o, parent : buildOptimizedUserQuery(o, parent)' = buildOptimizedUserQuery(o, parent)
  BY <1>1 DEF buildOptimizedUserQuery, RolesIn, InYear, PlaceFits
<1>3. \A found, o : Pages(found, o)' = Pages(found, o) BY <1>1 DEF Pages
<1>4. \A o, page : Enrolled(o, page)' = Enrolled(o, page) BY <1>1 DEF Enrolled
<1>5. \A o, page, shown : ShowsField(o, page, shown)' <=> ShowsField(o, page, shown)
  BY <1>1 DEF ShowsField
<1>6. \A m : Entry(m)' = Entry(m) BY <1>1 DEF Entry
<1> QED BY <1>1, <1>2, <1>3, <1>4, <1>5, <1>6

LEMMA SearchStaysOK ==
    ASSUME NEW r \in Requests, SearchOK(r), run'[r] = run[r], Torn
    PROVE  SearchOK(r)'
<1>1. SUFFICES ASSUME OfSearch(r)', r \notin torn', run'[r].at \in {"fields", "assignments", "batches", "centers"}
               PROVE  Right(r)'
  BY DEF SearchOK
<1>2. UNCHANGED tables /\ torn' = torn BY <1>1 DEF Torn, UnderWay
<1>3. Right(r) BY <1>1, <1>2 DEF SearchOK, OfSearch
<1>o. PICK o, seen, page, shown :
        o = run[r].op /\ seen = run[r].seen /\ page = run[r].page /\ shown = run[r].shown
  OBVIOUS
<1>4. Again(r, Batched)' = Again(r, Batched) /\ \A m : Entry(m)' = Entry(m)
  BY <1>2, SameQueries DEF Again
<1>5. /\ buildOptimizedUserQuery(o, seen)' = buildOptimizedUserQuery(o, seen)
      /\ \A found : Pages(found, o)' = Pages(found, o)
      /\ Enrolled(o, page)' = Enrolled(o, page)
      /\ ShowsField(o, page, shown)' <=> ShowsField(o, page, shown)
  BY <1>2, SameQueries
<1> QED BY <1>3, <1>o, <1>4, <1>5 DEF Right

LEMMA NamesStep ==
    ASSUME SearchesInv, SearchesAreSorted, [Next]_vars
    PROVE  name' \in [Users -> Int \cup {None}]
<1> DEFINE Typed == name' \in [Users -> Int \cup {None}]
<1>1. name \in [Users -> Int \cup {None}] /\ RequestsOK BY DEF SearchesInv
<1>2. CASE UNCHANGED tables BY <1>1, <1>2 DEF tables
<1>3. ASSUME NEW r \in Requests, SaveUser(r) PROVE Typed
  <2>1. run[r].op.to \in Int
    BY <1>1, <1>3 DEF SaveUser, Doing, SearchesAreSorted, RequestsOK, RequestOK
  <2> QED BY <1>1, <1>2, <1>3, <2>1 DEF SaveUser, Refuse
<1>4. ASSUME NEW r \in Requests, deleteUserById(r) PROVE Typed
  BY <1>1, <1>2, <1>4 DEF deleteUserById, Refuse
<1>5. ASSUME NEW r \in Requests, Handle(r), ~SaveUser(r), ~deleteUserById(r) PROVE Typed
  <2>1. name' = name
    <3>1. CASE login(r) \/ UpdateCohortRow(r) \/ UpdateCohortValues(r) \/ FindMembers(r) \/ UpdateMembers(r)
      BY <3>1 DEF login, UpdateCohortRow, UpdateCohortValues, FindMembers, UpdateMembers, tables
    <3>2. CASE ArchiveCohort(r) \/ ArchiveMembers(r) \/ ArchiveValues(r) \/ SaveMember(r) \/ BulkMember(r) \/ Reply(r)
      BY <3>2 DEF ArchiveCohort, ArchiveMembers, ArchiveValues, SaveMember, BulkMember, Reply, Refuse, tables
    <3> QED BY <1>5, <3>1, <3>2 DEF Handle
  <2> QED BY <1>1, <2>1
<1>6. ASSUME NEW r \in Requests, Arrive(r) \/ Search(r) \/ Hierarchy(r) PROVE Typed
  <2>1. UNCHANGED tables BY <1>1, <1>6, SearchIs, HierarchyIs DEF Arrive
  <2> QED BY <1>1, <2>1 DEF tables
<1>7. CASE Publish
  BY <1>1, <1>7 DEF Publish, Row, TenantsAndRoles, CustomFields, CohortsOfUser, CohortType,
                    ReadFails, Send, SendFails, Silent, tables
<1>8. CASE Change
  <2>1. \A w \in scenario.writes : w.of \in {"mapped", "roles", "member", "values", "status"}
    BY <1>1, TablesAssumption DEF RequestsOK
  <2>2. name' = name BY <1>8, <2>1 DEF Change
  <2> QED BY <1>1, <2>2
<1>9. CASE UNCHANGED vars BY <1>1, <1>9 DEF vars, tables
<1> QED BY <1>3, <1>4, <1>5, <1>6, <1>7, <1>8, <1>9 DEF Next

LEMMA FiniteStep ==
    ASSUME RequestsOK, IsFiniteSet(values), [Next]_vars
    PROVE  IsFiniteSet(values')
<1>1. CASE values' \subseteq values BY <1>1, FS_Subset
<1>2. ASSUME NEW S \in SUBSET values, NEW x, values' = S \cup {x} PROVE IsFiniteSet(values')
  <2>1. IsFiniteSet(S) BY FS_Subset
  <2> QED BY <1>2, <2>1, FS_AddElement
<1>3. ASSUME NEW o, values' = {v \in values : v.item # o.key \/ v.field # o.value.field} \cup {o.value}
      PROVE  IsFiniteSet(values')
  BY <1>2, <1>3
<1>4. ASSUME NEW w, values' = {v \in values : v.item # w.row.item \/ v.field # w.row.field
                                                  \/ v.tenant # w.row.tenant} \cup {w.row}
      PROVE  IsFiniteSet(values')
  BY <1>2, <1>4
<1> QED BY <1>1, <1>3, <1>4, ValuesStep

LEMMA FoundOK ==
    ASSUME SearchesInv, SearchesAreSorted, NEW o \in scenario.ops, o.name = "search", NEW parent
    PROVE  /\ IsFiniteSet(buildOptimizedUserQuery(o, parent))
           /\ \A u \in buildOptimizedUserQuery(o, parent) : name[u] \in Int
           /\ o.limit \in Nat /\ o.offset \in Nat
<1>1. o.named \subseteq Users /\ o.limit \in Nat /\ o.offset \in Nat
  BY DEF SearchesAreSorted, SearchesInv, RequestsOK
<1>2. \A u \in buildOptimizedUserQuery(o, parent) : u \in Users /\ name[u] # None
  BY <1>1 DEF buildOptimizedUserQuery
<1>3. IsFiniteSet(buildOptimizedUserQuery(o, parent))
  <2>1. buildOptimizedUserQuery(o, parent) \in SUBSET Users BY <1>2
  <2> QED BY <2>1, FS_Subset DEF SearchesAreSorted
<1> QED BY <1>1, <1>2, <1>3 DEF SearchesInv

\* A filter by a field that is asked for is one by a place.
LEMMA LevelIs ==
    ASSUME NEW o, NEW level, level = findDeepestFilter(o.filters), level \in Asked(o), None \notin Fields
    PROVE  level \in LocationFields
<1> DEFINE given == {i \in 1..6 : Ids(o.filters, FILTER_HIERARCHY_ORDER[i]) # {}}
<1>1. level = IF given = {} THEN None ELSE FILTER_HIERARCHY_ORDER[Min(given)]
  BY DEF findDeepestFilter
<1>2. level \notin Excluded /\ level # None BY DEF Asked
<1>3. given # {} /\ given \subseteq 1..6 BY <1>1, <1>2
<1> HIDE DEF given
<1>4. \E x \in given : \A y \in given : x <= y
  <2>1. CASE 1 \in given BY <1>3, <2>1
  <2>2. CASE 1 \notin given /\ 2 \in given BY <1>3, <2>2
  <2>3. CASE 1 \notin given /\ 2 \notin given /\ 3 \in given BY <1>3, <2>3
  <2>4. CASE 1 \notin given /\ 2 \notin given /\ 3 \notin given /\ 4 \in given BY <1>3, <2>4
  <2>5. CASE 1 \notin given /\ 2 \notin given /\ 3 \notin given /\ 4 \notin given /\ 5 \in given
    BY <1>3, <2>5
  <2>6. CASE 1 \notin given /\ 2 \notin given /\ 3 \notin given /\ 4 \notin given /\ 5 \notin given /\ 6 \in given
    BY <1>3, <2>6
  <2>7. 1 \in given \/ 2 \in given \/ 3 \in given \/ 4 \in given \/ 5 \in given \/ 6 \in given
    <3>1. PICK i \in 1..6 : i \in given BY <1>3
    <3>2. i = 1 \/ i = 2 \/ i = 3 \/ i = 4 \/ i = 5 \/ i = 6 OBVIOUS
    <3> QED BY <3>1, <3>2
  <2> QED BY <2>1, <2>2, <2>3, <2>4, <2>5, <2>6, <2>7
<1>5. Min(given) \in 1..6 BY <1>3, <1>4 DEF Min
<1>6. \A i \in 1..6 : FILTER_HIERARCHY_ORDER[i] \in Excluded \cup LocationFields
  BY DEF FILTER_HIERARCHY_ORDER, Excluded, LocationFields
<1> QED BY <1>1, <1>2, <1>3, <1>5, <1>6

LEMMA FieldsShown ==
    ASSUME IsFiniteSet(values), None \notin Fields, NEW o, NEW parent,
           NEW page, page \subseteq buildOptimizedUserQuery(o, parent),
           NEW S \in Picks(o, page), NEW unread
    PROVE  ShowsField(o, page, resolveLocationFieldNames(S, unread))
<1> DEFINE level == findDeepestFilter(o.filters)
<1>1. SUFFICES ASSUME level \in Asked(o), NEW u \in page
               PROVE  \/ \E s \in resolveLocationFieldNames(S, unread) :
                            s.user = u /\ s.field = level /\ s.place \in Ids(o.filters, level)
                      \/ Cardinality({v \in values : v.item = u /\ v.field = level}) > 1
  BY DEF ShowsField
<1>2. level \in LocationFields BY <1>1, LevelIs
<1>3. PICK v \in values : v.item = u /\ v.field = level /\ v.place \in Ids(o.filters, level)
  BY <1>1, <1>2 DEF buildOptimizedUserQuery, PlaceFits
<1> DEFINE one == {w \in S : w.item = u /\ w.field = level}
           all == {w \in values : w.item = u /\ w.field = level}
<1>4. S \subseteq values /\ Cardinality(one) = 1
  BY <1>1, <1>3 DEF Picks
<1>5. IsFiniteSet(one) /\ IsFiniteSet(all) BY <1>4, FS_Subset
<1>6. PICK w : one = {w} BY <1>4, <1>5, FS_Singleton
<1>7. w \in S /\ w.item = u /\ w.field = level BY <1>6
<1>8. CASE w = v
  <2> DEFINE s == [user |-> w.item, field |-> w.field, place |-> w.place,
                   named |-> w.field \in LocationFields \ unread /\ w.place \in Named]
  <2>1. s \in resolveLocationFieldNames(S, unread) BY <1>7 DEF resolveLocationFieldNames
  <2>2. s.user = w.item /\ s.field = w.field /\ s.place = w.place OBVIOUS
  <2> HIDE DEF s
  <2> QED BY <1>3, <1>8, <2>1, <2>2
<1>9. CASE w # v
  <2>1. v \in all /\ w \in all BY <1>3, <1>4, <1>7
  <2> HIDE DEF all, one
  <2>2. Cardinality(all) \in Nat BY <1>5, FS_CardinalityType
  <2>3. Cardinality(all) # 0 BY <1>5, <2>1, FS_EmptySet
  <2>4. Cardinality(all) # 1
    <3>1. ~\E x : all = {x} BY <1>9, <2>1
    <3> QED BY <1>5, <3>1, FS_Singleton
  <2>5. Cardinality(all) > 1 BY <2>2, <2>3, <2>4
  <2> QED BY <2>5 DEF all
<1> QED BY <1>8, <1>9

LEMMA SearchKeepsRight ==
    ASSUME SearchesInv, SearchesAreSorted, NEW r \in Requests, Search(r)
    PROVE  SearchOK(r)'
<1>1. RequestsOK /\ DOMAIN run = Requests /\ DOMAIN run[r] = RunFields /\ SearchOK(r)
  BY DEF SearchesInv, RequestsOK, RequestOK
<1>2. UNCHANGED <<tables, torn, moved>> /\ run'[r].op = run[r].op BY <1>1, SearchIs
<1>3. SUFFICES ASSUME OfSearch(r), r \notin torn, run'[r].at \in {"fields", "assignments", "batches", "centers"}
               PROVE  Right(r)'
  BY <1>2 DEF SearchOK, OfSearch
<1>o. PICK o, seen, page, shown :
        o = run[r].op /\ seen = run'[r].seen /\ page = run'[r].page /\ shown = run'[r].shown
  OBVIOUS
<1> DEFINE all == buildOptimizedUserQuery(o, seen)
<1>4. /\ all' = all /\ Pages(all, o)' = Pages(all, o) /\ Enrolled(o, page)' = Enrolled(o, page)
      /\ ShowsField(o, page, shown)' <=> ShowsField(o, page, shown)
      /\ \A m : Entry(m)' = Entry(m)
      /\ Joined' = Joined
  BY <1>2, SameQueries
<1>r. ASSUME page \in Pages(all, o), run'[r].total = Cardinality(all),
             run'[r].at \in {"assignments", "batches", "centers"} /\ ~run'[r].failed => ShowsField(o, page, shown),
             run'[r].at \in {"batches", "centers"} => run'[r].found = Enrolled(o, page),
             run'[r].at = "centers" => run'[r].data = {Entry(m) : m \in Again(r, Batched)'}
      PROVE  Right(r)'
  BY <1>2, <1>o, <1>4, <1>r DEF Right
<1>5. ~ParentTenant(r) /\ ~CentersAndReply(r) /\ ~SearchFails(r)
  BY <1>1, <1>3 DEF ParentTenant, CentersAndReply, SearchFails, Set, RunFields
<1>6. CASE Page(r)
  <2>1. /\ run'[r].seen = run[r].seen /\ run'[r].at = "fields"
        /\ page \in Pages(all, o) /\ run'[r].total = Cardinality(all)
    BY <1>1, <1>3, <1>6, <1>o DEF Page, Set, RunFields
  <2> QED BY <1>r, <2>1
<1>7. run[r].at \in {"fields", "assignments", "batches", "centers"} =>
        Right(r)
  BY <1>1, <1>3 DEF SearchOK
<1>8. ASSUME Right(r), run'[r].page = run[r].page, run'[r].seen = run[r].seen, run'[r].total = run[r].total
      PROVE  page \in Pages(all, o) /\ run'[r].total = Cardinality(all)
  BY <1>o, <1>8 DEF Right
<1>9. CASE getCustomFieldsData(r)
  <2>1. /\ run[r].at = "fields" /\ run'[r].at = "assignments" /\ run'[r].page = run[r].page
        /\ run'[r].seen = run[r].seen /\ run'[r].total = run[r].total
    BY <1>1, <1>9 DEF getCustomFieldsData, At, Set, RunFields
  <2>s. ~run'[r].failed => \E S \in Picks(o, page) : \E unread : shown = resolveLocationFieldNames(S, unread)
    <3>1. CASE \E S \in Picks(o, page) : \E unread :
                  Set(r, [run[r] EXCEPT !.at = "assignments", !.shown = resolveLocationFieldNames(S, unread)])
      BY <1>1, <1>o, <3>1 DEF Set, RunFields
    <3>2. CASE Set(r, [run[r] EXCEPT !.at = "assignments", !.failed = TRUE])
      BY <1>1, <3>2 DEF Set, RunFields
    <3> QED BY <1>9, <1>o, <2>1, <3>1, <3>2 DEF getCustomFieldsData
  <2>2. page \in Pages(all, o) /\ run'[r].total = Cardinality(all) BY <1>7, <1>8, <2>1
  <2>3. o \in scenario.ops /\ o.name = "search"
    BY <1>1, <1>3, <1>o DEF OfSearch, RequestsOK, RequestOK
  <2>4. page \subseteq all
    <3>1. SitsIn(page, all, o) BY <2>2, <2>3, FoundOK, PagesAreSlices
    <3> QED BY <3>1 DEF SitsIn
  <2>5. ~run'[r].failed => ShowsField(o, page, shown)
    BY <2>s, <2>4, FieldsShown DEF SearchesInv, SearchesAreSorted
  <2> HIDE DEF all
  <2> QED BY <1>r, <2>1, <2>2, <2>5
<1>10. CASE Assignments(r)
  <2>1. /\ run[r].at = "assignments" /\ run'[r].at = "batches" /\ run'[r].page = run[r].page
        /\ run'[r].seen = run[r].seen /\ run'[r].total = run[r].total /\ run'[r].failed = run[r].failed
        /\ run'[r].shown = run[r].shown
        /\ run'[r].found = Enrolled(o, page)
    BY <1>1, <1>3, <1>10, <1>o DEF Assignments, At, Set, RunFields, Enrolled
  <2>2. page \in Pages(all, o) /\ run'[r].total = Cardinality(all) BY <1>7, <1>8, <2>1
  <2>3. ~run'[r].failed => ShowsField(o, page, shown) BY <1>7, <1>o, <2>1 DEF Right
  <2> HIDE DEF all
  <2> QED BY <1>r, <2>1, <2>2, <2>3
<1>11. CASE Batches(r)
  <2>1. /\ run[r].at = "batches" /\ run'[r].at = "centers" /\ run'[r].page = run[r].page
        /\ run'[r].seen = run[r].seen /\ run'[r].total = run[r].total /\ run'[r].failed = run[r].failed
        /\ run'[r].shown = run[r].shown /\ run'[r].found = run[r].found
        /\ run'[r].data = {Entry(m) : m \in Again(r, Batched)}
    BY <1>1, <1>11 DEF Batches, At, Set, RunFields
  <2>2. page \in Pages(all, o) /\ run'[r].total = Cardinality(all) BY <1>7, <1>8, <2>1
  <2>3. ~run'[r].failed => ShowsField(o, page, shown) BY <1>7, <1>o, <2>1 DEF Right
  <2>4. run'[r].found = Enrolled(o, page) BY <1>7, <1>o, <2>1 DEF Right
  <2>5. Again(r, Batched)' = Again(r, Batched) BY <1>2, <1>4, <2>1 DEF Again
  <2> HIDE DEF all
  <2> QED BY <1>r, <2>1, <2>2, <2>3, <2>4, <2>5
<1> QED BY <1>5, <1>6, <1>9, <1>10, <1>11 DEF Search

LEMMA SearchesStep == SearchesInv /\ SearchesAreSorted /\ [Next]_vars => SearchesInv'
<1> SUFFICES ASSUME SearchesInv, SearchesAreSorted, [Next]_vars PROVE SearchesInv' OBVIOUS
<1>1. RequestsOK' /\ name' \in [Users -> Int \cup {None}] /\ IsFiniteSet(values')
  BY RequestsStep, NamesStep, FiniteStep DEF SearchesInv
<1>2. ASSUME NEW r \in Requests PROVE SearchOK(r)'
  <2>1. RequestsOK /\ SearchOK(r) BY DEF SearchesInv
  <2>2. CASE run'[r] = run[r] BY <2>1, <2>2, SearchStaysOK, StepIs
  <2>3. CASE Arrive(r) BY <2>1, <2>3, ArriveIs DEF SearchOK
  <2>4. CASE Search(r) BY <2>4, SearchKeepsRight
  <2>5. CASE Hierarchy(r) BY <2>1, <2>5, HierarchyIs DEF SearchOK, TreePlaces
  <2>6. CASE Handle(r) BY <2>1, <2>6, HandlerIs DEF SearchOK, OfSearch
  <2> QED BY <2>1, <2>2, <2>3, <2>4, <2>5, <2>6, StepIs
<1> QED BY <1>1, <1>2 DEF SearchesInv

LEMMA SearchesInit == Init /\ SearchesAreSorted => SearchesInv
<1> SUFFICES ASSUME Init, SearchesAreSorted PROVE SearchesInv OBVIOUS
<1>1. /\ scenario \in Scenarios /\ name = scenario.rows.name /\ values = scenario.rows.values
      /\ run = [r \in Requests |-> Waiting]
  BY DEF Init, InitTables
<1>2. RequestsOK BY RequestsInit
<1> QED BY <1>1, <1>2 DEF SearchesInv, SearchOK, OfSearch, Waiting, SearchesAreSorted

\* Whoever a filter by a batch or center of the tenant has found is enrolled there.
LEMMA FoundAreEnrolled ==
    ASSUME NEW o, NEW parent, NEW page, NEW u \in page, u \in buildOptimizedUserQuery(o, parent),
           findDeepestFilter(o.filters) \in Excluded, o.year # None,
           \A c \in Under(o) : TenantOf[c] = o.tenant
    PROVE  \E m \in Enrolled(o, page) : UserOf(m) = u /\ CohortOf(m) \in Under(o)
<1> DEFINE level == findDeepestFilter(o.filters)
           ids == Ids(o.filters, level)
<1>1. PICK m \in Joined : UserOf(m) = u /\ InYear(m, o) /\ CohortFits(CohortOf(m), level, ids)
  BY DEF buildOptimizedUserQuery, Joins
<1>2. CohortOf(m) \in Cohorts BY TablesAssumption DEF Joined, CohortOf
<1>3. CohortOf(m) \in Under(o)
  <2>1. level = "batch" \/ level = "center" BY DEF Excluded
  <2>2. CASE level = "batch" BY <1>1, <2>2 DEF CohortFits, Under
  <2>3. CASE level = "center" BY <1>1, <1>2, <2>3 DEF CohortFits, Under
  <2> QED BY <2>1, <2>2, <2>3
<1> QED BY <1>1, <1>3 DEF Enrolled, InYear

LEMMA SearchAnswer ==
    ASSUME SearchesInv, SearchesAreSorted, [Next]_vars, NEW r \in Requests, OfSearch(r),
           run[r].at # "done", run'[r].at = "done", ~run'[r].failed, r \notin torn,
           NEW q, q = run'[r]
    PROVE  ShowsWhatFound(q) /\ PageIsInPlace(q)
<1>1. RequestsOK /\ DOMAIN run = Requests /\ DOMAIN run[r] = RunFields /\ SearchOK(r)
      /\ run[r].at \in SearchPlaces
  BY DEF SearchesInv, RequestsOK, RequestOK
<1>2. Search(r)
  BY <1>1, StepIs, ArriveIs, HierarchyIs, HandlerIs DEF SearchPlaces, TreePlaces, Waiting
<1>o. PICK o : o = run[r].op OBVIOUS
<1> DEFINE all == buildOptimizedUserQuery(o, q.seen)
<1>3. q.op = o /\ o \in scenario.ops /\ o.name = "search"
  BY <1>1, <1>2, <1>o, SearchIs DEF OfSearch, RequestsOK, RequestOK
<1>p. ASSUME q.page \in Pages(all, o), q.page # {} => q.total = Cardinality(all)
      PROVE  PageIsInPlace(q) /\ q.page \subseteq all
  <2>1. IsFiniteSet(all) /\ (\A u \in all : name[u] \in Int) /\ o.limit \in Nat /\ o.offset \in Nat
    BY <1>3, FoundOK
  <2> HIDE DEF all
  <2>2. SitsIn(q.page, all, o) BY <1>p, <2>1, PagesAreSlices
  <2> QED BY <1>3, <1>p, <2>2 DEF PageIsInPlace, SitsIn, all
<1>4. ~ParentTenant(r) /\ ~getCustomFieldsData(r) /\ ~Batches(r) /\ ~SearchFails(r)
  BY <1>1 DEF ParentTenant, getCustomFieldsData, Batches, SearchFails, Set, RunFields
<1>5. CASE Page(r)
  <2>1. q.page = {} /\ q.page \in Pages(all, o)
    BY <1>1, <1>5, <1>o DEF Page, Set, RunFields
  <2> QED BY <1>p, <2>1 DEF ShowsWhatFound
<1>6. ASSUME Assignments(r) \/ CentersAndReply(r)
      PROVE  /\ Right(r) /\ q.page = run[r].page /\ q.seen = run[r].seen /\ q.total = run[r].total
             /\ q.shown = run[r].shown /\ ~run[r].failed /\ run[r].at \in {"assignments", "centers"}
  <2>1. run[r].at \in {"assignments", "centers"} BY <1>6 DEF Assignments, CentersAndReply, At
  <2>2. Right(r) BY <1>1, <2>1 DEF SearchOK
  <2>3. CASE Assignments(r) BY <1>1, <2>1, <2>2, <2>3 DEF Assignments, Set, RunFields
  <2>4. CASE CentersAndReply(r) BY <1>1, <2>1, <2>2, <2>4 DEF CentersAndReply, Set, RunFields
  <2> QED BY <1>6, <2>3, <2>4
<1>7. ASSUME Right(r), q.page = run[r].page, q.seen = run[r].seen, q.total = run[r].total,
             q.shown = run[r].shown, ~run[r].failed, run[r].at \in {"assignments", "centers"}
      PROVE  PageIsInPlace(q) /\ q.page \subseteq all /\ ShowsField(o, q.page, q.shown)
  BY <1>o, <1>p, <1>7 DEF Right
<1> DEFINE level == findDeepestFilter(o.filters)
           own == {c \in Under(o) : TenantOf[c] = o.tenant /\ c \in Batched \cup Centered}
<1>8. ASSUME q.page \subseteq all, ShowsField(o, q.page, q.shown),
             ASSUME Under(o) = own, o.year # None, level \in Excluded, NEW u \in q.page
             PROVE  \E e \in q.data : e.user = u /\ (e.batch \in own \/ e.center \in own)
      PROVE  ShowsWhatFound(q)
  BY <1>3, <1>8 DEF ShowsWhatFound, ShowsField
<1>9. ASSUME Under(o) = own, o.year # None, level \in Excluded, NEW u \in q.page, q.page \subseteq all
      PROVE  \E m \in Enrolled(o, q.page) : UserOf(m) = u /\ CohortOf(m) \in own
  <2>1. \A c \in Under(o) : TenantOf[c] = o.tenant BY <1>9
  <2>2. u \in all BY <1>9
  <2> QED BY <1>9, <2>1, <2>2, FoundAreEnrolled
<1>10. CASE Assignments(r)
  <2>1. Enrolled(o, q.page) = {}
    BY <1>1, <1>6, <1>10, <1>o DEF Assignments, Set, RunFields, Enrolled
  <2> HIDE DEF own, all
  <2> QED BY <1>6, <1>7, <1>8, <1>9, <1>10, <2>1
<1>11. CASE CentersAndReply(r)
  <2>1. q.data = {Entry(m) : m \in Again(r, Batched)} \cup {Entry(m) : m \in Again(r, Centered)}
    BY <1>1, <1>6, <1>11 DEF CentersAndReply, At, Set, RunFields, Right
  <2>2. run[r].found = Enrolled(o, q.page) BY <1>1, <1>6, <1>11, <1>o DEF CentersAndReply, At, Right
  <2>3. ASSUME NEW m \in Enrolled(o, q.page), CohortOf(m) \in own
        PROVE  \E e \in q.data : e.user = UserOf(m) /\ (e.batch \in own \/ e.center \in own)
    <3>1. CohortOf(m) \in Batched \cup Centered BY <2>3
    <3>2. CASE CohortOf(m) \in Batched
      <4>1. m \in Again(r, Batched) BY <1>o, <2>2, <2>3, <3>2 DEF Again, Enrolled
      <4>2. Entry(m).user = UserOf(m) /\ Entry(m).batch = CohortOf(m) BY <3>2 DEF Entry
      <4> HIDE DEF own
      <4> QED BY <2>1, <2>3, <4>1, <4>2
    <3>3. CASE CohortOf(m) \in Centered /\ CohortOf(m) \notin Batched
      <4>1. m \in Again(r, Centered) BY <1>o, <2>2, <2>3, <3>3 DEF Again, Enrolled
      <4>2. Entry(m).user = UserOf(m) /\ Entry(m).center = CohortOf(m) BY <3>3 DEF Entry
      <4> HIDE DEF own
      <4> QED BY <2>1, <2>3, <4>1, <4>2
    <3> QED BY <3>1, <3>2, <3>3
  <2>4. PageIsInPlace(q) /\ q.page \subseteq all /\ ShowsField(o, q.page, q.shown)
    <3> HIDE DEF own, all, level
    <3> QED BY <1>6, <1>7, <1>11
  <2>5. ASSUME Under(o) = own, o.year # None, level \in Excluded, NEW u \in q.page
        PROVE  \E e \in q.data : e.user = u /\ (e.batch \in own \/ e.center \in own)
    <3> HIDE DEF own, all, level
    <3>1. PICK m \in Enrolled(o, q.page) : UserOf(m) = u /\ CohortOf(m) \in own BY <1>9, <2>4, <2>5
    <3> QED BY <2>3, <3>1
  <2> HIDE DEF own, all, level
  <2> QED BY <1>8, <2>4, <2>5
<1> QED BY <1>2, <1>4, <1>5, <1>10, <1>11 DEF Search

\* Searches: one during which no table was written has the users that belong on its page, and
\* shows each with what found him, although that comes from five later statements
\* (user.service.ts:3893, 4260, 4336).
THEOREM SearchesAreRight == ASSUME SearchesAreSorted PROVE Spec => SearchIsRight
<1>1. SearchesInv /\ [Next]_vars =>
        [\A r \in Requests :
           (/\ run[r].op # None /\ run[r].op.name = "search"
            /\ run[r].at # "done" /\ run'[r].at = "done"
            /\ ~run'[r].failed /\ r \notin torn)
              => ShowsWhatFound(run'[r]) /\ PageIsInPlace(run'[r])]_<<tables, notes, run>>
  BY SearchAnswer DEF OfSearch
<1>2. SearchesInv /\ [Next]_vars => SearchesInv' BY SearchesStep
<1>3. Init => SearchesInv BY SearchesInit
<1> QED BY <1>1, <1>2, <1>3, PTL DEF Spec, SearchIsRight
=============================================================================

-------------------------- MODULE WritePathsProofs --------------------------
(***************************************************************************)
(* Proofs about WritePaths: a read that has finished shows every write     *)
(* that was acknowledged before it began, save for the rows that the       *)
(* handlers of its scenario are known to expose; for every set of users,   *)
(* tenants, readers and writers, and every scenario of PathAssumption.     *)
(*                                                                         *)
(* The argument.  A handler that has written row i and has yet to reply    *)
(* has still ahead of it a bump of each namespace that vouches for i       *)
(* (Ahead); that is read off the path of each handler once (Paths).  So    *)
(* write k of i is Good for namespace n while nobody has been told of a    *)
(* newer one and whoever has written a newer one will bump n, and only a   *)
(* bump of n ends that.  What is in the cache, or on its way there, under  *)
(* a key whose versions are current has only Good writes, and under any    *)
(* key no write older than what its readers have been promised (Told).     *)
(* A list embeds results of nested reads, which have namespaces of their   *)
(* own: FedGood and NestedGood say that what it may take from them is as   *)
(* good for the list as for themselves.  The rest of the invariant is what *)
(* these need: the paths' positions (Types, Sent), who exists (There), who *)
(* is in which tenant (Alone1, Shown), and for whom nested reads are made  *)
(* (Embedded).                                                             *)
(***************************************************************************)
EXTENDS WritePaths, FiniteSetTheorems, SequenceTheorems, TLAPS

-----------------------------------------------------------------------------
(* The path of a handler, from step k on.                                    *)

End(q) == Len(StepsOf(q))

\* Step k of q, or a later one, replies.
Unanswered(q, k) == \E m \in k..End(q) : StepsOf(q)[m].op = "reply"

\* Step m is a bump, and no step from k on has replied before.
BumpsAt(q, k, m) ==
    StepsOf(q)[m].op = "bump" /\ \A j \in k..m : StepsOf(q)[j].op # "reply"

\* From step k on, before it replies, q bumps n ...
WillBump(q, k, n) ==
    \E m \in k..End(q) : BumpsAt(q, k, m) /\ n \in Range(StepsOf(q)[m].ns)

\* ... or the lists of the tenants it has looked up.
WillBumpLists(q, k) ==
    \E m \in k..End(q) : BumpsAt(q, k, m) /\ StepsOf(q)[m].lists

WillLookUp(q, k) == \E m \in k..End(q) : StepsOf(q)[m].op = "lookup"

\* The items of step m of q.
Touched(q, m) ==
    IF StepsOf(q)[m].op \in {"save", "remap"} THEN StepsOf(q)[m].items \cup StepsOf(q)[m].gone
    ELSE {}

\* The handlers that bump the lists of the tenants they look up.
Looking == {"updateUser", "deleteUserById", "createFieldValues"}
\* The items of a user, and those of a user in a tenant.
Personal(i) == i[1] \in {"Users", "FieldValues"}
Tenanted(i) ==
    i[1] \in {"UserTenantMapping", "UserRolesMapping", "CohortMembers", "MemberFieldValues"}

\* The namespaces, but for those of lists, that a handler bumps for item i.
NsOf(i) ==
    CASE i[1] = "Users" -> {User(i[2])}
      [] i[1] = "FieldValues" -> {Ufields(i[2]), Userfilter}
      [] i[1] = "UserTenantMapping" -> {User(i[2]), Usertenant(i[2])}
      [] i[1] = "UserRolesMapping" -> {User(i[2]), Userroles(i[2])}
      [] i[1] = "Fields" -> {Fieldsdef}
      [] OTHER -> {}

OfFields(n) == n[1] \in {"ufields", "userfilter"}
OfList(n) == n[1] = "userlist"

\* What q changes in step m is bumped later, before the reply.
Announced(q, m) == \A i \in Touched(q, m) :
    /\ \A n \in NsOf(i) : WillBump(q, m + 1, n)
    /\ Tenanted(i) /\ i \notin Exposed(q) /\ q[1] # "deleteUserById" =>
        WillBump(q, m + 1, Userlist(i[3]))
    /\ Personal(i) /\ i \notin Exposed(q) =>
        /\ i[2] = q[2]
        /\ \/ q[1] \in Looking /\ WillBumpLists(q, m + 1)
           \/ q[1] = "createUser" /\ i[1] = "Users"
    /\ q[1] = "deleteUserById" => WillBumpLists(q, m + 1) /\ i \in OfUser(q[2], Tenants)
    /\ q[1] \in Looking \ {"deleteUserById"} => WillLookUp(q, m + 1) /\ Personal(i)
    /\ i[1] = "Users" => Named(q) = {i[2]}
    /\ Personal(i) \/ Tenanted(i) \/ i \in Exposed(q)
    /\ q[1] = "createFieldValues" => i = Values(q[2])

\* What each kind of step keeps to.
RemapOK(q, s) ==
    /\ s.user = q[2] /\ q[2] \in Users /\ q[2] \in Named(q)
    /\ s.from \subseteq Tenants /\ s.to \subseteq Tenants
    /\ s.from # {} => q[1] \in {"deleteUserById", "convertRootMapping"}
    /\ s.to # {} => \/ Values(q[2]) \in Exposed(q)
                    \/ q[1] \in {"userTenantMapping", "mapUsersToTenant"} /\ s.to = {q[3]}
    /\ q[1] \notin Looking \ {"deleteUserById"}
    /\ q[1] = "deleteUserById" => s.to = {}

\* Lists are bumped once their tenants are known, never before the values they embed.
BumpOK(q, m, s) ==
    /\ s.ns \in Seq(Namespaces) /\ s.lists \in BOOLEAN
    /\ \/ \A n \in Range(s.ns) : ~OfList(n)
       \/ ~s.lists /\ q[1] \notin Looking /\ \A n \in Range(s.ns) : ~OfFields(n)
    /\ s.lists => /\ q[1] \in Looking /\ ~WillLookUp(q, m)
                  /\ \A n : OfFields(n) => ~WillBump(q, m + 1, n)

StepOK(q, m) ==
    LET s == StepsOf(q)[m] IN
    /\ s.op \in {"save", "remap", "lookup", "bump", "reply"}
    /\ s.op \in {"save", "remap"} =>
        /\ s.items \subseteq Items /\ s.gone \subseteq Items
        /\ q[1] = "deleteUserById" => s.items = {}
    /\ s.op = "remap" => RemapOK(q, s) /\ ~WillLookUp(q, m)
    /\ s.op = "lookup" => /\ s.user = q[2] /\ q[2] \in Users /\ q[1] \in Looking
                          /\ s.quiet <=> q[1] = "createFieldValues"
    /\ s.op = "bump" => BumpOK(q, m, s)
    /\ q[1] = "createUser" => (Person(q[2]) \in Touched(q, m) <=> m = 1)

\* A path on which a proof can rely.
PathOK(q) ==
    /\ End(q) \in Nat
    /\ \A m \in 1..End(q) : StepOK(q, m) /\ Announced(q, m)
    /\ q[1] = "createUser" => End(q) > 0 /\ StepsOf(q)[1] = Save({Person(q[2])}) /\ q[2] \in Users
    /\ q[1] = "deleteUserById" => WillLookUp(q, 1)

-----------------------------------------------------------------------------
(* Sequences put together, and what is in them.                              *)

LEMMA Three1 == ASSUME NEW a, NEW b, NEW c, NEW d PROVE <<a, b, c>> \o <<d>> = <<a, b, c, d>>
<1> DEFINE S == {a, b, c, d}
<1>1. <<a, b, c>> \in Seq(S) /\ <<d>> \in Seq(S) /\ <<a, b, c, d>> \in Seq(S)
  OBVIOUS
<1>2. <<a, b, c>> \o <<d>> \in Seq(S) /\ Len(<<a, b, c>> \o <<d>>) = 4
  BY <1>1
<1>3. \A k \in 1..4 : (<<a, b, c>> \o <<d>>)[k] = <<a, b, c, d>>[k]
  BY <1>1
<1> QED BY <1>1, <1>2, <1>3, SeqEqual

LEMMA Three3 ==
    ASSUME NEW a, NEW b, NEW c, NEW d, NEW e, NEW f
    PROVE  <<a, b, c>> \o <<d, e, f>> = <<a, b, c, d, e, f>>
<1> DEFINE S == {a, b, c, d, e, f}
<1>1. <<a, b, c>> \in Seq(S) /\ <<d, e, f>> \in Seq(S) /\ <<a, b, c, d, e, f>> \in Seq(S)
  OBVIOUS
<1>2. <<a, b, c>> \o <<d, e, f>> \in Seq(S) /\ Len(<<a, b, c>> \o <<d, e, f>>) = 6
  BY <1>1
<1>3. \A k \in 1..6 : (<<a, b, c>> \o <<d, e, f>>)[k] = <<a, b, c, d, e, f>>[k]
  BY <1>1
<1> QED BY <1>1, <1>2, <1>3, SeqEqual

LEMMA Two3 ==
    ASSUME NEW a, NEW b, NEW c, NEW d, NEW e
    PROVE  <<a, b>> \o <<c, d, e>> = <<a, b, c, d, e>>
<1> DEFINE S == {a, b, c, d, e}
<1>1. <<a, b>> \in Seq(S) /\ <<c, d, e>> \in Seq(S) /\ <<a, b, c, d, e>> \in Seq(S)
  OBVIOUS
<1>2. <<a, b>> \o <<c, d, e>> \in Seq(S) /\ Len(<<a, b>> \o <<c, d, e>>) = 5
  BY <1>1
<1>3. \A k \in 1..5 : (<<a, b>> \o <<c, d, e>>)[k] = <<a, b, c, d, e>>[k]
  BY <1>1
<1> QED BY <1>1, <1>2, <1>3, SeqEqual

LEMMA Five3 ==
    ASSUME NEW a, NEW b, NEW c, NEW d, NEW e, NEW f, NEW g, NEW h
    PROVE  <<a, b, c, d, e>> \o <<f, g, h>> = <<a, b, c, d, e, f, g, h>>
<1> DEFINE S == {a, b, c, d, e, f, g, h}
<1>1. <<a, b, c, d, e>> \in Seq(S) /\ <<f, g, h>> \in Seq(S) /\ <<a, b, c, d, e, f, g, h>> \in Seq(S)
  OBVIOUS
<1>2. <<a, b, c, d, e>> \o <<f, g, h>> \in Seq(S) /\ Len(<<a, b, c, d, e>> \o <<f, g, h>>) = 8
  BY <1>1
<1>3. \A k \in 1..8 : (<<a, b, c, d, e>> \o <<f, g, h>>)[k] = <<a, b, c, d, e, f, g, h>>[k]
  BY <1>1
<1> QED BY <1>1, <1>2, <1>3, SeqEqual

-----------------------------------------------------------------------------
(* Steps of a path, kind by kind: each is as StepOK wants it.                *)

\* A bump of step b is ahead of every step before it, if no reply comes first.
LEMMA BumpedBy ==
    ASSUME NEW q, NEW b \in 1..End(q), StepsOf(q)[b].op = "bump",
           \A j \in 1..b : StepsOf(q)[j].op # "reply", NEW m \in Nat, m < b
    PROVE  \A n \in Range(StepsOf(q)[b].ns) : WillBump(q, m + 1, n)
<1>1. b \in (m + 1)..End(q) /\ \A j \in (m + 1)..b : j \in 1..b
  OBVIOUS
<1> QED BY <1>1 DEF WillBump, BumpsAt

LEMMA ListsBumpedBy ==
    ASSUME NEW q, NEW b \in 1..End(q), StepsOf(q)[b].op = "bump", StepsOf(q)[b].lists,
           \A j \in 1..b : StepsOf(q)[j].op # "reply", NEW m \in Nat, m < b
    PROVE  WillBumpLists(q, m + 1)
<1>1. b \in (m + 1)..End(q) /\ \A j \in (m + 1)..b : j \in 1..b
  OBVIOUS
<1> QED BY <1>1 DEF WillBumpLists, BumpsAt

\* The fields of the names of items and namespaces.
LEMMA ItemFields ==
    ASSUME NEW u, NEW t
    PROVE  /\ Person(u)[1] = "Users" /\ Person(u)[2] = u
           /\ Values(u)[1] = "FieldValues" /\ Values(u)[2] = u
           /\ Mapping(u, t)[1] = "UserTenantMapping" /\ Mapping(u, t)[2] = u /\ Mapping(u, t)[3] = t
           /\ Role(u, t)[1] = "UserRolesMapping" /\ Role(u, t)[2] = u /\ Role(u, t)[3] = t
           /\ Member(u, t)[1] = "CohortMembers" /\ Member(u, t)[2] = u /\ Member(u, t)[3] = t
           /\ MemberValues(u, t)[1] = "MemberFieldValues" /\ MemberValues(u, t)[2] = u
           /\ MemberValues(u, t)[3] = t
           /\ Definitions[1] = "Fields"
BY DEF Person, Values, Mapping, Role, Member, MemberValues, Definitions

LEMMA ItemNs ==
    ASSUME NEW u, NEW t
    PROVE  /\ NsOf(Person(u)) = {User(u)}
           /\ NsOf(Values(u)) = {Ufields(u), Userfilter}
           /\ NsOf(Mapping(u, t)) = {User(u), Usertenant(u)}
           /\ NsOf(Role(u, t)) = {User(u), Userroles(u)}
           /\ NsOf(Member(u, t)) = {}
           /\ NsOf(MemberValues(u, t)) = {}
           /\ NsOf(Definitions) = {Fieldsdef}
           /\ Personal(Person(u)) /\ Personal(Values(u)) /\ ~Personal(Mapping(u, t))
           /\ ~Personal(Role(u, t)) /\ ~Personal(Member(u, t)) /\ ~Personal(MemberValues(u, t))
           /\ ~Personal(Definitions)
           /\ ~Tenanted(Person(u)) /\ ~Tenanted(Values(u)) /\ ~Tenanted(Definitions)
           /\ Tenanted(Mapping(u, t)) /\ Tenanted(Role(u, t)) /\ Tenanted(Member(u, t))
           /\ Tenanted(MemberValues(u, t))
BY ItemFields DEF NsOf, Personal, Tenanted

LEMMA Range1 == ASSUME NEW a PROVE Range(<<a>>) = {a}
BY DEF Range

LEMMA Range2 == ASSUME NEW a, NEW b PROVE Range(<<a, b>>) = {a, b}
BY DEF Range

LEMMA Range3 == ASSUME NEW a, NEW b, NEW c PROVE Range(<<a, b, c>>) = {a, b, c}
BY DEF Range

LEMMA Range4 == ASSUME NEW a, NEW b, NEW c, NEW d PROVE Range(<<a, b, c, d>>) = {a, b, c, d}
BY DEF Range

LEMMA Range5 ==
    ASSUME NEW a, NEW b, NEW c, NEW d, NEW e
    PROVE  Range(<<a, b, c, d, e>>) = {a, b, c, d, e}
BY DEF Range

LEMMA SaveOK ==
    ASSUME NEW q, NEW m, NEW S \in SUBSET Items, StepsOf(q)[m] = Save(S),
           q[1] # "deleteUserById", q[1] = "createUser" => (Person(q[2]) \in S <=> m = 1)
    PROVE  StepOK(q, m)
BY DEF StepOK, Touched, Save

LEMMA DeleteOK ==
    ASSUME NEW q, NEW m, NEW S \in SUBSET Items, StepsOf(q)[m] = Delete(S), q[1] # "createUser"
    PROVE  StepOK(q, m)
BY DEF StepOK, Touched, Delete

LEMMA RemapIsOK ==
    ASSUME NEW q, NEW m, NEW u \in Users, NEW F \in SUBSET Tenants, NEW T \in SUBSET Tenants,
           StepsOf(q)[m] = Remap(u, F, T), q[2] = u, u \in Named(q),
           q[1] \notin Looking \ {"deleteUserById"},
           q[1] = "deleteUserById" => T = {},
           F # {} => q[1] \in {"deleteUserById", "convertRootMapping"},
           T # {} => \/ Values(u) \in Exposed(q)
                     \/ q[1] \in {"userTenantMapping", "mapUsersToTenant"} /\ T = {q[3]},
           q[1] = "createUser" => m # 1, ~WillLookUp(q, m)
    PROVE  /\ StepOK(q, m) /\ StepsOf(q)[m].op = "remap"
           /\ Touched(q, m) = MappingsOf(u, T) \cup MappingsOf(u, F)
<1>1. /\ StepsOf(q)[m].op = "remap" /\ StepsOf(q)[m].user = u /\ StepsOf(q)[m].from = F
      /\ StepsOf(q)[m].to = T /\ StepsOf(q)[m].items = MappingsOf(u, T)
      /\ StepsOf(q)[m].gone = MappingsOf(u, F)
  BY DEF Remap
<1>2. MappingsOf(u, T) \subseteq Items /\ MappingsOf(u, F) \subseteq Items
  BY DEF MappingsOf, Items, OfUser, OfTenant
<1>3. Person(u) \notin MappingsOf(u, T) \cup MappingsOf(u, F)
  BY ItemFields DEF MappingsOf
<1>4. RemapOK(q, StepsOf(q)[m])
  BY <1>1 DEF RemapOK
<1>5. q[1] = "deleteUserById" => StepsOf(q)[m].items = {}
  BY <1>1 DEF MappingsOf
<1> QED BY <1>1, <1>2, <1>3, <1>4, <1>5 DEF StepOK, Touched

LEMMA LookupOK ==
    ASSUME NEW q, NEW m, NEW u \in Users, q[2] = u, q[1] \in Looking,
           \/ StepsOf(q)[m] = Lookup(u) /\ q[1] # "createFieldValues"
           \/ StepsOf(q)[m] = getUserTenantIds(u) /\ q[1] = "createFieldValues"
    PROVE  StepOK(q, m) /\ StepsOf(q)[m].op = "lookup" /\ Touched(q, m) = {}
<1>1. StepsOf(q)[m].op = "lookup" /\ StepsOf(q)[m].user = u
  BY DEF Lookup, getUserTenantIds
<1>2. StepsOf(q)[m].quiet <=> q[1] = "createFieldValues"
  BY DEF Lookup, getUserTenantIds
<1>3. q[1] # "createUser" /\ Touched(q, m) = {}
  BY <1>1 DEF Looking, Touched
<1> QED BY <1>1, <1>2, <1>3 DEF StepOK

LEMMA BumpIsOK ==
    ASSUME NEW q, NEW m, NEW b \in Seq(Namespaces), StepsOf(q)[m] = Bump(b),
           \/ \A n \in Range(b) : ~OfList(n)
           \/ q[1] \notin Looking /\ \A n \in Range(b) : ~OfFields(n),
           q[1] = "createUser" => m # 1
    PROVE  /\ StepOK(q, m) /\ StepsOf(q)[m].op = "bump" /\ Touched(q, m) = {}
           /\ StepsOf(q)[m].ns = b
<1>1. StepsOf(q)[m].op = "bump" /\ StepsOf(q)[m].ns = b /\ StepsOf(q)[m].lists = FALSE
  BY DEF Bump
<1>2. BumpOK(q, m, StepsOf(q)[m])
  BY <1>1 DEF BumpOK
<1> QED BY <1>1, <1>2 DEF StepOK, Touched

LEMMA ListsOK ==
    ASSUME NEW q, NEW m, NEW b \in Seq(Namespaces), StepsOf(q)[m] = BumpLists(b),
           \A n \in Range(b) : ~OfList(n), q[1] \in Looking, ~WillLookUp(q, m),
           \A n : OfFields(n) => ~WillBump(q, m + 1, n)
    PROVE  /\ StepOK(q, m) /\ StepsOf(q)[m].op = "bump" /\ Touched(q, m) = {}
           /\ StepsOf(q)[m].ns = b /\ StepsOf(q)[m].lists
<1>1. StepsOf(q)[m].op = "bump" /\ StepsOf(q)[m].ns = b /\ StepsOf(q)[m].lists = TRUE
  BY DEF BumpLists
<1>2. BumpOK(q, m, StepsOf(q)[m])
  BY <1>1 DEF BumpOK
<1> QED BY <1>1, <1>2 DEF StepOK, Touched, Looking

LEMMA ReplyOK ==
    ASSUME NEW q, NEW m, StepsOf(q)[m] = Reply, q[1] = "createUser" => m # 1
    PROVE  StepOK(q, m) /\ StepsOf(q)[m].op = "reply" /\ Touched(q, m) = {}
BY DEF StepOK, Touched, Reply

\* A handler that bumps once, after all it saves, announces them all.
LEMMA OneBatch ==
    ASSUME NEW q, q[1] \notin Looking, NEW b \in 1..End(q), End(q) \in Nat, StepsOf(q)[b].op = "bump",
           \A j \in 1..b : StepsOf(q)[j].op # "reply",
           \A m \in 1..End(q) : \A i \in Touched(q, m) :
              /\ m < b \/ (NsOf(i) = {} /\ i \in Exposed(q))
              /\ NsOf(i) \subseteq Range(StepsOf(q)[b].ns)
              /\ Tenanted(i) /\ i \notin Exposed(q) => Userlist(i[3]) \in Range(StepsOf(q)[b].ns)
              /\ Personal(i) => i \in Exposed(q)
              /\ i[1] # "Users"
              /\ Personal(i) \/ Tenanted(i) \/ i \in Exposed(q)
    PROVE  \A m \in 1..End(q) : Announced(q, m)
<1> SUFFICES ASSUME NEW m \in 1..End(q), NEW i \in Touched(q, m)
             PROVE  /\ \A n \in NsOf(i) : WillBump(q, m + 1, n)
                    /\ Tenanted(i) /\ i \notin Exposed(q) => WillBump(q, m + 1, Userlist(i[3]))
  BY DEF Announced, Looking
<1>1. m < b => \A n \in Range(StepsOf(q)[b].ns) : WillBump(q, m + 1, n)
  BY BumpedBy
<1> QED BY <1>1

\* What the names stand for, once and for all users and tenants.
LEMMA NamespacesAre ==
    /\ Userfilter \in Namespaces /\ Fieldsdef \in Namespaces
    /\ \A u \in Users : /\ User(u) \in Namespaces /\ Ufields(u) \in Namespaces
                        /\ Usertenant(u) \in Namespaces /\ Userroles(u) \in Namespaces
    /\ \A t \in Tenants : Userlist(t) \in Namespaces /\ Cohortmember(t) \in Namespaces
BY DEF Namespaces

LEMMA NsKinds ==
    ASSUME NEW u
    PROVE  /\ OfFields(Userfilter) /\ OfFields(Ufields(u)) /\ OfList(Userlist(u))
           /\ ~OfList(Userfilter) /\ ~OfList(Ufields(u)) /\ ~OfFields(Userlist(u))
           /\ ~OfList(User(u)) /\ ~OfList(Usertenant(u)) /\ ~OfList(Userroles(u))
           /\ ~OfList(Cohortmember(u)) /\ ~OfList(Fieldsdef)
           /\ ~OfFields(User(u)) /\ ~OfFields(Usertenant(u)) /\ ~OfFields(Userroles(u))
           /\ ~OfFields(Cohortmember(u)) /\ ~OfFields(Fieldsdef)
BY DEF OfFields, OfList, Userfilter, Ufields, Userlist, User, Usertenant, Userroles, Cohortmember,
       Fieldsdef

LEMMA ItemsAre ==
    /\ Definitions \in Items
    /\ \A u \in Users : Person(u) \in Items /\ Values(u) \in Items
    /\ \A u \in Users, t \in Tenants :
           /\ Mapping(u, t) \in Items /\ Role(u, t) \in Items
           /\ Member(u, t) \in Items /\ MemberValues(u, t) \in Items
    /\ \A u \in Users, T \in SUBSET Tenants :
           /\ MappingsOf(u, T) \subseteq Items /\ RolesOf(u, T) \subseteq Items
           /\ MembersOf(u, T) \subseteq Items
<1>1. /\ Definitions \in Items
      /\ \A u \in Users : Person(u) \in Items /\ Values(u) \in Items
  BY DEF Items, OfUser
<1>2. ASSUME NEW u \in Users, NEW t \in Tenants
      PROVE  OfTenant(u, t) \subseteq Items
  BY DEF Items, OfUser
<1>3. \A u \in Users, t \in Tenants :
           /\ Mapping(u, t) \in Items /\ Role(u, t) \in Items
           /\ Member(u, t) \in Items /\ MemberValues(u, t) \in Items
  BY <1>2 DEF OfTenant
<1> QED BY <1>1, <1>3 DEF MappingsOf, RolesOf, MembersOf

LEMMA NotPerson ==
    ASSUME NEW u, NEW v, NEW t, NEW T
    PROVE  /\ Person(u) # Values(v) /\ Person(u) # Member(v, t) /\ Person(u) # MemberValues(v, t)
           /\ Person(u) # Mapping(v, t) /\ Person(u) # Role(v, t) /\ Person(u) # Definitions
           /\ Person(u) \notin RolesOf(v, T) /\ Person(u) \notin MappingsOf(v, T)
BY ItemFields DEF RolesOf, MappingsOf

LEMMA NoBatch ==
    ASSUME NEW q, q[1] \notin Looking,
           \A m \in 1..End(q) : \A i \in Touched(q, m) :
              NsOf(i) = {} /\ i \in Exposed(q) /\ ~Personal(i)
    PROVE  \A m \in 1..End(q) : Announced(q, m)
BY DEF Announced, Looking, Personal

-----------------------------------------------------------------------------
(* The path of each handler: its length, and each of its steps.              *)

LEMMA UserTenantMappingPath ==
    ASSUME NEW u \in Users, NEW t \in Tenants, NEW q, q[1] = "userTenantMapping", q[2] = u, q[3] = t,
           Len(StepsOf(q)) = 4,
           StepsOf(q)[1] = Save(RolesOf(u, {t})),
           StepsOf(q)[2] = Remap(u, {}, {t}),
           NEW b \in Seq(Namespaces), Range(b) = {User(u), Usertenant(u), Userroles(u), Userlist(t)},
           StepsOf(q)[3] = Bump(b),
           StepsOf(q)[4] = Reply
    PROVE  PathOK(q)
<1>1. End(q) = 4 /\ q[1] # "createUser" /\ q[1] \notin Looking
  BY DEF End, Looking
<1>2. /\ Touched(q, 1) = RolesOf(u, {t})
      /\ Touched(q, 2) = MappingsOf(u, {t}) \cup MappingsOf(u, {})
      /\ Touched(q, 3) = {} /\ StepsOf(q)[3].op = "bump" /\ StepsOf(q)[3].ns = b
      /\ Touched(q, 4) = {}
      /\ \A j \in 1..3 : StepsOf(q)[j].op # "reply"
  BY DEF Touched, Bump, Remap, Reply, Save
<1>3. StepOK(q, 1)
  BY <1>1, SaveOK, ItemsAre
<1>4. StepOK(q, 2)
  <2>1. ~WillLookUp(q, 2)
    BY <1>1 DEF WillLookUp, Bump, Remap, Reply, Save
  <2>2. /\ {t} \in SUBSET Tenants /\ {} \in SUBSET Tenants /\ {t} = {q[3]}
        /\ q[1] \in {"userTenantMapping", "mapUsersToTenant"}
        /\ q[1] # "deleteUserById" /\ q[1] \notin Looking \ {"deleteUserById"}
    BY <1>1
  <2>3. u \in Named(q)
    BY DEF Named
  <2> QED BY <1>1, <2>1, <2>2, <2>3, RemapIsOK
<1>5. StepOK(q, 3)
  <2>1. \A n \in Range(b) : ~OfFields(n)
    BY NsKinds
  <2> QED BY <1>1, <2>1, BumpIsOK
<1>6. StepOK(q, 4)
  BY <1>1, ReplyOK
<1>7. \A m \in 1..End(q) : Announced(q, m)
  <2>1. ASSUME NEW m \in 1..End(q), NEW i \in Touched(q, m)
        PROVE  m < 3 /\ (i = Role(u, t) \/ i = Mapping(u, t))
    BY <1>1, <1>2 DEF RolesOf, MappingsOf
  <2>3. ASSUME NEW m \in 1..End(q), NEW i \in Touched(q, m)
        PROVE  /\ m < 3
               /\ NsOf(i) \subseteq Range(b)
               /\ Tenanted(i) /\ i \notin Exposed(q) => Userlist(i[3]) \in Range(b)
               /\ Personal(i) => i \in Exposed(q)
               /\ i[1] # "Users"
               /\ Personal(i) \/ Tenanted(i) \/ i \in Exposed(q)
    BY <2>1, ItemNs, ItemFields
  <2> QED BY <2>3, <1>1, <1>2, OneBatch
<1> QED BY <1>1, <1>3, <1>4, <1>5, <1>6, <1>7 DEF PathOK

LEMMA ConvertRootMappingPath ==
    ASSUME NEW u \in Users, NEW f \in Tenants, NEW t \in Tenants,
           NEW q, q[1] = "convertRootMapping", q[2] = u, q[3] = f, q[4] = t,
           Len(StepsOf(q)) = 4,
           StepsOf(q)[1] = Save(RolesOf(u, {f} \cup {t})),
           StepsOf(q)[2] = Remap(u, {f}, {t}),
           NEW b \in Seq(Namespaces), Range(b) = {User(u), Usertenant(u), Userroles(u), Userlist(t)},
           StepsOf(q)[3] = Bump(b),
           StepsOf(q)[4] = Reply
    PROVE  PathOK(q)
<1>1. End(q) = 4 /\ q[1] # "createUser" /\ q[1] \notin Looking
  BY DEF End, Looking
<1>2. /\ Touched(q, 1) = RolesOf(u, {f} \cup {t})
      /\ Touched(q, 2) = MappingsOf(u, {t}) \cup MappingsOf(u, {f})
      /\ Touched(q, 3) = {} /\ StepsOf(q)[3].op = "bump" /\ StepsOf(q)[3].ns = b
      /\ Touched(q, 4) = {}
      /\ \A j \in 1..3 : StepsOf(q)[j].op # "reply"
  <2>1. Touched(q, 1) = RolesOf(u, {f} \cup {t}) /\ StepsOf(q)[1].op = "save"
    <3>1. /\ StepsOf(q)[1].op = "save" /\ StepsOf(q)[1].items = RolesOf(u, {f} \cup {t})
          /\ StepsOf(q)[1].gone = {}
      BY ONLY StepsOf(q)[1] = Save(RolesOf(u, {f} \cup {t})) DEF Save
    <3> QED BY ONLY <3>1 DEF Touched
  <2>2. Touched(q, 2) = MappingsOf(u, {t}) \cup MappingsOf(u, {f}) /\ StepsOf(q)[2].op = "remap"
    BY ONLY StepsOf(q)[2] = Remap(u, {f}, {t}) DEF Touched, Remap
  <2>3. Touched(q, 3) = {} /\ StepsOf(q)[3].op = "bump" /\ StepsOf(q)[3].ns = b /\ Touched(q, 4) = {}
    BY ONLY StepsOf(q)[3] = Bump(b), StepsOf(q)[4] = Reply DEF Touched, Bump, Reply
  <2>4. StepsOf(q)[1].op = "save" /\ StepsOf(q)[2].op = "remap" /\ StepsOf(q)[3].op = "bump"
    BY <2>1, <2>2, <2>3
  <2>5. \A j \in 1..3 : StepsOf(q)[j].op # "reply"
    BY ONLY <2>4
  <2> QED BY <2>1, <2>2, <2>3, <2>5, Zenon
<1>3. StepOK(q, 1)
  BY <1>1, SaveOK, ItemsAre
<1>4. StepOK(q, 2)
  <2>1. ~WillLookUp(q, 2)
    BY <1>1 DEF WillLookUp, Bump, Remap, Reply, Save
  <2>2. /\ {t} \in SUBSET Tenants /\ {f} \in SUBSET Tenants /\ Values(u) \in Exposed(q)
        /\ q[1] # "deleteUserById" /\ q[1] \notin Looking \ {"deleteUserById"}
    BY <1>1 DEF Exposed, OfUser
  <2>3. u \in Named(q)
    BY DEF Named
  <2> QED BY <1>1, <2>1, <2>2, <2>3, RemapIsOK
<1>5. StepOK(q, 3)
  <2>1. \A n \in Range(b) : ~OfFields(n)
    BY NsKinds
  <2> QED BY <1>1, <2>1, BumpIsOK
<1>6. StepOK(q, 4)
  BY <1>1, ReplyOK
<1>7. \A m \in 1..End(q) : Announced(q, m)
  <2>1. ASSUME NEW m \in 1..End(q), NEW i \in Touched(q, m)
        PROVE  m < 3 /\ (\E s \in Tenants : (i = Role(u, s) \/ i = Mapping(u, s)) /\ (s = t \/ s = f))
    BY <1>1, <1>2 DEF RolesOf, MappingsOf
  <2>2. Role(u, f) \in Exposed(q) /\ Mapping(u, f) \in Exposed(q)
    BY DEF Exposed, OfUser, OfTenant
  <2>3. ASSUME NEW m \in 1..End(q), NEW i \in Touched(q, m)
        PROVE  /\ m < 3
               /\ NsOf(i) \subseteq Range(b)
               /\ Tenanted(i) /\ i \notin Exposed(q) => Userlist(i[3]) \in Range(b)
               /\ Personal(i) => i \in Exposed(q)
               /\ i[1] # "Users"
               /\ Personal(i) \/ Tenanted(i) \/ i \in Exposed(q)
    BY <2>1, <2>2, ItemNs, ItemFields
  <2> QED BY <2>3, <1>1, <1>2, OneBatch
<1> QED BY <1>1, <1>3, <1>4, <1>5, <1>6, <1>7 DEF PathOK

LEMMA UpdateAssignTenantStatusPath ==
    ASSUME NEW u \in Users, NEW t \in Tenants, NEW q, q[1] = "updateAssignTenantStatus", q[2] = u, q[3] = t,
           Len(StepsOf(q)) = 3,
           StepsOf(q)[1] = Save({Mapping(u, t)}),
           NEW b \in Seq(Namespaces), Range(b) = {User(u), Usertenant(u), Userlist(t)},
           StepsOf(q)[2] = Bump(b),
           StepsOf(q)[3] = Reply
    PROVE  PathOK(q)
<1>1. End(q) = 3 /\ q[1] # "createUser" /\ q[1] \notin Looking
  BY DEF End, Looking
<1>2. /\ Touched(q, 1) = {Mapping(u, t)}
      /\ Touched(q, 2) = {} /\ StepsOf(q)[2].op = "bump" /\ StepsOf(q)[2].ns = b
      /\ Touched(q, 3) = {}
      /\ \A j \in 1..2 : StepsOf(q)[j].op # "reply"
  BY DEF Touched, Bump, Reply, Save
<1>3. StepOK(q, 1)
  BY <1>1, SaveOK, ItemsAre
<1>4. StepOK(q, 2)
  <2>1. \A n \in Range(b) : ~OfFields(n)
    BY NsKinds
  <2> QED BY <1>1, <2>1, BumpIsOK
<1>5. StepOK(q, 3)
  BY <1>1, ReplyOK
<1>6. \A m \in 1..End(q) : Announced(q, m)
  <2>1. ASSUME NEW m \in 1..End(q), NEW i \in Touched(q, m)
        PROVE  m < 2 /\ (i = Mapping(u, t))
    BY <1>1, <1>2 DEF RolesOf, MappingsOf
  <2>3. ASSUME NEW m \in 1..End(q), NEW i \in Touched(q, m)
        PROVE  /\ m < 2
               /\ NsOf(i) \subseteq Range(b)
               /\ Tenanted(i) /\ i \notin Exposed(q) => Userlist(i[3]) \in Range(b)
               /\ Personal(i) => i \in Exposed(q)
               /\ i[1] # "Users"
               /\ Personal(i) \/ Tenanted(i) \/ i \in Exposed(q)
    BY <2>1, ItemNs, ItemFields
  <2> QED BY <2>3, <1>1, <1>2, OneBatch
<1> QED BY <1>1, <1>3, <1>4, <1>5, <1>6 DEF PathOK

LEMMA CreateAssignRolePath ==
    ASSUME NEW u \in Users, NEW t \in Tenants, NEW q, q[1] = "createAssignRole", q[2] = u, q[3] = t,
           Len(StepsOf(q)) = 4,
           StepsOf(q)[1] = Save({Role(u, t)}),
           StepsOf(q)[2] = Save({Role(u, t)}),
           NEW b \in Seq(Namespaces), Range(b) = {User(u), Userroles(u), Userlist(t)},
           StepsOf(q)[3] = Bump(b),
           StepsOf(q)[4] = Reply
    PROVE  PathOK(q)
<1>1. End(q) = 4 /\ q[1] # "createUser" /\ q[1] \notin Looking
  BY DEF End, Looking
<1>2. /\ Touched(q, 1) = {Role(u, t)}
      /\ Touched(q, 2) = {Role(u, t)}
      /\ Touched(q, 3) = {} /\ StepsOf(q)[3].op = "bump" /\ StepsOf(q)[3].ns = b
      /\ Touched(q, 4) = {}
      /\ \A j \in 1..3 : StepsOf(q)[j].op # "reply"
  BY DEF Touched, Bump, Reply, Save
<1>3. StepOK(q, 1)
  BY <1>1, SaveOK, ItemsAre
<1>4. StepOK(q, 2)
  BY <1>1, SaveOK, ItemsAre
<1>5. StepOK(q, 3)
  <2>1. \A n \in Range(b) : ~OfFields(n)
    BY NsKinds
  <2> QED BY <1>1, <2>1, BumpIsOK
<1>6. StepOK(q, 4)
  BY <1>1, ReplyOK
<1>7. \A m \in 1..End(q) : Announced(q, m)
  <2>1. ASSUME NEW m \in 1..End(q), NEW i \in Touched(q, m)
        PROVE  m < 3 /\ (i = Role(u, t))
    BY <1>1, <1>2 DEF RolesOf, MappingsOf
  <2>3. ASSUME NEW m \in 1..End(q), NEW i \in Touched(q, m)
        PROVE  /\ m < 3
               /\ NsOf(i) \subseteq Range(b)
               /\ Tenanted(i) /\ i \notin Exposed(q) => Userlist(i[3]) \in Range(b)
               /\ Personal(i) => i \in Exposed(q)
               /\ i[1] # "Users"
               /\ Personal(i) \/ Tenanted(i) \/ i \in Exposed(q)
    BY <2>1, ItemNs, ItemFields
  <2> QED BY <2>3, <1>1, <1>2, OneBatch
<1> QED BY <1>1, <1>3, <1>4, <1>5, <1>6, <1>7 DEF PathOK

LEMMA DeleteAssignedRolePath ==
    ASSUME NEW u \in Users, NEW t \in Tenants, NEW q, q[1] = "deleteAssignedRole", q[2] = u, q[3] = t,
           Len(StepsOf(q)) = 3,
           StepsOf(q)[1] = Save({Role(u, t)}),
           NEW b \in Seq(Namespaces), Range(b) = {User(u), Userroles(u), Userlist(t)},
           StepsOf(q)[2] = Bump(b),
           StepsOf(q)[3] = Reply
    PROVE  PathOK(q)
<1>1. End(q) = 3 /\ q[1] # "createUser" /\ q[1] \notin Looking
  BY DEF End, Looking
<1>2. /\ Touched(q, 1) = {Role(u, t)}
      /\ Touched(q, 2) = {} /\ StepsOf(q)[2].op = "bump" /\ StepsOf(q)[2].ns = b
      /\ Touched(q, 3) = {}
      /\ \A j \in 1..2 : StepsOf(q)[j].op # "reply"
  BY DEF Touched, Bump, Reply, Save
<1>3. StepOK(q, 1)
  BY <1>1, SaveOK, ItemsAre
<1>4. StepOK(q, 2)
  <2>1. \A n \in Range(b) : ~OfFields(n)
    BY NsKinds
  <2> QED BY <1>1, <2>1, BumpIsOK
<1>5. StepOK(q, 3)
  BY <1>1, ReplyOK
<1>6. \A m \in 1..End(q) : Announced(q, m)
  <2>1. ASSUME NEW m \in 1..End(q), NEW i \in Touched(q, m)
        PROVE  m < 2 /\ (i = Role(u, t))
    BY <1>1, <1>2 DEF RolesOf, MappingsOf
  <2>3. ASSUME NEW m \in 1..End(q), NEW i \in Touched(q, m)
        PROVE  /\ m < 2
               /\ NsOf(i) \subseteq Range(b)
               /\ Tenanted(i) /\ i \notin Exposed(q) => Userlist(i[3]) \in Range(b)
               /\ Personal(i) => i \in Exposed(q)
               /\ i[1] # "Users"
               /\ Personal(i) \/ Tenanted(i) \/ i \in Exposed(q)
    BY <2>1, ItemNs, ItemFields
  <2> QED BY <2>3, <1>1, <1>2, OneBatch
<1> QED BY <1>1, <1>3, <1>4, <1>5, <1>6 DEF PathOK

LEMMA CreateCohortMembersPath ==
    ASSUME NEW u \in Users, NEW t \in Tenants, NEW q, q[1] = "createCohortMembers", q[2] = u, q[3] = t,
           Len(StepsOf(q)) = 2,
           StepsOf(q)[1] = Save({Member(u, t)}),
           StepsOf(q)[2] = Reply
    PROVE  PathOK(q)
<1>1. End(q) = 2 /\ q[1] # "createUser" /\ q[1] \notin Looking
  BY DEF End, Looking
<1>2. /\ Touched(q, 1) = {Member(u, t)}
      /\ Touched(q, 2) = {}
  BY DEF Touched, Reply, Save
<1>3. StepOK(q, 1)
  BY <1>1, SaveOK, ItemsAre
<1>4. StepOK(q, 2)
  BY <1>1, ReplyOK
<1>5. \A m \in 1..End(q) : Announced(q, m)
  <2>1. ASSUME NEW m \in 1..End(q), NEW i \in Touched(q, m) PROVE i = Member(u, t)
    BY <1>1, <1>2
  <2>2. Member(u, t) \in Exposed(q)
    BY DEF Exposed
  <2> QED BY <2>1, <2>2, <1>1, ItemNs, NoBatch
<1> QED BY <1>1, <1>3, <1>4, <1>5 DEF PathOK

LEMMA CreateBulkCohortMembersPath ==
    ASSUME NEW u \in Users, NEW t \in Tenants, NEW q, q[1] = "createBulkCohortMembers", q[2] = u, q[3] = t,
           Len(StepsOf(q)) = 3,
           StepsOf(q)[1] = Save({Member(u, t)}),
           StepsOf(q)[2] = Reply,
           NEW b \in Seq(Namespaces), Range(b) = {User(u), Cohortmember(t), Userlist(t)},
           StepsOf(q)[3] = Bump(b)
    PROVE  PathOK(q)
<1>1. End(q) = 3 /\ q[1] # "createUser" /\ q[1] \notin Looking
  BY DEF End, Looking
<1>2. /\ Touched(q, 1) = {Member(u, t)}
      /\ Touched(q, 2) = {}
      /\ Touched(q, 3) = {} /\ StepsOf(q)[3].op = "bump" /\ StepsOf(q)[3].ns = b
  BY DEF Touched, Bump, Reply, Save
<1>3. StepOK(q, 1)
  BY <1>1, SaveOK, ItemsAre
<1>4. StepOK(q, 2)
  BY <1>1, ReplyOK
<1>5. StepOK(q, 3)
  <2>1. \A n \in Range(b) : ~OfFields(n)
    BY NsKinds
  <2> QED BY <1>1, <2>1, BumpIsOK
<1>6. \A m \in 1..End(q) : Announced(q, m)
  <2>1. ASSUME NEW m \in 1..End(q), NEW i \in Touched(q, m) PROVE i = Member(u, t)
    BY <1>1, <1>2
  <2>2. Member(u, t) \in Exposed(q)
    BY DEF Exposed
  <2> QED BY <2>1, <2>2, <1>1, ItemNs, NoBatch
<1> QED BY <1>1, <1>3, <1>4, <1>5, <1>6 DEF PathOK

LEMMA UpdateCohortMembersPath ==
    ASSUME NEW u \in Users, NEW t \in Tenants, NEW q, q[1] = "updateCohortMembers", q[2] = u, q[3] = t,
           Len(StepsOf(q)) = 4,
           StepsOf(q)[1] = Save({Member(u, t)}),
           NEW b \in Seq(Namespaces), Range(b) = {Cohortmember(t), Userlist(t)},
           StepsOf(q)[2] = Bump(b),
           StepsOf(q)[3] = Save({MemberValues(u, t)}),
           StepsOf(q)[4] = Reply
    PROVE  PathOK(q)
<1>1. End(q) = 4 /\ q[1] # "createUser" /\ q[1] \notin Looking
  BY DEF End, Looking
<1>2. /\ Touched(q, 1) = {Member(u, t)}
      /\ Touched(q, 2) = {} /\ StepsOf(q)[2].op = "bump" /\ StepsOf(q)[2].ns = b
      /\ Touched(q, 3) = {MemberValues(u, t)}
      /\ Touched(q, 4) = {}
      /\ \A j \in 1..2 : StepsOf(q)[j].op # "reply"
  BY DEF Touched, Bump, Reply, Save
<1>3. StepOK(q, 1)
  BY <1>1, SaveOK, ItemsAre
<1>4. StepOK(q, 2)
  <2>1. \A n \in Range(b) : ~OfFields(n)
    BY NsKinds
  <2> QED BY <1>1, <2>1, BumpIsOK
<1>5. StepOK(q, 3)
  BY <1>1, SaveOK, ItemsAre
<1>6. StepOK(q, 4)
  BY <1>1, ReplyOK
<1>7. \A m \in 1..End(q) : Announced(q, m)
  <2>1. ASSUME NEW m \in 1..End(q), NEW i \in Touched(q, m)
        PROVE  (m < 2 /\ (i = Member(u, t))) \/ i = MemberValues(u, t)
    BY <1>1, <1>2 DEF RolesOf, MappingsOf
  <2>2. MemberValues(u, t) \in Exposed(q)
    BY DEF Exposed
  <2>3. ASSUME NEW m \in 1..End(q), NEW i \in Touched(q, m)
        PROVE  /\ m < 2 \/ (NsOf(i) = {} /\ i \in Exposed(q))
               /\ NsOf(i) \subseteq Range(b)
               /\ Tenanted(i) /\ i \notin Exposed(q) => Userlist(i[3]) \in Range(b)
               /\ Personal(i) => i \in Exposed(q)
               /\ i[1] # "Users"
               /\ Personal(i) \/ Tenanted(i) \/ i \in Exposed(q)
    BY <2>1, <2>2, ItemNs, ItemFields
  <2> QED BY <2>3, <1>1, <1>2, OneBatch
<1> QED BY <1>1, <1>3, <1>4, <1>5, <1>6, <1>7 DEF PathOK

LEMMA DeleteCohortMemberByIdPath ==
    ASSUME NEW u \in Users, NEW t \in Tenants, NEW q, q[1] = "deleteCohortMemberById", q[2] = u, q[3] = t,
           Len(StepsOf(q)) = 3,
           StepsOf(q)[1] = Save({Member(u, t)}),
           NEW b \in Seq(Namespaces), Range(b) = {Cohortmember(t), Userlist(t)},
           StepsOf(q)[2] = Bump(b),
           StepsOf(q)[3] = Reply
    PROVE  PathOK(q)
<1>1. End(q) = 3 /\ q[1] # "createUser" /\ q[1] \notin Looking
  BY DEF End, Looking
<1>2. /\ Touched(q, 1) = {Member(u, t)}
      /\ Touched(q, 2) = {} /\ StepsOf(q)[2].op = "bump" /\ StepsOf(q)[2].ns = b
      /\ Touched(q, 3) = {}
      /\ \A j \in 1..2 : StepsOf(q)[j].op # "reply"
  BY DEF Touched, Bump, Reply, Save
<1>3. StepOK(q, 1)
  BY <1>1, SaveOK, ItemsAre
<1>4. StepOK(q, 2)
  <2>1. \A n \in Range(b) : ~OfFields(n)
    BY NsKinds
  <2> QED BY <1>1, <2>1, BumpIsOK
<1>5. StepOK(q, 3)
  BY <1>1, ReplyOK
<1>6. \A m \in 1..End(q) : Announced(q, m)
  <2>1. ASSUME NEW m \in 1..End(q), NEW i \in Touched(q, m)
        PROVE  m < 2 /\ (i = Member(u, t))
    BY <1>1, <1>2 DEF RolesOf, MappingsOf
  <2>3. ASSUME NEW m \in 1..End(q), NEW i \in Touched(q, m)
        PROVE  /\ m < 2
               /\ NsOf(i) \subseteq Range(b)
               /\ Tenanted(i) /\ i \notin Exposed(q) => Userlist(i[3]) \in Range(b)
               /\ Personal(i) => i \in Exposed(q)
               /\ i[1] # "Users"
               /\ Personal(i) \/ Tenanted(i) \/ i \in Exposed(q)
    BY <2>1, ItemNs, ItemFields
  <2> QED BY <2>3, <1>1, <1>2, OneBatch
<1> QED BY <1>1, <1>3, <1>4, <1>5, <1>6 DEF PathOK

LEMMA UpdateCohortPath ==
    ASSUME NEW u \in Users, NEW t \in Tenants, NEW q, q[1] = "updateCohort", q[2] = u, q[3] = t,
           Len(StepsOf(q)) = 3,
           StepsOf(q)[1] = Save({Member(u, t)}),
           NEW b \in Seq(Namespaces), Range(b) = {Userfilter},
           StepsOf(q)[2] = Bump(b),
           StepsOf(q)[3] = Reply
    PROVE  PathOK(q)
<1>1. End(q) = 3 /\ q[1] # "createUser" /\ q[1] \notin Looking
  BY DEF End, Looking
<1>2. /\ Touched(q, 1) = {Member(u, t)}
      /\ Touched(q, 2) = {} /\ StepsOf(q)[2].op = "bump" /\ StepsOf(q)[2].ns = b
      /\ Touched(q, 3) = {}
      /\ \A j \in 1..2 : StepsOf(q)[j].op # "reply"
  BY DEF Touched, Bump, Reply, Save
<1>3. StepOK(q, 1)
  BY <1>1, SaveOK, ItemsAre
<1>4. StepOK(q, 2)
  <2>1. \A n \in Range(b) : ~OfList(n)
    BY NsKinds
  <2> QED BY <1>1, <2>1, BumpIsOK
<1>5. StepOK(q, 3)
  BY <1>1, ReplyOK
<1>6. \A m \in 1..End(q) : Announced(q, m)
  <2>1. ASSUME NEW m \in 1..End(q), NEW i \in Touched(q, m)
        PROVE  m < 2 /\ (i = Member(u, t))
    BY <1>1, <1>2 DEF RolesOf, MappingsOf
  <2>2. Member(u, t) \in Exposed(q)
    BY DEF Exposed
  <2>3. ASSUME NEW m \in 1..End(q), NEW i \in Touched(q, m)
        PROVE  /\ m < 2
               /\ NsOf(i) \subseteq Range(b)
               /\ Tenanted(i) /\ i \notin Exposed(q) => Userlist(i[3]) \in Range(b)
               /\ Personal(i) => i \in Exposed(q)
               /\ i[1] # "Users"
               /\ Personal(i) \/ Tenanted(i) \/ i \in Exposed(q)
    BY <2>1, <2>2, ItemNs, ItemFields
  <2> QED BY <2>3, <1>1, <1>2, OneBatch
<1> QED BY <1>1, <1>3, <1>4, <1>5, <1>6 DEF PathOK

LEMMA UpdateCohortStatusPath ==
    ASSUME NEW u \in Users, NEW t \in Tenants, NEW q, q[1] = "updateCohortStatus", q[2] = u, q[3] = t,
           Len(StepsOf(q)) = 3,
           StepsOf(q)[1] = Delete({Member(u, t)}),
           NEW b \in Seq(Namespaces), Range(b) = {Cohortmember(t), Userfilter},
           StepsOf(q)[2] = Bump(b),
           StepsOf(q)[3] = Reply
    PROVE  PathOK(q)
<1>1. End(q) = 3 /\ q[1] # "createUser" /\ q[1] \notin Looking
  BY DEF End, Looking
<1>2. /\ Touched(q, 1) = {Member(u, t)}
      /\ Touched(q, 2) = {} /\ StepsOf(q)[2].op = "bump" /\ StepsOf(q)[2].ns = b
      /\ Touched(q, 3) = {}
      /\ \A j \in 1..2 : StepsOf(q)[j].op # "reply"
  BY DEF Touched, Bump, Delete, Reply
<1>3. StepOK(q, 1)
  BY <1>1, DeleteOK, ItemsAre
<1>4. StepOK(q, 2)
  <2>1. \A n \in Range(b) : ~OfList(n)
    BY NsKinds
  <2> QED BY <1>1, <2>1, BumpIsOK
<1>5. StepOK(q, 3)
  BY <1>1, ReplyOK
<1>6. \A m \in 1..End(q) : Announced(q, m)
  <2>1. ASSUME NEW m \in 1..End(q), NEW i \in Touched(q, m)
        PROVE  m < 2 /\ (i = Member(u, t))
    BY <1>1, <1>2 DEF RolesOf, MappingsOf
  <2>2. Member(u, t) \in Exposed(q)
    BY DEF Exposed
  <2>3. ASSUME NEW m \in 1..End(q), NEW i \in Touched(q, m)
        PROVE  /\ m < 2
               /\ NsOf(i) \subseteq Range(b)
               /\ Tenanted(i) /\ i \notin Exposed(q) => Userlist(i[3]) \in Range(b)
               /\ Personal(i) => i \in Exposed(q)
               /\ i[1] # "Users"
               /\ Personal(i) \/ Tenanted(i) \/ i \in Exposed(q)
    BY <2>1, <2>2, ItemNs, ItemFields
  <2> QED BY <2>3, <1>1, <1>2, OneBatch
<1> QED BY <1>1, <1>3, <1>4, <1>5, <1>6 DEF PathOK

LEMMA UpdateNewtonDataFieldsPath ==
    ASSUME NEW u \in Users, NEW q, q[1] = "updateNewtonDataFields", q[2] = u,
           Len(StepsOf(q)) = 3,
           StepsOf(q)[1] = Save({Values(u)}),
           NEW b \in Seq(Namespaces), Range(b) = {User(u), Ufields(u), Userfilter},
           StepsOf(q)[2] = Bump(b),
           StepsOf(q)[3] = Reply
    PROVE  PathOK(q)
<1>1. End(q) = 3 /\ q[1] # "createUser" /\ q[1] \notin Looking
  BY DEF End, Looking
<1>2. /\ Touched(q, 1) = {Values(u)}
      /\ Touched(q, 2) = {} /\ StepsOf(q)[2].op = "bump" /\ StepsOf(q)[2].ns = b
      /\ Touched(q, 3) = {}
      /\ \A j \in 1..2 : StepsOf(q)[j].op # "reply"
  BY DEF Touched, Bump, Reply, Save
<1>3. StepOK(q, 1)
  BY <1>1, SaveOK, ItemsAre
<1>4. StepOK(q, 2)
  <2>1. \A n \in Range(b) : ~OfList(n)
    BY NsKinds
  <2> QED BY <1>1, <2>1, BumpIsOK
<1>5. StepOK(q, 3)
  BY <1>1, ReplyOK
<1>6. \A m \in 1..End(q) : Announced(q, m)
  <2>1. ASSUME NEW m \in 1..End(q), NEW i \in Touched(q, m)
        PROVE  m < 2 /\ (i = Values(u))
    BY <1>1, <1>2 DEF RolesOf, MappingsOf
  <2>2. Values(u) \in Exposed(q)
    BY DEF Exposed
  <2>3. ASSUME NEW m \in 1..End(q), NEW i \in Touched(q, m)
        PROVE  /\ m < 2
               /\ NsOf(i) \subseteq Range(b)
               /\ Tenanted(i) /\ i \notin Exposed(q) => Userlist(i[3]) \in Range(b)
               /\ Personal(i) => i \in Exposed(q)
               /\ i[1] # "Users"
               /\ Personal(i) \/ Tenanted(i) \/ i \in Exposed(q)
    BY <2>1, <2>2, ItemNs, ItemFields
  <2> QED BY <2>3, <1>1, <1>2, OneBatch
<1> QED BY <1>1, <1>3, <1>4, <1>5, <1>6 DEF PathOK

LEMMA UpdateFieldsPath ==
    ASSUME NEW q, q[1] = "updateFields",
           Len(StepsOf(q)) = 3,
           StepsOf(q)[1] = Save({Definitions}),
           NEW b \in Seq(Namespaces), Range(b) = {Fieldsdef},
           StepsOf(q)[2] = Bump(b),
           StepsOf(q)[3] = Reply
    PROVE  PathOK(q)
<1>1. End(q) = 3 /\ q[1] # "createUser" /\ q[1] \notin Looking
  BY DEF End, Looking
<1>2. /\ Touched(q, 1) = {Definitions}
      /\ Touched(q, 2) = {} /\ StepsOf(q)[2].op = "bump" /\ StepsOf(q)[2].ns = b
      /\ Touched(q, 3) = {}
      /\ \A j \in 1..2 : StepsOf(q)[j].op # "reply"
  BY DEF Touched, Bump, Reply, Save
<1>3. StepOK(q, 1)
  BY <1>1, SaveOK, ItemsAre
<1>4. StepOK(q, 2)
  <2>1. \A n \in Range(b) : ~OfFields(n)
    BY NsKinds
  <2> QED BY <1>1, <2>1, BumpIsOK
<1>5. StepOK(q, 3)
  BY <1>1, ReplyOK
<1>6. \A m \in 1..End(q) : Announced(q, m)
  <2>1. ASSUME NEW m \in 1..End(q), NEW i \in Touched(q, m)
        PROVE  m < 2 /\ (i = Definitions)
    BY <1>1, <1>2 DEF RolesOf, MappingsOf
  <2>2. Definitions \in Exposed(q)
    BY DEF Exposed
  <2>3. ASSUME NEW m \in 1..End(q), NEW i \in Touched(q, m)
        PROVE  /\ m < 2
               /\ NsOf(i) \subseteq Range(b)
               /\ Tenanted(i) /\ i \notin Exposed(q) => Userlist(i[3]) \in Range(b)
               /\ Personal(i) => i \in Exposed(q)
               /\ i[1] # "Users"
               /\ Personal(i) \/ Tenanted(i) \/ i \in Exposed(q)
    BY <2>1, <2>2, ItemNs, ItemFields
  <2> QED BY <2>3, <1>1, <1>2, OneBatch
<1> QED BY <1>1, <1>3, <1>4, <1>5, <1>6 DEF PathOK

LEMMA AssignStudentsPath ==
    ASSUME NEW u \in Users, NEW t \in Tenants, NEW q, q[1] = "assignStudents", q[2] = u, q[3] = t,
           Len(StepsOf(q)) = 4,
           StepsOf(q)[1] = Save({Member(u, t)}),
           StepsOf(q)[2] = Save({Mapping(u, t)}),
           NEW b \in Seq(Namespaces), Range(b) = {User(u), Usertenant(u), Userlist(t), Cohortmember(t)},
           StepsOf(q)[3] = Bump(b),
           StepsOf(q)[4] = Reply
    PROVE  PathOK(q)
<1>1. End(q) = 4 /\ q[1] # "createUser" /\ q[1] \notin Looking
  BY DEF End, Looking
<1>2. /\ Touched(q, 1) = {Member(u, t)}
      /\ Touched(q, 2) = {Mapping(u, t)}
      /\ Touched(q, 3) = {} /\ StepsOf(q)[3].op = "bump" /\ StepsOf(q)[3].ns = b
      /\ Touched(q, 4) = {}
      /\ \A j \in 1..3 : StepsOf(q)[j].op # "reply"
  BY DEF Touched, Bump, Reply, Save
<1>3. StepOK(q, 1)
  BY <1>1, SaveOK, ItemsAre
<1>4. StepOK(q, 2)
  BY <1>1, SaveOK, ItemsAre
<1>5. StepOK(q, 3)
  <2>1. \A n \in Range(b) : ~OfFields(n)
    BY NsKinds
  <2> QED BY <1>1, <2>1, BumpIsOK
<1>6. StepOK(q, 4)
  BY <1>1, ReplyOK
<1>7. \A m \in 1..End(q) : Announced(q, m)
  <2>1. ASSUME NEW m \in 1..End(q), NEW i \in Touched(q, m)
        PROVE  m < 3 /\ (i = Member(u, t) \/ i = Mapping(u, t))
    BY <1>1, <1>2 DEF RolesOf, MappingsOf
  <2>3. ASSUME NEW m \in 1..End(q), NEW i \in Touched(q, m)
        PROVE  /\ m < 3
               /\ NsOf(i) \subseteq Range(b)
               /\ Tenanted(i) /\ i \notin Exposed(q) => Userlist(i[3]) \in Range(b)
               /\ Personal(i) => i \in Exposed(q)
               /\ i[1] # "Users"
               /\ Personal(i) \/ Tenanted(i) \/ i \in Exposed(q)
    BY <2>1, ItemNs, ItemFields
  <2> QED BY <2>3, <1>1, <1>2, OneBatch
<1> QED BY <1>1, <1>3, <1>4, <1>5, <1>6, <1>7 DEF PathOK

LEMMA MapUsersToTenantPath ==
    ASSUME NEW u \in Users, NEW t \in Tenants, NEW q, q[1] = "mapUsersToTenant", q[2] = u, q[3] = t,
           Len(StepsOf(q)) = 4,
           StepsOf(q)[1] = Remap(u, {}, {t}),
           StepsOf(q)[2] = Save({Role(u, t)}),
           NEW b \in Seq(Namespaces), Range(b) = {User(u), Usertenant(u), Userroles(u), Userlist(t)},
           StepsOf(q)[3] = Bump(b),
           StepsOf(q)[4] = Reply
    PROVE  PathOK(q)
<1>1. End(q) = 4 /\ q[1] # "createUser" /\ q[1] \notin Looking
  BY DEF End, Looking
<1>2. /\ Touched(q, 1) = MappingsOf(u, {t}) \cup MappingsOf(u, {})
      /\ Touched(q, 2) = {Role(u, t)}
      /\ Touched(q, 3) = {} /\ StepsOf(q)[3].op = "bump" /\ StepsOf(q)[3].ns = b
      /\ Touched(q, 4) = {}
      /\ \A j \in 1..3 : StepsOf(q)[j].op # "reply"
  BY DEF Touched, Bump, Remap, Reply, Save
<1>3. StepOK(q, 1)
  <2>1. ~WillLookUp(q, 1)
    BY <1>1 DEF WillLookUp, Bump, Remap, Reply, Save
  <2>2. /\ {t} \in SUBSET Tenants /\ {} \in SUBSET Tenants /\ {t} = {q[3]}
        /\ q[1] \in {"userTenantMapping", "mapUsersToTenant"}
        /\ q[1] # "deleteUserById" /\ q[1] \notin Looking \ {"deleteUserById"}
    BY <1>1
  <2>3. u \in Named(q)
    BY DEF Named
  <2> QED BY <1>1, <2>1, <2>2, <2>3, RemapIsOK
<1>4. StepOK(q, 2)
  BY <1>1, SaveOK, ItemsAre
<1>5. StepOK(q, 3)
  <2>1. \A n \in Range(b) : ~OfFields(n)
    BY NsKinds
  <2> QED BY <1>1, <2>1, BumpIsOK
<1>6. StepOK(q, 4)
  BY <1>1, ReplyOK
<1>7. \A m \in 1..End(q) : Announced(q, m)
  <2>1. ASSUME NEW m \in 1..End(q), NEW i \in Touched(q, m)
        PROVE  m < 3 /\ (i = Role(u, t) \/ i = Mapping(u, t))
    BY <1>1, <1>2 DEF RolesOf, MappingsOf
  <2>3. ASSUME NEW m \in 1..End(q), NEW i \in Touched(q, m)
        PROVE  /\ m < 3
               /\ NsOf(i) \subseteq Range(b)
               /\ Tenanted(i) /\ i \notin Exposed(q) => Userlist(i[3]) \in Range(b)
               /\ Personal(i) => i \in Exposed(q)
               /\ i[1] # "Users"
               /\ Personal(i) \/ Tenanted(i) \/ i \in Exposed(q)
    BY <2>1, ItemNs, ItemFields
  <2> QED BY <2>3, <1>1, <1>2, OneBatch
<1> QED BY <1>1, <1>3, <1>4, <1>5, <1>6, <1>7 DEF PathOK

LEMMA UserTenantMappingFieldsPath ==
    ASSUME NEW u \in Users, NEW t \in Tenants, NEW q,
           q[1] = "userTenantMappingFields", q[2] = u, q[3] = t,
           Len(StepsOf(q)) = 6,
           StepsOf(q)[1] = Save(RolesOf(u, {t})), StepsOf(q)[2] = Remap(u, {}, {t}),
           NEW b \in Seq(Namespaces), Range(b) = {User(u), Usertenant(u), Userroles(u), Userlist(t)},
           StepsOf(q)[3] = Bump(b), StepsOf(q)[4] = Save({Values(u)}),
           NEW c \in Seq(Namespaces), Range(c) = {User(u), Ufields(u), Userfilter},
           StepsOf(q)[5] = Bump(c), StepsOf(q)[6] = Reply
    PROVE  PathOK(q)
<1>1. End(q) = 6 /\ q[1] # "createUser" /\ q[1] \notin Looking
  BY DEF End, Looking
<1>2. /\ Touched(q, 1) = RolesOf(u, {t})
      /\ Touched(q, 2) = MappingsOf(u, {t}) \cup MappingsOf(u, {})
      /\ Touched(q, 3) = {} /\ StepsOf(q)[3].op = "bump" /\ StepsOf(q)[3].ns = b
      /\ Touched(q, 4) = {Values(u)}
      /\ Touched(q, 5) = {} /\ StepsOf(q)[5].op = "bump" /\ StepsOf(q)[5].ns = c
      /\ Touched(q, 6) = {}
      /\ \A j \in 1..5 : StepsOf(q)[j].op # "reply"
  BY DEF Touched, Save, Remap, Bump, Reply
<1>3. StepOK(q, 1) /\ StepOK(q, 4)
  BY <1>1, SaveOK, ItemsAre
<1>4. StepOK(q, 2)
  <2>1. ~WillLookUp(q, 2)
    BY <1>1 DEF WillLookUp, Bump, Remap, Reply, Save
  <2>2. {t} \in SUBSET Tenants /\ {} \in SUBSET Tenants /\ Values(u) \in Exposed(q)
    BY <1>1 DEF Exposed
  <2>3. u \in Named(q)
    BY DEF Named
  <2> QED BY <1>1, <2>1, <2>2, <2>3, RemapIsOK
<1>5. StepOK(q, 3)
  <2>1. \A n \in Range(b) : ~OfFields(n)
    BY NsKinds
  <2> QED BY <1>1, <2>1, BumpIsOK
<1>6. StepOK(q, 5)
  <2>1. \A n \in Range(c) : ~OfList(n)
    BY NsKinds
  <2> QED BY <1>1, <2>1, BumpIsOK
<1>7. StepOK(q, 6)
  BY <1>1, ReplyOK
<1>8. ASSUME NEW m \in 1..End(q), NEW i \in Touched(q, m)
      PROVE  /\ \A n \in NsOf(i) : WillBump(q, m + 1, n)
             /\ Tenanted(i) => WillBump(q, m + 1, Userlist(i[3]))
             /\ Personal(i) => i \in Exposed(q)
             /\ i[1] # "Users" /\ (Personal(i) \/ Tenanted(i) \/ i \in Exposed(q))
  <2>1. \/ m < 3 /\ (i = Role(u, t) \/ i = Mapping(u, t))
        \/ m = 4 /\ i = Values(u)
    <3>1. m \in 1..6
      BY <1>1
    <3>2. m = 1 => i = Role(u, t)
      BY <1>2 DEF RolesOf
    <3>3. m = 2 => i = Mapping(u, t)
      BY <1>2 DEF MappingsOf
    <3>4. m = 4 => i = Values(u)
      BY <1>2
    <3>5. m # 3 /\ m # 5 /\ m # 6
      BY <1>2
    <3> QED BY ONLY <3>1, <3>2, <3>3, <3>4, <3>5
  <2>2. CASE m < 3 /\ (i = Role(u, t) \/ i = Mapping(u, t))
    <3>1. \A n \in Range(b) : WillBump(q, m + 1, n)
      <4>1. 3 \in 1..End(q) /\ m \in Nat /\ m < 3 /\ \A j \in 1..3 : StepsOf(q)[j].op # "reply"
        BY <2>2, <1>1, <1>2
      <4> QED BY <4>1, <1>2, BumpedBy
    <3>2. /\ NsOf(i) \subseteq Range(b) /\ ~Personal(i) /\ Userlist(i[3]) \in Range(b)
          /\ Tenanted(i) /\ i[1] # "Users"
      BY <2>2, ItemNs, ItemFields
    <3> QED BY <3>1, <3>2
  <2>3. CASE m = 4 /\ i = Values(u)
    <3>1. \A n \in Range(c) : WillBump(q, m + 1, n)
      <4>1. 5 \in 1..End(q) /\ m \in Nat /\ m < 5
        BY <2>3, <1>1
      <4> QED BY <4>1, <1>2, BumpedBy
    <3>2. NsOf(i) \subseteq Range(c) /\ ~Tenanted(i) /\ i[1] # "Users"
      BY <2>3, ItemNs, ItemFields
    <3>3. Values(u) \in Exposed(q)
      BY DEF Exposed
    <3> QED BY <2>3, <3>1, <3>2, <3>3
  <2> QED BY <2>1, <2>2, <2>3
<1>9. \A m \in 1..End(q) : Announced(q, m)
  BY <1>1, <1>8 DEF Announced, Looking
<1> QED BY <1>1, <1>3, <1>4, <1>5, <1>6, <1>7, <1>9 DEF PathOK

LEMMA CreateUserPath ==
    ASSUME NEW u \in Users, NEW t \in Tenants, NEW q,
           q[1] = "createUser", q[2] = u, q[3] = t,
           Len(StepsOf(q)) = 8, StepsOf(q)[1] = Save({Person(u)}), StepsOf(q)[2] = Save({Member(u, t)}),
           StepsOf(q)[3] = Save(RolesOf(u, {t})), StepsOf(q)[4] = Remap(u, {}, {t}),
           NEW b \in Seq(Namespaces), Range(b) = {User(u), Usertenant(u), Userroles(u), Userlist(t)},
           StepsOf(q)[5] = Bump(b), StepsOf(q)[6] = Save({Values(u)}),
           NEW c \in Seq(Namespaces), Range(c) = {Ufields(u), Userfilter},
           StepsOf(q)[7] = Bump(c), StepsOf(q)[8] = Reply
    PROVE  PathOK(q)
<1>1. End(q) = 8 /\ q[1] \notin Looking
  BY DEF End, Looking
<1>2. /\ Touched(q, 1) = {Person(u)} /\ Touched(q, 2) = {Member(u, t)}
      /\ Touched(q, 3) = RolesOf(u, {t})
      /\ Touched(q, 4) = MappingsOf(u, {t}) \cup MappingsOf(u, {})
      /\ Touched(q, 5) = {} /\ StepsOf(q)[5].op = "bump" /\ StepsOf(q)[5].ns = b
      /\ Touched(q, 6) = {Values(u)}
      /\ Touched(q, 7) = {} /\ StepsOf(q)[7].op = "bump" /\ StepsOf(q)[7].ns = c
      /\ Touched(q, 8) = {}
  BY DEF Touched, Save, Remap, Bump, Reply
<1>2a. \A j \in 1..7 : StepsOf(q)[j].op # "reply"
  BY DEF Save, Remap, Bump
<1>3. StepOK(q, 1)
  BY <1>1, SaveOK, ItemsAre
<1>3a. StepOK(q, 2) /\ StepOK(q, 3) /\ StepOK(q, 6)
  <2>1. /\ {Member(u, t)} \in SUBSET Items /\ Person(u) \notin {Member(u, t)}
        /\ {Values(u)} \in SUBSET Items /\ Person(u) \notin {Values(u)}
    <3>1. Member(u, t) \in Items /\ Values(u) \in Items
      BY ItemsAre
    <3>2. Person(u) # Member(u, t) /\ Person(u) # Values(u)
      BY NotPerson
    <3> QED BY ONLY <3>1, <3>2
  <2>2. RolesOf(u, {t}) \in SUBSET Items /\ Person(u) \notin RolesOf(u, {t})
    BY ItemsAre, NotPerson
  <2>3. StepOK(q, 2) /\ StepOK(q, 6)
    BY <2>1, SaveOK
  <2>4. StepOK(q, 3)
    <3>1. /\ q[1] = "createUser" => (Person(q[2]) \in RolesOf(u, {t}) <=> 3 = 1)
          /\ q[1] # "deleteUserById"
      BY <2>2
    <3> QED BY ONLY <2>2, <3>1, StepsOf(q)[3] = Save(RolesOf(u, {t})), SaveOK
  <2> QED BY <2>3, <2>4
<1>4. StepOK(q, 4)
  <2>1. ~WillLookUp(q, 4)
    BY <1>1 DEF WillLookUp, Bump, Remap, Reply, Save
  <2>2. /\ {t} \in SUBSET Tenants /\ {} \in SUBSET Tenants /\ Values(u) \in Exposed(q)
        /\ q[1] # "deleteUserById" /\ q[1] \notin Looking \ {"deleteUserById"}
    BY <1>1 DEF Exposed
  <2>0. u \in Named(q)
    BY DEF Named
  <2>3. /\ q[1] = "deleteUserById" => {t} = {}
        /\ {} # {} => q[1] \in {"deleteUserById", "convertRootMapping"}
        /\ {t} # {} => \/ Values(u) \in Exposed(q)
                       \/ q[1] \in {"userTenantMapping", "mapUsersToTenant"} /\ {t} = {q[3]}
        /\ q[1] = "createUser" => 4 # 1
    BY <2>2
  <2>4. q[1] \notin Looking \ {"deleteUserById"}
    BY <2>2
  <2> QED BY ONLY <2>0, <2>1, <2>2, <2>3, <2>4, RemapIsOK, StepsOf(q)[4] = Remap(u, {}, {t}), q[2] = u,
             u \in Users
<1>5. StepOK(q, 5)
  <2>1. \A n \in Range(b) : ~OfFields(n)
    BY NsKinds
  <2> QED BY <1>1, <2>1, BumpIsOK
<1>6. StepOK(q, 7)
  <2>1. \A n \in Range(c) : ~OfList(n)
    BY NsKinds
  <2> QED BY <1>1, <2>1, BumpIsOK
<1>7. StepOK(q, 8)
  BY <1>1, ReplyOK
<1>8. ASSUME NEW m \in 1..End(q), NEW i \in Touched(q, m)
      PROVE  /\ \A n \in NsOf(i) : WillBump(q, m + 1, n)
             /\ Tenanted(i) => WillBump(q, m + 1, Userlist(i[3]))
             /\ Personal(i) /\ i \notin Exposed(q) => i[2] = u /\ i[1] = "Users"
             /\ i[1] = "Users" => Named(q) = {i[2]}
             /\ Personal(i) \/ Tenanted(i)
  <2>1. \/ m < 5 /\ (i = Person(u) \/ i = Member(u, t) \/ i = Role(u, t) \/ i = Mapping(u, t))
        \/ m = 6 /\ i = Values(u)
    <3>1. m \in 1..8
      BY <1>1
    <3>2. m = 3 => i = Role(u, t)
      BY <1>2 DEF RolesOf
    <3>3. m = 4 => i = Mapping(u, t)
      BY <1>2 DEF MappingsOf
    <3>4. (m = 1 => i = Person(u)) /\ (m = 2 => i = Member(u, t)) /\ (m = 6 => i = Values(u))
      BY <1>2
    <3>5. m # 5 /\ m # 7 /\ m # 8
      BY <1>2
    <3> QED BY ONLY <3>1, <3>2, <3>3, <3>4, <3>5
  <2>2. CASE m < 5 /\ (i = Person(u) \/ i = Member(u, t) \/ i = Role(u, t) \/ i = Mapping(u, t))
    <3>1. \A n \in Range(b) : WillBump(q, m + 1, n)
      <4>1. 5 \in 1..End(q) /\ m \in Nat /\ m < 5 /\ \A j \in 1..5 : StepsOf(q)[j].op # "reply"
        BY <2>2, <1>1, <1>2a
      <4> QED BY <4>1, <1>2, BumpedBy
    <3>2. NsOf(i) \subseteq Range(b)
      BY <2>2, ItemNs, ItemFields
    <3>3. (Tenanted(i) => Userlist(i[3]) \in Range(b)) /\ (Personal(i) => i = Person(u))
      BY <2>2, ItemNs, ItemFields
    <3>4. (i[1] = "Users" => i[2] = u) /\ (Personal(i) \/ Tenanted(i))
      BY <2>2, ItemNs, ItemFields
    <3>5. Named(q) = {u}
      BY DEF Named
    <3> QED BY <3>1, <3>2, <3>3, <3>4, <3>5, ItemFields
  <2>3. CASE m = 6 /\ i = Values(u)
    <3>1. \A n \in Range(c) : WillBump(q, m + 1, n)
      <4>1. 7 \in 1..End(q) /\ m \in Nat /\ m < 7
        BY <2>3, <1>1
      <4> QED BY <4>1, <1>2, <1>2a, BumpedBy
    <3>2. NsOf(i) \subseteq Range(c) /\ ~Tenanted(i) /\ i[1] # "Users" /\ Personal(i)
      BY <2>3, ItemNs, ItemFields
    <3>3. Values(u) \in Exposed(q)
      BY DEF Exposed
    <3> QED BY <2>3, <3>1, <3>2, <3>3
  <2> QED BY <2>1, <2>2, <2>3
<1>9. \A m \in 1..End(q) : Announced(q, m)
  BY <1>1, <1>8 DEF Announced, Looking
<1> QED BY <1>1, <1>3, <1>3a, <1>4, <1>5, <1>6, <1>7, <1>9 DEF PathOK

LEMMA UpdateUserPath ==
    ASSUME NEW u \in Users, NEW q, q[1] = "updateUser", q[2] = u,
           Len(StepsOf(q)) = 6, StepsOf(q)[1] = Save({Person(u)}), StepsOf(q)[2] = Save({Values(u)}),
           NEW b \in Seq(Namespaces), Range(b) = {Ufields(u)}, StepsOf(q)[3] = Bump(b),
           StepsOf(q)[4] = Lookup(u),
           NEW c \in Seq(Namespaces), Range(c) = {User(u), Userfilter},
           StepsOf(q)[5] = BumpLists(c), StepsOf(q)[6] = Reply
    PROVE  PathOK(q)
<1>1. End(q) = 6 /\ q[1] # "createUser" /\ q[1] \in Looking /\ q[1] # "createFieldValues"
      /\ q[1] # "deleteUserById"
  BY DEF End, Looking
<1>2. /\ Touched(q, 1) = {Person(u)} /\ Touched(q, 2) = {Values(u)}
      /\ Touched(q, 3) = {} /\ StepsOf(q)[3].op = "bump" /\ StepsOf(q)[3].ns = b
      /\ Touched(q, 4) = {} /\ StepsOf(q)[4].op = "lookup"
      /\ Touched(q, 5) = {} /\ StepsOf(q)[5].op = "bump" /\ StepsOf(q)[5].ns = c
      /\ StepsOf(q)[5].lists /\ Touched(q, 6) = {}
  BY DEF Touched, Save, Bump, Lookup, BumpLists, Reply
<1>3. \A j \in 1..5 : StepsOf(q)[j].op # "reply"
  BY DEF Save, Bump, Lookup, BumpLists
<1>4. StepOK(q, 1) /\ StepOK(q, 2)
  BY <1>1, SaveOK, ItemsAre
<1>5. StepOK(q, 3)
  <2>1. \A n \in Range(b) : ~OfList(n)
    BY NsKinds
  <2> QED BY <1>1, <2>1, BumpIsOK
<1>6. StepOK(q, 4)
  BY <1>1, LookupOK
<1>7. StepOK(q, 5)
  <2>1. \A n \in Range(c) : ~OfList(n)
    BY NsKinds
  <2>2. ~WillLookUp(q, 5) /\ \A n : ~WillBump(q, 6, n)
    BY <1>1 DEF WillLookUp, WillBump, BumpsAt, BumpLists, Reply
  <2> QED BY <1>1, <2>1, <2>2, ListsOK
<1>8. StepOK(q, 6)
  BY <1>1, ReplyOK
<1>9. ASSUME NEW m \in 1..End(q), NEW i \in Touched(q, m)
      PROVE  /\ \A n \in NsOf(i) : WillBump(q, m + 1, n)
             /\ WillBumpLists(q, m + 1) /\ WillLookUp(q, m + 1)
             /\ Personal(i) /\ ~Tenanted(i) /\ i[2] = u
             /\ q[1] = "createFieldValues" => i = Values(u)
  <2>1. m < 3 /\ (i = Person(u) \/ i = Values(u))
    BY <1>1, <1>2
  <2>2. \A n \in Range(b) \cup Range(c) : WillBump(q, m + 1, n)
    <3>1. 3 \in 1..End(q) /\ 5 \in 1..End(q) /\ m \in Nat /\ m < 3 /\ m < 5
          /\ \A j \in 1..3 : StepsOf(q)[j].op # "reply"
      BY <2>1, <1>1, <1>3
    <3>2. \A n \in Range(b) : WillBump(q, m + 1, n)
      BY <3>1, <1>2, BumpedBy
    <3>3. \A n \in Range(c) : WillBump(q, m + 1, n)
      BY <3>1, <1>2, <1>3, BumpedBy
    <3> QED BY <3>2, <3>3
  <2>3. WillBumpLists(q, m + 1)
    <3>1. 5 \in 1..End(q) /\ m \in Nat /\ m < 5
      BY <2>1, <1>1
    <3> QED BY <3>1, <1>2, <1>3, ListsBumpedBy
  <2>4. WillLookUp(q, m + 1)
    BY <2>1, <1>1, <1>2 DEF WillLookUp
  <2>5. NsOf(i) \subseteq Range(b) \cup Range(c) /\ Personal(i) /\ ~Tenanted(i) /\ i[2] = u
    BY <2>1, ItemNs, ItemFields
  <2> QED BY <2>2, <2>3, <2>4, <2>5
<1>10. \A m \in 1..End(q) : Announced(q, m)
  <2>1. Named(q) = {u}
    BY DEF Named
  <2> QED BY <2>1, <1>1, <1>9 DEF Announced
<1> QED BY <1>1, <1>4, <1>5, <1>6, <1>7, <1>8, <1>10 DEF PathOK

LEMMA CreateFieldValuesPath ==
    ASSUME NEW u \in Users, NEW q, q[1] = "createFieldValues", q[2] = u,
           Len(StepsOf(q)) = 4, StepsOf(q)[1] = Save({Values(u)}),
           StepsOf(q)[2] = getUserTenantIds(u),
           NEW c \in Seq(Namespaces), Range(c) = {Ufields(u), Userfilter},
           StepsOf(q)[3] = BumpLists(c), StepsOf(q)[4] = Reply
    PROVE  PathOK(q)
<1>1. End(q) = 4 /\ q[1] # "createUser" /\ q[1] \in Looking /\ q[1] # "deleteUserById"
  BY DEF End, Looking
<1>2. /\ Touched(q, 1) = {Values(u)}
      /\ Touched(q, 2) = {} /\ StepsOf(q)[2].op = "lookup"
      /\ Touched(q, 3) = {} /\ StepsOf(q)[3].op = "bump" /\ StepsOf(q)[3].ns = c
      /\ StepsOf(q)[3].lists /\ Touched(q, 4) = {}
  BY DEF Touched, Save, getUserTenantIds, BumpLists, Reply
<1>3. \A j \in 1..3 : StepsOf(q)[j].op # "reply"
  BY DEF Save, getUserTenantIds, BumpLists
<1>4. StepOK(q, 1)
  BY <1>1, SaveOK, ItemsAre
<1>6. StepOK(q, 2)
  BY <1>1, LookupOK
<1>7. StepOK(q, 3)
  <2>1. \A n \in Range(c) : ~OfList(n)
    BY NsKinds
  <2>2. ~WillLookUp(q, 3) /\ \A n : ~WillBump(q, 4, n)
    BY <1>1 DEF WillLookUp, WillBump, BumpsAt, BumpLists, Reply
  <2> QED BY <1>1, <2>1, <2>2, ListsOK
<1>8. StepOK(q, 4)
  BY <1>1, ReplyOK
<1>9. ASSUME NEW m \in 1..End(q), NEW i \in Touched(q, m)
      PROVE  /\ \A n \in NsOf(i) : WillBump(q, m + 1, n)
             /\ WillBumpLists(q, m + 1) /\ WillLookUp(q, m + 1)
             /\ Personal(i) /\ ~Tenanted(i) /\ i[2] = u
             /\ q[1] = "createFieldValues" => i = Values(u)
  <2>1. m < 2 /\ i = Values(u)
    BY <1>1, <1>2
  <2>2. \A n \in Range(c) : WillBump(q, m + 1, n)
    BY <2>1, <1>1, <1>2, <1>3, BumpedBy
  <2>3. WillBumpLists(q, m + 1)
    <3>1. 3 \in 1..End(q) /\ m \in Nat /\ m < 3
      BY <2>1, <1>1
    <3> QED BY <3>1, <1>2, <1>3, ListsBumpedBy
  <2>4. WillLookUp(q, m + 1)
    BY <2>1, <1>1, <1>2 DEF WillLookUp
  <2>5. NsOf(i) \subseteq Range(c) /\ Personal(i) /\ ~Tenanted(i) /\ i[2] = u
    BY <2>1, ItemNs, ItemFields
  <2> QED BY <2>1, <2>2, <2>3, <2>4, <2>5
<1>10. \A m \in 1..End(q) : Announced(q, m)
  <2>1. Named(q) = {u}
    BY DEF Named
  <2> QED BY <2>1, <1>1, <1>9 DEF Announced
<1> QED BY <1>1, <1>4, <1>6, <1>7, <1>8, <1>10 DEF PathOK

LEMMA DeleteUserPath ==
    ASSUME NEW u \in Users, NEW q, q[1] = "deleteUserById", q[2] = u,
           Len(StepsOf(q)) = 8, StepsOf(q)[1] = Lookup(u), StepsOf(q)[2] = Delete(MembersOf(u, Tenants)),
           StepsOf(q)[3] = Remap(u, Tenants, {}), StepsOf(q)[4] = Delete(RolesOf(u, Tenants)),
           StepsOf(q)[5] = Delete({Values(u)}), StepsOf(q)[6] = Delete({Person(u)}),
           NEW c \in Seq(Namespaces),
           Range(c) = {User(u), Ufields(u), Usertenant(u), Userroles(u), Userfilter},
           StepsOf(q)[7] = BumpLists(c), StepsOf(q)[8] = Reply
    PROVE  PathOK(q)
<1>1. End(q) = 8 /\ q[1] # "createUser" /\ q[1] \in Looking /\ q[1] # "createFieldValues"
  BY DEF End, Looking
<1>2. /\ Touched(q, 1) = {} /\ Touched(q, 7) = {} /\ Touched(q, 8) = {}
      /\ Touched(q, 2) = MembersOf(u, Tenants)
      /\ Touched(q, 3) = MappingsOf(u, {}) \cup MappingsOf(u, Tenants)
      /\ Touched(q, 4) = RolesOf(u, Tenants)
      /\ Touched(q, 5) = {Values(u)} /\ Touched(q, 6) = {Person(u)}
      /\ StepsOf(q)[7].op = "bump" /\ StepsOf(q)[7].ns = c /\ StepsOf(q)[7].lists
  BY DEF Touched, Lookup, Delete, Remap, BumpLists, Reply
<1>3. \A j \in 1..7 : StepsOf(q)[j].op # "reply"
  BY DEF Lookup, Delete, Remap, BumpLists
<1>4. StepOK(q, 1)
  BY <1>1, LookupOK
<1>5. StepOK(q, 2) /\ StepOK(q, 4) /\ StepOK(q, 5) /\ StepOK(q, 6)
  BY <1>1, DeleteOK, ItemsAre
<1>6. StepOK(q, 3)
  <2>1. ~WillLookUp(q, 3)
    BY <1>1 DEF WillLookUp, Remap, Delete, BumpLists, Reply
  <2>2. Tenants \in SUBSET Tenants /\ {} \in SUBSET Tenants /\ q[1] \notin Looking \ {"deleteUserById"}
        /\ q[1] \in {"deleteUserById", "convertRootMapping"}
    BY <1>1
  <2>3. u \in Named(q)
    BY DEF Named
  <2> QED BY <1>1, <2>1, <2>2, <2>3, RemapIsOK
<1>7. StepOK(q, 7)
  <2>1. \A n \in Range(c) : ~OfList(n)
    BY NsKinds
  <2>2. ~WillLookUp(q, 7) /\ \A n : ~WillBump(q, 8, n)
    BY <1>1 DEF WillLookUp, WillBump, BumpsAt, BumpLists, Reply
  <2> QED BY <1>1, <2>1, <2>2, ListsOK
<1>8. StepOK(q, 8)
  BY <1>1, ReplyOK
<1>9. ASSUME NEW m \in 1..End(q), NEW i \in Touched(q, m)
      PROVE  /\ \A n \in NsOf(i) : WillBump(q, m + 1, n)
             /\ WillBumpLists(q, m + 1) /\ i[2] = u /\ i \in OfUser(u, Tenants)
             /\ Personal(i) \/ Tenanted(i)
  <2>1. \/ \E t \in Tenants : i = Member(u, t) \/ i = Mapping(u, t) \/ i = Role(u, t)
        \/ i = Values(u) \/ i = Person(u)
    BY <1>1, <1>2 DEF MembersOf, MappingsOf, RolesOf
  <2>2. m < 7
    BY <1>1, <1>2
  <2>3. NsOf(i) \subseteq Range(c) /\ i[2] = u /\ i \in OfUser(u, Tenants) /\ (Personal(i) \/ Tenanted(i))
    BY <2>1, ItemNs, ItemFields DEF OfUser, OfTenant
  <2>4. WillBumpLists(q, m + 1) /\ \A n \in Range(c) : WillBump(q, m + 1, n)
    <3>1. 7 \in 1..End(q) /\ m \in Nat
      BY <1>1
    <3>2. \A n \in Range(c) : WillBump(q, m + 1, n)
      BY <3>1, <2>2, <1>2, <1>3, BumpedBy
    <3> QED BY <3>1, <3>2, <2>2, <1>2, <1>3, ListsBumpedBy
  <2> QED BY <2>3, <2>4
<1>10. \A m \in 1..End(q) : Announced(q, m)
  <2>1. Named(q) = {u}
    BY DEF Named
  <2> QED BY <2>1, <1>1, <1>9 DEF Announced
<1>11. WillLookUp(q, 1)
  <2>1. StepsOf(q)[1].op = "lookup" /\ 1 \in 1..End(q)
    BY <1>1 DEF Lookup
  <2> QED BY <2>1 DEF WillLookUp
<1> QED BY <1>11, <1>1, <1>4, <1>5, <1>6, <1>7, <1>8, <1>10 DEF PathOK

LEMMA BulkUpdateUserRolesPath ==
    ASSUME NEW t \in Tenants, NEW q, q[1] = "bulkUpdateUserRoles", q[3] = t,
           NEW us \in Seq(Users), NEW n \in Nat, n = Len(us), Len(StepsOf(q)) = n + 2,
           \A k \in 1..n : StepsOf(q)[k] = Save({Role(us[k], t)}),
           NEW b \in Seq(Namespaces),
           \A k \in 1..n : User(us[k]) \in Range(b) /\ Userroles(us[k]) \in Range(b),
           Userlist(t) \in Range(b),
           \A x \in Range(b) : \/ x = Userlist(t)
                               \/ \E k \in 1..n : x = User(us[k]) \/ x = Userroles(us[k]),
           StepsOf(q)[n + 1] = Bump(b), StepsOf(q)[n + 2] = Reply
    PROVE  PathOK(q)
<1>1. End(q) = n + 2 /\ q[1] # "createUser" /\ q[1] # "deleteUserById" /\ q[1] \notin Looking
  BY DEF End, Looking
<1>2. \A k \in 1..n : /\ Touched(q, k) = {Role(us[k], t)} /\ StepsOf(q)[k].op = "save"
                      /\ us[k] \in Users
  <2> SUFFICES ASSUME NEW k \in 1..n
               PROVE  /\ Touched(q, k) = {Role(us[k], t)} /\ StepsOf(q)[k].op = "save"
                      /\ us[k] \in Users
    OBVIOUS
  <2>1. StepsOf(q)[k] = Save({Role(us[k], t)}) /\ us[k] \in Users
    OBVIOUS
  <2> QED BY <2>1 DEF Touched, Save
<1>3. Touched(q, n + 1) = {} /\ StepsOf(q)[n + 1].op = "bump" /\ StepsOf(q)[n + 1].ns = b
  BY DEF Touched, Bump
<1>4. \A k \in 1..n : StepOK(q, k)
  <2> SUFFICES ASSUME NEW k \in 1..n PROVE StepOK(q, k)
    OBVIOUS
  <2>1. {Role(us[k], t)} \in SUBSET Items /\ StepsOf(q)[k] = Save({Role(us[k], t)})
    BY <1>2, ItemsAre
  <2> QED BY <1>1, <2>1, SaveOK
<1>5. StepOK(q, n + 1)
  <2>1. \A x \in Range(b) : ~OfFields(x)
    BY NsKinds
  <2> QED BY <1>1, <2>1, BumpIsOK
<1>6. StepOK(q, n + 2) /\ Touched(q, n + 2) = {}
  BY <1>1, ReplyOK
<1>7. ASSUME NEW m \in 1..End(q) PROVE m \in 1..n \/ m = n + 1 \/ m = n + 2
  BY <1>1
<1>8. \A m \in 1..End(q) : Announced(q, m)
  <2>1. ASSUME NEW m \in 1..End(q), NEW i \in Touched(q, m)
        PROVE  /\ m < n + 1
               /\ NsOf(i) \subseteq Range(b)
               /\ Tenanted(i) /\ ~Personal(i) /\ i[1] # "Users" /\ Userlist(i[3]) \in Range(b)
    <3>1. m \in 1..n /\ i = Role(us[m], t)
      BY <1>2, <1>3, <1>6, <1>7
    <3> QED BY <3>1, ItemNs, ItemFields
  <2>2. \A j \in 1..(n + 1) : StepsOf(q)[j].op # "reply"
    <3> SUFFICES ASSUME NEW j \in 1..(n + 1) PROVE StepsOf(q)[j].op # "reply"
      OBVIOUS
    <3>1. j \in 1..n \/ j = n + 1
      OBVIOUS
    <3> QED BY <3>1, <1>2, <1>3
  <2>3. n + 1 \in 1..End(q) /\ End(q) \in Nat
    BY <1>1
  <2> QED BY <2>1, <2>2, <2>3, <1>1, <1>3, OneBatch
<1> QED BY <1>1, <1>4, <1>5, <1>6, <1>7, <1>8 DEF PathOK

\* SetToSeq lists a set once.
LEMMA InOneSequence ==
    ASSUME NEW S, IsFiniteSet(S)
    PROVE  SetToSeq(S) \in Seq(S) /\ Range(SetToSeq(S)) = S
<1> DEFINE n == Cardinality(S)
<1>1. n \in Nat /\ ExistsBijection(1..n, S)
  <2>1. PICK k \in Nat : ExistsBijection(1..k, S)
    BY FS_NatBijection
  <2> QED BY <2>1, FS_CountingElements
<1>2. PICK f \in Bijection(1..n, S) : TRUE
  BY <1>1 DEF ExistsBijection
<1>3. f \in [1..n -> S] /\ IsInjective(f)
  BY <1>2 DEF Bijection, Injection, IsInjective
<1>4. SetToSeq(S) \in [1..n -> S] /\ IsInjective(SetToSeq(S))
  BY <1>3 DEF SetToSeq
<1>5. SetToSeq(S) \in Injection(1..n, S)
  BY <1>4 DEF Injection, IsInjective
<1>6. SetToSeq(S) \in Surjection(1..n, S)
  <2>1. IsFiniteSet(1..n) /\ Cardinality(1..n) = n
    BY <1>1, FS_Interval
  <2> QED BY <1>1, <1>5, <2>1, FS_Injection
<1>7. SetToSeq(S) \in Seq(S) /\ Len(SetToSeq(S)) = n
  BY <1>1, <1>4, SeqDef
<1>8. \A x \in S : \E k \in 1..n : SetToSeq(S)[k] = x
  BY <1>6 DEF Surjection
<1> QED BY <1>4, <1>7, <1>8 DEF Range

-----------------------------------------------------------------------------
(* Each request has a path that announces what it writes.                    *)

LEMMA UserTenantMappingRequest ==
    ASSUME NEW u \in Users, NEW t \in Tenants
    PROVE  PathOK(<<"userTenantMapping", u, t>>)
<1> DEFINE q == <<"userTenantMapping", u, t>>
<1>1. q[1] = "userTenantMapping" /\ q[2] = u /\ q[3] = t
  OBVIOUS
<1> HIDE DEF q
<1>2. StepsOf(q) = userTenantMapping(u, t)
  BY <1>1 DEF StepsOf
<1>3. assignUserToTenantAndRoll(u, {}, t)
      = <<Save(RolesOf(u, {t})), Remap(u, {}, {t}),
          Bump(<<User(u), Usertenant(u), Userroles(u), Userlist(t)>>)>>
  <2>1. {} \cup {t} = {t}
    OBVIOUS
  <2> QED BY <2>1 DEF assignUserToTenantAndRoll
<1>4. userTenantMapping(u, t) = <<Save(RolesOf(u, {t})),
                 Remap(u, {}, {t}),
                 Bump(<<User(u), Usertenant(u), Userroles(u), Userlist(t)>>),
                 Reply>>
  BY <1>3, Three1 DEF userTenantMapping
<1>5. /\ Len(StepsOf(q)) = 4
      /\ StepsOf(q)[1] = Save(RolesOf(u, {t}))
      /\ StepsOf(q)[2] = Remap(u, {}, {t})
      /\ StepsOf(q)[3] = Bump(<<User(u), Usertenant(u), Userroles(u), Userlist(t)>>)
      /\ StepsOf(q)[4] = Reply
  BY ONLY <1>2, <1>4
<1>6. /\ <<User(u), Usertenant(u), Userroles(u), Userlist(t)>> \in Seq(Namespaces)
      /\ Range(<<User(u), Usertenant(u), Userroles(u), Userlist(t)>>)
           = {User(u), Usertenant(u), Userroles(u), Userlist(t)}
  BY NamespacesAre, Range4
<1>9. PathOK(q)
  BY <1>1, <1>5, <1>6, UserTenantMappingPath
<1> QED BY <1>9 DEF q

LEMMA ConvertRootMappingRequest ==
    ASSUME NEW u \in Users, NEW f \in Tenants, NEW t \in Tenants
    PROVE  PathOK(<<"convertRootMapping", u, f, t>>)
<1> DEFINE q == <<"convertRootMapping", u, f, t>>
<1>1. q[1] = "convertRootMapping" /\ q[2] = u /\ q[3] = f /\ q[4] = t
  OBVIOUS
<1> HIDE DEF q
<1>2. StepsOf(q) = convertRootMapping(u, f, t)
  BY <1>1 DEF StepsOf
<1>3. assignUserToTenantAndRoll(u, {f}, t)
      = <<Save(RolesOf(u, {f} \cup {t})), Remap(u, {f}, {t}),
          Bump(<<User(u), Usertenant(u), Userroles(u), Userlist(t)>>)>>
  BY DEF assignUserToTenantAndRoll
<1>4. convertRootMapping(u, f, t) = <<Save(RolesOf(u, {f} \cup {t})),
                 Remap(u, {f}, {t}),
                 Bump(<<User(u), Usertenant(u), Userroles(u), Userlist(t)>>),
                 Reply>>
  BY <1>3, Three1 DEF convertRootMapping
<1>5. /\ Len(StepsOf(q)) = 4
      /\ StepsOf(q)[1] = Save(RolesOf(u, {f} \cup {t}))
      /\ StepsOf(q)[2] = Remap(u, {f}, {t})
      /\ StepsOf(q)[3] = Bump(<<User(u), Usertenant(u), Userroles(u), Userlist(t)>>)
      /\ StepsOf(q)[4] = Reply
  BY ONLY <1>2, <1>4
<1>6. PICK b : b = <<User(u), Usertenant(u), Userroles(u), Userlist(t)>>
  OBVIOUS
<1>7. b \in Seq(Namespaces) /\ Range(b) = {User(u), Usertenant(u), Userroles(u), Userlist(t)}
  BY <1>6, NamespacesAre, Range4
<1>8. StepsOf(q)[3] = Bump(b)
  BY ONLY <1>5, <1>6
<1>9. PathOK(q)
  BY ONLY u \in Users, f \in Tenants, t \in Tenants, <1>1, <1>5, <1>7, <1>8, ConvertRootMappingPath
<1> QED BY <1>9 DEF q

LEMMA UpdateAssignTenantStatusRequest ==
    ASSUME NEW u \in Users, NEW t \in Tenants
    PROVE  PathOK(<<"updateAssignTenantStatus", u, t>>)
<1> DEFINE q == <<"updateAssignTenantStatus", u, t>>
<1>1. q[1] = "updateAssignTenantStatus" /\ q[2] = u /\ q[3] = t
  OBVIOUS
<1> HIDE DEF q
<1>2. StepsOf(q) = updateAssignTenantStatus(u, t)
  BY <1>1 DEF StepsOf
<1>4. updateAssignTenantStatus(u, t) = <<Save({Mapping(u, t)}),
                 Bump(<<User(u), Usertenant(u), Userlist(t)>>),
                 Reply>>
  BY DEF updateAssignTenantStatus
<1>5. /\ Len(StepsOf(q)) = 3
      /\ StepsOf(q)[1] = Save({Mapping(u, t)})
      /\ StepsOf(q)[2] = Bump(<<User(u), Usertenant(u), Userlist(t)>>)
      /\ StepsOf(q)[3] = Reply
  BY ONLY <1>2, <1>4
<1>6. /\ <<User(u), Usertenant(u), Userlist(t)>> \in Seq(Namespaces)
      /\ Range(<<User(u), Usertenant(u), Userlist(t)>>)
           = {User(u), Usertenant(u), Userlist(t)}
  BY NamespacesAre, Range3
<1>9. PathOK(q)
  BY <1>1, <1>5, <1>6, UpdateAssignTenantStatusPath
<1> QED BY <1>9 DEF q

LEMMA CreateAssignRoleRequest ==
    ASSUME NEW u \in Users, NEW t \in Tenants
    PROVE  PathOK(<<"createAssignRole", u, t>>)
<1> DEFINE q == <<"createAssignRole", u, t>>
<1>1. q[1] = "createAssignRole" /\ q[2] = u /\ q[3] = t
  OBVIOUS
<1> HIDE DEF q
<1>2. StepsOf(q) = createAssignRole(u, t)
  BY <1>1 DEF StepsOf
<1>4. createAssignRole(u, t) = <<Save({Role(u, t)}),
                 Save({Role(u, t)}),
                 Bump(<<User(u), Userroles(u), Userlist(t)>>),
                 Reply>>
  BY DEF createAssignRole
<1>5. /\ Len(StepsOf(q)) = 4
      /\ StepsOf(q)[1] = Save({Role(u, t)})
      /\ StepsOf(q)[2] = Save({Role(u, t)})
      /\ StepsOf(q)[3] = Bump(<<User(u), Userroles(u), Userlist(t)>>)
      /\ StepsOf(q)[4] = Reply
  BY ONLY <1>2, <1>4
<1>6. /\ <<User(u), Userroles(u), Userlist(t)>> \in Seq(Namespaces)
      /\ Range(<<User(u), Userroles(u), Userlist(t)>>)
           = {User(u), Userroles(u), Userlist(t)}
  BY NamespacesAre, Range3
<1>9. PathOK(q)
  BY <1>1, <1>5, <1>6, CreateAssignRolePath
<1> QED BY <1>9 DEF q

LEMMA DeleteAssignedRoleRequest ==
    ASSUME NEW u \in Users, NEW t \in Tenants
    PROVE  PathOK(<<"deleteAssignedRole", u, t>>)
<1> DEFINE q == <<"deleteAssignedRole", u, t>>
<1>1. q[1] = "deleteAssignedRole" /\ q[2] = u /\ q[3] = t
  OBVIOUS
<1> HIDE DEF q
<1>2. StepsOf(q) = deleteAssignedRole(u, t)
  BY <1>1 DEF StepsOf
<1>4. deleteAssignedRole(u, t) = <<Save({Role(u, t)}),
                 Bump(<<User(u), Userroles(u), Userlist(t)>>),
                 Reply>>
  BY DEF deleteAssignedRole
<1>5. /\ Len(StepsOf(q)) = 3
      /\ StepsOf(q)[1] = Save({Role(u, t)})
      /\ StepsOf(q)[2] = Bump(<<User(u), Userroles(u), Userlist(t)>>)
      /\ StepsOf(q)[3] = Reply
  BY ONLY <1>2, <1>4
<1>6. /\ <<User(u), Userroles(u), Userlist(t)>> \in Seq(Namespaces)
      /\ Range(<<User(u), Userroles(u), Userlist(t)>>)
           = {User(u), Userroles(u), Userlist(t)}
  BY NamespacesAre, Range3
<1>9. PathOK(q)
  BY <1>1, <1>5, <1>6, DeleteAssignedRolePath
<1> QED BY <1>9 DEF q

LEMMA CreateCohortMembersRequest ==
    ASSUME NEW u \in Users, NEW t \in Tenants
    PROVE  PathOK(<<"createCohortMembers", u, t>>)
<1> DEFINE q == <<"createCohortMembers", u, t>>
<1>1. q[1] = "createCohortMembers" /\ q[2] = u /\ q[3] = t
  OBVIOUS
<1> HIDE DEF q
<1>2. StepsOf(q) = createCohortMembers(u, t)
  BY <1>1 DEF StepsOf
<1>4. createCohortMembers(u, t) = <<Save({Member(u, t)}),
                 Reply>>
  BY DEF createCohortMembers
<1>5. /\ Len(StepsOf(q)) = 2
      /\ StepsOf(q)[1] = Save({Member(u, t)})
      /\ StepsOf(q)[2] = Reply
  BY ONLY <1>2, <1>4
<1>9. PathOK(q)
  BY <1>1, <1>5, CreateCohortMembersPath
<1> QED BY <1>9 DEF q

LEMMA CreateBulkCohortMembersRequest ==
    ASSUME NEW u \in Users, NEW t \in Tenants
    PROVE  PathOK(<<"createBulkCohortMembers", u, t>>)
<1> DEFINE q == <<"createBulkCohortMembers", u, t>>
<1>1. q[1] = "createBulkCohortMembers" /\ q[2] = u /\ q[3] = t
  OBVIOUS
<1> HIDE DEF q
<1>2. StepsOf(q) = createBulkCohortMembers(u, t)
  BY <1>1 DEF StepsOf
<1>4. createBulkCohortMembers(u, t) = <<Save({Member(u, t)}),
                 Reply,
                 Bump(<<User(u), Cohortmember(t), Userlist(t)>>)>>
  BY DEF createBulkCohortMembers
<1>5. /\ Len(StepsOf(q)) = 3
      /\ StepsOf(q)[1] = Save({Member(u, t)})
      /\ StepsOf(q)[2] = Reply
      /\ StepsOf(q)[3] = Bump(<<User(u), Cohortmember(t), Userlist(t)>>)
  BY ONLY <1>2, <1>4
<1>6. /\ <<User(u), Cohortmember(t), Userlist(t)>> \in Seq(Namespaces)
      /\ Range(<<User(u), Cohortmember(t), Userlist(t)>>)
           = {User(u), Cohortmember(t), Userlist(t)}
  BY NamespacesAre, Range3
<1>9. PathOK(q)
  BY <1>1, <1>5, <1>6, CreateBulkCohortMembersPath
<1> QED BY <1>9 DEF q

LEMMA UpdateCohortMembersRequest ==
    ASSUME NEW u \in Users, NEW t \in Tenants
    PROVE  PathOK(<<"updateCohortMembers", u, t>>)
<1> DEFINE q == <<"updateCohortMembers", u, t>>
<1>1. q[1] = "updateCohortMembers" /\ q[2] = u /\ q[3] = t
  OBVIOUS
<1> HIDE DEF q
<1>2. StepsOf(q) = updateCohortMembers(u, t)
  BY <1>1 DEF StepsOf
<1>4. updateCohortMembers(u, t) = <<Save({Member(u, t)}),
                 Bump(<<Cohortmember(t), Userlist(t)>>),
                 Save({MemberValues(u, t)}),
                 Reply>>
  BY DEF updateCohortMembers
<1>5. /\ Len(StepsOf(q)) = 4
      /\ StepsOf(q)[1] = Save({Member(u, t)})
      /\ StepsOf(q)[2] = Bump(<<Cohortmember(t), Userlist(t)>>)
      /\ StepsOf(q)[3] = Save({MemberValues(u, t)})
      /\ StepsOf(q)[4] = Reply
  BY ONLY <1>2, <1>4
<1>6. /\ <<Cohortmember(t), Userlist(t)>> \in Seq(Namespaces)
      /\ Range(<<Cohortmember(t), Userlist(t)>>)
           = {Cohortmember(t), Userlist(t)}
  BY NamespacesAre, Range2
<1>9. PathOK(q)
  BY <1>1, <1>5, <1>6, UpdateCohortMembersPath
<1> QED BY <1>9 DEF q

LEMMA DeleteCohortMemberByIdRequest ==
    ASSUME NEW u \in Users, NEW t \in Tenants
    PROVE  PathOK(<<"deleteCohortMemberById", u, t>>)
<1> DEFINE q == <<"deleteCohortMemberById", u, t>>
<1>1. q[1] = "deleteCohortMemberById" /\ q[2] = u /\ q[3] = t
  OBVIOUS
<1> HIDE DEF q
<1>2. StepsOf(q) = deleteCohortMemberById(u, t)
  BY <1>1 DEF StepsOf
<1>4. deleteCohortMemberById(u, t) = <<Save({Member(u, t)}),
                 Bump(<<Cohortmember(t), Userlist(t)>>),
                 Reply>>
  BY DEF deleteCohortMemberById
<1>5. /\ Len(StepsOf(q)) = 3
      /\ StepsOf(q)[1] = Save({Member(u, t)})
      /\ StepsOf(q)[2] = Bump(<<Cohortmember(t), Userlist(t)>>)
      /\ StepsOf(q)[3] = Reply
  BY ONLY <1>2, <1>4
<1>6. /\ <<Cohortmember(t), Userlist(t)>> \in Seq(Namespaces)
      /\ Range(<<Cohortmember(t), Userlist(t)>>)
           = {Cohortmember(t), Userlist(t)}
  BY NamespacesAre, Range2
<1>9. PathOK(q)
  BY <1>1, <1>5, <1>6, DeleteCohortMemberByIdPath
<1> QED BY <1>9 DEF q

LEMMA UpdateCohortRequest ==
    ASSUME NEW u \in Users, NEW t \in Tenants
    PROVE  PathOK(<<"updateCohort", u, t>>)
<1> DEFINE q == <<"updateCohort", u, t>>
<1>1. q[1] = "updateCohort" /\ q[2] = u /\ q[3] = t
  OBVIOUS
<1> HIDE DEF q
<1>2. StepsOf(q) = updateCohort(u, t)
  BY <1>1 DEF StepsOf
<1>4. updateCohort(u, t) = <<Save({Member(u, t)}),
                 Bump(<<Userfilter>>),
                 Reply>>
  BY DEF updateCohort
<1>5. /\ Len(StepsOf(q)) = 3
      /\ StepsOf(q)[1] = Save({Member(u, t)})
      /\ StepsOf(q)[2] = Bump(<<Userfilter>>)
      /\ StepsOf(q)[3] = Reply
  BY ONLY <1>2, <1>4
<1>6. /\ <<Userfilter>> \in Seq(Namespaces)
      /\ Range(<<Userfilter>>)
           = {Userfilter}
  BY NamespacesAre, Range1
<1>9. PathOK(q)
  BY <1>1, <1>5, <1>6, UpdateCohortPath
<1> QED BY <1>9 DEF q

LEMMA UpdateCohortStatusRequest ==
    ASSUME NEW u \in Users, NEW t \in Tenants
    PROVE  PathOK(<<"updateCohortStatus", u, t>>)
<1> DEFINE q == <<"updateCohortStatus", u, t>>
<1>1. q[1] = "updateCohortStatus" /\ q[2] = u /\ q[3] = t
  OBVIOUS
<1> HIDE DEF q
<1>2. StepsOf(q) = updateCohortStatus(u, t)
  BY <1>1 DEF StepsOf
<1>4. updateCohortStatus(u, t) = <<Delete({Member(u, t)}),
                 Bump(<<Cohortmember(t), Userfilter>>),
                 Reply>>
  BY DEF updateCohortStatus
<1>5. /\ Len(StepsOf(q)) = 3
      /\ StepsOf(q)[1] = Delete({Member(u, t)})
      /\ StepsOf(q)[2] = Bump(<<Cohortmember(t), Userfilter>>)
      /\ StepsOf(q)[3] = Reply
  BY ONLY <1>2, <1>4
<1>6. /\ <<Cohortmember(t), Userfilter>> \in Seq(Namespaces)
      /\ Range(<<Cohortmember(t), Userfilter>>)
           = {Cohortmember(t), Userfilter}
  BY NamespacesAre, Range2
<1>9. PathOK(q)
  BY <1>1, <1>5, <1>6, UpdateCohortStatusPath
<1> QED BY <1>9 DEF q

LEMMA UpdateNewtonDataFieldsRequest ==
    ASSUME NEW u \in Users
    PROVE  PathOK(<<"updateNewtonDataFields", u>>)
<1> DEFINE q == <<"updateNewtonDataFields", u>>
<1>1. q[1] = "updateNewtonDataFields" /\ q[2] = u
  OBVIOUS
<1> HIDE DEF q
<1>2. StepsOf(q) = updateNewtonDataFields(u)
  BY <1>1 DEF StepsOf
<1>4. updateNewtonDataFields(u) = <<Save({Values(u)}),
                 Bump(<<User(u), Ufields(u), Userfilter>>),
                 Reply>>
  BY DEF updateNewtonDataFields
<1>5. /\ Len(StepsOf(q)) = 3
      /\ StepsOf(q)[1] = Save({Values(u)})
      /\ StepsOf(q)[2] = Bump(<<User(u), Ufields(u), Userfilter>>)
      /\ StepsOf(q)[3] = Reply
  BY ONLY <1>2, <1>4
<1>6. /\ <<User(u), Ufields(u), Userfilter>> \in Seq(Namespaces)
      /\ Range(<<User(u), Ufields(u), Userfilter>>)
           = {User(u), Ufields(u), Userfilter}
  BY NamespacesAre, Range3
<1>9. PathOK(q)
  BY <1>1, <1>5, <1>6, UpdateNewtonDataFieldsPath
<1> QED BY <1>9 DEF q

LEMMA UpdateFieldsRequest ==
    PathOK(<<"updateFields">>)
<1> DEFINE q == <<"updateFields">>
<1>1. q[1] = "updateFields"
  OBVIOUS
<1> HIDE DEF q
<1>2. StepsOf(q) = updateFields
  BY <1>1 DEF StepsOf
<1>4. updateFields = <<Save({Definitions}),
                 Bump(<<Fieldsdef>>),
                 Reply>>
  BY DEF updateFields
<1>5. /\ Len(StepsOf(q)) = 3
      /\ StepsOf(q)[1] = Save({Definitions})
      /\ StepsOf(q)[2] = Bump(<<Fieldsdef>>)
      /\ StepsOf(q)[3] = Reply
  BY ONLY <1>2, <1>4
<1>6. /\ <<Fieldsdef>> \in Seq(Namespaces)
      /\ Range(<<Fieldsdef>>)
           = {Fieldsdef}
  BY NamespacesAre, Range1
<1>9. PathOK(q)
  BY <1>1, <1>5, <1>6, UpdateFieldsPath
<1> QED BY <1>9 DEF q

LEMMA AssignStudentsRequest ==
    ASSUME NEW u \in Users, NEW t \in Tenants
    PROVE  PathOK(<<"assignStudents", u, t>>)
<1> DEFINE q == <<"assignStudents", u, t>>
<1>1. q[1] = "assignStudents" /\ q[2] = u /\ q[3] = t
  OBVIOUS
<1> HIDE DEF q
<1>2. StepsOf(q) = assignStudents(u, t)
  BY <1>1 DEF StepsOf
<1>4. assignStudents(u, t) = <<Save({Member(u, t)}),
                 Save({Mapping(u, t)}),
                 Bump(<<User(u), Usertenant(u), Userlist(t), Cohortmember(t)>>),
                 Reply>>
  BY DEF assignStudents
<1>5. /\ Len(StepsOf(q)) = 4
      /\ StepsOf(q)[1] = Save({Member(u, t)})
      /\ StepsOf(q)[2] = Save({Mapping(u, t)})
      /\ StepsOf(q)[3] = Bump(<<User(u), Usertenant(u), Userlist(t), Cohortmember(t)>>)
      /\ StepsOf(q)[4] = Reply
  BY ONLY <1>2, <1>4
<1>6. /\ <<User(u), Usertenant(u), Userlist(t), Cohortmember(t)>> \in Seq(Namespaces)
      /\ Range(<<User(u), Usertenant(u), Userlist(t), Cohortmember(t)>>)
           = {User(u), Usertenant(u), Userlist(t), Cohortmember(t)}
  BY NamespacesAre, Range4
<1>9. PathOK(q)
  BY <1>1, <1>5, <1>6, AssignStudentsPath
<1> QED BY <1>9 DEF q

LEMMA MapUsersToTenantRequest ==
    ASSUME NEW u \in Users, NEW t \in Tenants
    PROVE  PathOK(<<"mapUsersToTenant", u, t>>)
<1> DEFINE q == <<"mapUsersToTenant", u, t>>
<1>1. q[1] = "mapUsersToTenant" /\ q[2] = u /\ q[3] = t
  OBVIOUS
<1> HIDE DEF q
<1>2. StepsOf(q) = mapUsersToTenant(u, t)
  BY <1>1 DEF StepsOf
<1>4. mapUsersToTenant(u, t) = <<Remap(u, {}, {t}),
                 Save({Role(u, t)}),
                 Bump(<<User(u), Usertenant(u), Userroles(u), Userlist(t)>>),
                 Reply>>
  BY DEF mapUsersToTenant
<1>5. /\ Len(StepsOf(q)) = 4
      /\ StepsOf(q)[1] = Remap(u, {}, {t})
      /\ StepsOf(q)[2] = Save({Role(u, t)})
      /\ StepsOf(q)[3] = Bump(<<User(u), Usertenant(u), Userroles(u), Userlist(t)>>)
      /\ StepsOf(q)[4] = Reply
  BY ONLY <1>2, <1>4
<1>6. /\ <<User(u), Usertenant(u), Userroles(u), Userlist(t)>> \in Seq(Namespaces)
      /\ Range(<<User(u), Usertenant(u), Userroles(u), Userlist(t)>>)
           = {User(u), Usertenant(u), Userroles(u), Userlist(t)}
  BY NamespacesAre, Range4
<1>9. PathOK(q)
  BY <1>1, <1>5, <1>6, MapUsersToTenantPath
<1> QED BY <1>9 DEF q

LEMMA UserTenantMappingFieldsRequest ==
    ASSUME NEW u \in Users, NEW t \in Tenants
    PROVE  PathOK(<<"userTenantMappingFields", u, t>>)
<1> DEFINE q == <<"userTenantMappingFields", u, t>>
<1>1. q[1] = "userTenantMappingFields" /\ q[2] = u /\ q[3] = t
  OBVIOUS
<1> HIDE DEF q
<1>2. StepsOf(q) = userTenantMappingFields(u, t)
  BY <1>1 DEF StepsOf
<1>3. assignUserToTenantAndRoll(u, {}, t)
      = <<Save(RolesOf(u, {t})), Remap(u, {}, {t}),
          Bump(<<User(u), Usertenant(u), Userroles(u), Userlist(t)>>)>>
  <2>1. {} \cup {t} = {t}
    OBVIOUS
  <2> QED BY <2>1 DEF assignUserToTenantAndRoll
<1>4. userTenantMappingFields(u, t) = <<Save(RolesOf(u, {t})),
                 Remap(u, {}, {t}),
                 Bump(<<User(u), Usertenant(u), Userroles(u), Userlist(t)>>),
                 Save({Values(u)}),
                 Bump(<<User(u), Ufields(u), Userfilter>>),
                 Reply>>
  <2>1. userTenantMappingFields(u, t)
        = <<Save(RolesOf(u, {t})), Remap(u, {}, {t}),
            Bump(<<User(u), Usertenant(u), Userroles(u), Userlist(t)>>)>>
                 \o <<Save({Values(u)}), Bump(<<User(u), Ufields(u), Userfilter>>), Reply>>
    BY <1>3 DEF userTenantMappingFields
  <2> QED BY ONLY <2>1, Three3
<1>5. /\ Len(StepsOf(q)) = 6
      /\ StepsOf(q)[1] = Save(RolesOf(u, {t}))
      /\ StepsOf(q)[2] = Remap(u, {}, {t})
      /\ StepsOf(q)[3] = Bump(<<User(u), Usertenant(u), Userroles(u), Userlist(t)>>)
      /\ StepsOf(q)[4] = Save({Values(u)})
      /\ StepsOf(q)[5] = Bump(<<User(u), Ufields(u), Userfilter>>)
      /\ StepsOf(q)[6] = Reply
  BY ONLY <1>2, <1>4
<1>6. /\ <<User(u), Usertenant(u), Userroles(u), Userlist(t)>> \in Seq(Namespaces)
      /\ Range(<<User(u), Usertenant(u), Userroles(u), Userlist(t)>>)
           = {User(u), Usertenant(u), Userroles(u), Userlist(t)}
  BY NamespacesAre, Range4
<1>7. /\ <<User(u), Ufields(u), Userfilter>> \in Seq(Namespaces)
      /\ Range(<<User(u), Ufields(u), Userfilter>>)
           = {User(u), Ufields(u), Userfilter}
  BY NamespacesAre, Range3
<1>9. PathOK(q)
  BY <1>1, <1>5, <1>6, <1>7, UserTenantMappingFieldsPath
<1> QED BY <1>9 DEF q

LEMMA CreateUserRequest ==
    ASSUME NEW u \in Users, NEW t \in Tenants
    PROVE  PathOK(<<"createUser", u, t>>)
<1> DEFINE q == <<"createUser", u, t>>
<1>1. q[1] = "createUser" /\ q[2] = u /\ q[3] = t
  OBVIOUS
<1> HIDE DEF q
<1>2. StepsOf(q) = createUser(u, t)
  BY <1>1 DEF StepsOf
<1>3. assignUserToTenantAndRoll(u, {}, t)
      = <<Save(RolesOf(u, {t})), Remap(u, {}, {t}),
          Bump(<<User(u), Usertenant(u), Userroles(u), Userlist(t)>>)>>
  <2>1. {} \cup {t} = {t}
    OBVIOUS
  <2> QED BY <2>1 DEF assignUserToTenantAndRoll
<1>4. createUser(u, t) = <<Save({Person(u)}),
                 Save({Member(u, t)}),
                 Save(RolesOf(u, {t})),
                 Remap(u, {}, {t}),
                 Bump(<<User(u), Usertenant(u), Userroles(u), Userlist(t)>>),
                 Save({Values(u)}),
                 Bump(<<Ufields(u), Userfilter>>),
                 Reply>>
  <2>1. createUser(u, t)
        = (<<Save({Person(u)}), Save({Member(u, t)})>>
          \o <<Save(RolesOf(u, {t})), Remap(u, {}, {t}),
            Bump(<<User(u), Usertenant(u), Userroles(u), Userlist(t)>>)>>)
                 \o <<Save({Values(u)}), Bump(<<Ufields(u), Userfilter>>), Reply>>
    BY <1>3 DEF createUser
  <2>2. <<Save({Person(u)}), Save({Member(u, t)})>>
          \o <<Save(RolesOf(u, {t})), Remap(u, {}, {t}),
            Bump(<<User(u), Usertenant(u), Userroles(u), Userlist(t)>>)>>
        = <<Save({Person(u)}), Save({Member(u, t)}), Save(RolesOf(u, {t})), Remap(u, {}, {t}),
                  Bump(<<User(u), Usertenant(u), Userroles(u), Userlist(t)>>)>>
    BY ONLY Two3
  <2>3. <<Save({Person(u)}), Save({Member(u, t)}), Save(RolesOf(u, {t})), Remap(u, {}, {t}),
            Bump(<<User(u), Usertenant(u), Userroles(u), Userlist(t)>>)>>
                 \o <<Save({Values(u)}), Bump(<<Ufields(u), Userfilter>>), Reply>> = <<Save({Person(u)}),
                 Save({Member(u, t)}),
                 Save(RolesOf(u, {t})),
                 Remap(u, {}, {t}),
                 Bump(<<User(u), Usertenant(u), Userroles(u), Userlist(t)>>),
                 Save({Values(u)}),
                 Bump(<<Ufields(u), Userfilter>>),
                 Reply>>
    BY ONLY Five3
  <2> QED BY ONLY <2>1, <2>2, <2>3
<1>5. /\ Len(StepsOf(q)) = 8
      /\ StepsOf(q)[1] = Save({Person(u)})
      /\ StepsOf(q)[2] = Save({Member(u, t)})
      /\ StepsOf(q)[3] = Save(RolesOf(u, {t}))
      /\ StepsOf(q)[4] = Remap(u, {}, {t})
      /\ StepsOf(q)[5] = Bump(<<User(u), Usertenant(u), Userroles(u), Userlist(t)>>)
      /\ StepsOf(q)[6] = Save({Values(u)})
      /\ StepsOf(q)[7] = Bump(<<Ufields(u), Userfilter>>)
      /\ StepsOf(q)[8] = Reply
  BY ONLY <1>2, <1>4
<1>6. /\ <<User(u), Usertenant(u), Userroles(u), Userlist(t)>> \in Seq(Namespaces)
      /\ Range(<<User(u), Usertenant(u), Userroles(u), Userlist(t)>>)
           = {User(u), Usertenant(u), Userroles(u), Userlist(t)}
  BY NamespacesAre, Range4
<1>7. /\ <<Ufields(u), Userfilter>> \in Seq(Namespaces)
      /\ Range(<<Ufields(u), Userfilter>>)
           = {Ufields(u), Userfilter}
  BY NamespacesAre, Range2
<1>9. PathOK(q)
  BY <1>1, <1>5, <1>6, <1>7, CreateUserPath
<1> QED BY <1>9 DEF q

LEMMA UpdateUserRequest ==
    ASSUME NEW u \in Users
    PROVE  PathOK(<<"updateUser", u>>)
<1> DEFINE q == <<"updateUser", u>>
<1>1. q[1] = "updateUser" /\ q[2] = u
  OBVIOUS
<1> HIDE DEF q
<1>2. StepsOf(q) = updateUser(u)
  BY <1>1 DEF StepsOf
<1>4. updateUser(u) = <<Save({Person(u)}),
                 Save({Values(u)}),
                 Bump(<<Ufields(u)>>),
                 Lookup(u),
                 BumpLists(<<User(u), Userfilter>>),
                 Reply>>
  BY DEF updateUser
<1>5. /\ Len(StepsOf(q)) = 6
      /\ StepsOf(q)[1] = Save({Person(u)})
      /\ StepsOf(q)[2] = Save({Values(u)})
      /\ StepsOf(q)[3] = Bump(<<Ufields(u)>>)
      /\ StepsOf(q)[4] = Lookup(u)
      /\ StepsOf(q)[5] = BumpLists(<<User(u), Userfilter>>)
      /\ StepsOf(q)[6] = Reply
  BY ONLY <1>2, <1>4
<1>6. /\ <<Ufields(u)>> \in Seq(Namespaces)
      /\ Range(<<Ufields(u)>>)
           = {Ufields(u)}
  BY NamespacesAre, Range1
<1>7. /\ <<User(u), Userfilter>> \in Seq(Namespaces)
      /\ Range(<<User(u), Userfilter>>)
           = {User(u), Userfilter}
  BY NamespacesAre, Range2
<1>9. PathOK(q)
  BY <1>1, <1>5, <1>6, <1>7, UpdateUserPath
<1> QED BY <1>9 DEF q

LEMMA CreateFieldValuesRequest ==
    ASSUME NEW u \in Users
    PROVE  PathOK(<<"createFieldValues", u>>)
<1> DEFINE q == <<"createFieldValues", u>>
<1>1. q[1] = "createFieldValues" /\ q[2] = u
  OBVIOUS
<1> HIDE DEF q
<1>2. StepsOf(q) = createFieldValues(u)
  BY <1>1 DEF StepsOf
<1>4. createFieldValues(u) = <<Save({Values(u)}),
                 getUserTenantIds(u),
                 BumpLists(<<Ufields(u), Userfilter>>),
                 Reply>>
  BY DEF createFieldValues
<1>5. /\ Len(StepsOf(q)) = 4
      /\ StepsOf(q)[1] = Save({Values(u)})
      /\ StepsOf(q)[2] = getUserTenantIds(u)
      /\ StepsOf(q)[3] = BumpLists(<<Ufields(u), Userfilter>>)
      /\ StepsOf(q)[4] = Reply
  BY ONLY <1>2, <1>4
<1>6. /\ <<Ufields(u), Userfilter>> \in Seq(Namespaces)
      /\ Range(<<Ufields(u), Userfilter>>)
           = {Ufields(u), Userfilter}
  BY NamespacesAre, Range2
<1>9. PathOK(q)
  BY <1>1, <1>5, <1>6, CreateFieldValuesPath
<1> QED BY <1>9 DEF q

LEMMA DeleteUserByIdRequest ==
    ASSUME NEW u \in Users
    PROVE  PathOK(<<"deleteUserById", u>>)
<1> DEFINE q == <<"deleteUserById", u>>
<1>1. q[1] = "deleteUserById" /\ q[2] = u
  OBVIOUS
<1> HIDE DEF q
<1>2. StepsOf(q) = deleteUserById(u)
  BY <1>1 DEF StepsOf
<1>4. deleteUserById(u) = <<Lookup(u),
                 Delete(MembersOf(u, Tenants)),
                 Remap(u, Tenants, {}),
                 Delete(RolesOf(u, Tenants)),
                 Delete({Values(u)}),
                 Delete({Person(u)}),
                 BumpLists(<<User(u), Ufields(u), Usertenant(u), Userroles(u), Userfilter>>),
                 Reply>>
  BY DEF deleteUserById
<1>5. /\ Len(StepsOf(q)) = 8
      /\ StepsOf(q)[1] = Lookup(u)
      /\ StepsOf(q)[2] = Delete(MembersOf(u, Tenants))
      /\ StepsOf(q)[3] = Remap(u, Tenants, {})
      /\ StepsOf(q)[4] = Delete(RolesOf(u, Tenants))
      /\ StepsOf(q)[5] = Delete({Values(u)})
      /\ StepsOf(q)[6] = Delete({Person(u)})
      /\ StepsOf(q)[7] = BumpLists(<<User(u), Ufields(u), Usertenant(u), Userroles(u), Userfilter>>)
      /\ StepsOf(q)[8] = Reply
  BY ONLY <1>2, <1>4
<1>6. /\ <<User(u), Ufields(u), Usertenant(u), Userroles(u), Userfilter>> \in Seq(Namespaces)
      /\ Range(<<User(u), Ufields(u), Usertenant(u), Userroles(u), Userfilter>>)
           = {User(u), Ufields(u), Usertenant(u), Userroles(u), Userfilter}
  BY NamespacesAre, Range5
<1>9. PathOK(q)
  BY <1>1, <1>5, <1>6, DeleteUserPath
<1> QED BY <1>9 DEF q

\* bulkUpdateUserRoles is as long as its list of users.
LEMMA Mapped ==
    ASSUME NEW S, NEW n \in Nat, NEW f, f \in [1..n -> S]
    PROVE  f \in Seq(S) /\ Len(f) = n
BY SeqDef

LEMMA JoinedIs ==
    ASSUME NEW S, NEW x \in Seq(S), NEW y \in Seq(S)
    PROVE  x \o y \in Seq(S) /\ Len(x \o y) = Len(x) + Len(y)
OBVIOUS

LEMMA JoinedLeft ==
    ASSUME NEW S, NEW x \in Seq(S), NEW y \in Seq(S), NEW k \in 1..Len(x)
    PROVE  (x \o y)[k] = x[k]
OBVIOUS

LEMMA JoinedRight ==
    ASSUME NEW S, NEW x \in Seq(S), NEW y \in Seq(S), NEW k \in 1..Len(y)
    PROVE  (x \o y)[k + Len(x)] = y[k]
OBVIOUS

LEMMA Indexed == ASSUME NEW S, NEW x \in Seq(S), NEW k \in 1..Len(x) PROVE x[k] \in Range(x)
BY DEF Range

BatchIs(b, us, t) ==
    /\ b \in Seq(Namespaces)
    /\ \A k \in 1..Len(us) : User(us[k]) \in Range(b) /\ Userroles(us[k]) \in Range(b)
    /\ Userlist(t) \in Range(b)
    /\ \A x \in Range(b) : \/ x = Userlist(t)
                           \/ \E k \in 1..Len(us) : x = User(us[k]) \/ x = Userroles(us[k])
BatchOf(us, t) ==
    [k \in 1..Len(us) |-> User(us[k])] \o [k \in 1..Len(us) |-> Userroles(us[k])]
        \o <<Userlist(t)>>

LEMMA BulkBatch ==
    ASSUME NEW us \in Seq(Users), NEW t \in Tenants
    PROVE  BatchIs(BatchOf(us, t), us, t)
<1> DEFINE a == [k \in 1..Len(us) |-> User(us[k])]
           c == [k \in 1..Len(us) |-> Userroles(us[k])]
           b == BatchOf(us, t)
           n == Len(us)
           d == <<Userlist(t)>>
           e == a \o c
<1>1. n \in Nat /\ \A k \in 1..n : us[k] \in Users
  OBVIOUS
<1>2. a \in [1..n -> Namespaces] /\ c \in [1..n -> Namespaces]
  BY <1>1, NamespacesAre
<1>3. a \in Seq(Namespaces) /\ Len(a) = n /\ c \in Seq(Namespaces) /\ Len(c) = n
  BY ONLY <1>1, <1>2, Mapped
<1>4. d \in Seq(Namespaces) /\ Len(d) = 1 /\ d[1] = Userlist(t)
  BY NamespacesAre
<1>9. \A k \in 1..n : a[k] = User(us[k]) /\ c[k] = Userroles(us[k])
  OBVIOUS
<1>6. b = e \o d /\ e = a \o c
  BY DEF BatchOf
<1>1a. n \in Nat
  OBVIOUS
<1> HIDE DEF a, b, c, d, n, e
<1>5. /\ e \in Seq(Namespaces) /\ Len(e) = n + n
      /\ \A k \in 1..n : e[k] = a[k]
      /\ \A k \in 1..n : e[k + n] = c[k]
  <2>1. e \in Seq(Namespaces) /\ Len(e) = n + n
    BY ONLY <1>1a, <1>3, <1>6, JoinedIs
  <2>2. ASSUME NEW k \in 1..n PROVE e[k] = a[k]
    <3>1. k \in 1..Len(a)
      BY <1>3
    <3>2. (a \o c)[k] = a[k]
      BY ONLY <3>1, <1>3, JoinedLeft
    <3> QED BY ONLY <3>2, <1>6
  <2>3. ASSUME NEW k \in 1..n PROVE e[k + n] = c[k]
    <3>1. k \in 1..Len(c)
      BY <1>3
    <3>2. (a \o c)[k + Len(a)] = c[k]
      BY ONLY <3>1, <1>3, JoinedRight
    <3> QED BY ONLY <3>2, <1>3, <1>6
  <2> QED BY ONLY <2>1, <2>2, <2>3
<1>7. /\ b \in Seq(Namespaces) /\ Len(b) = (n + n) + 1
      /\ \A k \in 1..(n + n) : b[k] = e[k]
      /\ \A k \in 1..1 : b[k + (n + n)] = d[k]
  <2>1. Len(e) = n + n /\ e \in Seq(Namespaces) /\ b = e \o d
    BY ONLY <1>5, <1>6
  <2>2. b \in Seq(Namespaces) /\ Len(b) = (n + n) + 1
    BY ONLY <2>1, <1>1a, <1>4, JoinedIs
  <2>3. ASSUME NEW k \in 1..(n + n) PROVE b[k] = e[k]
    <3>1. k \in 1..Len(e)
      BY <2>1
    <3>2. (e \o d)[k] = e[k]
      BY ONLY <3>1, <2>1, <1>4, JoinedLeft
    <3> QED BY ONLY <3>2, <2>1
  <2>4. ASSUME NEW k \in 1..1 PROVE b[k + (n + n)] = d[k]
    <3>1. k \in 1..Len(d)
      BY <1>4
    <3>2. (e \o d)[k + Len(e)] = d[k]
      BY ONLY <3>1, <2>1, <1>4, JoinedRight
    <3> QED BY ONLY <3>2, <2>1
  <2> QED BY ONLY <2>2, <2>3, <2>4
<1>10. \A k \in 1..n : b[k] = User(us[k]) /\ b[k + n] = Userroles(us[k])
  <2> SUFFICES ASSUME NEW k \in 1..n PROVE b[k] = User(us[k]) /\ b[k + n] = Userroles(us[k])
    OBVIOUS
  <2>1. k \in 1..(n + n) /\ k + n \in 1..(n + n)
    BY <1>1
  <2>2. b[k] = e[k] /\ b[k + n] = e[k + n]
    BY ONLY <2>1, <1>7
  <2> QED BY ONLY <2>2, <1>5, <1>9, k \in 1..n
<1>11. b[n + n + 1] = Userlist(t)
  <2>1. b[1 + (n + n)] = Userlist(t)
    BY ONLY <1>4, <1>7
  <2>2. 1 + (n + n) = n + n + 1
    BY <1>1a
  <2> QED BY ONLY <2>1, <2>2
<1>12. \A k \in 1..(n + n + 1) : b[k] \in Range(b)
  BY <1>7, Indexed
<1>13. \A k \in 1..n : User(us[k]) \in Range(b) /\ Userroles(us[k]) \in Range(b)
  <2> SUFFICES ASSUME NEW k \in 1..n
               PROVE User(us[k]) \in Range(b) /\ Userroles(us[k]) \in Range(b)
    OBVIOUS
  <2>1. k \in 1..(n + n + 1) /\ k + n \in 1..(n + n + 1)
    BY <1>1
  <2> QED BY <2>1, <1>10, <1>12
<1>14. Userlist(t) \in Range(b)
  <2>1. n + n + 1 \in 1..(n + n + 1)
    BY <1>1
  <2> QED BY <2>1, <1>11, <1>12
<1>15. ASSUME NEW x \in Range(b)
       PROVE  x = Userlist(t) \/ \E k \in 1..n : x = User(us[k]) \/ x = Userroles(us[k])
  <2>1. PICK k \in 1..(n + n + 1) : x = b[k]
    <3>1. DOMAIN b = 1..(n + n + 1)
      BY <1>1, <1>7
    <3> QED BY <3>1 DEF Range
  <2>2. CASE k \in 1..n
    BY <2>1, <2>2, <1>10
  <2>3. CASE k = n + n + 1
    BY <2>1, <2>3, <1>11
  <2>4. CASE k \notin 1..n /\ k # n + n + 1
    <3>1. k - n \in 1..n /\ k = (k - n) + n
      BY <2>4, <1>1
    <3>2. b[k] = Userroles(us[k - n])
      BY <3>1, <1>10
    <3> QED BY <3>1, <3>2, <2>1
  <2> QED BY <2>2, <2>3, <2>4
<1>16. BatchIs(b, us, t)
  BY ONLY <1>7, <1>13, <1>14, <1>15 DEF BatchIs, n
<1> QED BY <1>16 DEF b

LEMMA BulkUpdateUserRolesRequest ==
    ASSUME NEW U \in SUBSET Users, NEW t \in Tenants
    PROVE  PathOK(<<"bulkUpdateUserRoles", U, t>>)
<1> DEFINE q == <<"bulkUpdateUserRoles", U, t>>
           us == SetToSeq(U)
           n == Len(us)
           A == [k \in 1..n |-> Save({Role(us[k], t)})]
           b == BatchOf(us, t)
           Z == <<Bump(b), Reply>>
<1>1. q[1] = "bulkUpdateUserRoles" /\ q[2] = U /\ q[3] = t
  OBVIOUS
<1> HIDE DEF q
<1>2. StepsOf(q) = bulkUpdateUserRoles(U, t)
  BY <1>1 DEF StepsOf
<1>3. StepsOf(q) = A \o Z
  BY <1>2 DEF bulkUpdateUserRoles, BatchOf
<1>4. us \in Seq(Users) /\ n \in Nat
  <2>1. IsFiniteSet(U)
    BY PathAssumption, FS_Subset
  <2>2. us \in Seq(U)
    BY <2>1, InOneSequence
  <2> QED BY <2>2
<1> HIDE DEF us
<1>5. /\ b \in Seq(Namespaces)
      /\ \A k \in 1..n : User(us[k]) \in Range(b) /\ Userroles(us[k]) \in Range(b)
      /\ Userlist(t) \in Range(b)
      /\ \A x \in Range(b) : \/ x = Userlist(t)
                             \/ \E k \in 1..n : x = User(us[k]) \/ x = Userroles(us[k])
  BY <1>4, BulkBatch DEF BatchIs
<1> HIDE DEF b
<1> DEFINE All == {Bump(b), Reply} \cup {Save({Role(us[k], t)}) : k \in 1..n}
<1>6. A \in [1..n -> All] /\ \A k \in 1..n : A[k] = Save({Role(us[k], t)})
  OBVIOUS
<1>7. Z \in Seq(All) /\ Len(Z) = 2 /\ Z[1] = Bump(b) /\ Z[2] = Reply
  OBVIOUS
<1> HIDE DEF A, Z, All
<1>8. A \in Seq(All) /\ Len(A) = n
  BY ONLY <1>4, <1>6, Mapped
<1> HIDE DEF n
<1>9. /\ Len(StepsOf(q)) = n + 2
      /\ \A k \in 1..n : StepsOf(q)[k] = A[k]
      /\ \A k \in 1..2 : StepsOf(q)[k + n] = Z[k]
  <2>1. Len(StepsOf(q)) = n + 2
    <3>1. Len(A \o Z) = Len(A) + Len(Z)
      BY ONLY <1>7, <1>8, JoinedIs
    <3> QED BY ONLY <3>1, <1>3, <1>7, <1>8
  <2>2. ASSUME NEW k \in 1..n PROVE StepsOf(q)[k] = A[k]
    <3>1. k \in 1..Len(A)
      BY <1>8
    <3>2. (A \o Z)[k] = A[k]
      BY ONLY <3>1, <1>7, <1>8, JoinedLeft
    <3> QED BY ONLY <3>2, <1>3
  <2>3. ASSUME NEW k \in 1..2 PROVE StepsOf(q)[k + n] = Z[k]
    <3>1. k \in 1..Len(Z)
      BY ONLY <1>7, k \in 1..2
    <3>2. A \in Seq(All) /\ Z \in Seq(All)
      BY ONLY <1>7, <1>8
    <3>3. (A \o Z)[k + Len(A)] = Z[k]
      BY ONLY <3>1, <3>2, JoinedRight
    <3> QED BY ONLY <3>3, <1>3, <1>8
  <2> QED BY ONLY <2>1, <2>2, <2>3
<1>10. /\ \A k \in 1..n : StepsOf(q)[k] = Save({Role(us[k], t)})
       /\ StepsOf(q)[n + 1] = Bump(b) /\ StepsOf(q)[n + 2] = Reply
  <2>1. StepsOf(q)[1 + n] = Bump(b) /\ StepsOf(q)[2 + n] = Reply
    BY ONLY <1>7, <1>9
  <2>2. 1 + n = n + 1 /\ 2 + n = n + 2
    BY <1>4
  <2> QED BY ONLY <2>1, <2>2, <1>6, <1>9
<1>11. PathOK(q)
  BY ONLY <1>1, <1>4, <1>5, <1>9, <1>10, BulkUpdateUserRolesPath, t \in Tenants DEF n
<1> QED BY <1>11 DEF q

\* Every handler of the model is a path on which a proof can rely.
LEMMA Paths ==
    ASSUME NEW q \in Requests
    PROVE  PathOK(q)
<1>1. ASSUME NEW u \in Users, NEW h \in {"updateUser", "deleteUserById", "createFieldValues",
                                         "updateNewtonDataFields"}, q = <<h, u>>
      PROVE  PathOK(q)
  BY <1>1, UpdateUserRequest, DeleteUserByIdRequest, CreateFieldValuesRequest,
     UpdateNewtonDataFieldsRequest
<1>2. ASSUME NEW u \in Users, NEW t \in Tenants,
             NEW h \in {"createUser", "userTenantMapping", "userTenantMappingFields",
                "updateAssignTenantStatus", "createAssignRole", "deleteAssignedRole",
                "createCohortMembers", "createBulkCohortMembers", "updateCohortMembers",
                "deleteCohortMemberById", "updateCohort", "updateCohortStatus",
                "assignStudents", "mapUsersToTenant"}, q = <<h, u, t>>
      PROVE  PathOK(q)
  <2>1. CASE h \in {"createUser", "userTenantMapping", "userTenantMappingFields",
                    "updateAssignTenantStatus", "createAssignRole", "deleteAssignedRole"}
    BY <1>2, <2>1, CreateUserRequest, UserTenantMappingRequest, UserTenantMappingFieldsRequest,
       UpdateAssignTenantStatusRequest, CreateAssignRoleRequest, DeleteAssignedRoleRequest
  <2>2. CASE h \in {"createCohortMembers", "createBulkCohortMembers", "updateCohortMembers",
                    "deleteCohortMemberById", "updateCohort", "updateCohortStatus",
                    "assignStudents", "mapUsersToTenant"}
    BY <1>2, <2>2, CreateCohortMembersRequest, CreateBulkCohortMembersRequest,
       UpdateCohortMembersRequest, DeleteCohortMemberByIdRequest, UpdateCohortRequest,
       UpdateCohortStatusRequest, AssignStudentsRequest, MapUsersToTenantRequest
  <2> QED BY <2>1, <2>2
<1>3. ASSUME NEW u \in Users, NEW f \in Tenants, NEW t \in Tenants,
             q = <<"convertRootMapping", u, f, t>>
      PROVE  PathOK(q)
  BY <1>3, ConvertRootMappingRequest
<1>4. ASSUME NEW U \in SUBSET Users, NEW t \in Tenants, q = <<"bulkUpdateUserRoles", U, t>>
      PROVE  PathOK(q)
  BY <1>4, BulkUpdateUserRolesRequest
<1>5. ASSUME q = <<"updateFields">> PROVE PathOK(q)
  BY <1>5, UpdateFieldsRequest
<1> QED BY <1>1, <1>2, <1>3, <1>4, <1>5 DEF Requests

-----------------------------------------------------------------------------
(* A writer and what it has written.                                         *)

\* The tenants whose lists w bumps, as things are.
TenantsAt(w) ==
    IF WillLookUp(writes[w].op, writes[w].next) THEN mapped[writes[w].op[2]]
    ELSE writes[w].tenants

\* w has to bump n before it replies.
Ahead(w, n) ==
    \/ n \in Range(writes[w].queue)
    \/ WillBump(writes[w].op, writes[w].next, n)
    \/ /\ WillBumpLists(writes[w].op, writes[w].next)
       /\ n \in {Userlist(t) : t \in TenantsAt(w)}

\* w has written i after write k, and has yet to reply.
Newer(w, i, k) ==
    /\ writes[w].at = "run"
    /\ Unanswered(writes[w].op, writes[w].next)
    /\ writes[w].wrote[i] > k

\* Write k of i is not stale: nobody has been told of a newer one, and who has
\* written a newer one has yet to bump n.
Good(i, k, n) == acked[i] <= k /\ \A w \in Writers : Newer(w, i, k) => Ahead(w, n)

-----------------------------------------------------------------------------
(* What the results in flight and in the cache can be relied on for.         *)

NestedSites == {Hydrated(u) : u \in Users} \cup {FilterIds}

\* The items of a result.
May(s) ==
    CASE s[1] \in Lists -> {Definitions} \cup (UNION {OfUser(u, {s[2]}) : u \in Users})
      [] s[1] = "core" -> {Person(s[2])} \cup MappingsOf(s[2], Tenants) \cup RolesOf(s[2], Tenants)
      [] s[1] = "mappings" -> MappingsOf(s[2], Tenants)
      [] s[1] = "assigned" -> RolesOf(s[2], Tenants)
      [] s[1] = "hydrated" -> {Values(s[2]), Definitions}
      [] s[1] = "filterIds" -> {Values(u) : u \in Users}

\* The namespace whose bump makes a result unreachable when its i is written.
Chan(s, i) ==
    CASE s[1] \in Lists -> Userlist(s[2])
      [] s[1] = "hydrated" -> IF i = Definitions THEN Fieldsdef ELSE Ufields(s[2])
      [] OTHER -> Own(s)

Deleted(u) == <<"deleteUserById", u>> \in scenario.writes

\* No request of the scenario takes u out of a tenant, or the only one that runs does.
Kept(u) ==
    /\ \A q \in scenario.writes : q[1] = "convertRootMapping" => q[2] # u
    /\ Deleted(u) => scenario.writers <= 1

\* The tenants whose lists show u, or did before his deletion.
Seat(u) == mapped[u] \cup (IF Deleted(u) THEN scenario.home[u] ELSE {})

\* A list of t answers for what it shows of i.
Claimed(t, i) == i \notin ExposedBy(scenario) /\ (Personal(i) => t \in Seat(i[2]))
Claim(s, i) == s[1] \in Lists => Claimed(s[2], i)

Loading == {"load", "mget", "mload", "mset"}
Coming(r) == [site |-> reads[r].site, vers |-> reads[r].vers, data |-> reads[r].got]

\* The entries, and what will be one.
Held ==
    entries
        \cup {Coming(r) : r \in {x \in Readers : reads[x].at \in Loading}}
        \cup (UNION {reads[r].batch : r \in {x \in Readers : reads[x].at = "mset"}})

IsCurrent(v) == \A n \in DOMAIN v : v[n] = Version(n)

\* Write k of i is no older than the reads under key v of s, and not stale while the
\* key is current.
Told(s, v, i, k) ==
    /\ \A r \in Readers : reads[r].at # "idle" /\ reads[r].site = s /\ reads[r].vers = v =>
           reads[r].since[i] <= k
    /\ IsCurrent(v) => Good(i, k, Chan(s, i))

\* e is of a key that reader r asks for next, in a nested read.
Feeds(e, r) ==
    /\ reads[r].at = "mget"
    /\ e.site \in Nested(r)
    /\ e.vers = KeyVersions(e.site, reads[r].inner)

-----------------------------------------------------------------------------
(* The invariant. *)

Past(v) == \A n \in DOMAIN v : v[n] <= Version(n)

EntryOK(e) ==
    /\ e.site \in scenario.reads \cup NestedSites
    /\ e.vers \in [KeyOf(e.site) -> Nat] /\ Past(e.vers)
    /\ e.data \subseteq May(e.site) \X Nat

ReadOK(r) ==
    LET R == reads[r] IN
    /\ R.at \in {"get", "done"} \cup Loading
    /\ R.site \in scenario.reads
    /\ R.since \in [Items -> Nat] /\ \A i \in Items : R.since[i] <= acked[i]
    /\ R.vers \in [KeyOf(R.site) -> Nat] /\ Past(R.vers)
    /\ R.stage \in 1..(Len(Loader(R.site)) + 1)
    /\ R.got \subseteq May(R.site) \X Nat
    /\ R.at = "get" => R.got = {} /\ R.stage = 1
    /\ R.at \in {"mget", "mload", "mset"} =>
        /\ R.site[1] \in Lists
        /\ R.stage <= Len(Loader(R.site)) /\ Stage(r) \in {"filter", "fields"}
        /\ R.inner \in [UNION {KeyOf(s) : s \in Nested(r)} -> Nat] /\ Past(R.inner)
    /\ R.at = "mload" => R.batch \subseteq Nested(r)
    /\ R.at = "mset" => \A e \in R.batch : EntryOK(e) /\ e.site \in NestedSites

WriteOK(w) ==
    LET W == writes[w] IN
    /\ W.at = "run"
    /\ W.op \in scenario.writes
    /\ W.next \in 1..(End(W.op) + 1)
    /\ W.tenants \subseteq Tenants
    /\ W.queue \in Seq(Namespaces)
    /\ W.wrote \in [Items -> Nat] /\ \A i \in Items : W.wrote[i] <= rows[i]

Types ==
    /\ scenario \in Scenarios
    /\ rows \in [Items -> Nat] /\ acked \in [Items -> Nat]
    /\ \A i \in Items : acked[i] <= rows[i]
    /\ mapped \in [Users -> SUBSET Tenants]
    /\ ver \in [Namespaces -> Nat]
    /\ \A n \in Namespaces \ scenario.missing : ver[n] # 0
    /\ \A e \in entries : EntryOK(e)
    /\ DOMAIN reads = Readers
    /\ \A r \in Readers : DOMAIN reads[r] = DOMAIN Idle /\ (reads[r] = Idle \/ ReadOK(r))
    /\ DOMAIN writes = Writers
    /\ \A w \in Writers : DOMAIN writes[w] = DOMAIN NotStarted
                          /\ (writes[w] = NotStarted \/ WriteOK(w))

\* What w has written is of its past steps; what it has sent and Redis has not
\* applied is the rest of one batch, the lists last.
Sent(w) ==
    LET W == writes[w] IN
    /\ \A i \in Items : W.wrote[i] # 0 => \E m \in 1..(W.next - 1) : i \in Touched(W.op, m)
    /\ W.queue # <<>> =>
        /\ scenario.provider = "redis"
        /\ W.next > 1 /\ StepsOf(W.op)[W.next - 1].op = "bump"
        /\ \A n \in Range(W.queue) :
              n \in Range(StepsOf(W.op)[W.next - 1].ns)
              \/ (StepsOf(W.op)[W.next - 1].lists /\ OfList(n))
    /\ \A a, b \in 1..Len(W.queue) :
          a < b /\ OfList(W.queue[a]) /\ OfFields(W.queue[b]) => W.queue[b] \in scenario.missing

Creates(w, u) == writes[w].at = "run" /\ writes[w].op[1] = "createUser" /\ writes[w].op[2] = u

\* Who is mapped, or written to, is there; and is created once.
There(u) ==
    /\ mapped[u] # {} => rows[Person(u)] # 0
    /\ \A w \in Writers : writes[w].at = "run" /\ u \in Named(writes[w].op) =>
        \/ rows[Person(u)] # 0
        \/ Creates(w, u) /\ writes[w].next \notin 2..End(writes[w].op)
    /\ \A w \in Writers : Creates(w, u) =>
        /\ writes[w].next = 1 => rows[Person(u)] = 0
        /\ writes[w].wrote[Person(u)] <= 1
        /\ \A v \in Writers : Creates(v, u) => v = w

\* One request at a time: what a deletion finds is what was there at first.
AtHome(w) ==
    LET q == writes[w].op
        u == writes[w].op[2]
    IN
    /\ WillLookUp(q, writes[w].next) => scenario.home[u] \subseteq mapped[u]
    /\ q[1] = "deleteUserById" =>
        /\ mapped[u] \subseteq scenario.home[u]
        /\ Unanswered(q, writes[w].next) => scenario.home[u] \subseteq TenantsAt(w)
        /\ \A i \in Items : Tenanted(i) /\ i[2] = u /\ rows[i] # 0 => i[3] \in scenario.home[u]
Alone1 ==
    scenario.writers <= 1 =>
        /\ \A v, w \in Writers : writes[v].at # "new" /\ writes[w].at # "new" => v = w
        /\ (\A w \in Writers : writes[w].at = "new") =>
               mapped = scenario.home /\ \A i \in Items : rows[i] # 0 => i \in AtFirst
        /\ \A w \in Writers : writes[w].at = "run" /\ writes[w].op[1] \in Looking => AtHome(w)

\* Whom a list shows is in its tenant; a filter goes before the page.
ListedOK(s, data, early) ==
    s[1] \in Lists => \A d \in data : Personal(d[1]) =>
        /\ d[1][1] = "Users" => d[2] # 0
        /\ Kept(d[1][2]) /\ ~(early /\ d[1][1] = "FieldValues") => s[2] \in Seat(d[1][2])
Early(r) == reads[r].site[1] = "filtered" /\ reads[r].at \in Loading /\ reads[r].stage <= 2
Shown ==
    /\ \A e \in entries : ListedOK(e.site, e.data, FALSE)
    /\ \A r \in Readers : reads[r].at # "idle" =>
            ListedOK(reads[r].site, reads[r].got, Early(r))

\* Nested reads are made for the lists.
Embedded ==
    \A e \in Held :
        /\ e.site[1] = "hydrated" /\ Kept(e.site[2]) =>
              \E s \in scenario.reads : s[1] \in Lists /\ s[2] \in Seat(e.site[2])
        /\ e.site[1] = "filterIds" => \E s \in scenario.reads : s[1] = "filtered"

\* What is held answers the readers of its key ...
HeldGood ==
    \A e \in Held : \A d \in e.data : Claim(e.site, d[1]) => Told(e.site, e.vers, d[1], d[2])

\* ... and the list that is about to take it from a nested read ...
FedGood ==
    \A e \in Held, r \in Readers : Feeds(e, r) =>
        \A d \in e.data : Claim(reads[r].site, d[1]) =>
            Told(reads[r].site, reads[r].vers, d[1], d[2])

\* ... or may come to.
NestedGood ==
    \A e \in Held : e.site \in NestedSites /\ IsCurrent(e.vers) =>
        \A d \in e.data, s \in scenario.reads : s[1] \in Lists /\ Claimed(s[2], d[1]) =>
            Good(d[1], d[2], Userlist(s[2]))
DoneGood ==
    \A r \in Readers : reads[r].at = "done" =>
        \A d \in reads[r].got : Claim(reads[r].site, d[1]) => d[2] >= reads[r].since[d[1]]

Base ==
    /\ Types /\ \A w \in Writers : Sent(w)
    /\ \A u \in Users : There(u)
    /\ Alone1

IInv ==
    /\ Base /\ Shown /\ Embedded
    /\ HeldGood /\ FedGood /\ NestedGood /\ DoneGood

(* What is ahead, one step further.                                        *)

\* Past a step that is no bump and no reply, everything ahead is still ahead.
LEMMA OneStepOn ==
    ASSUME NEW q, End(q) \in Nat, NEW k \in 1..End(q)
    PROVE  /\ \A n : WillBump(q, k, n)
                        /\ ~(StepsOf(q)[k].op = "bump" /\ n \in Range(StepsOf(q)[k].ns))
                     => WillBump(q, k + 1, n)
           /\ WillBumpLists(q, k) /\ ~(StepsOf(q)[k].op = "bump" /\ StepsOf(q)[k].lists)
                     => WillBumpLists(q, k + 1)
           /\ WillLookUp(q, k) /\ StepsOf(q)[k].op # "lookup" => WillLookUp(q, k + 1)
           /\ WillLookUp(q, k + 1) => WillLookUp(q, k)
           /\ Unanswered(q, k + 1) => Unanswered(q, k)
<1>1. \A m \in k..End(q) : m = k \/ m \in (k + 1)..End(q)
  OBVIOUS
<1>2. \A m \in (k + 1)..End(q) : m \in k..End(q)
  OBVIOUS
<1>3. \A m : BumpsAt(q, k, m) => StepsOf(q)[m].op = "bump"
  BY DEF BumpsAt
<1>4. ASSUME NEW m \in (k + 1)..End(q), BumpsAt(q, k, m)
      PROVE  BumpsAt(q, k + 1, m)
  <2>1. \A j \in (k + 1)..m : j \in k..m
    OBVIOUS
  <2> QED BY <1>4, <2>1 DEF BumpsAt
<1>5. ASSUME NEW n, WillBump(q, k, n),
             ~(StepsOf(q)[k].op = "bump" /\ n \in Range(StepsOf(q)[k].ns))
      PROVE  WillBump(q, k + 1, n)
  <2>1. PICK m \in k..End(q) : BumpsAt(q, k, m) /\ n \in Range(StepsOf(q)[m].ns)
    BY <1>5 DEF WillBump
  <2> QED BY <1>5, <2>1, <1>1, <1>3, <1>4 DEF WillBump
<1>6. ASSUME WillBumpLists(q, k), ~(StepsOf(q)[k].op = "bump" /\ StepsOf(q)[k].lists)
      PROVE  WillBumpLists(q, k + 1)
  <2>1. PICK m \in k..End(q) : BumpsAt(q, k, m) /\ StepsOf(q)[m].lists
    BY <1>6 DEF WillBumpLists
  <2> QED BY <1>6, <2>1, <1>1, <1>3, <1>4 DEF WillBumpLists
<1>7. WillLookUp(q, k) /\ StepsOf(q)[k].op # "lookup" => WillLookUp(q, k + 1)
  BY <1>1 DEF WillLookUp
<1>8. WillLookUp(q, k + 1) => WillLookUp(q, k)
  BY <1>2 DEF WillLookUp
<1>9. Unanswered(q, k + 1) => Unanswered(q, k)
  BY <1>2 DEF Unanswered
<1> QED BY <1>5, <1>6, <1>7, <1>8, <1>9

\* Nothing is ahead of the reply that a handler could still announce.
LEMMA NoneAtReply ==
    ASSUME NEW q, End(q) \in Nat, NEW k \in 1..End(q), StepsOf(q)[k].op = "reply"
    PROVE  (\A n : ~WillBump(q, k, n)) /\ ~WillBumpLists(q, k) /\ Unanswered(q, k)
<1>1. ASSUME NEW m \in k..End(q) PROVE ~BumpsAt(q, k, m)
  <2>1. k \in k..m
    OBVIOUS
  <2> QED BY <2>1 DEF BumpsAt
<1>2. k \in k..End(q)
  OBVIOUS
<1> QED BY <1>1, <1>2 DEF WillBump, WillBumpLists, Unanswered

LEMMA PastEnd ==
    ASSUME NEW q, End(q) \in Nat
    PROVE  ~Unanswered(q, End(q) + 1) /\ ~WillLookUp(q, End(q) + 1)
<1>1. (End(q) + 1)..End(q) = {}
  OBVIOUS
<1> QED BY <1>1 DEF Unanswered, WillLookUp

(* The scenario. *)

LEMMA ScenarioIs ==
    ASSUME Types
    PROVE  /\ scenario.writes \subseteq Requests /\ scenario.reads \subseteq Sites
           /\ scenario.home \in [Users -> SUBSET Tenants]
           /\ scenario.provider \in {"memory", "redis"} /\ scenario.missing \subseteq Namespaces
           /\ scenario.failures \in BOOLEAN /\ scenario.writers \in Nat /\ scenario.readers \in Nat
BY PathAssumption DEF Types

LEMMA PathOf ==
    ASSUME Types, NEW w \in Writers, writes[w].at = "run"
    PROVE  /\ WriteOK(w) /\ writes[w].op \in Requests /\ PathOK(writes[w].op)
           /\ End(writes[w].op) \in Nat
<1>1. WriteOK(w)
  BY DEF Types, NotStarted
<1>2. writes[w].op \in Requests
  BY <1>1, ScenarioIs DEF WriteOK
<1> QED BY <1>1, <1>2, Paths DEF PathOK

LEMMA NotExposed ==
    ASSUME NEW i, i \notin ExposedBy(scenario), NEW q \in scenario.writes
    PROVE  i \notin Exposed(q)
BY DEF ExposedBy

LEMMA ItemForms ==
    ASSUME NEW i \in Items
    PROVE  \/ i = Definitions
           \/ \E u \in Users : i = Person(u) \/ i = Values(u)
           \/ \E u \in Users, t \in Tenants : \/ i = Mapping(u, t) \/ i = Role(u, t)
                                              \/ i = Member(u, t) \/ i = MemberValues(u, t)
BY DEF Items, OfUser, OfTenant

LEMMA PersonalIs ==
    ASSUME NEW i \in Items, Personal(i)
    PROVE  /\ i[2] \in Users
           /\ i[1] = "Users" => i = Person(i[2])
           /\ i[1] = "FieldValues" => i = Values(i[2])
           /\ i[1] # "Users" => i = Values(i[2])
           /\ ~Tenanted(i)
BY ItemForms, ItemFields, ItemNs DEF Personal

LEMMA OfUserIs ==
    ASSUME NEW u \in Users, NEW T \in SUBSET Tenants, NEW i \in OfUser(u, T)
    PROVE  i[2] = u /\ (Tenanted(i) => i[3] \in T) /\ i \in OfUser(u, Tenants) /\ i \in Items
<1>1. \/ i = Person(u) \/ i = Values(u)
      \/ \E t \in T : i = Mapping(u, t) \/ i = Role(u, t) \/ i = Member(u, t) \/ i = MemberValues(u, t)
  BY DEF OfUser, OfTenant
<1>2. i \in OfUser(u, Tenants)
  BY <1>1 DEF OfUser, OfTenant
<1>3. i \in Items
  BY <1>2 DEF Items
<1>4. i[2] = u /\ (Tenanted(i) => i[3] \in T)
  BY <1>1, ItemFields, ItemNs
<1> QED BY <1>2, <1>3, <1>4

\* Who deletes him beside others, exposes all of a user.
\* Of a user with rows that are not exposed, the deletion runs alone.
LEMMA SoleDeletion ==
    ASSUME NEW u \in Users, Deleted(u), NEW i \in OfUser(u, Tenants), i \notin ExposedBy(scenario),
           scenario.writers \in Nat
    PROVE  scenario.writers <= 1
<1> SUFFICES ASSUME scenario.writers > 1 PROVE FALSE
  OBVIOUS
<1>1. <<"deleteUserById", u>>[1] = "deleteUserById" /\ <<"deleteUserById", u>>[2] = u
  OBVIOUS
<1>2. u \in DeletedBeside(scenario)
  BY <1>1 DEF DeletedBeside, Deleted
<1> QED BY <1>2 DEF ExposedBy

\* A user none of whose rows is exposed is not taken out of a tenant meanwhile.
LEMMA UnexposedKept ==
    ASSUME Types, NEW i \in Items, Personal(i), i \notin ExposedBy(scenario)
    PROVE  Kept(i[2])
<1> DEFINE u == i[2]
<1>1. u \in Users /\ i \in OfUser(u, Tenants)
  BY PersonalIs DEF OfUser, Personal
<1>2. ASSUME NEW q \in scenario.writes, q[1] = "convertRootMapping", q[2] = u PROVE FALSE
  <2>1. i \in OfUser(q[2], {q[3]})
    BY <1>2, PersonalIs DEF OfUser, Personal
  <2> QED BY <1>2, <2>1, NotExposed DEF Exposed
<1>3. Deleted(u) => scenario.writers <= 1
  BY <1>1, SoleDeletion, ScenarioIs
<1> QED BY <1>2, <1>3 DEF Kept

LEMMA DeletionIs ==
    ASSUME NEW q \in Requests, q[1] = "deleteUserById"
    PROVE  q[2] \in Users /\ q = <<"deleteUserById", q[2]>>
BY DEF Requests

(* What a handler has written, and what remains ahead of it.               *)

LEMMA LookingUser ==
    ASSUME NEW q \in Requests, q[1] \in Looking
    PROVE  q[2] \in Users
BY DEF Requests, Looking

LEMMA LookersLook ==
    ASSUME NEW q, PathOK(q), NEW k \in Nat, k > 0, WillLookUp(q, k)
    PROVE  q[1] \in Looking
<1>1. PICK m \in k..End(q) : StepsOf(q)[m].op = "lookup"
  BY DEF WillLookUp
<1>2. m \in 1..End(q)
  BY DEF PathOK
<1> QED BY <1>1, <1>2 DEF PathOK, StepOK

LEMMA WroteIs ==
    ASSUME Types, NEW w \in Writers, writes[w].at = "run", Sent(w), NEW i \in Items,
           writes[w].wrote[i] # 0
    PROVE  LET q == writes[w].op IN
           /\ Personal(i) \/ Tenanted(i) \/ i \in Exposed(q)
           /\ q[1] = "createFieldValues" => i = Values(q[2])
           /\ q[1] = "deleteUserById" => i \in OfUser(q[2], Tenants)
           /\ q[1] \in Looking \ {"deleteUserById"} => Personal(i)
           /\ Personal(i) /\ i \notin Exposed(q) =>
                 i[2] = q[2] /\ (q[1] \in Looking \/ (q[1] = "createUser" /\ i[1] = "Users"))
<1> DEFINE q == writes[w].op
<1>1. WriteOK(w) /\ PathOK(q) /\ End(q) \in Nat
  BY PathOf
<1>2. PICK m \in 1..(writes[w].next - 1) : i \in Touched(q, m)
  BY DEF Sent
<1>3. m \in 1..End(q)
  BY <1>1 DEF WriteOK
<1>4. Announced(q, m)
  BY <1>1, <1>3 DEF PathOK
<1> QED BY <1>2, <1>4 DEF Announced

LEMMA NsNotList ==
    ASSUME NEW i \in Items, NEW n \in NsOf(i)
    PROVE  ~OfList(n) /\ \A t : n # Userlist(t)
<1>1. \/ n = User(i[2]) \/ n = Ufields(i[2]) \/ n = Userfilter \/ n = Usertenant(i[2])
      \/ n = Userroles(i[2]) \/ n = Fieldsdef
  BY DEF NsOf
<1>2. ~OfList(n)
  BY <1>1, NsKinds
<1> QED BY <1>2, NsKinds

LEMMA UserlistIs == \A t, s : Userlist(t) = Userlist(s) => t = s
BY DEF Userlist

\* A namespace that has to be bumped when i is written after write k.
Served(i, k, n) ==
    \/ n \in NsOf(i)
    \/ \E t \in Tenants :
        /\ n = Userlist(t) /\ Claimed(t, i)
        /\ Tenanted(i) => i[3] = t
        /\ i[1] = "Users" => k # 0

Others(w) == DOMAIN writes' = Writers /\ \A v \in Writers \ {w} : writes'[v] = writes[v]

\* A write stays Good over a step that tells nobody anything and leaves every
\* bump that was ahead still ahead.
LEMMA GoodKept ==
    ASSUME NEW w \in Writers, NEW i, NEW k, NEW n, Good(i, k, n), Others(w), acked'[i] <= k,
           \A v \in Writers \ {w} : Newer(v, i, k) /\ Ahead(v, n) => Ahead(v, n)',
           Newer(w, i, k)' => Ahead(w, n)'
    PROVE  Good(i, k, n)'
<1>1. ASSUME NEW v \in Writers \ {w} PROVE Newer(v, i, k)' = Newer(v, i, k)
  BY DEF Newer, Others
<1>2. ASSUME NEW v \in Writers, Newer(v, i, k)' PROVE Ahead(v, n)'
  <2>1. CASE v = w
    BY <1>2, <2>1
  <2>2. CASE v # w
    BY <1>1, <1>2, <2>2 DEF Good
  <2> QED BY <2>1, <2>2
<1> QED BY <1>2 DEF Good

\* The step of w leaves the bumps of the other writers ahead, if it remaps nobody.
LEMMA OthersAhead ==
    ASSUME NEW w \in Writers, Others(w), UNCHANGED mapped, NEW n, NEW v \in Writers \ {w}
    PROVE  Ahead(v, n) => Ahead(v, n)'
BY DEF Ahead, TenantsAt, Others

\* The same writer, a step of no effect on what is ahead.
\* The bumps of w itself, past a step that is no bump.
LEMMA StillAhead ==
    ASSUME Types, NEW w \in Writers, writes[w].at = "run", writes[w].next \in 1..End(writes[w].op),
           Step(w).op # "bump", Step(w).op # "lookup", writes'[w].op = writes[w].op,
           writes'[w].next = writes[w].next + 1, writes'[w].queue = writes[w].queue,
           writes'[w].tenants = writes[w].tenants, NEW n, Ahead(w, n),
           WillLookUp(writes[w].op, writes[w].next) => UNCHANGED mapped
    PROVE  Ahead(w, n)'
<1> DEFINE q == writes[w].op
           k == writes[w].next
<1>1. End(q) \in Nat /\ k \in 1..End(q) /\ StepsOf(q)[k].op # "bump" /\ StepsOf(q)[k].op # "lookup"
  BY PathOf DEF Step, Steps
<1> HIDE DEF q, k
<1>2. /\ WillBump(q, k, n) => WillBump(q, k + 1, n)
      /\ WillBumpLists(q, k) => WillBumpLists(q, k + 1)
      /\ WillLookUp(q, k) <=> WillLookUp(q, k + 1)
  BY <1>1, OneStepOn
<1>3. TenantsAt(w)' = TenantsAt(w)
  <2>1. TenantsAt(w) = IF WillLookUp(q, k) THEN mapped[q[2]] ELSE writes[w].tenants
    BY DEF TenantsAt, q, k
  <2>2. TenantsAt(w)' = IF WillLookUp(q, k + 1) THEN mapped'[q[2]] ELSE writes[w].tenants
    BY DEF TenantsAt, q, k
  <2>3. WillLookUp(q, k) => mapped' = mapped
    BY DEF q, k
  <2> QED BY ONLY <2>1, <2>2, <2>3, <1>2
<1>4. CASE n \in Range(writes[w].queue)
  BY <1>4 DEF Ahead
<1>5. CASE WillBump(q, k, n)
  BY <1>5, <1>2 DEF Ahead, q, k
<1>6. CASE WillBumpLists(q, k) /\ n \in {Userlist(t) : t \in TenantsAt(w)}
  <2>1. WillBumpLists(writes'[w].op, writes'[w].next) /\ n \in {Userlist(t) : t \in TenantsAt(w)'}
    BY ONLY <1>6, <1>2, <1>3, writes'[w].op = writes[w].op,
           writes'[w].next = writes[w].next + 1 DEF q, k
  <2> QED BY <2>1 DEF Ahead
<1> QED BY <1>4, <1>5, <1>6 DEF Ahead, q, k

(* The steps of a handler, and what they leave as it was.                  *)

Keeps(w) ==
    /\ Others(w) /\ writes'[w].at = "run" /\ writes'[w].op = writes[w].op
    /\ DOMAIN writes'[w] = DOMAIN NotStarted

LEMMA WriterFields == DOMAIN NotStarted = {"at", "op", "next", "queue", "tenants", "wrote"}
BY DEF NotStarted

LEMMA AtStepIs ==
    ASSUME Types, NEW w \in Writers, NEW o, AtStep(w, o)
    PROVE  LET q == writes[w].op IN
           /\ writes[w].at = "run" /\ writes[w].queue = <<>> /\ Step(w).op = o
           /\ WriteOK(w) /\ q \in scenario.writes /\ q \in Requests
           /\ End(q) \in Nat /\ writes[w].next \in 1..End(q)
           /\ Step(w) = StepsOf(q)[writes[w].next]
           /\ StepOK(q, writes[w].next) /\ Announced(q, writes[w].next) /\ PathOK(q)
<1>1. writes[w].at = "run" /\ writes[w].queue = <<>> /\ Step(w).op = o
  BY DEF AtStep
<1>2. WriteOK(w) /\ writes[w].op \in Requests /\ PathOK(writes[w].op) /\ End(writes[w].op) \in Nat
  BY <1>1, PathOf
<1>3. writes[w].next \in 1..End(writes[w].op) /\ Step(w) = StepsOf(writes[w].op)[writes[w].next]
  BY DEF AtStep, Steps, Step, End
<1> QED BY <1>1, <1>2, <1>3 DEF WriteOK, PathOK

LEMMA StartEffect ==
    ASSUME Types, NEW w \in Writers, NEW q, Start(w, q)
    PROVE  /\ Others(w) /\ DOMAIN writes'[w] = DOMAIN NotStarted
           /\ writes[w] = NotStarted /\ writes[w].at = "new"
           /\ writes'[w].at = "run" /\ writes'[w].op = q /\ writes'[w].next = 1
           /\ writes'[w].queue = <<>> /\ writes'[w].tenants = {} /\ writes'[w].wrote = Zero
<1>1. writes[w] = NotStarted
  BY DEF Start, Types, WriteOK
<1>2. DOMAIN writes[w] = {"at", "op", "next", "queue", "tenants", "wrote"} /\ DOMAIN writes = Writers
  BY WriterFields DEF Types
<1>3. /\ writes[w].at = "new" /\ writes[w].next = 1 /\ writes[w].queue = <<>>
      /\ writes[w].tenants = {} /\ writes[w].wrote = Zero
  BY <1>1 DEF NotStarted
<1>4. writes' = [writes EXCEPT ![w].at = "run", ![w].op = q]
  BY DEF Start
<1>5. Others(w)
  BY <1>2, <1>4 DEF Others
<1>6. /\ DOMAIN writes'[w] = DOMAIN NotStarted
      /\ writes'[w].at = "run" /\ writes'[w].op = q /\ writes'[w].next = writes[w].next
      /\ writes'[w].queue = writes[w].queue /\ writes'[w].tenants = writes[w].tenants
      /\ writes'[w].wrote = writes[w].wrote
  BY <1>2, <1>4, WriterFields
<1> QED BY <1>1, <1>3, <1>5, <1>6

LEMMA SaveEffect ==
    ASSUME Types, NEW w \in Writers, SaveRows(w) \/ SaveMapping(w)
    PROVE  /\ Keeps(w) /\ Step(w).op \in {"save", "remap"}
           /\ AtStep(w, "save") \/ AtStep(w, "remap")
           /\ writes'[w].next = writes[w].next + 1 /\ writes'[w].queue = writes[w].queue
           /\ writes'[w].tenants = writes[w].tenants /\ writes'[w].wrote = WroteNow(w)
           /\ rows' = Written(w) /\ UNCHANGED <<acked, ver, entries, reads, scenario>>
           /\ Step(w).op = "remap" \/ UNCHANGED mapped
<1>1. AtStep(w, "save") \/ AtStep(w, "remap")
  BY DEF SaveRows, SaveMapping
<1>2. writes' = [writes EXCEPT ![w].next = @ + 1, ![w].wrote = WroteNow(w)]
  BY DEF SaveRows, SaveMapping
<1>3. /\ DOMAIN writes = Writers
      /\ DOMAIN writes[w] = {"at", "op", "next", "queue", "tenants", "wrote"}
  BY WriterFields DEF Types
<1>4. writes[w].at = "run"
  BY <1>1 DEF AtStep
<1>5. Others(w)
  BY <1>2, <1>3 DEF Others
<1>6. /\ writes'[w].at = writes[w].at /\ writes'[w].op = writes[w].op
      /\ writes'[w].next = writes[w].next + 1 /\ writes'[w].queue = writes[w].queue
      /\ writes'[w].tenants = writes[w].tenants /\ writes'[w].wrote = WroteNow(w)
      /\ DOMAIN writes'[w] = DOMAIN NotStarted
  BY <1>2, <1>3, WriterFields
<1>7. Step(w).op \in {"save", "remap"}
  BY <1>1 DEF AtStep
<1>8. /\ rows' = Written(w) /\ UNCHANGED <<acked, ver, entries, reads, scenario>>
      /\ Step(w).op = "remap" \/ UNCHANGED mapped
  BY DEF SaveRows, SaveMapping, AtStep
<1> QED BY <1>1, <1>4, <1>5, <1>6, <1>7, <1>8 DEF Keeps

LEMMA LookUpEffect ==
    ASSUME Types, NEW w \in Writers, LookUpTenants(w) \/ LookUpFails(w)
    PROVE  /\ Keeps(w) /\ AtStep(w, "lookup")
           /\ writes'[w].next = writes[w].next + 1 /\ writes'[w].queue = writes[w].queue
           /\ writes'[w].wrote = writes[w].wrote
           /\ UNCHANGED <<rows, mapped, acked, ver, entries, reads, scenario>>
           /\ \/ LookUpTenants(w) /\ writes'[w].tenants = mapped[Step(w).user]
              \/ LookUpFails(w) /\ writes'[w].tenants = {}
<1>1. AtStep(w, "lookup") /\ UNCHANGED <<rows, mapped, acked, ver, entries, reads, scenario>>
  BY DEF LookUpTenants, LookUpFails
<1>2. PICK T : /\ writes' = [writes EXCEPT ![w].next = @ + 1, ![w].tenants = T]
               /\ \/ LookUpTenants(w) /\ T = mapped[Step(w).user]
                  \/ LookUpFails(w) /\ T = {}
  BY DEF LookUpTenants, LookUpFails
<1>3. /\ DOMAIN writes = Writers
      /\ DOMAIN writes[w] = {"at", "op", "next", "queue", "tenants", "wrote"}
  BY WriterFields DEF Types
<1>4. writes[w].at = "run"
  BY <1>1 DEF AtStep
<1>5. Others(w)
  BY <1>2, <1>3 DEF Others
<1>6. /\ writes'[w].at = writes[w].at /\ writes'[w].op = writes[w].op
      /\ writes'[w].next = writes[w].next + 1 /\ writes'[w].queue = writes[w].queue
      /\ writes'[w].tenants = T /\ writes'[w].wrote = writes[w].wrote
      /\ DOMAIN writes'[w] = DOMAIN NotStarted
  BY <1>2, <1>3, WriterFields
<1> QED BY <1>1, <1>2, <1>4, <1>5, <1>6 DEF Keeps

LEMMA InvalidateEffect ==
    ASSUME Types, NEW w \in Writers, Invalidate(w)
    PROVE  /\ Keeps(w) /\ AtStep(w, "bump")
           /\ writes'[w].next = writes[w].next + 1 /\ writes'[w].wrote = writes[w].wrote
           /\ writes'[w].tenants = writes[w].tenants
           /\ UNCHANGED <<rows, mapped, acked, entries, reads, scenario>>
           /\ \/ /\ scenario.provider = "memory" /\ writes'[w].queue = writes[w].queue
                 /\ ver' = [n \in Namespaces |-> IF Contains(Batch(w), n) THEN Version(n) + 1
                                                 ELSE ver[n]]
              \/ scenario.provider # "memory" /\ writes'[w].queue = Batch(w) /\ UNCHANGED ver
<1>1. AtStep(w, "bump") /\ UNCHANGED <<rows, mapped, acked, entries, reads, scenario>>
  BY DEF Invalidate
<1>2. /\ DOMAIN writes = Writers
      /\ DOMAIN writes[w] = {"at", "op", "next", "queue", "tenants", "wrote"}
  BY WriterFields DEF Types
<1>3. writes[w].at = "run"
  BY <1>1 DEF AtStep
<1>4. CASE scenario.provider = "memory"
  <2>1. /\ ver' = [n \in Namespaces |-> IF Contains(Batch(w), n) THEN Version(n) + 1 ELSE ver[n]]
        /\ writes' = [writes EXCEPT ![w].next = @ + 1]
    BY <1>4 DEF Invalidate
  <2>2. Others(w)
    BY <1>2, <2>1 DEF Others
  <2>3. /\ writes'[w].at = writes[w].at /\ writes'[w].op = writes[w].op
        /\ writes'[w].next = writes[w].next + 1 /\ writes'[w].queue = writes[w].queue
        /\ writes'[w].tenants = writes[w].tenants /\ writes'[w].wrote = writes[w].wrote
        /\ DOMAIN writes'[w] = DOMAIN NotStarted
    BY <1>2, <2>1, WriterFields
  <2> QED BY <1>1, <1>3, <1>4, <2>1, <2>2, <2>3 DEF Keeps
<1>5. CASE scenario.provider # "memory"
  <2>1. writes' = [writes EXCEPT ![w].next = @ + 1, ![w].queue = Batch(w)] /\ ver' = ver
    BY <1>5 DEF Invalidate
  <2>2. Others(w)
    BY <1>2, <2>1 DEF Others
  <2>3. /\ writes'[w].at = writes[w].at /\ writes'[w].op = writes[w].op
        /\ writes'[w].next = writes[w].next + 1 /\ writes'[w].queue = Batch(w)
        /\ writes'[w].tenants = writes[w].tenants /\ writes'[w].wrote = writes[w].wrote
        /\ DOMAIN writes'[w] = DOMAIN NotStarted
    BY <1>2, <2>1, WriterFields
  <2> QED BY <1>1, <1>3, <1>5, <2>1, <2>2, <2>3 DEF Keeps
<1> QED BY <1>4, <1>5

LEMMA SendReplyEffect ==
    ASSUME Types, NEW w \in Writers, SendReply(w)
    PROVE  /\ Keeps(w) /\ AtStep(w, "reply")
           /\ writes'[w].next = writes[w].next + 1 /\ writes'[w].wrote = writes[w].wrote
           /\ writes'[w].tenants = writes[w].tenants /\ writes'[w].queue = writes[w].queue
           /\ acked' = AckedWith(w)
           /\ UNCHANGED <<rows, mapped, ver, entries, reads, scenario>>
<1>1. AtStep(w, "reply") /\ acked' = AckedWith(w)
      /\ UNCHANGED <<rows, mapped, ver, entries, reads, scenario>>
  BY DEF SendReply
<1>2. /\ DOMAIN writes = Writers
      /\ DOMAIN writes[w] = {"at", "op", "next", "queue", "tenants", "wrote"}
  BY WriterFields DEF Types
<1>3. writes[w].at = "run"
  BY <1>1 DEF AtStep
<1>4. writes' = [writes EXCEPT ![w].next = @ + 1]
  BY DEF SendReply
<1>5. Others(w)
  BY <1>2, <1>4 DEF Others
<1>6. /\ writes'[w].at = writes[w].at /\ writes'[w].op = writes[w].op
      /\ writes'[w].next = writes[w].next + 1 /\ writes'[w].queue = writes[w].queue
      /\ writes'[w].tenants = writes[w].tenants /\ writes'[w].wrote = writes[w].wrote
      /\ DOMAIN writes'[w] = DOMAIN NotStarted
  BY <1>2, <1>4, WriterFields
<1> QED BY <1>1, <1>3, <1>5, <1>6 DEF Keeps

LEMMA ThrowEffect ==
    ASSUME Types, NEW w \in Writers, Throw(w)
    PROVE  /\ Keeps(w)
           /\ AtStep(w, "save") \/ AtStep(w, "remap") \/ AtStep(w, "lookup")
           /\ writes'[w].next = End(writes[w].op) + 1 /\ writes'[w].wrote = writes[w].wrote
           /\ writes'[w].tenants = writes[w].tenants /\ writes'[w].queue = writes[w].queue
           /\ UNCHANGED <<rows, mapped, acked, ver, entries, reads, scenario>>
<1>1. (AtStep(w, "save") \/ AtStep(w, "remap") \/ AtStep(w, "lookup"))
      /\ UNCHANGED <<rows, mapped, acked, ver, entries, reads, scenario>>
  BY DEF Throw
<1>2. /\ DOMAIN writes = Writers
      /\ DOMAIN writes[w] = {"at", "op", "next", "queue", "tenants", "wrote"}
  BY WriterFields DEF Types
<1>3. writes[w].at = "run"
  BY <1>1 DEF AtStep
<1>4. writes' = [writes EXCEPT ![w].next = Len(Steps(w)) + 1]
  BY DEF Throw
<1>5. Others(w)
  BY <1>2, <1>4 DEF Others
<1>6. /\ writes'[w].at = writes[w].at /\ writes'[w].op = writes[w].op
      /\ writes'[w].next = Len(Steps(w)) + 1 /\ writes'[w].queue = writes[w].queue
      /\ writes'[w].tenants = writes[w].tenants /\ writes'[w].wrote = writes[w].wrote
      /\ DOMAIN writes'[w] = DOMAIN NotStarted
  BY <1>2, <1>4, WriterFields
<1>7. Len(Steps(w)) = End(writes[w].op)
  BY DEF Steps, End
<1> QED BY <1>1, <1>3, <1>5, <1>6, <1>7 DEF Keeps

LEMMA IncrEffect ==
    ASSUME Types, NEW w \in Writers, Incr(w)
    PROVE  LET n == Head(writes[w].queue)
               again == IF ver[n] = 0 THEN <<n>> ELSE <<>>
           IN
           /\ Keeps(w) /\ writes[w].at = "run" /\ WriteOK(w)
           /\ writes[w].queue # <<>> /\ n \in Namespaces
           /\ writes'[w].next = writes[w].next /\ writes'[w].wrote = writes[w].wrote
           /\ writes'[w].tenants = writes[w].tenants
           /\ writes'[w].queue = Tail(writes[w].queue) \o again
           /\ ver' = [ver EXCEPT ![n] = ver[n] + 1]
           /\ UNCHANGED <<rows, mapped, acked, entries, reads, scenario>>
<1> DEFINE n == Head(writes[w].queue)
           again == IF ver[n] = 0 THEN <<n>> ELSE <<>>
<1>1. writes[w].queue # <<>> /\ UNCHANGED <<rows, mapped, acked, entries, reads, scenario>>
  BY DEF Incr
<1>2. /\ DOMAIN writes = Writers
      /\ DOMAIN writes[w] = {"at", "op", "next", "queue", "tenants", "wrote"}
  BY WriterFields DEF Types
<1>3. writes[w].at = "run" /\ WriteOK(w)
  BY <1>1 DEF Types, WriteOK, NotStarted
<1>4. writes' = [writes EXCEPT ![w].queue = Tail(@) \o again] /\ ver' = [ver EXCEPT ![n] = ver[n] + 1]
  BY DEF Incr
<1>5. Others(w)
  BY <1>2, <1>4 DEF Others
<1>6. n \in Namespaces
  BY <1>1, <1>3 DEF WriteOK
<1> HIDE DEF n, again
<1>7. /\ writes'[w].at = writes[w].at /\ writes'[w].op = writes[w].op
      /\ writes'[w].next = writes[w].next /\ writes'[w].queue = Tail(writes[w].queue) \o again
      /\ writes'[w].tenants = writes[w].tenants /\ writes'[w].wrote = writes[w].wrote
      /\ DOMAIN writes'[w] = DOMAIN NotStarted
  BY <1>2, <1>4, WriterFields
<1> QED BY <1>1, <1>3, <1>4, <1>5, <1>6, <1>7 DEF Keeps, n, again

(* Good survives the steps of the writers.                                 *)

LEMMA GoodStart ==
    ASSUME Base, NEW w \in Writers, NEW q, Start(w, q), NEW i \in Items, NEW k \in Nat, NEW n,
           Good(i, k, n)
    PROVE  Good(i, k, n)'
<1>1. /\ Others(w) /\ writes'[w].wrote = Zero /\ UNCHANGED mapped /\ acked'[i] <= k
  BY StartEffect DEF Base, Good, Start
<1>2. ~Newer(w, i, k)'
  BY <1>1 DEF Newer, Zero
<1>3. \A v \in Writers \ {w} : Newer(v, i, k) /\ Ahead(v, n) => Ahead(v, n)'
  BY <1>1, OthersAhead
<1> QED BY <1>1, <1>2, <1>3, GoodKept

LEMMA GoodThrow ==
    ASSUME Base, NEW w \in Writers, Throw(w), NEW i \in Items, NEW k \in Nat, NEW n,
           Good(i, k, n)
    PROVE  Good(i, k, n)'
<1>1. /\ Others(w) /\ writes'[w].op = writes[w].op /\ writes'[w].next = End(writes[w].op) + 1
      /\ UNCHANGED mapped /\ acked'[i] <= k
  BY ThrowEffect DEF Base, Good, Keeps
<1>2. End(writes[w].op) \in Nat
  BY ThrowEffect, AtStepIs DEF Base
<1>3. ~Newer(w, i, k)'
  BY <1>1, <1>2, PastEnd DEF Newer
<1>4. \A v \in Writers \ {w} : Newer(v, i, k) /\ Ahead(v, n) => Ahead(v, n)'
  BY <1>1, OthersAhead
<1> QED BY <1>1, <1>3, <1>4, GoodKept

LEMMA GoodReply ==
    ASSUME Base, NEW w \in Writers, SendReply(w), NEW i \in Items, NEW k \in Nat, NEW n,
           Good(i, k, n)
    PROVE  Good(i, k, n)'
<1>1. Types
  BY DEF Base
<1>2. /\ Keeps(w) /\ AtStep(w, "reply") /\ writes'[w].wrote = writes[w].wrote
      /\ acked' = AckedWith(w) /\ UNCHANGED mapped
  BY <1>1, SendReplyEffect
<1>3. /\ writes[w].at = "run" /\ writes[w].queue = <<>> /\ WriteOK(w)
      /\ End(writes[w].op) \in Nat /\ writes[w].next \in 1..End(writes[w].op)
      /\ StepsOf(writes[w].op)[writes[w].next].op = "reply"
  BY <1>1, <1>2, AtStepIs
<1>4. /\ ~WillBump(writes[w].op, writes[w].next, n)
      /\ ~WillBumpLists(writes[w].op, writes[w].next) /\ Unanswered(writes[w].op, writes[w].next)
  BY <1>3, NoneAtReply
<1>5. Range(writes[w].queue) = {}
  BY <1>3 DEF Range
<1>6. writes[w].wrote[i] <= k
  <2>1. ~Ahead(w, n)
    BY <1>4, <1>5 DEF Ahead
  <2>2. ~Newer(w, i, k)
    BY <2>1 DEF Good
  <2> QED BY <1>3, <1>4, <2>2 DEF Newer, WriteOK
<1>7. acked'[i] <= k /\ ~Newer(w, i, k)'
  BY <1>2, <1>3, <1>6 DEF Good, AckedWith, Newer, WriteOK
<1>8. \A v \in Writers \ {w} : Newer(v, i, k) /\ Ahead(v, n) => Ahead(v, n)'
  BY <1>2, OthersAhead DEF Keeps
<1> QED BY <1>2, <1>7, <1>8, GoodKept DEF Keeps

LEMMA GoodLookUp ==
    ASSUME Base, NEW w \in Writers, LookUpTenants(w) \/ LookUpFails(w),
           NEW i \in Items, NEW k \in Nat, NEW n, Served(i, k, n), Good(i, k, n)
    PROVE  Good(i, k, n)'
<1> DEFINE q == writes[w].op
           m == writes[w].next
<1>1. Types /\ Sent(w)
  BY DEF Base
<1>2. /\ Keeps(w) /\ AtStep(w, "lookup") /\ writes'[w].next = m + 1
      /\ writes'[w].queue = writes[w].queue /\ writes'[w].wrote = writes[w].wrote
      /\ UNCHANGED <<mapped, acked>> /\ writes'[w].op = q
      /\ \/ LookUpTenants(w) /\ writes'[w].tenants = mapped[Step(w).user]
         \/ LookUpFails(w) /\ writes'[w].tenants = {}
  BY <1>1, LookUpEffect DEF Keeps
<1>3. /\ writes[w].at = "run" /\ WriteOK(w) /\ q \in scenario.writes
      /\ End(q) \in Nat /\ m \in 1..End(q) /\ StepsOf(q)[m].op = "lookup"
      /\ Step(w).user = q[2] /\ q[2] \in Users /\ (Step(w).quiet <=> q[1] = "createFieldValues")
  BY <1>1, <1>2, AtStepIs DEF StepOK
<1>4. /\ WillBump(q, m, n) => WillBump(q, m + 1, n)
      /\ WillBumpLists(q, m) => WillBumpLists(q, m + 1)
      /\ Unanswered(q, m + 1) => Unanswered(q, m)
  <2> HIDE DEF q, m
  <2>1. StepsOf(q)[m].op # "bump"
    BY <1>3
  <2> QED BY <1>3, <2>1, OneStepOn
<1>5. WillLookUp(q, m)
  BY <1>3 DEF WillLookUp
<1>6. TenantsAt(w) = mapped[q[2]]
  BY <1>5 DEF TenantsAt
<1>7. TenantsAt(w)' = IF WillLookUp(q, m + 1) THEN mapped[q[2]] ELSE writes'[w].tenants
  BY <1>2 DEF TenantsAt
<1>8. ASSUME Newer(w, i, k)' PROVE Ahead(w, n)'
  <2>1. Newer(w, i, k)
    BY <1>2, <1>3, <1>4, <1>8 DEF Newer
  <2>2. Ahead(w, n)
    BY <2>1 DEF Good
  <2>3. CASE n \in Range(writes[w].queue)
    BY <1>2, <2>3 DEF Ahead
  <2>4. CASE WillBump(q, m, n)
    BY <1>2, <1>4, <2>4 DEF Ahead
  <2>5. CASE WillBumpLists(q, m) /\ n \in {Userlist(t) : t \in TenantsAt(w)}
    <3>1. writes'[w].tenants = mapped[Step(w).user]
      <4> SUFFICES ASSUME LookUpFails(w) PROVE FALSE
        BY <1>2
      <4>1. q[1] = "createFieldValues" /\ scenario.failures
        BY <1>3 DEF LookUpFails
      <4>2. writes[w].wrote[i] # 0
        BY <2>1, <1>3 DEF Newer, WriteOK
      <4>3. i = Values(q[2])
        BY <1>1, <1>3, <4>1, <4>2, WroteIs
      <4>4. q[2] \in LookedUpInVain(scenario)
        BY <1>3, <4>1 DEF LookedUpInVain
      <4>5. i \in ExposedBy(scenario)
        BY <4>3, <4>4 DEF ExposedBy
      <4>6. n \notin NsOf(i)
        BY <2>5, NsNotList
      <4> QED BY <4>5, <4>6 DEF Served, Claimed
    <3>2. writes'[w].tenants = mapped[q[2]]
      BY <1>3, <3>1
    <3>3. TenantsAt(w)' = TenantsAt(w)
      BY <1>6, <1>7, <3>2
    <3>4. WillBumpLists(writes'[w].op, writes'[w].next) /\ n \in {Userlist(t) : t \in TenantsAt(w)'}
      BY <1>2, <1>4, <2>5, <3>3
    <3> QED BY <3>4 DEF Ahead
  <2> QED BY <2>2, <2>3, <2>4, <2>5 DEF Ahead
<1>9. \A v \in Writers \ {w} : Newer(v, i, k) /\ Ahead(v, n) => Ahead(v, n)'
  BY <1>2, OthersAhead DEF Keeps
<1>10. acked'[i] <= k
  BY <1>2 DEF Good
<1> QED BY <1>2, <1>8, <1>9, <1>10, GoodKept DEF Keeps

(* A write of w: the rows it changes are those it has to bump for.         *)

LEMMA RemapLeaves ==
    ASSUME Base, NEW w \in Writers, SaveMapping(w), NEW u \in Users, NEW t, t \in mapped[u],
           t \notin mapped'[u]
    PROVE  LET q == writes[w].op IN
           /\ u = q[2] /\ q \in scenario.writes
           /\ q[1] = "convertRootMapping" \/ (q[1] = "deleteUserById" /\ Deleted(u))
<1> DEFINE q == writes[w].op
<1>1. Types
  BY DEF Base
<1>2. AtStep(w, "remap")
  BY DEF SaveMapping
<1>3. RemapOK(q, Step(w)) /\ q \in scenario.writes /\ q \in Requests
  BY <1>1, <1>2, AtStepIs DEF StepOK
<1>4. mapped' = [mapped EXCEPT ![Step(w).user] = (mapped[Step(w).user] \ Step(w).from) \cup Step(w).to]
  BY DEF SaveMapping
<1>5. u = Step(w).user /\ Step(w).from # {}
  BY <1>1, <1>4 DEF Types
<1>6. u = q[2] /\ q[1] \in {"deleteUserById", "convertRootMapping"}
  BY <1>3, <1>5 DEF RemapOK
<1>7. q[1] = "deleteUserById" => Deleted(u)
  BY <1>3, <1>6, DeletionIs DEF Deleted
<1> QED BY <1>3, <1>6, <1>7

\* Another writer about to bump the lists of a user bumps them all the same when
\* w remaps the user, but for a list that the rows are exposed in.
LEMMA OthersAheadOfRemap ==
    ASSUME Base, NEW w \in Writers, SaveMapping(w), Others(w),
           NEW i \in Items, NEW k \in Nat, NEW n, Served(i, k, n),
           NEW v \in Writers \ {w}, Newer(v, i, k), Ahead(v, n)
    PROVE  Ahead(v, n)'
<1> DEFINE p == writes[v].op
           m == writes[v].next
           q == writes[w].op
<1>1. Types /\ Sent(v) /\ writes'[v] = writes[v]
  BY DEF Base, Others
<1>2. writes[v].at = "run" /\ writes[v].wrote[i] > k
  BY DEF Newer
<1>3. WriteOK(v) /\ p \in Requests /\ PathOK(p)
  BY <1>1, <1>2, PathOf
<1>4. CASE n \in Range(writes[v].queue) \/ WillBump(p, m, n)
  BY <1>1, <1>4 DEF Ahead
<1>5. CASE WillBumpLists(p, m) /\ n \in {Userlist(t) : t \in TenantsAt(v)}
  <2>1. PICK t \in TenantsAt(v) : n = Userlist(t)
    BY <1>5
  <2>2. CASE t \in TenantsAt(v)'
    <3>1. WillBumpLists(writes'[v].op, writes'[v].next) /\ n \in {Userlist(x) : x \in TenantsAt(v)'}
      BY <1>1, <1>5, <2>1, <2>2
    <3> QED BY <3>1 DEF Ahead
  <2>3. CASE t \notin TenantsAt(v)'
    <3>1. WillLookUp(p, m) /\ t \in mapped[p[2]] /\ t \notin mapped'[p[2]]
      BY <1>1, <2>1, <2>3 DEF TenantsAt
    <3>2. m \in Nat /\ m > 0 /\ p \in scenario.writes /\ writes[v].wrote[i] \in Nat
      BY <1>3 DEF WriteOK, PathOK
    <3>3. p[1] \in Looking
      BY <1>3, <3>1, <3>2, LookersLook
    <3>4. p[2] \in Users
      BY <1>3, <3>3, LookingUser
    <3>5. /\ p[2] = q[2] /\ q \in scenario.writes
          /\ q[1] = "convertRootMapping" \/ (q[1] = "deleteUserById" /\ Deleted(p[2]))
      BY <3>1, <3>4, RemapLeaves
    <3>6. n \notin NsOf(i)
      BY <2>1, NsNotList
    <3>7. i \notin ExposedBy(scenario)
      BY <3>6 DEF Served, Claimed
    <3>8. writes[v].wrote[i] # 0
      BY <1>2, <3>2
    <3>9. i \in OfUser(p[2], Tenants) /\ (q[1] = "convertRootMapping" => p[1] = "deleteUserById")
      <4>1. CASE p[1] = "deleteUserById"
        BY <1>1, <1>2, <3>8, <4>1, WroteIs
      <4>2. CASE p[1] # "deleteUserById"
        <5>1. Personal(i)
          BY <1>1, <1>2, <3>3, <3>8, <4>2, WroteIs
        <5>2. i[2] = p[2]
          BY <1>1, <1>2, <3>2, <3>7, <3>8, <5>1, WroteIs, NotExposed
        <5>3. Kept(p[2])
          BY <1>1, <3>7, <5>1, <5>2, UnexposedKept
        <5>4. i \in OfUser(p[2], Tenants)
          BY <5>1, <5>2, PersonalIs DEF OfUser, Personal
        <5> QED BY <3>5, <5>3, <5>4 DEF Kept
      <4> QED BY <4>1, <4>2
    <3>10. Deleted(p[2])
      BY <1>3, <3>2, <3>5, <3>9, DeletionIs DEF Deleted
    <3>11. scenario.writers <= 1
      BY <1>1, <3>4, <3>7, <3>9, <3>10, SoleDeletion, ScenarioIs
    <3>12. writes[w].at # "new" /\ writes[v].at # "new"
      BY <1>2 DEF SaveMapping, AtStep
    <3> QED BY <3>11, <3>12 DEF Base, Alone1
  <2> QED BY <2>2, <2>3
<1> QED BY <1>4, <1>5 DEF Ahead

\* What w writes of i it will announce to the namespaces that i is served by.
LEMMA WrittenAhead ==
    ASSUME Base, NEW w \in Writers, SaveRows(w) \/ SaveMapping(w),
           NEW i \in Items, NEW k \in Nat, NEW n, Served(i, k, n), i \in Changed(w), Newer(w, i, k)'
    PROVE  Ahead(w, n)'
<1> DEFINE q == writes[w].op
           m == writes[w].next
           u == q[2]
<1>1. Types
  BY DEF Base
<1>2. /\ Keeps(w) /\ writes'[w].next = m + 1 /\ writes'[w].op = q
      /\ writes'[w].tenants = writes[w].tenants /\ writes'[w].wrote = WroteNow(w)
      /\ Step(w).op = "remap" \/ UNCHANGED mapped
      /\ Step(w).op \in {"save", "remap"} /\ (AtStep(w, "save") \/ AtStep(w, "remap"))
  BY <1>1, SaveEffect DEF Keeps
<1>3. /\ writes[w].at = "run" /\ q \in scenario.writes /\ q \in Requests /\ WriteOK(w)
      /\ End(q) \in Nat /\ m \in 1..End(q) /\ Step(w) = StepsOf(q)[m]
      /\ StepOK(q, m) /\ Announced(q, m) /\ PathOK(q)
  BY <1>1, <1>2, AtStepIs
<1>4. i \in Touched(q, m)
  BY <1>2, <1>3 DEF Touched, Changed
<1>5. /\ WillLookUp(q, m) <=> WillLookUp(q, m + 1)
      /\ Unanswered(q, m + 1) => Unanswered(q, m)
      /\ Step(w).op = "remap" => ~WillLookUp(q, m)
  <2>1. StepsOf(q)[m].op # "lookup" /\ StepsOf(q)[m].op # "bump"
    BY <1>2, <1>3
  <2>2. Step(w).op = "remap" => ~WillLookUp(q, m)
    BY <1>3 DEF StepOK
  <2> HIDE DEF q, m
  <2> QED BY <1>3, <2>1, <2>2, OneStepOn
<1>6. TenantsAt(w)' = TenantsAt(w)
  <2>1. TenantsAt(w)' = IF WillLookUp(q, m + 1) THEN mapped'[u] ELSE writes[w].tenants
    BY <1>2 DEF TenantsAt
  <2>2. WillLookUp(q, m) => mapped' = mapped
    BY <1>2, <1>5
  <2> QED BY <1>5, <2>1, <2>2 DEF TenantsAt
<1>7. Unanswered(q, m)
  BY <1>2, <1>5 DEF Newer
<1>8. ASSUME WillBump(q, m + 1, n) PROVE Ahead(w, n)'
  BY <1>2, <1>8 DEF Ahead
<1>9. ASSUME WillBumpLists(q, m + 1), NEW t, n = Userlist(t), t \in TenantsAt(w)
      PROVE  Ahead(w, n)'
  <2>1. WillBumpLists(writes'[w].op, writes'[w].next) /\ n \in {Userlist(x) : x \in TenantsAt(w)'}
    BY <1>2, <1>6, <1>9
  <2> QED BY <2>1 DEF Ahead
<1>10. CASE n \in NsOf(i)
  BY <1>3, <1>4, <1>8, <1>10 DEF Announced
<1>11. CASE \E t \in Tenants : /\ n = Userlist(t) /\ Claimed(t, i)
                               /\ Tenanted(i) => i[3] = t
                               /\ i[1] = "Users" => k # 0
  <2>1. PICK t \in Tenants : /\ n = Userlist(t) /\ Claimed(t, i)
                             /\ Tenanted(i) => i[3] = t
                             /\ i[1] = "Users" => k # 0
    BY <1>11
  <2>2. i \notin ExposedBy(scenario) /\ i \notin Exposed(q)
    BY <1>3, <2>1, NotExposed DEF Claimed
  <2>3. Personal(i) \/ Tenanted(i)
    BY <1>3, <1>4, <2>2 DEF Announced
  <2>4. CASE q[1] = "deleteUserById"
    <3>1. WillBumpLists(q, m + 1) /\ i \in OfUser(u, Tenants)
      BY <1>3, <1>4, <2>4 DEF Announced
    <3>2. Deleted(u) /\ u \in Users
      BY <1>3, <2>4, DeletionIs DEF Deleted
    <3>3. scenario.writers <= 1
      BY <1>1, <2>2, <3>1, <3>2, SoleDeletion, ScenarioIs
    <3>4. q[1] \in Looking
      BY <2>4 DEF Looking
    <3>5. /\ mapped[u] \subseteq scenario.home[u]
          /\ scenario.home[u] \subseteq TenantsAt(w)
          /\ \A j \in Items : Tenanted(j) /\ j[2] = u /\ rows[j] # 0 => j[3] \in scenario.home[u]
      BY <1>3, <1>7, <2>4, <3>3, <3>4 DEF Base, Alone1, AtHome
    <3>6. i[2] = u
      BY <3>1, <3>2, OfUserIs
    <3>7. t \in scenario.home[u]
      <4>1. CASE Tenanted(i)
        <5>1. rows[i] # 0
          BY <1>2, <1>3, <2>4 DEF Changed, StepOK
        <5> QED BY <2>1, <3>5, <3>6, <4>1, <5>1
      <4>2. CASE Personal(i)
        BY <2>1, <3>5, <3>6, <4>2 DEF Claimed, Seat
      <4> QED BY <2>3, <4>1, <4>2
    <3> QED BY <1>9, <2>1, <3>1, <3>5, <3>7
  <2>5. CASE q[1] # "deleteUserById" /\ Tenanted(i)
    <3>1. WillBump(q, m + 1, Userlist(i[3]))
      BY <1>3, <1>4, <2>2, <2>5 DEF Announced
    <3> QED BY <1>8, <2>1, <2>5, <3>1
  <2>6. CASE q[1] # "deleteUserById" /\ Personal(i)
    <3>1. /\ i[2] = u
          /\ \/ q[1] \in Looking /\ WillBumpLists(q, m + 1)
             \/ q[1] = "createUser" /\ i[1] = "Users"
      BY <1>3, <1>4, <2>2, <2>6 DEF Announced
    <3>2. CASE q[1] \in Looking /\ WillBumpLists(q, m + 1)
      <4>1. WillLookUp(q, m)
        BY <1>3, <1>4, <1>5, <2>6, <3>2 DEF Announced
      <4>2. TenantsAt(w) = mapped[u]
        BY <4>1 DEF TenantsAt
      <4>3. t \in Seat(u)
        BY <2>1, <2>6, <3>1 DEF Claimed
      <4>4. t \in mapped[u]
        <5>1. CASE ~Deleted(u)
          BY <4>3, <5>1 DEF Seat
        <5>2. CASE Deleted(u)
          <6>1. u \in Users /\ i \in OfUser(u, Tenants)
            BY <2>6, <3>1, PersonalIs DEF OfUser, Personal
          <6>2. scenario.writers <= 1
            BY <1>1, <2>2, <5>2, <6>1, SoleDeletion, ScenarioIs
          <6>3. scenario.home[u] \subseteq mapped[u]
            BY <1>3, <3>2, <4>1, <6>2 DEF Base, Alone1, AtHome
          <6> QED BY <4>3, <6>3 DEF Seat
        <5> QED BY <5>1, <5>2
      <4> QED BY <1>9, <2>1, <3>2, <4>2, <4>4
    <3>3. CASE q[1] = "createUser" /\ i[1] = "Users"
      <4>1. i = Person(u) /\ u \in Users
        BY <2>6, <3>1, <3>3, PersonalIs
      <4>2. m = 1
        BY <1>3, <1>4, <3>3, <4>1 DEF StepOK
      <4>3. rows[i] = 0
        BY <1>3, <3>3, <4>1, <4>2 DEF Base, There, Creates
      <4>4. writes'[w].wrote[i] = 1
        BY <1>2, <4>3 DEF WroteNow
      <4>5. 1 > k
        BY <4>4 DEF Newer
      <4> QED BY <2>1, <3>3, <4>5
    <3> QED BY <3>1, <3>2, <3>3
  <2> QED BY <2>3, <2>4, <2>5, <2>6
<1> QED BY <1>10, <1>11 DEF Served

LEMMA GoodSave ==
    ASSUME Base, NEW w \in Writers, SaveRows(w) \/ SaveMapping(w),
           NEW i \in Items, NEW k \in Nat, NEW n, Served(i, k, n), Good(i, k, n)
    PROVE  Good(i, k, n)'
<1>1. Types
  BY DEF Base
<1>2. /\ Keeps(w) /\ writes'[w].next = writes[w].next + 1 /\ writes'[w].op = writes[w].op
      /\ writes'[w].tenants = writes[w].tenants /\ writes'[w].queue = writes[w].queue
      /\ writes'[w].wrote = WroteNow(w) /\ UNCHANGED acked
      /\ Step(w).op = "remap" \/ UNCHANGED mapped
      /\ Step(w).op \in {"save", "remap"} /\ (AtStep(w, "save") \/ AtStep(w, "remap"))
  BY <1>1, SaveEffect DEF Keeps
<1>3. /\ writes[w].at = "run" /\ End(writes[w].op) \in Nat
      /\ writes[w].next \in 1..End(writes[w].op)
      /\ Step(w) = StepsOf(writes[w].op)[writes[w].next]
      /\ StepOK(writes[w].op, writes[w].next)
  BY <1>1, <1>2, AtStepIs
<1>4. ASSUME Newer(w, i, k)' PROVE Ahead(w, n)'
  <2>1. CASE i \in Changed(w)
    BY <1>4, <2>1, WrittenAhead
  <2>2. CASE i \notin Changed(w)
    <3>1. writes'[w].wrote[i] = writes[w].wrote[i]
      BY <1>2, <2>2 DEF WroteNow
    <3>2. Unanswered(writes[w].op, writes[w].next + 1) => Unanswered(writes[w].op, writes[w].next)
      BY <1>3, OneStepOn
    <3>3. Newer(w, i, k)
      BY <1>2, <1>3, <1>4, <3>1, <3>2 DEF Newer
    <3>4. Ahead(w, n)
      BY <3>3 DEF Good
    <3>5. WillLookUp(writes[w].op, writes[w].next) => UNCHANGED mapped
      BY <1>2, <1>3 DEF StepOK
    <3> QED BY <1>1, <1>2, <1>3, <3>4, <3>5, StillAhead
  <2> QED BY <2>1, <2>2
<1>5. ASSUME NEW v \in Writers \ {w}, Newer(v, i, k), Ahead(v, n) PROVE Ahead(v, n)'
  <2>1. CASE SaveMapping(w)
    BY <1>2, <1>5, <2>1, OthersAheadOfRemap DEF Keeps
  <2>2. CASE SaveRows(w)
    <3>1. UNCHANGED mapped
      BY <2>2 DEF SaveRows
    <3> QED BY <1>2, <1>5, <3>1, OthersAhead DEF Keeps
  <2> QED BY <2>1, <2>2
<1>6. acked'[i] <= k
  BY <1>2 DEF Good
<1> QED BY <1>2, <1>4, <1>5, <1>6, GoodKept DEF Keeps

(* What a bump sends.                                                      *)

Sendable(w) == {Userlist(t) : t \in writes[w].tenants}

LEMMA BatchRange ==
    ASSUME Types, NEW w \in Writers, AtStep(w, "bump")
    PROVE  /\ Step(w).ns \in Seq(Namespaces) /\ Batch(w) \in Seq(Namespaces)
           /\ Range(Step(w).ns) \subseteq Range(Batch(w))
           /\ Step(w).lists => Sendable(w) \subseteq Range(Batch(w))
           /\ \A n \in Range(Batch(w)) : n \in Range(Step(w).ns) \/ (Step(w).lists /\ OfList(n))
           /\ \A k \in 1..Len(Batch(w)) : k > Len(Step(w).ns) => OfList(Batch(w)[k])
           /\ \A k \in 1..Len(Batch(w)) : k <= Len(Step(w).ns) => Batch(w)[k] = Step(w).ns[k]
           /\ ~Step(w).lists => Len(Batch(w)) = Len(Step(w).ns)
<1> DEFINE x == Step(w).ns
           T == writes[w].tenants
           S == Sendable(w)
           y == IF Step(w).lists THEN SetToSeq(S) ELSE <<>>
           b == Batch(w)
<1>1. WriteOK(w) /\ BumpOK(writes[w].op, writes[w].next, Step(w))
  BY AtStepIs DEF StepOK
<1>2. x \in Seq(Namespaces) /\ T \subseteq Tenants
  BY <1>1 DEF BumpOK, WriteOK
<1>3. IsFiniteSet(S)
  <2> DEFINE f == [t \in T |-> Userlist(t)]
  <2>1. IsFiniteSet(T)
    BY <1>2, PathAssumption, FS_Subset
  <2>2. f \in Surjection(T, S)
    BY DEF Surjection, Sendable
  <2> QED BY <2>1, <2>2, FS_Surjection
<1>4. SetToSeq(S) \in Seq(S) /\ Range(SetToSeq(S)) = S
  BY <1>3, InOneSequence
<1>5. S \subseteq Namespaces /\ \A n \in S : OfList(n)
  BY <1>2, NamespacesAre, NsKinds DEF Sendable
<1>6. SetToSeq(S) \in Seq(Namespaces)
  BY <1>4, <1>5
<1>7. b = x \o y
  BY DEF Batch, Sendable
<1>8. y \in Seq(Namespaces) /\ Range(y) \subseteq S /\ (Step(w).lists => Range(y) = S)
      /\ (~Step(w).lists => Len(y) = 0)
  <2>1. <<>> \in Seq(Namespaces) /\ Range(<<>>) = {}
    BY DEF Range
  <2> QED BY <1>4, <1>6, <2>1
<1> HIDE DEF b, x, y, S, T
<1>9. b \in Seq(Namespaces) /\ Len(b) = Len(x) + Len(y)
  BY <1>2, <1>7, <1>8, JoinedIs
<1>10. \A k \in 1..Len(x) : b[k] = x[k]
  <2> TAKE k \in 1..Len(x)
  <2> QED BY <1>2, <1>7, <1>8, JoinedLeft
<1>11. \A k \in 1..Len(y) : b[k + Len(x)] = y[k] /\ y[k] \in Range(y)
  <2> TAKE k \in 1..Len(y)
  <2>1. b[k + Len(x)] = y[k]
    BY <1>2, <1>7, <1>8, JoinedRight
  <2>2. y[k] \in Range(y)
    BY <1>8, Indexed
  <2> QED BY <2>1, <2>2
<1>12. Len(x) \in Nat /\ Len(y) \in Nat
  BY <1>2, <1>8
<1>13. \A k \in 1..Len(b) : k > Len(x) => b[k] \in Range(y)
  <2> TAKE k \in 1..Len(b)
  <2>1. k > Len(x) => k - Len(x) \in 1..Len(y) /\ (k - Len(x)) + Len(x) = k
    BY <1>9, <1>12
  <2> QED BY <2>1, <1>11
<1>14. Range(x) \subseteq Range(b)
  <2>1. ASSUME NEW n \in Range(x) PROVE n \in Range(b)
    <3>1. PICK k \in DOMAIN x : n = x[k]
      BY <2>1 DEF Range
    <3>2. k \in 1..Len(x)
      BY <1>2, <3>1
    <3>3. b[k] = n /\ k \in 1..Len(b)
      BY <1>9, <1>10, <1>12, <3>1, <3>2
    <3> QED BY <1>9, <3>3, Indexed
  <2> QED BY <2>1
<1>15. Range(y) \subseteq Range(b)
  <2>1. ASSUME NEW n \in Range(y) PROVE n \in Range(b)
    <3>1. PICK k \in DOMAIN y : n = y[k]
      BY <2>1 DEF Range
    <3>2. k \in 1..Len(y)
      BY <1>8, <3>1
    <3>3. b[k + Len(x)] = n /\ k + Len(x) \in 1..Len(b)
      BY <1>9, <1>11, <1>12, <3>1, <3>2
    <3> QED BY <1>9, <3>3, Indexed
  <2> QED BY <2>1
<1>16. \A n \in Range(b) : n \in Range(x) \/ n \in Range(y)
  <2> TAKE n \in Range(b)
  <2>1. PICK k \in DOMAIN b : n = b[k]
    BY DEF Range
  <2>2. k \in 1..Len(b)
    BY <1>9, <2>1
  <2>3. k <= Len(x) => n \in Range(x)
    <3>1. k <= Len(x) => k \in 1..Len(x) /\ n = x[k]
      BY <2>1, <2>2, <1>10, <1>12
    <3> QED BY <1>2, <3>1, Indexed
  <2>4. k > Len(x) => n \in Range(y)
    BY <1>13, <2>1, <2>2
  <2> QED BY <1>9, <1>12, <2>2, <2>3, <2>4
<1>17. \A k \in 1..Len(b) : k > Len(x) => OfList(b[k])
  BY <1>5, <1>8, <1>13
<1>18. \A n \in Range(y) : Step(w).lists /\ OfList(n)
  <2>1. Len(y) = 0 => Range(y) = {}
    BY <1>8 DEF Range
  <2> QED BY <1>5, <1>8, <2>1
<1>19. \A k \in 1..Len(b) : k <= Len(x) => b[k] = x[k]
  <2> TAKE k \in 1..Len(b)
  <2>1. k <= Len(x) => k \in 1..Len(x)
    BY <1>12
  <2> QED BY <1>10, <2>1
<1>20. ~Step(w).lists => Len(b) = Len(x)
  BY <1>8, <1>9, <1>12
<1> QED BY <1>2, <1>8, <1>9, <1>14, <1>15, <1>16, <1>17, <1>18, <1>19, <1>20 DEF b, x, S

LEMMA BumpStill ==
    ASSUME Base, NEW w \in Writers, AtStep(w, "bump"), Keeps(w), UNCHANGED mapped,
           writes'[w].next = writes[w].next + 1, writes'[w].tenants = writes[w].tenants,
           NEW n, Ahead(w, n), n \notin Range(Batch(w))
    PROVE  Ahead(w, n)'
<1> DEFINE q == writes[w].op
           m == writes[w].next
<1>1. Types
  BY DEF Base
<1>2. /\ End(q) \in Nat /\ m \in 1..End(q) /\ Step(w) = StepsOf(q)[m] /\ Step(w).op = "bump"
      /\ BumpOK(q, m, Step(w)) /\ writes[w].queue = <<>>
  BY <1>1, AtStepIs DEF StepOK
<1>3. Range(Step(w).ns) \subseteq Range(Batch(w)) /\ (Step(w).lists => Sendable(w) \subseteq Range(Batch(w)))
  BY <1>1, BatchRange
<1>4. Range(writes[w].queue) = {}
  BY <1>2 DEF Range
<1>5. writes'[w].op = q /\ writes'[w].next = m + 1
  BY DEF Keeps
<1>6. /\ WillBump(q, m, n) => WillBump(q, m + 1, n)
      /\ WillBumpLists(q, m) /\ ~Step(w).lists => WillBumpLists(q, m + 1)
      /\ WillLookUp(q, m) <=> WillLookUp(q, m + 1)
  <2> HIDE DEF q, m
  <2>1. n \notin Range(StepsOf(q)[m].ns) /\ StepsOf(q)[m].op # "lookup"
    BY <1>2, <1>3
  <2> QED BY <1>2, <2>1, OneStepOn
<1>7. CASE WillBump(q, m, n)
  BY <1>5, <1>6, <1>7 DEF Ahead
<1>8. CASE WillBumpLists(q, m) /\ n \in {Userlist(t) : t \in TenantsAt(w)}
  <2>1. ~Step(w).lists
    <3> SUFFICES ASSUME Step(w).lists PROVE FALSE
      OBVIOUS
    <3>1. TenantsAt(w) = writes[w].tenants
      BY <1>2 DEF TenantsAt, BumpOK
    <3> QED BY <1>3, <1>8, <3>1 DEF Sendable
  <2>2. TenantsAt(w)' = TenantsAt(w)
    BY <1>5, <1>6 DEF TenantsAt
  <2>3. WillBumpLists(writes'[w].op, writes'[w].next) /\ n \in {Userlist(x) : x \in TenantsAt(w)'}
    BY <1>5, <1>6, <1>8, <2>1, <2>2
  <2> QED BY <2>3 DEF Ahead
<1> QED BY <1>4, <1>7, <1>8 DEF Ahead

LEMMA VersionIs ==
    ASSUME Types, NEW n \in Namespaces
    PROVE  Version(n) \in Nat /\ Version(n) > 0 /\ Version(n) >= ver[n] /\ ver[n] \in Nat
BY DEF Types, Version

LEMMA Contained ==
    ASSUME NEW S, NEW x \in Seq(S), NEW n
    PROVE  Contains(x, n) <=> n \in Range(x)
BY DEF Contains, Range

LEMMA GoodInvalidate ==
    ASSUME Base, NEW w \in Writers, Invalidate(w), NEW i \in Items, NEW k \in Nat, NEW n,
           Good(i, k, n), Version(n)' = Version(n)
    PROVE  Good(i, k, n)'
<1> DEFINE q == writes[w].op
           m == writes[w].next
<1>1. Types
  BY DEF Base
<1>2. /\ Keeps(w) /\ AtStep(w, "bump") /\ writes'[w].op = q
      /\ writes'[w].next = m + 1 /\ writes'[w].wrote = writes[w].wrote
      /\ writes'[w].tenants = writes[w].tenants /\ UNCHANGED <<mapped, acked>>
      /\ \/ /\ writes'[w].queue = writes[w].queue
            /\ ver' = [x \in Namespaces |-> IF Contains(Batch(w), x) THEN Version(x) + 1
                                            ELSE ver[x]]
         \/ writes'[w].queue = Batch(w) /\ UNCHANGED ver
  BY <1>1, InvalidateEffect DEF Keeps
<1>3. End(q) \in Nat /\ m \in 1..End(q) /\ writes[w].at = "run"
  BY <1>1, <1>2, AtStepIs
<1>4. Batch(w) \in Seq(Namespaces)
  BY <1>1, <1>2, BatchRange
<1>5. ASSUME Newer(w, i, k)' PROVE Ahead(w, n)'
  <2>1. Unanswered(q, m + 1) => Unanswered(q, m)
    BY <1>3, OneStepOn
  <2>2. Newer(w, i, k)
    BY <1>2, <1>3, <1>5, <2>1 DEF Newer
  <2>3. Ahead(w, n)
    BY <2>2 DEF Good
  <2>4. CASE n \notin Range(Batch(w))
    BY <1>2, <2>3, <2>4, BumpStill
  <2>5. CASE n \in Range(Batch(w))
    <3>1. n \in Namespaces
      BY <1>4, <2>5 DEF Range
    <3>2. writes'[w].queue = Batch(w)
      <4> SUFFICES ASSUME ver' = [x \in Namespaces |-> IF Contains(Batch(w), x) THEN Version(x) + 1
                                                       ELSE ver[x]]
                   PROVE FALSE
        BY <1>2
      <4>1. Contains(Batch(w), n)
        BY <1>4, <2>5, Contained
      <4>2. ver'[n] = Version(n) + 1
        BY <3>1, <4>1
      <4>3. Version(n)' = Version(n) + 1
        BY <1>1, <3>1, <4>2, VersionIs DEF Version
      <4> QED BY <1>1, <3>1, <4>3, VersionIs
    <3> QED BY <2>5, <3>2 DEF Ahead
  <2> QED BY <2>4, <2>5
<1>6. \A v \in Writers \ {w} : Newer(v, i, k) /\ Ahead(v, n) => Ahead(v, n)'
  BY <1>2, OthersAhead DEF Keeps
<1>7. acked'[i] <= k
  BY <1>2 DEF Good
<1> QED BY <1>2, <1>5, <1>6, <1>7, GoodKept DEF Keeps

LEMMA HeadOrTail ==
    ASSUME NEW S, NEW x \in Seq(S), x # <<>>, NEW n \in Range(x)
    PROVE  n = Head(x) \/ n \in Range(Tail(x))
<1>1. PICK k \in DOMAIN x : n = x[k]
  BY DEF Range
<1>2. k \in 1..Len(x) /\ Len(x) \in Nat /\ Tail(x) \in Seq(S) /\ Len(Tail(x)) = Len(x) - 1
  BY <1>1
<1>3. CASE k = 1
  BY <1>1, <1>3
<1>4. CASE k > 1
  <2>1. k - 1 \in 1..Len(Tail(x))
    BY <1>2, <1>4
  <2>2. Tail(x)[k - 1] = n
    BY <1>1, <1>2, <1>4, <2>1
  <2> QED BY <1>2, <2>1, <2>2, Indexed
<1> QED BY <1>2, <1>3, <1>4

LEMMA JoinedRange ==
    ASSUME NEW S, NEW x \in Seq(S), NEW y \in Seq(S)
    PROVE  Range(x \o y) = Range(x) \cup Range(y)
<1>1. x \o y \in Seq(S) /\ Len(x \o y) = Len(x) + Len(y) /\ Len(x) \in Nat /\ Len(y) \in Nat
  BY JoinedIs
<1>2. ASSUME NEW n \in Range(x) PROVE n \in Range(x \o y)
  <2>1. PICK k \in 1..Len(x) : n = x[k]
    BY <1>2 DEF Range
  <2>2. (x \o y)[k] = n /\ k \in 1..Len(x \o y)
    BY <1>1, <2>1, JoinedLeft
  <2> QED BY <1>1, <2>2, Indexed
<1>3. ASSUME NEW n \in Range(y) PROVE n \in Range(x \o y)
  <2>1. PICK k \in 1..Len(y) : n = y[k]
    BY <1>3 DEF Range
  <2>2. (x \o y)[k + Len(x)] = n
    BY <2>1, JoinedRight
  <2>3. k + Len(x) \in 1..Len(x \o y)
    BY <1>1
  <2> QED BY <1>1, <2>2, <2>3, Indexed
<1>4. ASSUME NEW n \in Range(x \o y) PROVE n \in Range(x) \/ n \in Range(y)
  <2>1. PICK k \in 1..Len(x \o y) : n = (x \o y)[k]
    BY <1>1, <1>4 DEF Range
  <2>2. CASE k <= Len(x)
    <3>1. k \in 1..Len(x)
      BY <1>1, <2>2
    <3>2. n = x[k]
      BY <2>1, <3>1, JoinedLeft
    <3> QED BY <3>1, <3>2, Indexed
  <2>3. CASE k > Len(x)
    <3>1. k - Len(x) \in 1..Len(y) /\ (k - Len(x)) + Len(x) = k
      BY <1>1, <2>3
    <3>2. n = y[k - Len(x)]
      BY <2>1, <3>1, JoinedRight
    <3> QED BY <3>1, <3>2, Indexed
  <2> QED BY <1>1, <2>2, <2>3
<1> QED BY <1>2, <1>3, <1>4

LEMMA GoodIncr ==
    ASSUME Base, NEW w \in Writers, Incr(w), NEW i \in Items, NEW k \in Nat, NEW n,
           Good(i, k, n), Version(n)' = Version(n)
    PROVE  Good(i, k, n)'
<1> DEFINE x == writes[w].queue
           h == Head(x)
           again == IF ver[h] = 0 THEN <<h>> ELSE <<>>
<1>1. Types
  BY DEF Base
<1>2. /\ Keeps(w) /\ WriteOK(w) /\ x # <<>> /\ h \in Namespaces
      /\ writes'[w].op = writes[w].op /\ writes'[w].next = writes[w].next
      /\ writes'[w].wrote = writes[w].wrote /\ writes'[w].tenants = writes[w].tenants
      /\ writes'[w].queue = Tail(x) \o again /\ ver' = [ver EXCEPT ![h] = ver[h] + 1]
      /\ writes[w].at = "run" /\ UNCHANGED <<mapped, acked>>
  BY <1>1, IncrEffect DEF Keeps
<1>3. x \in Seq(Namespaces) /\ Tail(x) \in Seq(Namespaces) /\ again \in Seq(Namespaces)
  BY <1>2 DEF WriteOK
<1>4. Range(writes'[w].queue) = Range(Tail(x)) \cup Range(again)
  <2> HIDE DEF again, x
  <2>1. PICK y, z : y = Tail(x) /\ z = again
    OBVIOUS
  <2>2. y \in Seq(Namespaces) /\ z \in Seq(Namespaces)
    BY ONLY <1>3, <2>1
  <2>3. Range(y \o z) = Range(y) \cup Range(z)
    BY ONLY <2>2, JoinedRange
  <2> QED BY ONLY <1>2, <2>1, <2>3
<1>5. ASSUME Newer(w, i, k)' PROVE Ahead(w, n)'
  <2>1. Newer(w, i, k)
    BY <1>2, <1>5 DEF Newer
  <2>2. Ahead(w, n)
    BY <2>1 DEF Good
  <2>3. CASE n \in Range(x)
    <3>1. n = h \/ n \in Range(Tail(x))
      BY <1>2, <1>3, <2>3, HeadOrTail
    <3>2. CASE n \in Range(Tail(x))
      BY <1>4, <3>2 DEF Ahead
    <3>3. CASE n = h
      <4>1. ver'[n] = ver[n] + 1
        BY <1>1, <1>2, <3>3 DEF Types
      <4>2. ver[n] = 0
        <5>1. ver[n] \in Nat
          BY <1>1, <1>2, <3>3 DEF Types
        <5> QED BY ONLY <4>1, <5>1, Version(n)' = Version(n) DEF Version
      <4>3. again = <<n>>
        BY <3>3, <4>2
      <4>4. n \in Range(again)
        BY <4>3, Range1
      <4> QED BY <1>4, <4>4 DEF Ahead
    <3> QED BY <3>1, <3>2, <3>3
  <2>4. CASE ~(n \in Range(x))
    <3>1. TenantsAt(w)' = TenantsAt(w)
      BY <1>2 DEF TenantsAt
    <3>2. \/ WillBump(writes'[w].op, writes'[w].next, n)
          \/ WillBumpLists(writes'[w].op, writes'[w].next) /\ n \in {Userlist(t) : t \in TenantsAt(w)'}
      BY <1>2, <2>2, <2>4, <3>1 DEF Ahead
    <3> QED BY <3>2 DEF Ahead
  <2> QED BY <2>3, <2>4
<1>6. \A v \in Writers \ {w} : Newer(v, i, k) /\ Ahead(v, n) => Ahead(v, n)'
  BY <1>2, OthersAhead DEF Keeps
<1>7. acked'[i] <= k
  BY <1>2 DEF Good
<1> QED BY <1>2, <1>5, <1>6, <1>7, GoodKept DEF Keeps

WriterStep(w) ==
    \/ \E q \in scenario.writes : Start(w, q)
    \/ SaveRows(w) \/ SaveMapping(w) \/ LookUpTenants(w) \/ Invalidate(w)
    \/ Incr(w) \/ SendReply(w) \/ Throw(w) \/ LookUpFails(w)

\* While n has the version it had, what was good for the readers of n is.
\* A write that is Good for n stays so over each step of a writer, until n is bumped.
LEMMA GoodStays ==
    ASSUME Base, NEW w \in Writers, WriterStep(w), NEW i \in Items, NEW k \in Nat, NEW n,
           Served(i, k, n), Good(i, k, n), Version(n)' = Version(n)
    PROVE  Good(i, k, n)'
<1>1. CASE \E q \in scenario.writes : Start(w, q)
  BY <1>1, GoodStart
<1>2. CASE SaveRows(w) \/ SaveMapping(w)
  BY <1>2, GoodSave
<1>3. CASE LookUpTenants(w) \/ LookUpFails(w)
  BY <1>3, GoodLookUp
<1>4. CASE Invalidate(w)
  BY <1>4, GoodInvalidate
<1>5. CASE Incr(w)
  BY <1>5, GoodIncr
<1>6. CASE SendReply(w)
  BY <1>6, GoodReply
<1>7. CASE Throw(w)
  BY <1>7, GoodThrow
<1> QED BY <1>1, <1>2, <1>3, <1>4, <1>5, <1>6, <1>7 DEF WriterStep

\* What no writer touches.
LEMMA WriterLeaves ==
    ASSUME NEW w \in Writers, WriterStep(w)
    PROVE  UNCHANGED <<entries, reads, scenario>>
<1>1. CASE \E q \in scenario.writes : Start(w, q)
  BY <1>1 DEF Start
<1>2. CASE SaveRows(w) \/ SaveMapping(w)
  BY <1>2 DEF SaveRows, SaveMapping
<1>3. CASE LookUpTenants(w) \/ LookUpFails(w)
  BY <1>3 DEF LookUpTenants, LookUpFails
<1>4. CASE Invalidate(w) \/ Incr(w)
  BY <1>4 DEF Invalidate, Incr
<1>5. CASE SendReply(w) \/ Throw(w)
  BY <1>5 DEF SendReply, Throw
<1> QED BY <1>1, <1>2, <1>3, <1>4, <1>5 DEF WriterStep

LEMMA OnlyBumps ==
    ASSUME NEW w \in Writers, WriterStep(w), ver' # ver
    PROVE  Invalidate(w) \/ Incr(w)
<1>1. CASE \E q \in scenario.writes : Start(w, q)
  BY <1>1 DEF Start
<1>2. CASE SaveRows(w) \/ SaveMapping(w)
  BY <1>2 DEF SaveRows, SaveMapping
<1>3. CASE LookUpTenants(w) \/ LookUpFails(w)
  BY <1>3 DEF LookUpTenants, LookUpFails
<1>5. CASE SendReply(w) \/ Throw(w)
  BY <1>5 DEF SendReply, Throw
<1> QED BY <1>1, <1>2, <1>3, <1>5 DEF WriterStep

LEMMA OnlyRemaps ==
    ASSUME NEW w \in Writers, WriterStep(w), mapped' # mapped
    PROVE  SaveMapping(w)
<1>1. CASE \E q \in scenario.writes : Start(w, q)
  BY <1>1 DEF Start
<1>2. CASE SaveRows(w)
  BY <1>2 DEF SaveRows
<1>3. CASE LookUpTenants(w) \/ LookUpFails(w)
  BY <1>3 DEF LookUpTenants, LookUpFails
<1>4. CASE Invalidate(w) \/ Incr(w)
  BY <1>4 DEF Invalidate, Incr
<1>5. CASE SendReply(w) \/ Throw(w)
  BY <1>5 DEF SendReply, Throw
<1> QED BY <1>1, <1>2, <1>3, <1>4, <1>5 DEF WriterStep

LEMMA VersionsGrow ==
    ASSUME Base, NEW w \in Writers, WriterStep(w)
    PROVE  /\ ver' \in [Namespaces -> Nat]
           /\ \A n \in Namespaces : ver'[n] >= ver[n] /\ Version(n)' >= Version(n)
<1>1. Types
  BY DEF Base
<1>2. \A n \in Namespaces : Version(n) \in Nat /\ Version(n) > 0 /\ Version(n) >= ver[n] /\ ver[n] \in Nat
  BY <1>1, VersionIs
<1>3. CASE ver' = ver
  BY <1>1, <1>2, <1>3 DEF Types, Version
<1>4. CASE Invalidate(w)
  <2>1. CASE ver' = [x \in Namespaces |-> IF Contains(Batch(w), x) THEN Version(x) + 1 ELSE ver[x]]
    <3>1. \A n \in Namespaces : ver'[n] \in Nat /\ ver'[n] >= ver[n]
      <4> TAKE n \in Namespaces
      <4>1. ver'[n] = Version(n) + 1 \/ ver'[n] = ver[n]
        BY <2>1
      <4> QED BY <1>2, <4>1
    <3>2. ver' \in [Namespaces -> Nat]
      BY <2>1, <3>1
    <3>3. \A n \in Namespaces : Version(n)' >= Version(n)
      <4> TAKE n \in Namespaces
      <4>1. Version(n)' = IF ver'[n] = 0 THEN 1 ELSE ver'[n]
        BY DEF Version
      <4> QED BY <1>2, <3>1, <4>1 DEF Version
    <3> QED BY <3>1, <3>2, <3>3
  <2> QED BY <1>1, <1>3, <1>4, <2>1, InvalidateEffect
<1>5. CASE Incr(w)
  <2> DEFINE h == Head(writes[w].queue)
  <2>1. h \in Namespaces /\ ver' = [ver EXCEPT ![h] = ver[h] + 1]
    BY <1>1, <1>5, IncrEffect
  <2> HIDE DEF h
  <2>2. \A n \in Namespaces : ver'[n] \in Nat /\ ver'[n] >= ver[n]
    BY <1>1, <1>2, <2>1 DEF Types
  <2>3. ver' \in [Namespaces -> Nat]
    BY <1>1, <2>1, <2>2 DEF Types
  <2>4. \A n \in Namespaces : Version(n)' >= Version(n)
    <3> TAKE n \in Namespaces
    <3>1. Version(n)' = IF ver'[n] = 0 THEN 1 ELSE ver'[n]
      BY DEF Version
    <3> QED BY <1>2, <2>2, <3>1 DEF Version
  <2> QED BY <2>2, <2>3, <2>4
<1> QED BY <1>3, <1>4, <1>5, OnlyBumps

LEMMA CurrentBefore ==
    ASSUME Base, NEW w \in Writers, WriterStep(w), NEW S \in SUBSET Namespaces, NEW v \in [S -> Nat],
           Past(v)
    PROVE  /\ Past(v)'
           /\ IsCurrent(v)' => IsCurrent(v) /\ \A n \in S : Version(n)' = Version(n)
<1>1. \A n \in S : /\ Version(n) \in Nat /\ Version(n)' \in Nat
                   /\ v[n] \in Nat /\ v[n] <= Version(n) /\ Version(n) <= Version(n)'
  <2> TAKE n \in S
  <2>1. Version(n) \in Nat
    BY VersionIs DEF Base
  <2>2. ver'[n] \in Nat /\ Version(n)' >= Version(n)
    BY VersionsGrow
  <2>3. Version(n)' \in Nat
    BY <2>2 DEF Version
  <2> QED BY <2>1, <2>2, <2>3 DEF Past
<1>2. \A n \in S : v[n] <= Version(n)'
  BY <1>1
<1>3. Past(v)'
  BY <1>2 DEF Past
<1>4. ASSUME IsCurrent(v)' PROVE \A n \in S : v[n] = Version(n) /\ Version(n)' = Version(n)
  <2>1. \A n \in S : v[n] = Version(n)'
    BY <1>4 DEF IsCurrent
  <2> QED BY <1>1, <2>1
<1>5. ASSUME IsCurrent(v)' PROVE IsCurrent(v)
  BY <1>4, <1>5 DEF IsCurrent
<1> QED BY <1>3, <1>4, <1>5

(* The items of the results.                                               *)

LEMMA SiteForms ==
    ASSUME NEW s \in Sites \cup NestedSites
    PROVE  \/ s[2] \in Tenants /\ (s = List(s[2]) \/ s = Filtered(s[2]) \/ s = Members(s[2]))
           \/ /\ s[2] \in Users
              /\ s = Core(s[2]) \/ s = Mappings(s[2]) \/ s = Assigned(s[2]) \/ s = Hydrated(s[2])
           \/ s = FilterIds
<1>1. ASSUME s \in Sites
      PROVE  \/ \E t \in Tenants : s = List(t) \/ s = Filtered(t) \/ s = Members(t)
             \/ \E u \in Users : s = Core(u) \/ s = Mappings(u) \/ s = Assigned(u)
  BY <1>1 DEF Sites
<1>2. \A x : /\ List(x)[2] = x /\ Filtered(x)[2] = x /\ Members(x)[2] = x
             /\ Core(x)[2] = x /\ Mappings(x)[2] = x /\ Assigned(x)[2] = x /\ Hydrated(x)[2] = x
  BY DEF List, Filtered, Members, Core, Mappings, Assigned, Hydrated
<1>3. CASE s \in Sites
  BY <1>1, <1>2, <1>3
<1>4. CASE s \in NestedSites
  BY <1>2, <1>4 DEF NestedSites
<1> QED BY <1>3, <1>4

LEMMA SiteKinds ==
    ASSUME NEW x
    PROVE  /\ List(x)[1] = "list" /\ Filtered(x)[1] = "filtered" /\ Members(x)[1] = "members"
           /\ Core(x)[1] = "core" /\ Mappings(x)[1] = "mappings" /\ Assigned(x)[1] = "assigned"
           /\ Hydrated(x)[1] = "hydrated" /\ FilterIds[1] = "filterIds"
           /\ Hydrated(x)[2] = x
BY DEF List, Filtered, Members, Core, Mappings, Assigned, Hydrated, FilterIds

LEMMA ListForms ==
    ASSUME NEW s \in Sites \cup NestedSites, s[1] \in Lists
    PROVE  /\ s[2] \in Tenants /\ s[1] \in {"list", "filtered", "members"}
           /\ Userlist(s[2]) \in KeyOf(s) /\ s \notin NestedSites
<1>1. s[1] \in {"list", "filtered", "members"}
  BY DEF Lists
<1>2. s = List(s[2]) \/ s = Filtered(s[2]) \/ s = Members(s[2])
  BY <1>1, SiteForms, SiteKinds
<1>3. s[2] \in Tenants
  BY <1>1, SiteForms, SiteKinds
<1>4. Userlist(s[2]) \in KeyOf(s)
  BY <1>1 DEF KeyOf, Own, Joins
<1>5. s \notin NestedSites
  BY <1>1, SiteKinds DEF NestedSites
<1> QED BY <1>1, <1>3, <1>4, <1>5

LEMMA NestedForms ==
    ASSUME NEW s \in NestedSites
    PROVE  /\ s[1] \notin Lists
           /\ \/ s[1] = "hydrated" /\ s[2] \in Users
              \/ s[1] = "filterIds"
BY SiteKinds DEF NestedSites, Lists

LEMMA KeyIs ==
    ASSUME NEW s \in Sites \cup NestedSites
    PROVE  KeyOf(s) \subseteq Namespaces
<1>1. CASE s[1] \in Lists
  <2>1. s[2] \in Tenants /\ s[1] \in {"list", "filtered", "members"}
    BY <1>1, ListForms
  <2> QED BY <2>1, NamespacesAre DEF KeyOf, Own, Joins
<1>2. CASE s = FilterIds
  BY <1>2, SiteKinds, NamespacesAre DEF KeyOf, Own, Joins
<1>3. CASE s[1] \notin Lists /\ s # FilterIds
  <2>1. s[2] \in Users /\ s[1] \in {"core", "mappings", "assigned", "hydrated"}
    BY <1>3, SiteForms, SiteKinds DEF Lists
  <2> QED BY <2>1, NamespacesAre DEF KeyOf, Own, Joins
<1> QED BY <1>1, <1>2, <1>3

LEMMA MayServed ==
    ASSUME NEW s \in Sites \cup NestedSites, NEW i \in May(s)
    PROVE  /\ i \in Items /\ Chan(s, i) \in KeyOf(s)
           /\ s[1] \in Lists => Chan(s, i) = Userlist(s[2]) /\ (Tenanted(i) => i[3] = s[2])
           /\ s[1] \notin Lists => Chan(s, i) \in NsOf(i)
           /\ s \in NestedSites => /\ ~Tenanted(i) /\ i[1] # "Users"
                                   /\ i = Definitions \/ (i = Values(i[2]) /\ i[2] \in Users)
                                   /\ s[1] = "hydrated" /\ i # Definitions => i = Values(s[2])
                                   /\ s[1] = "filterIds" => i # Definitions
<1>1. CASE s[1] \in Lists
  <2>1. s[2] \in Tenants /\ Userlist(s[2]) \in KeyOf(s) /\ s \notin NestedSites
    BY <1>1, ListForms
  <2>2. Chan(s, i) = Userlist(s[2])
    BY <1>1 DEF Chan, Lists
  <2>3. i = Definitions \/ \E u \in Users : i \in OfUser(u, {s[2]})
    BY <1>1 DEF May, Lists
  <2>4. i \in Items /\ (Tenanted(i) => i[3] = s[2])
    <3>1. CASE i = Definitions
      BY <3>1, ItemsAre, ItemNs
    <3>2. CASE \E u \in Users : i \in OfUser(u, {s[2]})
      <4>1. {s[2]} \in SUBSET Tenants
        BY <2>1
      <4> QED BY <3>2, <4>1, OfUserIs
    <3> QED BY <2>3, <3>1, <3>2
  <2> QED BY <1>1, <2>1, <2>2, <2>4
<1>2. CASE s = FilterIds
  <2>1. s[1] = "filterIds" /\ s[1] \notin Lists
    BY <1>2, SiteKinds DEF Lists
  <2>2. PICK u \in Users : i = Values(u)
    BY <2>1 DEF May, Lists
  <2>3. Chan(s, i) = Userfilter
    BY <2>1 DEF Chan, Own, Lists
  <2>4. Chan(s, i) \in KeyOf(s) /\ Chan(s, i) \in NsOf(i)
    BY <2>1, <2>2, <2>3, ItemNs DEF KeyOf, Own
  <2>5. i \in Items /\ ~Tenanted(i) /\ i[1] # "Users" /\ i # Definitions
    BY <2>2, ItemNs, ItemsAre, ItemFields
  <2>6. i = Values(i[2]) /\ i[2] \in Users
    BY <2>2, ItemFields
  <2> QED BY <2>1, <2>4, <2>5, <2>6
<1>3. CASE s[1] \notin Lists /\ s # FilterIds
  <2>1. s[2] \in Users /\ s[1] \in {"core", "mappings", "assigned", "hydrated"}
    BY <1>3, SiteForms, SiteKinds DEF Lists
  <2>2. CASE s[1] = "core"
    <3>1. s \notin NestedSites
      BY <2>2, SiteKinds DEF NestedSites
    <3>2. \/ i = Person(s[2])
          \/ \E t \in Tenants : i = Mapping(s[2], t) \/ i = Role(s[2], t)
      BY <1>3, <2>2 DEF May, MappingsOf, RolesOf
    <3>3. Chan(s, i) = User(s[2])
      BY <1>3, <2>2 DEF Chan, Own
    <3> QED BY <1>3, <2>1, <2>2, <3>1, <3>2, <3>3, ItemNs, ItemsAre DEF KeyOf, Own
  <2>3. CASE s[1] = "mappings"
    <3>1. s \notin NestedSites
      BY <2>3, SiteKinds DEF NestedSites
    <3>2. \E t \in Tenants : i = Mapping(s[2], t)
      BY <1>3, <2>3 DEF May, MappingsOf
    <3>3. Chan(s, i) = Usertenant(s[2])
      BY <1>3, <2>3 DEF Chan, Own
    <3> QED BY <1>3, <2>1, <2>3, <3>1, <3>2, <3>3, ItemNs, ItemsAre DEF KeyOf, Own
  <2>4. CASE s[1] = "assigned"
    <3>1. s \notin NestedSites
      BY <2>4, SiteKinds DEF NestedSites
    <3>2. \E t \in Tenants : i = Role(s[2], t)
      BY <1>3, <2>4 DEF May, RolesOf
    <3>3. Chan(s, i) = Userroles(s[2])
      BY <1>3, <2>4 DEF Chan, Own
    <3> QED BY <1>3, <2>1, <2>4, <3>1, <3>2, <3>3, ItemNs, ItemsAre DEF KeyOf, Own
  <2>5. CASE s[1] = "hydrated"
    <3>1. i = Values(s[2]) \/ i = Definitions
      BY <1>3, <2>5 DEF May
    <3>2. Chan(s, i) = IF i = Definitions THEN Fieldsdef ELSE Ufields(s[2])
      BY <1>3, <2>5 DEF Chan
    <3>3. KeyOf(s) = {Ufields(s[2]), Fieldsdef}
      BY <2>5 DEF KeyOf, Own, Joins
    <3>4. Values(s[2]) # Definitions
      BY ItemFields
    <3>5. Chan(s, i) \in KeyOf(s) /\ Chan(s, i) \in NsOf(i)
      BY <3>1, <3>2, <3>3, <3>4, ItemNs
    <3>6. /\ i \in Items /\ ~Tenanted(i) /\ i[1] # "Users"
          /\ i = Definitions \/ (i = Values(i[2]) /\ i[2] \in Users)
      BY <2>1, <3>1, ItemNs, ItemsAre, ItemFields
    <3> QED BY <1>3, <2>5, <3>1, <3>5, <3>6
  <2> QED BY <2>1, <2>2, <2>3, <2>4, <2>5
<1> QED BY <1>1, <1>2, <1>3

LEMMA RowsInMay ==
    ASSUME NEW s \in Sites \cup NestedSites
    PROVE  RowsOf(s) \subseteq May(s)
<1>1. CASE s[1] \in Lists
  <2>1. \A u \in Users : /\ Mapping(u, s[2]) \in OfUser(u, {s[2]}) /\ Role(u, s[2]) \in OfUser(u, {s[2]})
                         /\ Member(u, s[2]) \in OfUser(u, {s[2]}) /\ Person(u) \in OfUser(u, {s[2]})
    BY DEF OfUser, OfTenant
  <2>2. \A i \in RowsOf(s) : \E u \in Users : i \in OfUser(u, {s[2]})
    BY <1>1, <2>1 DEF RowsOf, Listed, Lists
  <2>3. May(s) = {Definitions} \cup (UNION {OfUser(u, {s[2]}) : u \in Users})
    BY <1>1 DEF May, Lists
  <2> QED BY <2>2, <2>3
<1>2. CASE s = FilterIds
  BY <1>2, SiteKinds DEF RowsOf, May, Lists
<1>3. CASE s[1] \notin Lists /\ s # FilterIds
  <2>1. s[1] \in {"core", "mappings", "assigned", "hydrated"}
    BY <1>3, SiteForms, SiteKinds DEF Lists
  <2> QED BY <1>3, <2>1 DEF RowsOf, May
<1> QED BY <1>1, <1>2, <1>3

\* What is held.
LEMMA HeldForms ==
    ASSUME Types, NEW e \in Held
    PROVE  /\ e.site \in Sites \cup NestedSites
           /\ KeyOf(e.site) \subseteq Namespaces
           /\ e.vers \in [KeyOf(e.site) -> Nat] /\ Past(e.vers)
           /\ e.data \subseteq May(e.site) \X Nat
           /\ e.site \in scenario.reads \cup NestedSites
<1>1. EntryOK(e)
  <2>1. CASE e \in entries
    BY <2>1 DEF Types
  <2>2. CASE \E r \in Readers : reads[r].at \in Loading /\ e = Coming(r)
    <3>1. PICK r \in Readers : reads[r].at \in Loading /\ e = Coming(r)
      BY <2>2
    <3>2. ReadOK(r)
      BY <3>1 DEF Types, Idle, Loading
    <3> QED BY <3>1, <3>2 DEF ReadOK, EntryOK, Coming
  <2>3. CASE \E r \in Readers : reads[r].at = "mset" /\ e \in reads[r].batch
    <3>1. PICK r \in Readers : reads[r].at = "mset" /\ e \in reads[r].batch
      BY <2>3
    <3>2. ReadOK(r)
      BY <3>1 DEF Types, Idle
    <3> QED BY <3>1, <3>2 DEF ReadOK
  <2> QED BY <2>1, <2>2, <2>3 DEF Held
<1>2. e.site \in Sites \cup NestedSites
  BY <1>1, ScenarioIs DEF EntryOK
<1> QED BY <1>1, <1>2, KeyIs DEF EntryOK

(* Who takes a seat, and who leaves one.                                   *)

LEMMA SameScenario ==
    ASSUME scenario' = scenario
    PROVE  /\ ExposedBy(scenario)' = ExposedBy(scenario)
           /\ \A u : (Deleted(u)' <=> Deleted(u)) /\ (Kept(u)' <=> Kept(u))
<1>1. \A u : Deleted(u)' <=> Deleted(u)
  BY DEF Deleted
<1>2. \A u : Kept(u)' <=> Kept(u)
  BY <1>1 DEF Kept
<1> QED BY <1>1, <1>2

LEMMA SeatGrows ==
    ASSUME Base, NEW w \in Writers, WriterStep(w), NEW u \in Users, Kept(u)
    PROVE  Seat(u) \subseteq Seat(u)'
<1>1. scenario' = scenario
  BY WriterLeaves
<1>2. Deleted(u)' <=> Deleted(u)
  BY <1>1, SameScenario
<1> SUFFICES ASSUME NEW t, t \in mapped[u], t \notin mapped'[u] PROVE t \in Seat(u)'
  BY <1>1, <1>2 DEF Seat
<1>3. SaveMapping(w)
  BY OnlyRemaps
<1>4. /\ u = writes[w].op[2] /\ writes[w].op \in scenario.writes
      /\ writes[w].op[1] = "convertRootMapping" \/ (writes[w].op[1] = "deleteUserById" /\ Deleted(u))
  BY <1>3, RemapLeaves
<1>5. writes[w].op[1] = "deleteUserById" /\ Deleted(u) /\ scenario.writers <= 1
  BY <1>4 DEF Kept
<1>6. writes[w].at = "run" /\ writes[w].op[1] \in Looking
  BY <1>3, <1>5 DEF SaveMapping, AtStep, Looking
<1>7. mapped[u] \subseteq scenario.home[u]
  BY <1>4, <1>5, <1>6 DEF Base, Alone1, AtHome
<1> QED BY <1>1, <1>2, <1>5, <1>7 DEF Seat

LEMMA JoiningExposed ==
    ASSUME NEW q \in scenario.writes, q[1] \in {"userTenantMapping", "mapUsersToTenant"},
           NEW s \in scenario.reads, s[1] \in Lists, s[2] = q[3],
           s[1] = "filtered" \/ \E o \in scenario.reads : o[1] \in Lists /\ o[2] # s[2]
    PROVE  Values(q[2]) \in ExposedBy(scenario)
<1>1. q[2] \in Joining(scenario)
  BY DEF Joining
<1> QED BY <1>1 DEF ExposedBy

LEMMA NewClaim ==
    ASSUME Base, NEW w \in Writers, WriterStep(w), NEW i \in Items, NEW t,
           Claimed(t, i)', ~Claimed(t, i)
    PROVE  /\ Personal(i) /\ i \notin ExposedBy(scenario) /\ Kept(i[2]) /\ t \notin Seat(i[2])
           /\ \/ Values(i[2]) \in ExposedBy(scenario)
              \/ \E q \in scenario.writes : /\ q[1] \in {"userTenantMapping", "mapUsersToTenant"}
                                            /\ q[2] = i[2] /\ q[3] = t
<1> DEFINE u == i[2]
<1>1. scenario' = scenario /\ Types
  BY WriterLeaves DEF Base
<1>2. ExposedBy(scenario)' = ExposedBy(scenario) /\ (Deleted(u)' <=> Deleted(u))
  BY <1>1, SameScenario
<1>3. Personal(i) /\ i \notin ExposedBy(scenario) /\ t \notin Seat(u) /\ t \in Seat(u)'
  BY <1>2 DEF Claimed
<1>4. Kept(u) /\ u \in Users
  BY <1>1, <1>3, UnexposedKept, PersonalIs
<1>5. t \in mapped'[u] /\ t \notin mapped[u]
  BY <1>1, <1>2, <1>3 DEF Seat
<1>6. SaveMapping(w)
  BY <1>5, OnlyRemaps
<1>7. AtStep(w, "remap")
  BY <1>6 DEF SaveMapping
<1>8. RemapOK(writes[w].op, Step(w)) /\ writes[w].op \in scenario.writes
  BY <1>1, <1>7, AtStepIs DEF StepOK
<1>9. mapped' = [mapped EXCEPT ![Step(w).user] = (mapped[Step(w).user] \ Step(w).from) \cup Step(w).to]
  BY <1>6 DEF SaveMapping
<1>10. u = Step(w).user /\ t \in Step(w).to
  BY <1>1, <1>4, <1>5, <1>9 DEF Types
<1>11. /\ writes[w].op[2] = u
       /\ \/ Values(u) \in Exposed(writes[w].op)
          \/ writes[w].op[1] \in {"userTenantMapping", "mapUsersToTenant"} /\ writes[w].op[3] = t
  BY <1>8, <1>10 DEF RemapOK
<1>12. Values(u) \in Exposed(writes[w].op) => Values(u) \in ExposedBy(scenario)
  BY <1>8, NotExposed
<1> QED BY <1>3, <1>4, <1>8, <1>11, <1>12

LEMMA NoNewClaimListed ==
    ASSUME Base, NEW w \in Writers, WriterStep(w), NEW s \in scenario.reads, s[1] \in Lists,
           NEW data, data \subseteq May(s) \X Nat, NEW early \in BOOLEAN, ListedOK(s, data, early),
           early => s[1] = "filtered", NEW d \in data, Claimed(s[2], d[1])'
    PROVE  Claimed(s[2], d[1])
<1> SUFFICES ASSUME ~Claimed(s[2], d[1]) PROVE FALSE
  OBVIOUS
<1>1. s \in Sites \cup NestedSites
  BY ScenarioIs DEF Base
<1>2. d[1] \in May(s)
  OBVIOUS
<1>3. d[1] \in Items
  BY <1>1, <1>2, MayServed
<1>4. /\ Personal(d[1]) /\ d[1] \notin ExposedBy(scenario) /\ Kept(d[1][2]) /\ s[2] \notin Seat(d[1][2])
      /\ \/ Values(d[1][2]) \in ExposedBy(scenario)
         \/ \E q \in scenario.writes : /\ q[1] \in {"userTenantMapping", "mapUsersToTenant"}
                                       /\ q[2] = d[1][2] /\ q[3] = s[2]
  BY <1>3, NewClaim
<1>5. early /\ d[1][1] = "FieldValues"
  BY <1>4 DEF ListedOK
<1>6. d[1] = Values(d[1][2])
  BY <1>3, <1>4, <1>5, PersonalIs
<1> QED BY <1>4, <1>5, <1>6, JoiningExposed

LEMMA NoNewClaimNested ==
    ASSUME Base, NEW w \in Writers, WriterStep(w), Embedded, NEW e \in Held, e.site \in NestedSites,
           NEW d \in e.data, NEW s \in scenario.reads, s[1] \in Lists, Claimed(s[2], d[1])'
    PROVE  Claimed(s[2], d[1])
<1> SUFFICES ASSUME ~Claimed(s[2], d[1]) PROVE FALSE
  OBVIOUS
<1>1. e.data \subseteq May(e.site) \X Nat
  BY HeldForms DEF Base
<1>2. d[1] \in May(e.site)
  BY <1>1
<1>3. /\ d[1] \in Items
      /\ d[1] = Definitions \/ (d[1] = Values(d[1][2]) /\ d[1][2] \in Users)
      /\ e.site[1] = "hydrated" /\ d[1] # Definitions => d[1] = Values(e.site[2])
  BY <1>2, MayServed
<1>4. /\ Personal(d[1]) /\ d[1] \notin ExposedBy(scenario) /\ Kept(d[1][2]) /\ s[2] \notin Seat(d[1][2])
      /\ \/ Values(d[1][2]) \in ExposedBy(scenario)
         \/ \E q \in scenario.writes : /\ q[1] \in {"userTenantMapping", "mapUsersToTenant"}
                                       /\ q[2] = d[1][2] /\ q[3] = s[2]
  BY <1>3, NewClaim
<1>5. d[1] # Definitions /\ d[1] = Values(d[1][2])
  BY <1>3, <1>4, ItemNs
<1>6. PICK q \in scenario.writes : /\ q[1] \in {"userTenantMapping", "mapUsersToTenant"}
                                   /\ q[2] = d[1][2] /\ q[3] = s[2]
  BY <1>4, <1>5
<1>7. \E o \in scenario.reads : o[1] \in Lists /\ (o[1] = "filtered" \/ o[2] # s[2])
  <2>1. CASE e.site[1] = "hydrated"
    <3>1. d[1][2] = e.site[2]
      BY <1>3, <1>5, <2>1, ItemFields
    <3>2. PICK o \in scenario.reads : o[1] \in Lists /\ o[2] \in Seat(e.site[2])
      BY <1>4, <2>1, <3>1 DEF Embedded
    <3> QED BY <1>4, <3>1, <3>2
  <2>2. CASE e.site[1] = "filterIds"
    BY <2>2 DEF Embedded, Lists
  <2> QED BY <2>1, <2>2, NestedForms
<1>8. PICK o \in scenario.reads : o[1] \in Lists /\ (o[1] = "filtered" \/ o[2] # s[2])
  BY <1>7
<1>9. Values(q[2]) \in ExposedBy(scenario)
  <2>1. CASE o[2] # s[2]
    BY <1>6, <1>8, <2>1, JoiningExposed
  <2>2. CASE o[2] = s[2]
    BY <1>6, <1>8, <2>2, JoiningExposed
  <2> QED BY <2>1, <2>2
<1> QED BY <1>4, <1>5, <1>6, <1>9

(* The steps of a writer, and what the results can be relied on for.        *)

\* What is Told to the readers of a key stays told.
LEMMA ToldStays ==
    ASSUME Base, NEW w \in Writers, WriterStep(w), NEW s \in Sites \cup NestedSites,
           NEW v \in [KeyOf(s) -> Nat], Past(v), NEW i \in Items, NEW k \in Nat,
           Chan(s, i) \in KeyOf(s), Served(i, k, Chan(s, i)), Told(s, v, i, k)
    PROVE  Told(s, v, i, k)'
<1> DEFINE c == Chan(s, i)
<1>1. reads' = reads
  BY WriterLeaves
<1>2. ASSUME IsCurrent(v)' PROVE Good(i, k, c)'
  <2>1. KeyOf(s) \in SUBSET Namespaces
    BY KeyIs
  <2>2. IsCurrent(v) /\ Version(c)' = Version(c)
    BY <1>2, <2>1, CurrentBefore
  <2>3. Good(i, k, c)
    BY <2>2 DEF Told
  <2> QED BY <2>2, <2>3, GoodStays
<1>3. \A r \in Readers : reads'[r].at # "idle" /\ reads'[r].site = s /\ reads'[r].vers = v =>
           reads'[r].since[i] <= k
  BY <1>1 DEF Told
<1> QED BY <1>2, <1>3 DEF Told

LEMMA HeldListed ==
    ASSUME Types, Shown, NEW e \in Held, e.site[1] \in Lists
    PROVE  /\ e.site \in scenario.reads
           /\ \E early \in BOOLEAN : ListedOK(e.site, e.data, early) /\ (early => e.site[1] = "filtered")
<1>1. e.site \in scenario.reads
  BY HeldForms, NestedForms
<1>2. CASE e \in entries
  BY <1>1, <1>2 DEF Shown
<1>3. CASE \E r \in Readers : reads[r].at \in Loading /\ e = Coming(r)
  <2>1. PICK r \in Readers : reads[r].at \in Loading /\ e = Coming(r)
    BY <1>3
  <2>2. ListedOK(reads[r].site, reads[r].got, Early(r))
    BY <2>1 DEF Shown, Loading
  <2>3. e.site = reads[r].site /\ e.data = reads[r].got
    BY <2>1 DEF Coming
  <2> QED BY <1>1, <2>2, <2>3 DEF Early
<1>4. CASE \E r \in Readers : reads[r].at = "mset" /\ e \in reads[r].batch
  <2>1. PICK r \in Readers : reads[r].at = "mset" /\ e \in reads[r].batch
    BY <1>4
  <2>2. ReadOK(r)
    BY <2>1 DEF Types, Idle
  <2>3. e.site \in NestedSites
    BY <2>1, <2>2 DEF ReadOK
  <2> QED BY <2>3, NestedForms
<1> QED BY <1>2, <1>3, <1>4 DEF Held

LEMMA HeldServed ==
    ASSUME Types, Shown, NEW e \in Held, NEW d \in e.data, Claim(e.site, d[1])
    PROVE  /\ d[1] \in Items /\ d[2] \in Nat /\ Chan(e.site, d[1]) \in KeyOf(e.site)
           /\ d[1] \in May(e.site) /\ Served(d[1], d[2], Chan(e.site, d[1]))
<1>1. e.site \in Sites \cup NestedSites /\ e.data \subseteq May(e.site) \X Nat
  BY HeldForms
<1>2. d[1] \in May(e.site) /\ d[2] \in Nat
  BY <1>1
<1>3. /\ d[1] \in Items /\ Chan(e.site, d[1]) \in KeyOf(e.site)
      /\ e.site[1] \in Lists => /\ Chan(e.site, d[1]) = Userlist(e.site[2])
                                /\ Tenanted(d[1]) => d[1][3] = e.site[2]
      /\ e.site[1] \notin Lists => Chan(e.site, d[1]) \in NsOf(d[1])
  BY <1>1, <1>2, MayServed
<1>4. CASE e.site[1] \in Lists
  <2>1. e.site[2] \in Tenants
    BY <1>1, <1>4, ListForms
  <2>2. d[1][1] = "Users" => d[2] # 0
    BY <1>4, HeldListed DEF ListedOK, Personal
  <2> QED BY <1>2, <1>3, <1>4, <2>1, <2>2 DEF Served, Claim
<1> QED BY <1>2, <1>3, <1>4 DEF Served

LEMMA SameHeld ==
    ASSUME UNCHANGED <<entries, reads>>
    PROVE  /\ Held' = Held
           /\ \A r : Nested(r)' = Nested(r) /\ Stage(r)' = Stage(r)
           /\ \A r, e : Feeds(e, r)' <=> Feeds(e, r)
<1>1. Held' = Held
  BY DEF Held, Coming
<1>2. \A r : Nested(r)' = Nested(r) /\ Stage(r)' = Stage(r)
  BY DEF Nested, Stage, OnPage
<1>3. \A r, e : Feeds(e, r)' <=> Feeds(e, r)
  BY <1>2 DEF Feeds, KeyVersions
<1> QED BY <1>1, <1>2, <1>3

\* HeldGood, FedGood, DoneGood, Shown and Embedded after the step of a writer.
LEMMA HeldGoodByWriter ==
    ASSUME IInv, NEW w \in Writers, WriterStep(w)
    PROVE  HeldGood'
<1>1. Base /\ Types /\ Shown /\ UNCHANGED <<entries, reads>>
  BY WriterLeaves DEF IInv, Base
<1>2. Held' = Held
  BY <1>1, SameHeld
<1> SUFFICES ASSUME NEW e \in Held, NEW d \in e.data, Claim(e.site, d[1])'
             PROVE  Told(e.site, e.vers, d[1], d[2])'
  BY <1>2 DEF HeldGood
<1>3. /\ e.site \in Sites \cup NestedSites /\ e.vers \in [KeyOf(e.site) -> Nat] /\ Past(e.vers)
      /\ e.data \subseteq May(e.site) \X Nat
  BY <1>1, HeldForms
<1>4. Claim(e.site, d[1])
  <2> SUFFICES ASSUME e.site[1] \in Lists PROVE Claimed(e.site[2], d[1])
    BY DEF Claim
  <2>1. Claimed(e.site[2], d[1])'
    BY DEF Claim
  <2>2. PICK early \in BOOLEAN : ListedOK(e.site, e.data, early) /\ (early => e.site[1] = "filtered")
    BY <1>1, HeldListed
  <2>3. e.site \in scenario.reads
    BY <1>1, HeldListed
  <2> QED BY <1>1, <1>3, <2>1, <2>2, <2>3, NoNewClaimListed
<1>5. Told(e.site, e.vers, d[1], d[2])
  BY <1>4 DEF IInv, HeldGood
<1>6. /\ d[1] \in Items /\ d[2] \in Nat /\ Chan(e.site, d[1]) \in KeyOf(e.site)
      /\ Served(d[1], d[2], Chan(e.site, d[1]))
  BY <1>1, <1>4, HeldServed
<1> QED BY <1>1, <1>3, <1>5, <1>6, ToldStays

LEMMA FedGoodByWriter ==
    ASSUME IInv, NEW w \in Writers, WriterStep(w)
    PROVE  FedGood'
<1>1. Base /\ Types /\ Shown /\ Embedded /\ UNCHANGED <<entries, reads>>
  BY WriterLeaves DEF IInv, Base
<1>2. Held' = Held /\ \A r, e : Feeds(e, r)' <=> Feeds(e, r)
  BY <1>1, SameHeld
<1> SUFFICES ASSUME NEW e \in Held, NEW r \in Readers, Feeds(e, r), NEW d \in e.data,
                    Claim(reads[r].site, d[1])'
             PROVE  Told(reads[r].site, reads[r].vers, d[1], d[2])'
  BY <1>2 DEF FedGood
<1>3. PICK s, v : s = reads[r].site /\ v = reads[r].vers
  OBVIOUS
<1>4. reads[r].at = "mget" /\ e.site \in Nested(r)
  BY DEF Feeds
<1>5. ReadOK(r)
  BY <1>1, <1>4 DEF Types, Idle
<1>6. s \in scenario.reads /\ v \in [KeyOf(s) -> Nat] /\ Past(v) /\ s[1] \in Lists
  BY <1>3, <1>4, <1>5 DEF ReadOK
<1>7. s \in Sites \cup NestedSites
  BY <1>1, <1>6, ScenarioIs
<1>8. e.site \in NestedSites
  BY <1>4 DEF Nested, NestedSites, OnPage
<1>9. e.data \subseteq May(e.site) \X Nat
  BY <1>1, HeldForms
<1>10. /\ d[1] \in Items /\ ~Tenanted(d[1]) /\ d[1][1] # "Users" /\ d[2] \in Nat
  BY <1>8, <1>9, MayServed
<1>11. Claimed(s[2], d[1])'
  <2>1. reads'[r].site = s
    BY <1>1, <1>3
  <2> QED BY <1>6, <2>1 DEF Claim
<1>12. Claimed(s[2], d[1])
  BY <1>1, <1>6, <1>8, <1>11, NoNewClaimNested
<1>13. Told(s, v, d[1], d[2])
  BY <1>3, <1>6, <1>12 DEF IInv, FedGood, Claim
<1>14. Chan(s, d[1]) = Userlist(s[2]) /\ Userlist(s[2]) \in KeyOf(s) /\ s[2] \in Tenants
  BY <1>6, <1>7, ListForms DEF Chan, Lists
<1>15. Served(d[1], d[2], Chan(s, d[1]))
  BY <1>10, <1>12, <1>14 DEF Served
<1>16. Told(s, v, d[1], d[2])'
  BY <1>1, <1>6, <1>7, <1>10, <1>13, <1>14, <1>15, ToldStays
<1>17. reads'[r].site = s /\ reads'[r].vers = v
  BY <1>1, <1>3
<1> QED BY <1>16, <1>17

LEMMA DoneGoodByWriter ==
    ASSUME IInv, NEW w \in Writers, WriterStep(w)
    PROVE  DoneGood'
<1>1. Base /\ Types /\ Shown /\ UNCHANGED <<entries, reads>>
  BY WriterLeaves DEF IInv, Base
<1> SUFFICES ASSUME NEW r \in Readers, reads[r].at = "done", NEW d \in reads[r].got,
                    Claim(reads[r].site, d[1])'
             PROVE  d[2] >= reads[r].since[d[1]]
  BY <1>1 DEF DoneGood
<1>2. ReadOK(r)
  BY <1>1 DEF Types, Idle
<1>3. Claim(reads[r].site, d[1])
  <2> SUFFICES ASSUME reads[r].site[1] \in Lists PROVE Claimed(reads[r].site[2], d[1])
    BY DEF Claim
  <2>1. PICK s, data : s = reads[r].site /\ data = reads[r].got
    OBVIOUS
  <2>2. s \in scenario.reads /\ data \subseteq May(s) \X Nat /\ s[1] \in Lists
    BY <1>2, <2>1 DEF ReadOK
  <2>3. ListedOK(s, data, FALSE)
    <3>1. ListedOK(reads[r].site, reads[r].got, Early(r))
      BY <1>1 DEF Shown
    <3>2. Early(r) = FALSE
      BY DEF Early, Loading
    <3> QED BY <2>1, <3>1, <3>2
  <2>4. Claimed(s[2], d[1])'
    <3>1. reads'[r].site = s
      BY <1>1, <2>1
    <3> QED BY <2>2, <3>1 DEF Claim
  <2>5. Claimed(s[2], d[1])
    BY <1>1, <2>1, <2>2, <2>3, <2>4, NoNewClaimListed
  <2> QED BY <2>1, <2>5
<1> QED BY <1>3 DEF IInv, DoneGood

LEMMA ListedOKStays ==
    ASSUME Base, NEW w \in Writers, WriterStep(w), NEW s \in scenario.reads \cup NestedSites,
           NEW data, data \subseteq May(s) \X Nat, NEW early, ListedOK(s, data, early)
    PROVE  ListedOK(s, data, early)'
<1>1. scenario' = scenario
  BY WriterLeaves
<1> SUFFICES ASSUME s[1] \in Lists, NEW d \in data, Personal(d[1])
             PROVE  /\ d[1][1] = "Users" => d[2] # 0
                    /\ Kept(d[1][2])' /\ ~(early /\ d[1][1] = "FieldValues") => s[2] \in Seat(d[1][2])'
  BY DEF ListedOK
<1>2. s \in Sites \cup NestedSites
  BY ScenarioIs DEF Base
<1>3. d[1] \in Items /\ d[1][2] \in Users
  BY <1>2, MayServed, PersonalIs
<1>4. Kept(d[1][2])' <=> Kept(d[1][2])
  BY <1>1, SameScenario
<1>5. /\ d[1][1] = "Users" => d[2] # 0
      /\ Kept(d[1][2]) /\ ~(early /\ d[1][1] = "FieldValues") => s[2] \in Seat(d[1][2])
  BY DEF ListedOK
<1>6. Kept(d[1][2]) => Seat(d[1][2]) \subseteq Seat(d[1][2])'
  BY <1>3, SeatGrows
<1> QED BY <1>4, <1>5, <1>6

LEMMA ShownByWriter ==
    ASSUME IInv, NEW w \in Writers, WriterStep(w)
    PROVE  Shown'
<1>1. Base /\ Types /\ Shown /\ UNCHANGED <<entries, reads>>
  BY WriterLeaves DEF IInv, Base
<1>2. ASSUME NEW e \in entries PROVE ListedOK(e.site, e.data, FALSE)'
  <2>1. e.site \in scenario.reads \cup NestedSites /\ e.data \subseteq May(e.site) \X Nat
    BY <1>1 DEF Types, EntryOK
  <2>2. ListedOK(e.site, e.data, FALSE)
    BY <1>1 DEF Shown
  <2> QED BY <1>1, <2>1, <2>2, ListedOKStays
<1>3. ASSUME NEW r \in Readers, reads[r].at # "idle"
      PROVE  ListedOK(reads[r].site, reads[r].got, Early(r))'
  <2>1. PICK s, data, early : s = reads[r].site /\ data = reads[r].got /\ early = Early(r)
    OBVIOUS
  <2>2. ReadOK(r)
    BY <1>1, <1>3 DEF Types, Idle
  <2>3. s \in scenario.reads \cup NestedSites /\ data \subseteq May(s) \X Nat
    BY <2>1, <2>2 DEF ReadOK
  <2>4. ListedOK(s, data, early)
    BY <1>1, <1>3, <2>1 DEF Shown
  <2>5. ListedOK(s, data, early)'
    BY <1>1, <2>3, <2>4, ListedOKStays
  <2>6. reads'[r].site = s /\ reads'[r].got = data /\ Early(r)' = early
    BY <1>1, <2>1 DEF Early
  <2> QED BY <2>5, <2>6
<1>4. \A e \in entries' : ListedOK(e.site, e.data, FALSE)'
  BY <1>1, <1>2
<1>5. \A r \in Readers : reads'[r].at # "idle" => ListedOK(reads[r].site, reads[r].got, Early(r))'
  BY <1>1, <1>3
<1> QED BY <1>4, <1>5 DEF Shown

LEMMA EmbeddedByWriter ==
    ASSUME IInv, NEW w \in Writers, WriterStep(w)
    PROVE  Embedded'
<1>1. Base /\ Types /\ Embedded /\ UNCHANGED <<entries, reads, scenario>>
  BY WriterLeaves DEF IInv, Base
<1>2. Held' = Held
  BY <1>1, SameHeld
<1> SUFFICES ASSUME NEW e \in Held
             PROVE  /\ e.site[1] = "hydrated" /\ Kept(e.site[2])' =>
                          \E s \in scenario.reads : s[1] \in Lists /\ s[2] \in Seat(e.site[2])'
                    /\ e.site[1] = "filterIds" => \E s \in scenario.reads : s[1] = "filtered"
  BY <1>1, <1>2 DEF Embedded
<1>3. ASSUME e.site[1] = "hydrated", Kept(e.site[2])'
      PROVE  \E s \in scenario.reads : s[1] \in Lists /\ s[2] \in Seat(e.site[2])'
  <2>1. Kept(e.site[2])
    BY <1>1, <1>3, SameScenario
  <2>2. e.site \in Sites \cup NestedSites
    BY <1>1, HeldForms
  <2>3. e.site[2] \in Users
    BY <1>3, <2>2, SiteForms, SiteKinds
  <2>4. Seat(e.site[2]) \subseteq Seat(e.site[2])'
    BY <1>1, <2>1, <2>3, SeatGrows
  <2>5. PICK s \in scenario.reads : s[1] \in Lists /\ s[2] \in Seat(e.site[2])
    BY <1>1, <1>3, <2>1 DEF Embedded
  <2> QED BY <2>4, <2>5
<1>4. e.site[1] = "filterIds" => \E s \in scenario.reads : s[1] = "filtered"
  BY <1>1 DEF Embedded
<1> QED BY <1>3, <1>4

(* The bump of a list, beside the nested results it embeds.                *)

\* For an item of no request's, nobody is newer.
LEMMA NobodyNewer ==
    ASSUME Base, NEW i \in Items, i \notin ExposedBy(scenario), ~Personal(i), ~Tenanted(i),
           NEW k \in Nat, NEW v \in Writers
    PROVE  ~Newer(v, i, k)
<1> SUFFICES ASSUME Newer(v, i, k) PROVE FALSE
  OBVIOUS
<1>1. Types /\ Sent(v) /\ writes[v].at = "run" /\ writes[v].wrote[i] > k
  BY DEF Base, Newer
<1>2. WriteOK(v)
  BY <1>1, PathOf
<1>3. writes[v].wrote[i] # 0 /\ writes[v].op \in scenario.writes
  BY <1>1, <1>2 DEF WriteOK
<1>4. i \notin Exposed(writes[v].op)
  BY <1>3, NotExposed
<1> QED BY <1>1, <1>3, <1>4, WroteIs

\* Who has newer values of u and has bumped the lists with the fields of u to come,
\* has still to bump the lists.
LEMMA ListsBesideInvalidate ==
    ASSUME Base, NEW w \in Writers, Invalidate(w), NEW u \in Users,
           Values(u) \notin ExposedBy(scenario), NEW k \in Nat, Newer(w, Values(u), k)',
           NEW f \in {Ufields(u), Userfilter}, Version(f)' = Version(f), Ahead(w, f)',
           NEW t, Ahead(w, Userlist(t))
    PROVE  Ahead(w, Userlist(t))'
<1> DEFINE q == writes[w].op
           m == writes[w].next
           i == Values(u)
           n == Userlist(t)
<1>1. Types /\ Sent(w) /\ i \in Items
  BY ItemsAre DEF Base
<1>2. /\ Keeps(w) /\ AtStep(w, "bump") /\ writes'[w].op = q
      /\ writes'[w].next = m + 1 /\ writes'[w].wrote = writes[w].wrote
      /\ writes'[w].tenants = writes[w].tenants /\ UNCHANGED <<mapped, acked>>
      /\ \/ /\ writes'[w].queue = writes[w].queue
            /\ ver' = [x \in Namespaces |-> IF Contains(Batch(w), x) THEN Version(x) + 1
                                            ELSE ver[x]]
         \/ writes'[w].queue = Batch(w) /\ UNCHANGED ver
  BY <1>1, InvalidateEffect DEF Keeps
<1>3. /\ End(q) \in Nat /\ m \in 1..End(q) /\ writes[w].at = "run" /\ writes[w].queue = <<>>
      /\ Step(w) = StepsOf(q)[m] /\ BumpOK(q, m, Step(w)) /\ q \in scenario.writes /\ WriteOK(w)
  BY <1>1, <1>2, AtStepIs DEF StepOK
<1>4. Batch(w) \in Seq(Namespaces)
      /\ \A x \in Range(Batch(w)) : x \in Range(Step(w).ns) \/ (Step(w).lists /\ OfList(x))
  BY <1>1, <1>2, BatchRange
<1>5. CASE n \notin Range(Batch(w))
  BY <1>2, <1>5, BumpStill
<1>6. CASE n \in Range(Batch(w)) /\ writes'[w].queue = Batch(w)
  BY <1>6 DEF Ahead
<1>7. CASE /\ n \in Range(Batch(w)) /\ writes'[w].queue = writes[w].queue
           /\ ver' = [x \in Namespaces |-> IF Contains(Batch(w), x) THEN Version(x) + 1 ELSE ver[x]]
  <2>1. q[1] \in Looking
    <3>1. writes[w].wrote[i] # 0
      BY <1>2, <1>3 DEF Newer, WriteOK
    <3>2. i \notin Exposed(q)
      BY <1>3, NotExposed
    <3>3. Personal(i) /\ i[1] # "Users"
      BY ItemNs, ItemFields
    <3> QED BY <1>1, <1>3, <3>1, <3>2, <3>3, WroteIs
  <2>2. Step(w).lists
    <3>1. OfList(n)
      BY NsKinds
    <3> QED BY <1>3, <1>4, <1>7, <2>1, <3>1 DEF BumpOK
  <2>3. OfFields(f) /\ ~OfList(f)
    BY NsKinds
  <2>4. ~WillBump(q, m + 1, f)
    BY <1>3, <2>2, <2>3 DEF BumpOK
  <2>5. Range(writes'[w].queue) = {}
    BY <1>3, <1>7 DEF Range
  <2>6. f \notin {Userlist(x) : x \in TenantsAt(w)'}
    BY <2>3, NsKinds
  <2> QED BY <1>2, <2>4, <2>5, <2>6 DEF Ahead
<1> QED BY <1>2, <1>5, <1>6, <1>7

LEMMA ListsBesideIncr ==
    ASSUME Base, NEW w \in Writers, Incr(w), NEW u \in Users,
           Values(u) \notin ExposedBy(scenario), NEW k \in Nat, Newer(w, Values(u), k)',
           NEW f \in {Ufields(u), Userfilter}, Ahead(w, f)',
           NEW t, Ahead(w, Userlist(t))
    PROVE  Ahead(w, Userlist(t))'
<1> DEFINE q == writes[w].op
           m == writes[w].next
           i == Values(u)
           n == Userlist(t)
           x == writes[w].queue
           h == Head(x)
           again == IF ver[h] = 0 THEN <<h>> ELSE <<>>
<1>1. Types /\ Sent(w) /\ i \in Items
  BY ItemsAre DEF Base
<1>2. /\ Keeps(w) /\ WriteOK(w) /\ x # <<>> /\ h \in Namespaces
      /\ writes'[w].op = q /\ writes'[w].next = m
      /\ writes'[w].wrote = writes[w].wrote /\ writes'[w].tenants = writes[w].tenants
      /\ writes'[w].queue = Tail(x) \o again
      /\ writes[w].at = "run" /\ UNCHANGED <<mapped, acked>>
  BY <1>1, IncrEffect DEF Keeps
<1>3. x \in Seq(Namespaces) /\ Tail(x) \in Seq(Namespaces) /\ again \in Seq(Namespaces)
  BY <1>2 DEF WriteOK
<1>4. Range(writes'[w].queue) = Range(Tail(x)) \cup Range(again)
  <2> HIDE DEF again, x
  <2>1. PICK y, z : y = Tail(x) /\ z = again
    OBVIOUS
  <2>2. y \in Seq(Namespaces) /\ z \in Seq(Namespaces)
    BY ONLY <1>3, <2>1
  <2>3. Range(y \o z) = Range(y) \cup Range(z)
    BY ONLY <2>2, JoinedRange
  <2> QED BY ONLY <1>2, <2>1, <2>3
<1>5. CASE n \notin Range(x)
  <2>1. TenantsAt(w)' = TenantsAt(w)
    BY <1>2 DEF TenantsAt
  <2>2. \/ WillBump(writes'[w].op, writes'[w].next, n)
        \/ WillBumpLists(writes'[w].op, writes'[w].next) /\ n \in {Userlist(y) : y \in TenantsAt(w)'}
    BY <1>2, <1>5, <2>1 DEF Ahead
  <2> QED BY <2>2 DEF Ahead
<1>6. CASE n \in Range(Tail(x)) \/ n \in Range(again)
  BY <1>4, <1>6 DEF Ahead
<1>7. CASE n \in Range(x) /\ n \notin Range(Tail(x)) /\ n \notin Range(again)
  <2>1. n = h
    BY <1>2, <1>3, <1>7, HeadOrTail
  <2>2. again = <<>>
    <3>1. n \in Range(<<n>>)
      BY Range1
    <3> QED BY <1>7, <2>1, <3>1
  <2>3. PathOK(q) /\ End(q) \in Nat /\ q \in scenario.writes
    BY <1>1, <1>2, PathOf DEF WriteOK
  <2>4. /\ scenario.provider = "redis"
        /\ m > 1 /\ StepsOf(q)[m - 1].op = "bump" /\ m \in Nat /\ m - 1 \in 1..End(q)
        /\ n \in Range(StepsOf(q)[m - 1].ns) \/ (StepsOf(q)[m - 1].lists /\ OfList(n))
        /\ \A a, b \in 1..Len(x) :
              a < b /\ OfList(x[a]) /\ OfFields(x[b]) => x[b] \in scenario.missing
    BY <1>1, <1>2, <1>7, <2>3 DEF Sent, WriteOK
  <2>5. BumpOK(q, m - 1, StepsOf(q)[m - 1])
    BY <2>3, <2>4 DEF PathOK, StepOK
  <2>6. q[1] \in Looking
    <3>1. writes[w].wrote[i] # 0
      BY <1>2 DEF Newer, WriteOK
    <3>2. i \notin Exposed(q)
      BY <2>3, NotExposed
    <3>3. Personal(i) /\ i[1] # "Users"
      BY ItemNs, ItemFields
    <3> QED BY <1>1, <1>2, <3>1, <3>2, <3>3, WroteIs
  <2>7. OfList(n) /\ OfFields(f) /\ ~OfList(f)
    BY NsKinds
  <2>8. StepsOf(q)[m - 1].lists
    BY <2>4, <2>5, <2>6, <2>7 DEF BumpOK
  <2>9. ~WillBump(q, m, f)
    <3>1. (m - 1) + 1 = m
      BY <2>4
    <3>2. ~WillBump(q, (m - 1) + 1, f)
      BY <2>5, <2>7, <2>8 DEF BumpOK
    <3> QED BY <3>1, <3>2
  <2>10. f \notin {Userlist(y) : y \in TenantsAt(w)'}
    BY <2>7, NsKinds
  <2>11. f \in Range(Tail(x))
    <3>1. f \in Range(writes'[w].queue)
      BY <1>2, <2>9, <2>10 DEF Ahead
    <3>2. Range(again) = {}
      BY <2>2 DEF Range
    <3> QED BY <1>4, <3>1, <3>2
  <2>12. f \in scenario.missing
    <3>1. PICK b \in 1..Len(Tail(x)) : Tail(x)[b] = f
      BY <1>3, <2>11 DEF Range
    <3>2. b + 1 \in 1..Len(x) /\ x[b + 1] = f /\ 1 \in 1..Len(x) /\ 1 < b + 1 /\ x[1] = h
      BY <1>2, <1>3, <3>1
    <3> QED BY <2>1, <2>4, <2>7, <3>2
  <2>13. u \in FirstBumped(scenario)
    BY <2>4, <2>12 DEF FirstBumped
  <2>14. i \in ExposedBy(scenario)
    BY <2>13 DEF ExposedBy
  <2> QED BY <2>14
<1> QED BY <1>5, <1>6, <1>7

\* The nested results are as good for the lists as they were: a batch bumps the
\* values before the lists that embed them.
LEMMA NestedGoodByWriter ==
    ASSUME IInv, NEW w \in Writers, WriterStep(w)
    PROVE  NestedGood'
<1>1. Base /\ Types /\ Shown /\ Embedded /\ UNCHANGED <<entries, reads, scenario>>
  BY WriterLeaves DEF IInv, Base
<1>2. Held' = Held
  BY <1>1, SameHeld
<1> SUFFICES ASSUME NEW e \in Held, e.site \in NestedSites, IsCurrent(e.vers)', NEW d \in e.data,
                    NEW s \in scenario.reads, s[1] \in Lists, Claimed(s[2], d[1])'
             PROVE  Good(d[1], d[2], Userlist(s[2]))'
  BY <1>1, <1>2 DEF NestedGood
<1> DEFINE i == d[1]
           k == d[2]
           n == Userlist(s[2])
           S == KeyOf(e.site)
<1>3. Claimed(s[2], i)
  BY <1>1, NoNewClaimNested
<1>4. /\ S \in SUBSET Namespaces /\ e.vers \in [S -> Nat] /\ Past(e.vers)
      /\ e.data \subseteq May(e.site) \X Nat
  BY <1>1, HeldForms
<1>5. IsCurrent(e.vers) /\ \A x \in S : Version(x)' = Version(x)
  BY <1>1, <1>4, CurrentBefore
<1>6. Good(i, k, n)
  BY <1>3, <1>5 DEF IInv, NestedGood
<1>7. /\ i \in Items /\ k \in Nat /\ ~Tenanted(i) /\ i[1] # "Users" /\ Chan(e.site, i) \in S
      /\ i = Definitions \/ (i = Values(i[2]) /\ i[2] \in Users)
      /\ e.site[1] = "hydrated" /\ i # Definitions => i = Values(e.site[2])
      /\ Chan(e.site, i) \in NsOf(i)
  BY <1>4, MayServed, NestedForms
<1>8. s[2] \in Tenants
  BY <1>1, ListForms, ScenarioIs
<1>9. i \notin ExposedBy(scenario)
  BY <1>3 DEF Claimed
<1>10. CASE Version(n)' = Version(n)
  <2>1. Served(i, k, n)
    BY <1>3, <1>7, <1>8 DEF Served
  <2> QED BY <1>1, <1>6, <1>7, <1>10, <2>1, GoodStays
<1>11. CASE Version(n)' # Version(n)
  <2>1. ver' # ver
    BY <1>11 DEF Version
  <2>2. Invalidate(w) \/ Incr(w)
    BY <2>1, OnlyBumps
  <2>3. /\ Keeps(w) /\ writes'[w].wrote = writes[w].wrote /\ UNCHANGED <<mapped, acked>>
        /\ writes[w].at = "run" /\ (Unanswered(writes[w].op, writes'[w].next)
                                    => Unanswered(writes[w].op, writes[w].next))
    <3>1. CASE Invalidate(w)
      <4>1. /\ Keeps(w) /\ writes'[w].wrote = writes[w].wrote /\ UNCHANGED <<mapped, acked>>
            /\ AtStep(w, "bump") /\ writes'[w].next = writes[w].next + 1
        BY <1>1, <3>1, InvalidateEffect
      <4>2. /\ writes[w].at = "run" /\ End(writes[w].op) \in Nat
            /\ writes[w].next \in 1..End(writes[w].op)
        BY <1>1, <4>1, AtStepIs
      <4> QED BY <4>1, <4>2, OneStepOn
    <3>2. CASE Incr(w)
      BY <1>1, <3>2, IncrEffect
    <3> QED BY <2>2, <3>1, <3>2
  <2>4. ASSUME Newer(w, i, k)' PROVE Newer(w, i, k)
    BY <2>3, <2>4 DEF Newer, Keeps
  <2>5. ASSUME Newer(w, i, k)' PROVE Ahead(w, n)'
    <3>1. CASE i = Definitions
      <4>1. ~Personal(i) /\ ~Tenanted(i)
        BY <3>1, ItemNs
      <4> QED BY <1>1, <1>7, <1>9, <2>4, <2>5, <4>1, NobodyNewer
    <3>2. CASE i # Definitions
      <4> DEFINE f == Chan(e.site, i)
      <4>1. i = Values(i[2]) /\ i[2] \in Users
        BY <1>7, <3>2
      <4>2. f \in {Ufields(i[2]), Userfilter}
        BY <1>7, <4>1, ItemNs
      <4>3. Version(f)' = Version(f)
        BY <1>5, <1>7
      <4>4. Claim(e.site, i)
        BY NestedForms DEF Claim
      <4>5. Good(i, k, f)
        BY <1>5, <4>4 DEF IInv, HeldGood, Told
      <4>6. Good(i, k, f)'
        BY <1>1, <1>7, <4>3, <4>5, GoodStays DEF Served
      <4>7. Ahead(w, f)'
        BY <2>5, <4>6 DEF Good
      <4>8. Ahead(w, n)
        BY <1>6, <2>4, <2>5 DEF Good
      <4> HIDE DEF f
      <4>9. \A u \in Users : i = Values(u) /\ f \in {Ufields(u), Userfilter} => Ahead(w, n)'
        <5> SUFFICES ASSUME NEW u \in Users, i = Values(u), f \in {Ufields(u), Userfilter}
                     PROVE  Ahead(w, n)'
          OBVIOUS
        <5>1. Newer(w, Values(u), k)' /\ Values(u) \notin ExposedBy(scenario)
          BY <1>9, <2>5
        <5>2. CASE Invalidate(w)
          BY <1>1, <1>7, <4>3, <4>7, <4>8, <5>1, <5>2, ListsBesideInvalidate
        <5>3. CASE Incr(w)
          BY <1>1, <1>7, <4>7, <4>8, <5>1, <5>3, ListsBesideIncr
        <5> QED BY <2>2, <5>2, <5>3
      <4> QED BY <4>1, <4>2, <4>9
    <3> QED BY <3>1, <3>2
  <2>6. \A v \in Writers \ {w} : Newer(v, i, k) /\ Ahead(v, n) => Ahead(v, n)'
    BY <2>3, OthersAhead DEF Keeps
  <2>7. acked'[i] <= k
    BY <1>6, <2>3 DEF Good
  <2> QED BY <1>6, <2>3, <2>5, <2>6, <2>7, GoodKept DEF Keeps
<1> QED BY <1>10, <1>11

(* The types, after a step of a writer.                                    *)

LEMMA ChangedItems ==
    ASSUME Types, NEW w \in Writers, SaveRows(w) \/ SaveMapping(w)
    PROVE  /\ Changed(w) \subseteq Items /\ Changed(w) \subseteq Touched(writes[w].op, writes[w].next)
           /\ Step(w) = StepsOf(writes[w].op)[writes[w].next]
           /\ writes[w].next \in 1..End(writes[w].op) /\ End(writes[w].op) \in Nat
           /\ WriteOK(w) /\ writes[w].at = "run" /\ writes[w].queue = <<>>
           /\ writes[w].op \in Requests /\ writes[w].op \in scenario.writes
           /\ PathOK(writes[w].op) /\ StepOK(writes[w].op, writes[w].next)
           /\ Announced(writes[w].op, writes[w].next)
<1>1. (AtStep(w, "save") \/ AtStep(w, "remap")) /\ Step(w).op \in {"save", "remap"}
  BY SaveEffect
<1>2. /\ Step(w) = StepsOf(writes[w].op)[writes[w].next]
      /\ writes[w].next \in 1..End(writes[w].op) /\ End(writes[w].op) \in Nat
      /\ WriteOK(w) /\ writes[w].at = "run" /\ writes[w].queue = <<>>
      /\ writes[w].op \in Requests /\ writes[w].op \in scenario.writes
      /\ PathOK(writes[w].op) /\ StepOK(writes[w].op, writes[w].next)
      /\ Announced(writes[w].op, writes[w].next)
  BY <1>1, AtStepIs
<1>3. Step(w).items \subseteq Items /\ Step(w).gone \subseteq Items
  BY <1>1, <1>2 DEF StepOK
<1>4. Changed(w) \subseteq Items /\ Changed(w) \subseteq Touched(writes[w].op, writes[w].next)
  BY <1>1, <1>2, <1>3 DEF Changed, Touched
<1> QED BY <1>2, <1>4

LEMMA OnlySaves ==
    ASSUME NEW w \in Writers, WriterStep(w), rows' # rows
    PROVE  SaveRows(w) \/ SaveMapping(w)
<1>1. CASE \E q \in scenario.writes : Start(w, q)
  BY <1>1 DEF Start
<1>3. CASE LookUpTenants(w) \/ LookUpFails(w)
  BY <1>3 DEF LookUpTenants, LookUpFails
<1>4. CASE Invalidate(w) \/ Incr(w)
  BY <1>4 DEF Invalidate, Incr
<1>5. CASE SendReply(w) \/ Throw(w)
  BY <1>5 DEF SendReply, Throw
<1> QED BY <1>1, <1>3, <1>4, <1>5 DEF WriterStep

LEMMA OnlyReplies ==
    ASSUME NEW w \in Writers, WriterStep(w), acked' # acked
    PROVE  SendReply(w)
<1>1. CASE \E q \in scenario.writes : Start(w, q)
  BY <1>1 DEF Start
<1>2. CASE SaveRows(w) \/ SaveMapping(w)
  BY <1>2 DEF SaveRows, SaveMapping
<1>3. CASE LookUpTenants(w) \/ LookUpFails(w)
  BY <1>3 DEF LookUpTenants, LookUpFails
<1>4. CASE Invalidate(w) \/ Incr(w)
  BY <1>4 DEF Invalidate, Incr
<1>5. CASE Throw(w)
  BY <1>5 DEF Throw
<1> QED BY <1>1, <1>2, <1>3, <1>4, <1>5 DEF WriterStep

LEMMA RowsGrow ==
    ASSUME Base, NEW w \in Writers, WriterStep(w)
    PROVE  /\ rows' \in [Items -> Nat] /\ \A i \in Items : rows'[i] >= rows[i]
           /\ acked' \in [Items -> Nat] /\ \A i \in Items : acked'[i] >= acked[i]
           /\ \A i \in Items : acked'[i] <= rows'[i]
<1>1. Types
  BY DEF Base
<1>2. /\ rows \in [Items -> Nat] /\ acked \in [Items -> Nat] /\ \A i \in Items : acked[i] <= rows[i]
  BY <1>1 DEF Types
<1>3. /\ rows' \in [Items -> Nat] /\ \A i \in Items : rows'[i] >= rows[i]
  <2>1. CASE rows' = rows
    BY <1>2, <2>1
  <2>2. CASE SaveRows(w) \/ SaveMapping(w)
    <3>1. rows' = Written(w)
      BY <1>1, <2>2, SaveEffect
    <3> QED BY <1>2, <3>1 DEF Written
  <2> QED BY <2>1, <2>2, OnlySaves
<1>4. CASE acked' = acked
  BY <1>2, <1>3, <1>4
<1>5. CASE SendReply(w)
  <2>1. acked' = AckedWith(w) /\ rows' = rows /\ AtStep(w, "reply")
    BY <1>1, <1>5, SendReplyEffect
  <2>2. WriteOK(w)
    BY <1>1, <2>1, AtStepIs
  <2>3. writes[w].wrote \in [Items -> Nat] /\ \A i \in Items : writes[w].wrote[i] <= rows[i]
    BY <2>2 DEF WriteOK
  <2> QED BY <1>2, <1>3, <2>1, <2>3 DEF AckedWith
<1> QED BY <1>4, <1>5, OnlyReplies

LEMMA MappedType ==
    ASSUME Base, NEW w \in Writers, WriterStep(w)
    PROVE  mapped' \in [Users -> SUBSET Tenants]
<1>1. Types
  BY DEF Base
<1>2. CASE mapped' = mapped
  BY <1>1, <1>2 DEF Types
<1>3. CASE SaveMapping(w)
  <2>1. AtStep(w, "remap")
    BY <1>3 DEF SaveMapping
  <2>2. RemapOK(writes[w].op, Step(w))
    BY <1>1, <2>1, AtStepIs DEF StepOK
  <2>3. Step(w).to \subseteq Tenants
    BY <2>2 DEF RemapOK
  <2>4. mapped' = [mapped EXCEPT ![Step(w).user] = (mapped[Step(w).user] \ Step(w).from) \cup Step(w).to]
    BY <1>3 DEF SaveMapping
  <2> QED BY <1>1, <2>2, <2>3, <2>4 DEF Types, RemapOK
<1> QED BY <1>2, <1>3, OnlyRemaps

LEMMA WriteOKIf ==
    ASSUME NEW w \in Writers, Keeps(w), scenario' = scenario, WriteOK(w),
           writes'[w].next \in 1..(End(writes[w].op) + 1), writes'[w].tenants \subseteq Tenants,
           writes'[w].queue \in Seq(Namespaces), writes'[w].wrote \in [Items -> Nat],
           \A i \in Items : writes'[w].wrote[i] <= rows'[i]
    PROVE  WriteOK(w)'
<1>1. writes'[w].at = "run" /\ writes'[w].op = writes[w].op /\ writes[w].op \in scenario.writes
  BY DEF Keeps, WriteOK
<1> QED BY <1>1 DEF WriteOK

\* What each step makes of its writer.
LEMMA WriterOKAfter ==
    ASSUME Base, NEW w \in Writers, WriterStep(w)
    PROVE  /\ Others(w) /\ DOMAIN writes' = Writers /\ DOMAIN writes'[w] = DOMAIN NotStarted
           /\ WriteOK(w)'
<1>1. Types /\ scenario' = scenario
  BY WriterLeaves DEF Base
<1>2. rows' \in [Items -> Nat] /\ \A i \in Items : rows'[i] >= rows[i] /\ rows[i] \in Nat
  BY <1>1, RowsGrow DEF Types
<1>3. DOMAIN writes = Writers
  BY <1>1 DEF Types
<1>4. ASSUME NEW q \in scenario.writes, Start(w, q)
      PROVE  Others(w) /\ DOMAIN writes'[w] = DOMAIN NotStarted /\ WriteOK(w)'
  <2>1. /\ Others(w) /\ DOMAIN writes'[w] = DOMAIN NotStarted
        /\ writes'[w].at = "run" /\ writes'[w].op = q /\ writes'[w].next = 1
        /\ writes'[w].queue = <<>> /\ writes'[w].tenants = {} /\ writes'[w].wrote = Zero
    BY <1>1, <1>4, StartEffect
  <2>2. End(q) \in Nat
    BY <1>1, ScenarioIs, Paths DEF PathOK
  <2>3. Zero \in [Items -> Nat] /\ \A i \in Items : Zero[i] <= rows'[i]
    BY <1>2 DEF Zero
  <2>4. 1 \in 1..(End(q) + 1) /\ <<>> \in Seq(Namespaces)
    BY <2>2
  <2> QED BY <1>1, <2>1, <2>3, <2>4 DEF WriteOK
<1>5. CASE SaveRows(w) \/ SaveMapping(w)
  <2>1. /\ Keeps(w) /\ writes'[w].next = writes[w].next + 1 /\ writes'[w].queue = writes[w].queue
        /\ writes'[w].tenants = writes[w].tenants /\ writes'[w].wrote = WroteNow(w)
        /\ rows' = Written(w)
    BY <1>1, <1>5, SaveEffect
  <2>2. /\ writes[w].next \in 1..End(writes[w].op) /\ End(writes[w].op) \in Nat /\ WriteOK(w)
    BY <1>1, <1>5, ChangedItems
  <2>3. writes[w].wrote \in [Items -> Nat] /\ \A i \in Items : writes[w].wrote[i] <= rows[i]
    BY <2>2 DEF WriteOK
  <2>4. WroteNow(w) \in [Items -> Nat] /\ \A i \in Items : WroteNow(w)[i] <= rows'[i]
    <3>1. \A i \in Items : /\ WroteNow(w)[i] = IF i \in Changed(w) THEN rows[i] + 1 ELSE writes[w].wrote[i]
                           /\ rows'[i] = IF i \in Changed(w) THEN rows[i] + 1 ELSE rows[i]
      BY <2>1 DEF WroteNow, Written
    <3>2. \A i \in Items : WroteNow(w)[i] \in Nat /\ WroteNow(w)[i] <= rows'[i]
      BY <1>2, <2>3, <3>1
    <3> QED BY <3>2 DEF WroteNow
  <2>5. WriteOK(w)'
    BY <1>1, <2>1, <2>2, <2>4, WriteOKIf DEF WriteOK
  <2> QED BY <2>1, <2>5 DEF Keeps, Others
<1>6. CASE LookUpTenants(w) \/ LookUpFails(w)
  <2>1. /\ Keeps(w) /\ AtStep(w, "lookup")
        /\ writes'[w].next = writes[w].next + 1 /\ writes'[w].queue = writes[w].queue
        /\ writes'[w].wrote = writes[w].wrote /\ rows' = rows
        /\ writes'[w].tenants = mapped[Step(w).user] \/ writes'[w].tenants = {}
    BY <1>1, <1>6, LookUpEffect
  <2>2. /\ writes[w].next \in 1..End(writes[w].op) /\ End(writes[w].op) \in Nat /\ WriteOK(w)
        /\ Step(w).user \in Users
    BY <1>1, <2>1, AtStepIs DEF StepOK
  <2>3. writes'[w].tenants \subseteq Tenants
    BY <1>1, <2>1, <2>2 DEF Types
  <2>4. writes[w].wrote \in [Items -> Nat] /\ \A i \in Items : writes[w].wrote[i] <= rows[i]
    BY <2>2 DEF WriteOK
  <2>5. WriteOK(w)'
    BY <1>1, <2>1, <2>2, <2>3, <2>4, WriteOKIf DEF WriteOK
  <2> QED BY <2>1, <2>5 DEF Keeps, Others
<1>7. CASE Invalidate(w)
  <2>1. /\ Keeps(w) /\ AtStep(w, "bump")
        /\ writes'[w].next = writes[w].next + 1 /\ writes'[w].tenants = writes[w].tenants
        /\ writes'[w].wrote = writes[w].wrote /\ rows' = rows
        /\ writes'[w].queue = writes[w].queue \/ writes'[w].queue = Batch(w)
    BY <1>1, <1>7, InvalidateEffect
  <2>2. /\ writes[w].next \in 1..End(writes[w].op) /\ End(writes[w].op) \in Nat /\ WriteOK(w)
    BY <1>1, <2>1, AtStepIs
  <2>3. writes'[w].queue \in Seq(Namespaces)
    BY <1>1, <2>1, <2>2, BatchRange DEF WriteOK
  <2>4. writes[w].wrote \in [Items -> Nat] /\ \A i \in Items : writes[w].wrote[i] <= rows[i]
    BY <2>2 DEF WriteOK
  <2>5. WriteOK(w)'
    BY <1>1, <2>1, <2>2, <2>3, <2>4, WriteOKIf DEF WriteOK
  <2> QED BY <2>1, <2>5 DEF Keeps, Others
<1>8. CASE Incr(w)
  <2> DEFINE h == Head(writes[w].queue)
             again == IF ver[h] = 0 THEN <<h>> ELSE <<>>
  <2>1. /\ Keeps(w) /\ WriteOK(w) /\ writes[w].queue # <<>> /\ h \in Namespaces
        /\ writes'[w].next = writes[w].next /\ writes'[w].tenants = writes[w].tenants
        /\ writes'[w].wrote = writes[w].wrote /\ rows' = rows
        /\ writes'[w].queue = Tail(writes[w].queue) \o again
    BY <1>1, <1>8, IncrEffect
  <2>2. Tail(writes[w].queue) \in Seq(Namespaces) /\ again \in Seq(Namespaces)
    BY <2>1 DEF WriteOK
  <2>3. writes'[w].queue \in Seq(Namespaces)
    <3> HIDE DEF again
    <3> QED BY <2>1, <2>2, JoinedIs
  <2>4. /\ writes[w].wrote \in [Items -> Nat] /\ \A i \in Items : writes[w].wrote[i] <= rows[i]
        /\ writes[w].next \in 1..(End(writes[w].op) + 1) /\ writes[w].tenants \subseteq Tenants
    BY <2>1 DEF WriteOK
  <2>5. WriteOK(w)'
    <3>1. \A i \in Items : writes'[w].wrote[i] <= rows'[i]
      BY <2>1, <2>4
    <3> QED BY <1>1, <2>1, <2>3, <2>4, <3>1, WriteOKIf
  <2> QED BY <2>1, <2>5 DEF Keeps, Others
<1>9. CASE SendReply(w)
  <2>1. /\ Keeps(w) /\ AtStep(w, "reply")
        /\ writes'[w].next = writes[w].next + 1 /\ writes'[w].wrote = writes[w].wrote
        /\ writes'[w].tenants = writes[w].tenants /\ writes'[w].queue = writes[w].queue
        /\ rows' = rows
    BY <1>1, <1>9, SendReplyEffect
  <2>2. /\ writes[w].next \in 1..End(writes[w].op) /\ End(writes[w].op) \in Nat /\ WriteOK(w)
    BY <1>1, <2>1, AtStepIs
  <2>4. /\ writes[w].wrote \in [Items -> Nat] /\ \A i \in Items : writes[w].wrote[i] <= rows[i]
        /\ writes[w].queue \in Seq(Namespaces) /\ writes[w].tenants \subseteq Tenants
    BY <2>2 DEF WriteOK
  <2>5. WriteOK(w)'
    <3>1. writes'[w].next \in 1..(End(writes[w].op) + 1)
      BY <2>1, <2>2
    <3>2. \A i \in Items : writes'[w].wrote[i] <= rows'[i]
      BY <2>1, <2>4
    <3> QED BY <1>1, <2>1, <2>2, <2>4, <3>1, <3>2, WriteOKIf
  <2> QED BY <2>1, <2>5 DEF Keeps, Others
<1>10. CASE Throw(w)
  <2>1. /\ Keeps(w) /\ (AtStep(w, "save") \/ AtStep(w, "remap") \/ AtStep(w, "lookup"))
        /\ writes'[w].next = End(writes[w].op) + 1 /\ writes'[w].wrote = writes[w].wrote
        /\ writes'[w].tenants = writes[w].tenants /\ writes'[w].queue = writes[w].queue
        /\ rows' = rows
    BY <1>1, <1>10, ThrowEffect
  <2>2. End(writes[w].op) \in Nat /\ WriteOK(w)
    BY <1>1, <2>1, AtStepIs
  <2>4. /\ writes[w].wrote \in [Items -> Nat] /\ \A i \in Items : writes[w].wrote[i] <= rows[i]
        /\ writes[w].queue \in Seq(Namespaces) /\ writes[w].tenants \subseteq Tenants
    BY <2>2 DEF WriteOK
  <2>5. WriteOK(w)'
    BY <1>1, <2>1, <2>2, <2>4, WriteOKIf
  <2> QED BY <2>1, <2>5 DEF Keeps, Others
<1>11. Others(w) /\ DOMAIN writes'[w] = DOMAIN NotStarted /\ WriteOK(w)'
  BY <1>4, <1>5, <1>6, <1>7, <1>8, <1>9, <1>10 DEF WriterStep, Keeps
<1> QED BY <1>11 DEF Others

LEMMA TypesByWriter ==
    ASSUME Base, NEW w \in Writers, WriterStep(w)
    PROVE  Types'
<1>1. Types /\ UNCHANGED <<entries, reads, scenario>>
  BY WriterLeaves DEF Base
<1>2. /\ rows' \in [Items -> Nat] /\ \A i \in Items : rows'[i] >= rows[i]
      /\ acked' \in [Items -> Nat] /\ \A i \in Items : acked'[i] >= acked[i]
      /\ \A i \in Items : acked'[i] <= rows'[i]
  BY RowsGrow
<1>3. mapped' \in [Users -> SUBSET Tenants]
  BY MappedType
<1>4. ver' \in [Namespaces -> Nat] /\ \A n \in Namespaces : ver'[n] >= ver[n]
  BY VersionsGrow
<1>5. \A n \in Namespaces \ scenario.missing : ver'[n] # 0
  <2> TAKE n \in Namespaces \ scenario.missing
  <2>1. ver[n] # 0 /\ ver[n] \in Nat
    BY <1>1 DEF Types
  <2> QED BY <1>4, <2>1
<1>6. ASSUME NEW e, EntryOK(e) PROVE EntryOK(e)'
  <2>1. e.site \in Sites \cup NestedSites
    BY <1>1, <1>6, ScenarioIs DEF EntryOK
  <2>2. KeyOf(e.site) \in SUBSET Namespaces
    BY <2>1, KeyIs
  <2>3. Past(e.vers)'
    BY <1>6, <2>2, CurrentBefore DEF EntryOK
  <2> QED BY <1>1, <1>6, <2>3 DEF EntryOK
<1>7. ASSUME NEW r \in Readers, ReadOK(r) PROVE ReadOK(r)'
  <2>1. PICK R, v, inner : R = reads[r] /\ v = R.vers /\ inner = R.inner
    OBVIOUS
  <2>2. Nested(r)' = Nested(r) /\ Stage(r)' = Stage(r)
    BY <1>1, SameHeld
  <2>3. R.site \in Sites
    BY <1>1, <1>7, <2>1, ScenarioIs DEF ReadOK
  <2>4. v \in [KeyOf(R.site) -> Nat] /\ Past(v)
    BY <1>7, <2>1 DEF ReadOK
  <2>5. Past(v)'
    <3>1. KeyOf(R.site) \in SUBSET Namespaces
      BY <2>3, KeyIs
    <3> QED BY <2>4, <3>1, CurrentBefore
  <2>6. R.at \in {"mget", "mload", "mset"} => Past(inner)'
    <3> SUFFICES ASSUME R.at \in {"mget", "mload", "mset"} PROVE Past(inner)'
      OBVIOUS
    <3>1. inner \in [UNION {KeyOf(s) : s \in Nested(r)} -> Nat] /\ Past(inner)
      BY <1>7, <2>1 DEF ReadOK
    <3>2. Nested(r) \subseteq NestedSites
      BY DEF Nested, NestedSites, OnPage
    <3>3. PICK S : S = UNION {KeyOf(s) : s \in Nested(r)}
      OBVIOUS
    <3>4. S \in SUBSET Namespaces
      BY <3>2, <3>3, KeyIs
    <3>5. inner \in [S -> Nat]
      BY <3>1, <3>3
    <3> QED BY <3>1, <3>4, <3>5, CurrentBefore
  <2>7. \A i \in Items : R.since[i] <= acked'[i]
    <3> TAKE i \in Items
    <3>1. R.since[i] <= acked[i] /\ R.since[i] \in Nat /\ acked[i] \in Nat /\ acked'[i] \in Nat
      BY <1>1, <1>2, <1>7, <2>1 DEF ReadOK, Types
    <3> QED BY <1>2, <3>1
  <2>8. R.at = "mset" => \A e \in R.batch : EntryOK(e)' /\ e.site \in NestedSites
    BY <1>6, <1>7, <2>1 DEF ReadOK
  <2>9. reads'[r] = R /\ scenario' = scenario
    BY <1>1, <2>1
  <2>10. /\ R.at \in {"get", "done"} \cup Loading
         /\ R.site \in scenario.reads
         /\ R.since \in [Items -> Nat]
         /\ R.vers \in [KeyOf(R.site) -> Nat]
         /\ R.stage \in 1..(Len(Loader(R.site)) + 1)
         /\ R.got \subseteq May(R.site) \X Nat
         /\ R.at = "get" => R.got = {} /\ R.stage = 1
         /\ R.at \in {"mget", "mload", "mset"} =>
             /\ R.site[1] \in Lists
             /\ R.stage <= Len(Loader(R.site)) /\ Stage(r) \in {"filter", "fields"}
             /\ R.inner \in [UNION {KeyOf(s) : s \in Nested(r)} -> Nat]
         /\ R.at = "mload" => R.batch \subseteq Nested(r)
    BY <1>7, <2>1 DEF ReadOK
  <2> QED BY <2>1, <2>2, <2>5, <2>6, <2>7, <2>8, <2>9, <2>10 DEF ReadOK
<1>8. \A e \in entries' : EntryOK(e)'
  BY <1>1, <1>6 DEF Types
<1>9. /\ DOMAIN reads' = Readers
      /\ \A r \in Readers : DOMAIN reads'[r] = DOMAIN Idle /\ (reads'[r] = Idle \/ ReadOK(r)')
  BY <1>1, <1>7 DEF Types
<1>10. /\ DOMAIN writes' = Writers
       /\ \A v \in Writers : DOMAIN writes'[v] = DOMAIN NotStarted
                             /\ (writes'[v] = NotStarted \/ WriteOK(v)')
  <2>1. Others(w) /\ DOMAIN writes' = Writers /\ DOMAIN writes'[w] = DOMAIN NotStarted /\ WriteOK(w)'
    BY WriterOKAfter
  <2>2. ASSUME NEW v \in Writers, v # w
        PROVE  DOMAIN writes'[v] = DOMAIN NotStarted /\ (writes'[v] = NotStarted \/ WriteOK(v)')
    <3>1. writes'[v] = writes[v]
      BY <2>1, <2>2 DEF Others
    <3>2. CASE writes[v] = NotStarted
      BY <3>1, <3>2
    <3>3. CASE WriteOK(v)
      <4>1. \A i \in Items : writes[v].wrote[i] <= rows'[i]
        <5> TAKE i \in Items
        <5>1. writes[v].wrote[i] <= rows[i] /\ writes[v].wrote[i] \in Nat /\ rows[i] \in Nat
              /\ rows'[i] \in Nat
          BY <1>1, <1>2, <3>3 DEF WriteOK, Types
        <5> QED BY <1>2, <5>1
      <4>2. WriteOK(v)'
        BY <1>1, <3>1, <3>3, <4>1 DEF WriteOK
      <4>3. DOMAIN writes[v] = DOMAIN NotStarted
        BY <1>1 DEF Types
      <4> QED BY <3>1, <4>2, <4>3
    <3> QED BY <1>1, <3>2, <3>3 DEF Types
  <2> QED BY <2>1, <2>2
<1>11. scenario' \in Scenarios
  BY <1>1 DEF Types
<1>12. \A n \in Namespaces \ scenario'.missing : ver'[n] # 0
  BY <1>1, <1>5
<1> QED BY <1>2, <1>3, <1>4, <1>8, <1>9, <1>10, <1>11, <1>12 DEF Types

(* What a handler has written and sent, after a step of a writer.           *)

\* A step of w that writes nothing and sends nothing.
LEMMA SentOn ==
    ASSUME NEW w \in Writers, Sent(w), writes'[w].op = writes[w].op, WriteOK(w),
           writes'[w].next \in Nat, writes'[w].next >= writes[w].next,
           writes'[w].queue = <<>>, writes'[w].wrote = writes[w].wrote
    PROVE  Sent(w)'
<1> DEFINE q == writes[w].op
<1>1. writes[w].next \in Nat
  BY DEF WriteOK
<1>2. ASSUME NEW i \in Items, writes'[w].wrote[i] # 0
      PROVE  \E m \in 1..(writes'[w].next - 1) : i \in Touched(q, m)
  <2>1. PICK m \in 1..(writes[w].next - 1) : i \in Touched(q, m)
    BY <1>2 DEF Sent
  <2>2. m \in 1..(writes'[w].next - 1)
    BY <1>1
  <2> QED BY <2>1, <2>2
<1>3. Len(writes'[w].queue) = 0
  OBVIOUS
<1>4. \A a, b \in 1..Len(writes'[w].queue) :
          a < b /\ OfList(writes'[w].queue[a]) /\ OfFields(writes'[w].queue[b])
             => writes'[w].queue[b] \in scenario'.missing
  BY <1>3
<1> QED BY <1>2, <1>4 DEF Sent

LEMMA SentAfterStart ==
    ASSUME Base, NEW w \in Writers, NEW q, Start(w, q)
    PROVE  Sent(w)'
<1>1. writes'[w].queue = <<>> /\ writes'[w].wrote = Zero /\ Len(<<>>) = 0
  BY StartEffect DEF Base
<1>2. \A i \in Items : writes'[w].wrote[i] = 0
  BY <1>1 DEF Zero
<1> QED BY <1>1, <1>2 DEF Sent

LEMMA SentAfterSave ==
    ASSUME Base, NEW w \in Writers, SaveRows(w) \/ SaveMapping(w)
    PROVE  Sent(w)'
<1> DEFINE q == writes[w].op
           m == writes[w].next
<1>1. Types /\ Sent(w)
  BY DEF Base
<1>2. /\ writes'[w].next = m + 1 /\ writes'[w].op = q /\ writes'[w].queue = writes[w].queue
      /\ writes'[w].wrote = WroteNow(w)
  BY <1>1, SaveEffect DEF Keeps
<1>3. m \in 1..End(q) /\ End(q) \in Nat /\ Changed(w) \subseteq Touched(q, m) /\ writes[w].queue = <<>>
  BY <1>1, ChangedItems
<1>4. ASSUME NEW i \in Items, writes'[w].wrote[i] # 0
      PROVE  \E k \in 1..(writes'[w].next - 1) : i \in Touched(q, k)
  <2>1. CASE i \in Changed(w)
    <3>1. m \in 1..(writes'[w].next - 1)
      BY <1>2, <1>3
    <3> QED BY <1>3, <2>1, <3>1
  <2>2. CASE i \notin Changed(w)
    <3>1. writes[w].wrote[i] # 0
      BY <1>2, <1>4, <2>2 DEF WroteNow
    <3>2. PICK k \in 1..(m - 1) : i \in Touched(q, k)
      BY <1>1, <3>1 DEF Sent
    <3>3. k \in 1..(writes'[w].next - 1)
      BY <1>2, <1>3
    <3> QED BY <3>2, <3>3
  <2> QED BY <2>1, <2>2
<1>5. writes'[w].queue = <<>> /\ Len(<<>>) = 0
  BY <1>2, <1>3
<1> QED BY <1>2, <1>4, <1>5 DEF Sent

LEMMA SentAfterInvalidate ==
    ASSUME Base, NEW w \in Writers, Invalidate(w)
    PROVE  Sent(w)'
<1> DEFINE q == writes[w].op
           m == writes[w].next
           b == Batch(w)
           x == Step(w).ns
<1>1. Types /\ Sent(w)
  BY DEF Base
<1>2. /\ Keeps(w) /\ AtStep(w, "bump") /\ writes'[w].op = q /\ scenario' = scenario
      /\ writes'[w].next = m + 1 /\ writes'[w].wrote = writes[w].wrote
      /\ \/ scenario.provider = "memory" /\ writes'[w].queue = writes[w].queue
         \/ scenario.provider # "memory" /\ writes'[w].queue = b
  BY <1>1, InvalidateEffect DEF Keeps
<1>3. /\ End(q) \in Nat /\ m \in 1..End(q) /\ writes[w].queue = <<>> /\ WriteOK(w)
      /\ Step(w) = StepsOf(q)[m] /\ Step(w).op = "bump" /\ BumpOK(q, m, Step(w))
  BY <1>1, <1>2, AtStepIs DEF StepOK
<1>4. CASE writes'[w].queue = writes[w].queue
  BY <1>1, <1>2, <1>3, <1>4, SentOn
<1>5. CASE scenario.provider # "memory" /\ writes'[w].queue = b
  <2>1. scenario.provider = "redis"
    BY <1>1, <1>5, ScenarioIs
  <2>2. /\ x \in Seq(Namespaces) /\ b \in Seq(Namespaces)
        /\ \A n \in Range(b) : n \in Range(x) \/ (Step(w).lists /\ OfList(n))
        /\ \A k \in 1..Len(b) : k > Len(x) => OfList(b[k])
        /\ \A k \in 1..Len(b) : k <= Len(x) => b[k] = x[k]
        /\ ~Step(w).lists => Len(b) = Len(x)
    BY <1>1, <1>2, BatchRange
  <2>3. (m + 1) - 1 = m /\ m + 1 > 1
    BY <1>3
  <2>4. \A i \in Items : writes'[w].wrote[i] # 0 => \E k \in 1..m : i \in Touched(q, k)
    <3>1. \A k \in 1..(m - 1) : k \in 1..m
      BY <1>3
    <3> QED BY <1>1, <1>2, <3>1 DEF Sent
  <2>5. ASSUME NEW k \in 1..Len(b), NEW j \in 1..Len(b), k < j, OfList(b[k]), OfFields(b[j])
        PROVE  FALSE
    <3>1. Len(x) \in Nat /\ Len(b) \in Nat
      BY <2>2
    <3>2. j <= Len(x) /\ b[j] = x[j] /\ b[k] = x[k] /\ k \in 1..Len(x) /\ j \in 1..Len(x)
      <4>1. ~OfList(b[j])
        BY <2>5 DEF OfList, OfFields
      <4>2. j <= Len(x)
        BY <2>2, <3>1, <4>1
      <4>3. k <= Len(x)
        BY <2>5, <3>1, <4>2
      <4> QED BY <2>2, <3>1, <4>2, <4>3
    <3>3. x[k] \in Range(x) /\ x[j] \in Range(x)
      BY <2>2, <3>2, Indexed
    <3> QED BY <1>3, <2>5, <3>2, <3>3 DEF BumpOK
  <2>6. \A k, j \in 1..Len(writes'[w].queue) :
            k < j /\ OfList(writes'[w].queue[k]) /\ OfFields(writes'[w].queue[j])
               => writes'[w].queue[j] \in scenario'.missing
    BY <1>5, <2>5
  <2>7. \A n \in Range(writes'[w].queue) :
            n \in Range(StepsOf(q)[m].ns) \/ (StepsOf(q)[m].lists /\ OfList(n))
    BY <1>3, <1>5, <2>2
  <2> HIDE DEF q, m
  <2>8. writes'[w].op = q /\ writes'[w].next - 1 = m /\ writes'[w].next > 1
        /\ StepsOf(q)[m].op = "bump" /\ scenario'.provider = "redis"
    BY <1>2, <1>3, <2>1, <2>3
  <2> QED BY <2>4, <2>6, <2>7, <2>8 DEF Sent
<1> QED BY <1>2, <1>4, <1>5

LEMMA SentAfterIncr ==
    ASSUME Base, NEW w \in Writers, Incr(w)
    PROVE  Sent(w)'
<1> DEFINE x == writes[w].queue
           h == Head(x)
           again == IF ver[h] = 0 THEN <<h>> ELSE <<>>
           y == Tail(x) \o again
<1>1. Types /\ Sent(w)
  BY DEF Base
<1>2. /\ writes'[w].op = writes[w].op /\ WriteOK(w) /\ x # <<>> /\ h \in Namespaces
      /\ writes'[w].next = writes[w].next /\ writes'[w].wrote = writes[w].wrote
      /\ writes'[w].queue = y /\ scenario' = scenario
  BY <1>1, IncrEffect DEF Keeps
<1>3. x \in Seq(Namespaces) /\ Tail(x) \in Seq(Namespaces) /\ again \in Seq(Namespaces)
      /\ Len(Tail(x)) = Len(x) - 1 /\ Len(x) \in Nat /\ Len(x) > 0
  BY <1>2 DEF WriteOK
<1>4. \A k \in 1..Len(again) : ver[h] = 0 /\ again[k] = h
  OBVIOUS
<1>5. ver[h] = 0 => h \in scenario.missing
  BY <1>1, <1>2 DEF Types
<1> DEFINE z == Tail(x)
<1>6. \A k \in 1..Len(z) : z[k] = x[k + 1] /\ k + 1 \in 1..Len(x)
  BY <1>3
<1>7. x[1] = h /\ 1 \in 1..Len(x)
  BY <1>2, <1>3
<1> HIDE DEF x, h, again, z
<1>8. y = z \o again /\ z \in Seq(Namespaces) /\ again \in Seq(Namespaces)
  BY <1>3 DEF z
<1> HIDE DEF y
<1>9. /\ y \in Seq(Namespaces) /\ Len(y) = Len(z) + Len(again) /\ Len(z) \in Nat /\ Len(again) \in Nat
  BY <1>8, JoinedIs
<1>10. ASSUME NEW k \in 1..Len(y)
       PROVE  \/ k <= Len(z) /\ y[k] = x[k + 1] /\ k + 1 \in 1..Len(x)
              \/ k > Len(z) /\ y[k] = h /\ ver[h] = 0
  <2>1. CASE k <= Len(z)
    <3>1. k \in 1..Len(z)
      BY <1>9, <2>1
    <3>2. y[k] = z[k]
      BY <1>8, <3>1, JoinedLeft
    <3> QED BY <1>6, <2>1, <3>1, <3>2
  <2>2. CASE k > Len(z)
    <3>1. k - Len(z) \in 1..Len(again) /\ (k - Len(z)) + Len(z) = k
      BY <1>9, <2>2
    <3>2. y[k] = again[k - Len(z)]
      BY <1>8, <3>1, JoinedRight
    <3> QED BY <1>4, <2>2, <3>1, <3>2
  <2> QED BY <1>9, <2>1, <2>2
<1>11. x \in Seq(Namespaces)
  BY <1>3
<1>12. ASSUME NEW n \in Range(y) PROVE n \in Range(x)
  <2>1. PICK k \in 1..Len(y) : n = y[k]
    BY <1>9, <1>12 DEF Range
  <2>2. CASE k <= Len(z) /\ y[k] = x[k + 1] /\ k + 1 \in 1..Len(x)
    BY <1>11, <2>1, <2>2, Indexed
  <2>3. CASE y[k] = h
    BY <1>7, <1>11, <2>1, <2>3, Indexed
  <2> QED BY <1>10, <2>2, <2>3
<1>13. \A a, b \in 1..Len(x) : a < b /\ OfList(x[a]) /\ OfFields(x[b]) => x[b] \in scenario.missing
  BY <1>1 DEF Sent, x
<1>14. ASSUME NEW a \in 1..Len(y), NEW b \in 1..Len(y), a < b, OfList(y[a]), OfFields(y[b])
       PROVE  y[b] \in scenario.missing
  <2>1. CASE b > Len(z)
    <3>1. y[b] = h /\ ver[h] = 0
      BY <1>9, <1>10, <2>1
    <3> QED BY <1>5, <3>1
  <2>2. CASE b <= Len(z)
    <3>1. y[b] = x[b + 1] /\ b + 1 \in 1..Len(x)
      BY <1>9, <1>10, <2>2
    <3>2. a <= Len(z)
      BY <1>9, <1>14, <2>2
    <3>3. y[a] = x[a + 1] /\ a + 1 \in 1..Len(x) /\ a + 1 < b + 1
      BY <1>9, <1>10, <1>14, <3>2
    <3> QED BY <1>13, <1>14, <3>1, <3>3
  <2> QED BY <1>9, <2>1, <2>2
<1>15. \A a, b \in 1..Len(writes'[w].queue) :
            a < b /\ OfList(writes'[w].queue[a]) /\ OfFields(writes'[w].queue[b])
               => writes'[w].queue[b] \in scenario'.missing
  BY <1>2, <1>14
<1>16. \A i \in Items : writes'[w].wrote[i] # 0 =>
            \E m \in 1..(writes'[w].next - 1) : i \in Touched(writes'[w].op, m)
  BY <1>1, <1>2 DEF Sent
<1>17. /\ scenario'.provider = "redis"
       /\ writes'[w].next > 1 /\ StepsOf(writes'[w].op)[writes'[w].next - 1].op = "bump"
       /\ \A n \in Range(writes'[w].queue) :
            n \in Range(StepsOf(writes'[w].op)[writes'[w].next - 1].ns)
            \/ (StepsOf(writes'[w].op)[writes'[w].next - 1].lists /\ OfList(n))
  BY <1>1, <1>2, <1>12 DEF Sent, x
<1> QED BY <1>15, <1>16, <1>17 DEF Sent

LEMMA SentByWriter ==
    ASSUME Base, NEW w \in Writers, WriterStep(w)
    PROVE  \A v \in Writers : Sent(v)'
<1>1. Types /\ Sent(w) /\ scenario' = scenario
  BY WriterLeaves DEF Base
<1>2. Others(w)
  BY WriterOKAfter
<1>3. ASSUME NEW v \in Writers \ {w} PROVE Sent(v)'
  <2>1. writes'[v] = writes[v]
    BY <1>2 DEF Others
  <2>2. Sent(v)
    BY DEF Base
  <2> QED BY <1>1, <2>1, <2>2 DEF Sent
<1>4. ASSUME LookUpTenants(w) \/ LookUpFails(w) PROVE Sent(w)'
  <2>1. /\ writes'[w].op = writes[w].op /\ AtStep(w, "lookup")
        /\ writes'[w].next = writes[w].next + 1 /\ writes'[w].queue = writes[w].queue
        /\ writes'[w].wrote = writes[w].wrote
    BY <1>1, <1>4, LookUpEffect DEF Keeps
  <2>2. WriteOK(w) /\ writes[w].queue = <<>>
    BY <1>1, <2>1, AtStepIs
  <2>3. writes[w].next \in Nat
    BY <2>2 DEF WriteOK
  <2> QED BY <1>1, <2>1, <2>2, <2>3, SentOn
<1>5. ASSUME SendReply(w) PROVE Sent(w)'
  <2>1. /\ writes'[w].op = writes[w].op /\ AtStep(w, "reply")
        /\ writes'[w].next = writes[w].next + 1 /\ writes'[w].queue = writes[w].queue
        /\ writes'[w].wrote = writes[w].wrote
    BY <1>1, <1>5, SendReplyEffect DEF Keeps
  <2>2. WriteOK(w) /\ writes[w].queue = <<>>
    BY <1>1, <2>1, AtStepIs
  <2>3. writes[w].next \in Nat
    BY <2>2 DEF WriteOK
  <2> QED BY <1>1, <2>1, <2>2, <2>3, SentOn
<1>6. ASSUME Throw(w) PROVE Sent(w)'
  <2>1. /\ writes'[w].op = writes[w].op /\ (AtStep(w, "save") \/ AtStep(w, "remap") \/ AtStep(w, "lookup"))
        /\ writes'[w].next = End(writes[w].op) + 1 /\ writes'[w].queue = writes[w].queue
        /\ writes'[w].wrote = writes[w].wrote
    BY <1>1, <1>6, ThrowEffect DEF Keeps
  <2>2. WriteOK(w) /\ writes[w].queue = <<>> /\ End(writes[w].op) \in Nat
        /\ writes[w].next \in 1..End(writes[w].op)
    BY <1>1, <2>1, AtStepIs
  <2>3. writes'[w].next \in Nat /\ writes'[w].next >= writes[w].next
    BY <2>1, <2>2
  <2> QED BY <1>1, <2>1, <2>2, <2>3, SentOn
<1>7. Sent(w)'
  BY <1>4, <1>5, <1>6, SentAfterStart, SentAfterSave, SentAfterInvalidate, SentAfterIncr
     DEF WriterStep
<1> QED BY <1>3, <1>7

(* Who is there, after a step of a writer.                                  *)

LEMMA CreateRequest ==
    ASSUME NEW q \in Requests, q[1] = "createUser"
    PROVE  /\ q[2] \in Users /\ q[3] \in Tenants /\ q = <<"createUser", q[2], q[3]>>
           /\ Named(q) = {q[2]}
<1>1. q[2] \in Users /\ q[3] \in Tenants /\ q = <<"createUser", q[2], q[3]>>
  BY DEF Requests
<1>2. Named(q) = {q[2]}
  BY DEF Named
<1> QED BY <1>1, <1>2

\* Where the next step of w is, once w has started.
LEMMA NextOf ==
    ASSUME Base, NEW w \in Writers, WriterStep(w), writes[w].at = "run"
    PROVE  LET q == writes[w].op
               m == writes[w].next
           IN
           /\ writes'[w].at = "run" /\ writes'[w].op = q
           /\ q \in Requests /\ q \in scenario.writes /\ PathOK(q) /\ End(q) \in Nat
           /\ \/ /\ m \in 1..End(q) /\ writes'[w].next = m + 1 /\ Step(w) = StepsOf(q)[m]
                 /\ StepOK(q, m) /\ Announced(q, m)
                 /\ \/ SaveRows(w) /\ Step(w).op = "save"
                    \/ SaveMapping(w) /\ Step(w).op = "remap"
                    \/ rows' = rows /\ mapped' = mapped /\ Step(w).op \notin {"save", "remap"}
                       /\ writes'[w].wrote = writes[w].wrote
              \/ /\ m \in 1..End(q) /\ writes'[w].next = End(q) + 1
                 /\ rows' = rows /\ mapped' = mapped /\ writes'[w].wrote = writes[w].wrote
              \/ /\ m \in 2..(End(q) + 1) /\ writes'[w].next = m
                 /\ rows' = rows /\ mapped' = mapped /\ writes'[w].wrote = writes[w].wrote
<1> DEFINE q == writes[w].op
           m == writes[w].next
<1>1. Types /\ Sent(w)
  BY DEF Base
<1>2. q \in Requests /\ PathOK(q) /\ End(q) \in Nat /\ WriteOK(w) /\ q \in scenario.writes
  BY <1>1, PathOf DEF WriteOK
<1>3. ~ \E p \in scenario.writes : Start(w, p)
  BY DEF Start
<1>4. CASE SaveRows(w) \/ SaveMapping(w)
  <2>1. Keeps(w) /\ writes'[w].next = m + 1
    BY <1>1, <1>4, SaveEffect
  <2>2. m \in 1..End(q) /\ Step(w) = StepsOf(q)[m] /\ StepOK(q, m) /\ Announced(q, m)
    BY <1>1, <1>4, ChangedItems
  <2>3. (SaveRows(w) /\ Step(w).op = "save") \/ (SaveMapping(w) /\ Step(w).op = "remap")
    BY <1>4 DEF SaveRows, SaveMapping, AtStep
  <2> QED BY <1>2, <2>1, <2>2, <2>3 DEF Keeps
<1>5. CASE LookUpTenants(w) \/ LookUpFails(w)
  <2>1. /\ Keeps(w) /\ writes'[w].next = m + 1 /\ AtStep(w, "lookup")
        /\ writes'[w].wrote = writes[w].wrote /\ rows' = rows /\ mapped' = mapped
    BY <1>1, <1>5, LookUpEffect
  <2>2. m \in 1..End(q) /\ Step(w) = StepsOf(q)[m] /\ StepOK(q, m) /\ Announced(q, m)
        /\ Step(w).op = "lookup"
    BY <1>1, <2>1, AtStepIs
  <2> QED BY <1>2, <2>1, <2>2 DEF Keeps
<1>6. CASE Invalidate(w)
  <2>1. /\ Keeps(w) /\ writes'[w].next = m + 1 /\ AtStep(w, "bump")
        /\ writes'[w].wrote = writes[w].wrote /\ rows' = rows /\ mapped' = mapped
    BY <1>1, <1>6, InvalidateEffect
  <2>2. m \in 1..End(q) /\ Step(w) = StepsOf(q)[m] /\ StepOK(q, m) /\ Announced(q, m)
        /\ Step(w).op = "bump"
    BY <1>1, <2>1, AtStepIs
  <2> QED BY <1>2, <2>1, <2>2 DEF Keeps
<1>7. CASE SendReply(w)
  <2>1. /\ Keeps(w) /\ writes'[w].next = m + 1 /\ AtStep(w, "reply")
        /\ writes'[w].wrote = writes[w].wrote /\ rows' = rows /\ mapped' = mapped
    BY <1>1, <1>7, SendReplyEffect
  <2>2. m \in 1..End(q) /\ Step(w) = StepsOf(q)[m] /\ StepOK(q, m) /\ Announced(q, m)
        /\ Step(w).op = "reply"
    BY <1>1, <2>1, AtStepIs
  <2> QED BY <1>2, <2>1, <2>2 DEF Keeps
<1>8. CASE Throw(w)
  <2>1. /\ Keeps(w) /\ writes'[w].next = End(q) + 1
        /\ AtStep(w, "save") \/ AtStep(w, "remap") \/ AtStep(w, "lookup")
        /\ writes'[w].wrote = writes[w].wrote /\ rows' = rows /\ mapped' = mapped
    BY <1>1, <1>8, ThrowEffect
  <2>2. m \in 1..End(q)
    BY <1>1, <2>1, AtStepIs
  <2> QED BY <1>2, <2>1, <2>2 DEF Keeps
<1>9. CASE Incr(w)
  <2>1. /\ Keeps(w) /\ writes'[w].next = m /\ writes[w].queue # <<>>
        /\ writes'[w].wrote = writes[w].wrote /\ rows' = rows /\ mapped' = mapped
    BY <1>1, <1>9, IncrEffect
  <2>2. m > 1 /\ m \in 1..(End(q) + 1)
    BY <1>1, <1>2, <2>1 DEF Sent, WriteOK
  <2>3. m \in 2..(End(q) + 1)
    BY <1>2, <2>2
  <2> QED BY <1>2, <2>1, <2>3 DEF Keeps
<1> QED BY <1>3, <1>4, <1>5, <1>6, <1>7, <1>8, <1>9 DEF WriterStep

LEMMA ThereByWriter ==
    ASSUME Base, NEW w \in Writers, WriterStep(w), NEW u \in Users
    PROVE  There(u)'
<1> DEFINE p == Person(u)
<1>1. Types /\ There(u) /\ scenario' = scenario /\ Others(w) /\ p \in Items
  BY WriterLeaves, WriterOKAfter, ItemsAre DEF Base
<1>2. rows'[p] >= rows[p] /\ rows[p] \in Nat /\ rows'[p] \in Nat
  BY <1>1, RowsGrow DEF Types
<1>3. rows[p] # 0 => rows'[p] # 0
  BY <1>2
<1>4. \A v \in Writers : v # w => writes'[v] = writes[v]
  BY <1>1 DEF Others

\* Whom w writes to, or maps, is there.
<1>5. ASSUME writes[w].at = "run", u \in Named(writes[w].op)
      PROVE  \/ rows'[p] # 0
             \/ Creates(w, u)' /\ writes'[w].next \notin 2..End(writes'[w].op)
  <2> DEFINE q == writes[w].op
             m == writes[w].next
  <2>1. rows[p] # 0 \/ (Creates(w, u) /\ m \notin 2..End(q))
    BY <1>1, <1>5 DEF There
  <2>2. CASE Creates(w, u) /\ m \notin 2..End(q) /\ rows[p] = 0
    <3>1. q[1] = "createUser" /\ q[2] = u
      BY <2>2 DEF Creates
    <3>2. /\ writes'[w].at = "run" /\ writes'[w].op = q /\ PathOK(q) /\ End(q) \in Nat
          /\ \/ /\ m \in 1..End(q) /\ writes'[w].next = m + 1 /\ Step(w) = StepsOf(q)[m]
                /\ \/ SaveRows(w)
                   \/ SaveMapping(w) /\ Step(w).op = "remap"
                   \/ Step(w).op \notin {"save", "remap"}
             \/ writes'[w].next = End(q) + 1
             \/ m \in 2..(End(q) + 1) /\ writes'[w].next = m
      BY <1>5, NextOf
    <3>3. StepsOf(q)[1] = Save({p}) /\ End(q) > 0
      BY <3>1, <3>2 DEF PathOK
    <3>4. Creates(w, u)'
      BY <3>1, <3>2 DEF Creates
    <3>5. CASE m \in 1..End(q) /\ SaveRows(w) /\ Step(w) = StepsOf(q)[m]
      <4>1. m = 1
        BY <2>2, <3>2, <3>5
      <4>2. p \in Changed(w)
        BY <3>3, <3>5, <4>1 DEF Changed, Save
      <4>3. rows' = Written(w)
        BY <3>5 DEF SaveRows
      <4>4. rows'[p] = rows[p] + 1
        BY <1>1, <4>2, <4>3 DEF Written
      <4> QED BY <1>2, <4>4
    <3>6. CASE m \in 1..End(q) /\ Step(w) = StepsOf(q)[m] /\ Step(w).op # "save"
      <4>1. m = 1
        BY <2>2, <3>2, <3>6
      <4>2. Step(w).op = "save"
        BY <3>3, <3>6, <4>1 DEF Save
      <4> QED BY <3>6, <4>2
    <3>7. CASE writes'[w].next = End(q) + 1
      BY <3>2, <3>4, <3>7
    <3>8. CASE m \in 2..(End(q) + 1) /\ writes'[w].next = m
      BY <2>2, <3>2, <3>4, <3>8
    <3> QED BY <3>2, <3>5, <3>6, <3>7, <3>8
  <2> QED BY <1>3, <2>1, <2>2
<1>6. mapped'[u] # {} => rows'[p] # 0
  <2> SUFFICES ASSUME mapped'[u] # {} PROVE rows'[p] # 0
    OBVIOUS
  <2>1. CASE mapped[u] # {}
    BY <1>1, <1>3, <2>1 DEF There
  <2>2. CASE mapped[u] = {}
    <3>1. SaveMapping(w)
      BY <2>2, OnlyRemaps
    <3>2. AtStep(w, "remap")
      BY <3>1 DEF SaveMapping
    <3>3. RemapOK(writes[w].op, Step(w)) /\ writes[w].at = "run" /\ Step(w).op = "remap"
          /\ Step(w) = StepsOf(writes[w].op)[writes[w].next]
          /\ writes[w].next \in 1..End(writes[w].op) /\ End(writes[w].op) \in Nat
          /\ PathOK(writes[w].op)
      BY <1>1, <3>2, AtStepIs DEF StepOK
    <3>4. mapped' = [mapped EXCEPT ![Step(w).user] = (mapped[Step(w).user] \ Step(w).from) \cup Step(w).to]
      BY <3>1 DEF SaveMapping
    <3>5. u = Step(w).user
      BY <1>1, <2>2, <3>4 DEF Types
    <3>6. u \in Named(writes[w].op)
      BY <3>3, <3>5 DEF RemapOK
    <3>7. rows[p] # 0
      <4> SUFFICES ASSUME rows[p] = 0 PROVE FALSE
        OBVIOUS
      <4>1. Creates(w, u) /\ writes[w].next \notin 2..End(writes[w].op)
        BY <1>1, <3>3, <3>6 DEF There
      <4>2. writes[w].next = 1
        BY <3>3, <4>1
      <4>3. StepsOf(writes[w].op)[1] = Save({p})
        BY <3>3, <4>1 DEF PathOK, Creates
      <4> QED BY <3>3, <4>2, <4>3 DEF Save
    <3> QED BY <1>3, <3>7
  <2> QED BY <2>1, <2>2
<1>7. ASSUME NEW v \in Writers, writes'[v].at = "run", u \in Named(writes'[v].op)
      PROVE  \/ rows'[p] # 0
             \/ Creates(v, u)' /\ writes'[v].next \notin 2..End(writes'[v].op)
  <2>1. CASE v # w
    <3>1. writes'[v] = writes[v]
      BY <1>4, <2>1
    <3>2. Creates(v, u)' <=> Creates(v, u)
      BY <3>1 DEF Creates
    <3>3. rows[p] # 0 \/ (Creates(v, u) /\ writes[v].next \notin 2..End(writes[v].op))
      BY <1>1, <1>7, <3>1 DEF There
    <3> QED BY <1>3, <3>1, <3>2, <3>3
  <2>2. CASE v = w /\ writes[w].at = "run"
    <3>1. writes'[w].op = writes[w].op
      BY <2>2, NextOf
    <3> QED BY <1>5, <1>7, <2>2, <3>1
  <2>3. CASE v = w /\ writes[w].at # "run"
    <3>1. PICK q \in scenario.writes : Start(w, q)
      <4>1. ~SaveRows(w) /\ ~SaveMapping(w) /\ ~LookUpTenants(w) /\ ~LookUpFails(w)
            /\ ~Invalidate(w) /\ ~SendReply(w) /\ ~Throw(w)
        BY <2>3 DEF SaveRows, SaveMapping, LookUpTenants, LookUpFails, Invalidate, SendReply,
                    Throw, AtStep
      <4>2. ~Incr(w)
        BY <1>1, <2>3, IncrEffect
      <4> QED BY <4>1, <4>2 DEF WriterStep
    <3>2. writes'[w].op = q /\ writes'[w].next = 1 /\ writes'[w].at = "run" /\ q \in Requests
      BY <1>1, <3>1, StartEffect, ScenarioIs
    <3>3. Known(q)
      BY <3>1 DEF Start
    <3>4. CASE q[1] # "createUser"
      BY <1>3, <1>7, <2>3, <3>2, <3>3, <3>4 DEF Known
    <3>5. CASE q[1] = "createUser"
      <4>1. q[2] = u
        BY <1>7, <2>3, <3>2, <3>5, CreateRequest
      <4>2. Creates(w, u)'
        BY <3>2, <3>5, <4>1 DEF Creates
      <4>3. writes'[w].next \notin 2..End(writes'[w].op)
        BY <3>2
      <4> QED BY <2>3, <4>2, <4>3
    <3> QED BY <3>4, <3>5
  <2> QED BY <2>1, <2>2, <2>3
<1>8. ASSUME NEW v \in Writers, Creates(v, u)'
      PROVE  /\ writes'[v].next = 1 => rows'[p] = 0
             /\ writes'[v].wrote[p] <= 1
             /\ \A x \in Writers : Creates(x, u)' => x = v
  <2>1. ASSUME NEW x \in Writers, x # w PROVE Creates(x, u)' <=> Creates(x, u)
    BY <1>4, <2>1 DEF Creates
  <2>2. CASE writes[w].at = "run"
    <3> DEFINE q == writes[w].op
               m == writes[w].next
    <3>1. /\ writes'[w].at = "run" /\ writes'[w].op = q /\ End(q) \in Nat /\ PathOK(q)
          /\ \/ /\ m \in 1..End(q) /\ writes'[w].next = m + 1 /\ StepOK(q, m) /\ Announced(q, m)
                /\ \/ SaveRows(w) \/ SaveMapping(w)
                   \/ (rows' = rows /\ writes'[w].wrote = writes[w].wrote)
             \/ /\ m \in 1..End(q) /\ writes'[w].next = End(q) + 1
                /\ rows' = rows /\ writes'[w].wrote = writes[w].wrote
             \/ /\ m \in 2..(End(q) + 1) /\ writes'[w].next = m
                /\ rows' = rows /\ writes'[w].wrote = writes[w].wrote
      BY <2>2, NextOf
    <3>2. Creates(w, u)' <=> Creates(w, u)
      BY <2>2, <3>1 DEF Creates
    <3>3. \A x \in Writers : Creates(x, u)' <=> Creates(x, u)
      BY <2>1, <3>2
    <3>4. Creates(v, u)
      BY <1>8, <3>3
    <3>5. /\ writes[v].next = 1 => rows[p] = 0
          /\ writes[v].wrote[p] <= 1
          /\ \A x \in Writers : Creates(x, u) => x = v
      BY <1>1, <3>4 DEF There
    <3>6. \A x \in Writers : Creates(x, u)' => x = v
      BY <3>3, <3>5
    <3>7. v = w => writes'[v].next # 1
      BY <3>1
    <3>8. v # w /\ writes'[v].next = 1 => rows'[p] = 0
      <4> SUFFICES ASSUME v # w, writes'[v].next = 1, rows'[p] # 0 PROVE FALSE
        OBVIOUS
      <4>1. writes[v].next = 1 /\ rows[p] = 0
        BY <1>4, <3>5
      <4>2. SaveRows(w) \/ SaveMapping(w)
        BY <4>1, OnlySaves
      <4>3. rows' = Written(w)
        BY <1>1, <4>2, SaveEffect
      <4>4. p \in Changed(w)
        BY <1>1, <4>1, <4>3 DEF Written
      <4>5. p \in Touched(q, m) /\ Announced(q, m)
        BY <1>1, <4>2, <4>4, ChangedItems
      <4>6. u \in Named(q)
        BY <4>5, ItemFields DEF Announced
      <4>7. Creates(w, u)
        BY <1>1, <2>2, <4>1, <4>6 DEF There
      <4> QED BY <3>5, <4>7
    <3>9. v # w => writes'[v].wrote[p] <= 1
      BY <1>4, <3>5
    <3>10. v = w => writes'[v].wrote[p] <= 1
      <4> SUFFICES ASSUME v = w PROVE writes'[w].wrote[p] <= 1
        OBVIOUS
      <4>1. CASE writes'[w].wrote = writes[w].wrote
        BY <3>5, <4>1
      <4>2. CASE SaveRows(w) \/ SaveMapping(w)
        <5>1. writes'[w].wrote = WroteNow(w)
          BY <1>1, <4>2, SaveEffect
        <5>2. CASE p \notin Changed(w)
          BY <1>1, <3>5, <5>1, <5>2 DEF WroteNow
        <5>3. CASE p \in Changed(w)
          <6>1. p \in Touched(q, m) /\ StepOK(q, m)
            BY <1>1, <4>2, <5>3, ChangedItems
          <6>2. q[1] = "createUser" /\ q[2] = u
            BY <3>4 DEF Creates
          <6>3. m = 1
            BY <6>1, <6>2 DEF StepOK
          <6>4. rows[p] = 0
            BY <3>5, <6>3
          <6> QED BY <1>1, <5>1, <5>3, <6>4 DEF WroteNow
        <5> QED BY <5>2, <5>3
      <4> QED BY <3>1, <4>1, <4>2
    <3> QED BY <3>6, <3>7, <3>8, <3>9, <3>10
  <2>3. CASE writes[w].at # "run"
    <3>1. PICK q \in scenario.writes : Start(w, q)
      <4>1. ~SaveRows(w) /\ ~SaveMapping(w) /\ ~LookUpTenants(w) /\ ~LookUpFails(w)
            /\ ~Invalidate(w) /\ ~SendReply(w) /\ ~Throw(w)
        BY <2>3 DEF SaveRows, SaveMapping, LookUpTenants, LookUpFails, Invalidate, SendReply,
                    Throw, AtStep
      <4>2. ~Incr(w)
        BY <1>1, <2>3, IncrEffect
      <4> QED BY <4>1, <4>2 DEF WriterStep
    <3>2. writes'[w].op = q /\ writes'[w].next = 1 /\ writes'[w].at = "run" /\ q \in Requests
          /\ writes'[w].wrote = Zero /\ rows' = rows
      BY <1>1, <3>1, StartEffect, ScenarioIs DEF Start
    <3>3. Known(q)
      BY <3>1 DEF Start
    <3>4. ASSUME Creates(w, u)'
          PROVE  rows[p] = 0 /\ \A x \in Writers : ~Creates(x, u)
      <4>1. q[1] = "createUser" /\ q[2] = u
        BY <3>2, <3>4 DEF Creates
      <4>2. rows[p] = 0
        BY <3>3, <4>1 DEF Known
      <4>3. ASSUME NEW x \in Writers, Creates(x, u) PROVE FALSE
        <5>1. writes[x].at = "run" /\ writes[x].op[1] = "createUser" /\ writes[x].op[2] = u
          BY <4>3 DEF Creates
        <5>2. writes[x].op \in Requests
          BY <1>1, <5>1, PathOf
        <5>3. writes[x].op \in {<<"createUser", u, t>> : t \in Tenants}
          BY <5>1, <5>2, CreateRequest
        <5> QED BY <3>3, <4>1, <5>1, <5>3 DEF Known
      <4> QED BY <4>2, <4>3
    <3>5. CASE v = w
      <4>1. rows'[p] = 0
        BY <1>8, <3>2, <3>4, <3>5
      <4>2. writes'[v].wrote[p] <= 1
        BY <1>1, <3>2, <3>5 DEF Zero
      <4>3. \A x \in Writers : Creates(x, u)' => x = v
        BY <1>8, <2>1, <3>4, <3>5
      <4> QED BY <4>1, <4>2, <4>3
    <3>6. CASE v # w
      <4>1. Creates(v, u)
        BY <1>8, <2>1, <3>6
      <4>2. ~Creates(w, u)'
        BY <3>4, <4>1
      <4>3. /\ writes[v].next = 1 => rows[p] = 0
            /\ writes[v].wrote[p] <= 1
            /\ \A x \in Writers : Creates(x, u) => x = v
        BY <1>1, <4>1 DEF There
      <4>4. \A x \in Writers : Creates(x, u)' => x = v
        BY <2>1, <4>2, <4>3
      <4> QED BY <1>4, <3>2, <3>6, <4>3, <4>4
    <3> QED BY <3>5, <3>6
  <2> QED BY <2>2, <2>3
<1> QED BY <1>6, <1>7, <1>8 DEF There

(* One request at a time, after a step of a writer.                         *)

LEMMA AtHomeAtStart ==
    ASSUME Base, NEW w \in Writers, NEW q \in scenario.writes, Start(w, q),
           mapped = scenario.home, \A i \in Items : rows[i] # 0 => i \in AtFirst, q[1] \in Looking
    PROVE  AtHome(w)'
<1> DEFINE u == q[2]
<1>1. Types
  BY DEF Base
<1>2. /\ writes'[w].op = q /\ writes'[w].next = 1 /\ writes'[w].tenants = {}
      /\ UNCHANGED <<mapped, rows, scenario>>
  BY <1>1, StartEffect DEF Start
<1>3. q \in Requests /\ u \in Users /\ PathOK(q)
  BY <1>1, ScenarioIs, LookingUser, Paths
<1>4. ASSUME q[1] = "deleteUserById" PROVE scenario.home[u] \subseteq TenantsAt(w)'
  <2>1. WillLookUp(q, 1)
    BY <1>3, <1>4 DEF PathOK
  <2> QED BY <1>2, <2>1 DEF TenantsAt
<1>5. ASSUME NEW i \in Items, Tenanted(i), i[2] = u, rows[i] # 0 PROVE i[3] \in scenario.home[u]
  <2>1. i # Definitions
    BY <1>5, ItemNs
  <2>2. PICK x \in Users : i \in OfUser(x, scenario.home[x])
    BY <1>5, <2>1 DEF AtFirst
  <2>3. scenario.home[x] \in SUBSET Tenants
    BY <1>1, ScenarioIs
  <2>4. i[2] = x /\ i[3] \in scenario.home[x]
    BY <1>5, <2>2, <2>3, OfUserIs
  <2> QED BY <1>5, <2>4
<1> QED BY <1>2, <1>4, <1>5 DEF AtHome

LEMMA AtHomeAfterSave ==
    ASSUME Base, NEW w \in Writers, SaveRows(w) \/ SaveMapping(w), writes[w].op[1] \in Looking, AtHome(w)
    PROVE  AtHome(w)'
<1> DEFINE q == writes[w].op
           m == writes[w].next
           u == q[2]
<1>1. Types
  BY DEF Base
<1>2. /\ writes'[w].op = q /\ writes'[w].next = m + 1 /\ writes'[w].tenants = writes[w].tenants
      /\ rows' = Written(w) /\ scenario' = scenario
      /\ Step(w).op = "remap" \/ UNCHANGED mapped
      /\ Step(w).op \in {"save", "remap"}
  BY <1>1, SaveEffect DEF Keeps
<1>3. /\ q \in Requests /\ m \in 1..End(q) /\ End(q) \in Nat /\ Step(w) = StepsOf(q)[m] /\ StepOK(q, m)
      /\ Changed(w) \subseteq Items
  BY <1>1, ChangedItems
<1>4. u \in Users
  BY <1>3, LookingUser
<1>5. /\ WillLookUp(q, m) <=> WillLookUp(q, m + 1)
      /\ Unanswered(q, m + 1) => Unanswered(q, m)
  <2>1. StepsOf(q)[m].op # "lookup" /\ StepsOf(q)[m].op # "bump"
    BY <1>2, <1>3
  <2> HIDE DEF q, m
  <2> QED BY <1>3, <2>1, OneStepOn
<1>6. WillLookUp(q, m) => mapped' = mapped
  BY <1>2, <1>3 DEF StepOK
<1>7. TenantsAt(w)' = TenantsAt(w)
  <2>1. TenantsAt(w)' = IF WillLookUp(q, m + 1) THEN mapped'[u] ELSE writes[w].tenants
    BY <1>2 DEF TenantsAt
  <2> QED BY <1>5, <1>6, <2>1 DEF TenantsAt
<1>8. ASSUME q[1] = "deleteUserById" PROVE mapped'[u] \subseteq mapped[u]
  <2>1. CASE UNCHANGED mapped
    BY <2>1
  <2>2. CASE SaveMapping(w)
    <3>1. RemapOK(q, Step(w))
      BY <1>3, <2>2 DEF SaveMapping, AtStep, StepOK
    <3>2. Step(w).user = u /\ Step(w).to = {}
      BY <1>8, <3>1 DEF RemapOK
    <3>3. mapped' = [mapped EXCEPT ![Step(w).user] = (mapped[Step(w).user] \ Step(w).from) \cup Step(w).to]
      BY <2>2 DEF SaveMapping
    <3> QED BY <1>1, <1>4, <3>2, <3>3 DEF Types
  <2> QED BY <2>1, <2>2 DEF SaveRows
<1>9. ASSUME q[1] = "deleteUserById", NEW i \in Items, rows'[i] # 0 PROVE rows[i] # 0
  <2>1. Step(w).items = {}
    BY <1>2, <1>3, <1>9 DEF StepOK
  <2> QED BY <1>2, <1>9, <2>1 DEF Written, Changed
<1>10. WillLookUp(q, m + 1) => scenario.home[u] \subseteq mapped'[u]
  BY <1>5, <1>6 DEF AtHome
<1>11. ASSUME q[1] = "deleteUserById"
       PROVE  /\ mapped'[u] \subseteq scenario.home[u]
              /\ Unanswered(q, m + 1) => scenario.home[u] \subseteq TenantsAt(w)'
              /\ \A i \in Items : Tenanted(i) /\ i[2] = u /\ rows'[i] # 0 => i[3] \in scenario.home[u]
  BY <1>5, <1>7, <1>8, <1>9, <1>11 DEF AtHome
<1> QED BY <1>2, <1>10, <1>11 DEF AtHome

\* A step that touches no rows and keeps the tenants in sight.
LEMMA AtHomeOn ==
    ASSUME NEW w \in Writers, AtHome(w), writes'[w].op = writes[w].op,
           UNCHANGED <<rows, mapped, scenario>>,
           WillLookUp(writes[w].op, writes'[w].next) => WillLookUp(writes[w].op, writes[w].next),
           Unanswered(writes[w].op, writes'[w].next) => Unanswered(writes[w].op, writes[w].next),
           writes[w].op[1] = "deleteUserById" /\ Unanswered(writes[w].op, writes'[w].next) =>
               TenantsAt(w)' = TenantsAt(w)
    PROVE  AtHome(w)'
<1> DEFINE q == writes[w].op
           u == q[2]
<1>1. WillLookUp(q, writes'[w].next) => scenario.home[u] \subseteq mapped[u]
  BY DEF AtHome
<1>2. ASSUME q[1] = "deleteUserById"
       PROVE  /\ mapped[u] \subseteq scenario.home[u]
              /\ Unanswered(q, writes'[w].next) => scenario.home[u] \subseteq TenantsAt(w)'
              /\ \A i \in Items : Tenanted(i) /\ i[2] = u /\ rows[i] # 0 => i[3] \in scenario.home[u]
  BY <1>2 DEF AtHome
<1>3. writes'[w].op = q /\ mapped' = mapped /\ rows' = rows /\ scenario' = scenario
  OBVIOUS
<1> QED BY ONLY <1>1, <1>2, <1>3 DEF AtHome

LEMMA AtHomeByWriter ==
    ASSUME Base, NEW w \in Writers, WriterStep(w), writes[w].at = "run", writes[w].op[1] \in Looking,
           AtHome(w)
    PROVE  AtHome(w)'
<1> DEFINE q == writes[w].op
           m == writes[w].next
<1>1. Types /\ scenario' = scenario
  BY WriterLeaves DEF Base
<1>2. ~ \E p \in scenario.writes : Start(w, p)
  BY DEF Start
<1>3. CASE SaveRows(w) \/ SaveMapping(w)
  BY <1>3, AtHomeAfterSave
<1>4. CASE LookUpTenants(w) \/ LookUpFails(w)
  <2>1. /\ writes'[w].op = q /\ AtStep(w, "lookup") /\ writes'[w].next = m + 1
        /\ UNCHANGED <<rows, mapped>>
        /\ \/ LookUpTenants(w) /\ writes'[w].tenants = mapped[Step(w).user]
           \/ LookUpFails(w) /\ writes'[w].tenants = {}
    BY <1>1, <1>4, LookUpEffect DEF Keeps
  <2>2. /\ End(q) \in Nat /\ m \in 1..End(q) /\ StepsOf(q)[m].op = "lookup"
        /\ Step(w).user = q[2] /\ (Step(w).quiet <=> q[1] = "createFieldValues")
    BY <1>1, <2>1, AtStepIs DEF StepOK
  <2>3. WillLookUp(q, m)
    BY <2>2 DEF WillLookUp
  <2>4. Unanswered(q, m + 1) => Unanswered(q, m)
    BY <2>2, OneStepOn
  <2>5. q[1] = "deleteUserById" => writes'[w].tenants = mapped[q[2]]
    <3>1. q[1] = "deleteUserById" => ~LookUpFails(w)
      BY <2>2 DEF LookUpFails
    <3> QED BY <2>1, <2>2, <3>1
  <2>6. q[1] = "deleteUserById" => TenantsAt(w)' = TenantsAt(w)
    <3>1. TenantsAt(w) = mapped[q[2]]
      BY <2>3 DEF TenantsAt
    <3>2. TenantsAt(w)' = IF WillLookUp(q, m + 1) THEN mapped[q[2]] ELSE writes'[w].tenants
      BY <2>1 DEF TenantsAt
    <3> QED BY <2>5, <3>1, <3>2
  <2> QED BY <1>1, <2>1, <2>3, <2>4, <2>6, AtHomeOn
<1>5. CASE Invalidate(w) \/ SendReply(w)
  <2>1. /\ writes'[w].op = q /\ (AtStep(w, "bump") \/ AtStep(w, "reply")) /\ writes'[w].next = m + 1
        /\ UNCHANGED <<rows, mapped>> /\ writes'[w].tenants = writes[w].tenants
    BY <1>1, <1>5, InvalidateEffect, SendReplyEffect DEF Keeps
  <2>2. /\ End(q) \in Nat /\ m \in 1..End(q) /\ StepsOf(q)[m].op # "lookup"
    BY <1>1, <2>1, AtStepIs
  <2>3. /\ Unanswered(q, m + 1) => Unanswered(q, m)
        /\ WillLookUp(q, m) <=> WillLookUp(q, m + 1)
    <3> HIDE DEF q, m
    <3> QED BY <2>2, OneStepOn
  <2>4. TenantsAt(w)' = TenantsAt(w)
    BY <2>1, <2>3 DEF TenantsAt
  <2> QED BY <1>1, <2>1, <2>3, <2>4, AtHomeOn
<1>6. CASE Throw(w)
  <2>1. /\ writes'[w].op = q /\ writes'[w].next = End(q) + 1 /\ UNCHANGED <<rows, mapped>>
        /\ AtStep(w, "save") \/ AtStep(w, "remap") \/ AtStep(w, "lookup")
    BY <1>1, <1>6, ThrowEffect DEF Keeps
  <2>2. End(q) \in Nat
    BY <1>1, <2>1, AtStepIs
  <2>3. ~Unanswered(q, writes'[w].next) /\ ~WillLookUp(q, writes'[w].next)
    BY <2>1, <2>2, PastEnd
  <2> QED BY <1>1, <2>1, <2>3, AtHomeOn
<1>7. CASE Incr(w)
  <2>1. /\ writes'[w].op = q /\ writes'[w].next = m /\ UNCHANGED <<rows, mapped>>
        /\ writes'[w].tenants = writes[w].tenants
    BY <1>1, <1>7, IncrEffect DEF Keeps
  <2>2. TenantsAt(w)' = TenantsAt(w)
    BY <2>1 DEF TenantsAt
  <2> QED BY <1>1, <2>1, <2>2, AtHomeOn
<1> QED BY <1>2, <1>3, <1>4, <1>5, <1>6, <1>7 DEF WriterStep

LEMMA Alone1ByWriter ==
    ASSUME Base, NEW w \in Writers, WriterStep(w)
    PROVE  Alone1'
<1>1. Types /\ Alone1 /\ scenario' = scenario /\ Others(w)
  BY WriterLeaves, WriterOKAfter DEF Base
<1> SUFFICES ASSUME scenario.writers <= 1
             PROVE  /\ \A v, x \in Writers : writes'[v].at # "new" /\ writes'[x].at # "new" => v = x
                    /\ writes'[w].at # "new"
                    /\ \A v \in Writers : writes'[v].at = "run" /\ writes'[v].op[1] \in Looking => AtHome(v)'
  BY <1>1 DEF Alone1
<1>2. \A v \in Writers : v # w => writes'[v] = writes[v]
  BY <1>1 DEF Others
<1>3. writes'[w].at # "new"
  BY WriterOKAfter DEF WriteOK
<1>4. CASE writes[w].at = "run"
  <2>1. \A v \in Writers : v # w => writes[v].at = "new"
    BY <1>1, <1>4 DEF Alone1
  <2>2. \A v \in Writers : v # w => writes'[v].at = "new"
    BY <1>2, <2>1
  <2>3. writes'[w].op = writes[w].op
    BY <1>4, NextOf
  <2>4. writes'[w].op[1] \in Looking => AtHome(w)'
    BY <1>1, <1>4, <2>3, AtHomeByWriter DEF Alone1
  <2> QED BY <1>3, <2>2, <2>4
<1>5. CASE writes[w].at # "run"
  <2>1. PICK q \in scenario.writes : Start(w, q)
    <3>1. ~SaveRows(w) /\ ~SaveMapping(w) /\ ~LookUpTenants(w) /\ ~LookUpFails(w)
          /\ ~Invalidate(w) /\ ~SendReply(w) /\ ~Throw(w)
      BY <1>5 DEF SaveRows, SaveMapping, LookUpTenants, LookUpFails, Invalidate, SendReply,
                  Throw, AtStep
    <3>2. ~Incr(w)
      BY <1>1, <1>5, IncrEffect
    <3> QED BY <3>1, <3>2 DEF WriterStep
  <2>2. \A v \in Writers : writes[v].at = "new"
    <3> DEFINE S == {v \in Writers : writes[v].at # "new"}
    <3>1. IsFiniteSet(S)
      BY PathAssumption, FS_Subset
    <3>2. Cardinality(S) < scenario.writers
      BY <2>1 DEF Start
    <3>3. scenario.writers \in Nat
      BY <1>1, ScenarioIs
    <3>4. Cardinality(S) = 0
      BY <3>1, <3>2, <3>3, FS_CardinalityType
    <3>5. S = {}
      BY <3>1, <3>4, FS_EmptySet
    <3> QED BY <3>5
  <2>3. mapped = scenario.home /\ \A i \in Items : rows[i] # 0 => i \in AtFirst
    BY <1>1, <2>2 DEF Alone1
  <2>4. \A v \in Writers : v # w => writes'[v].at = "new"
    BY <1>2, <2>2
  <2>5. writes'[w].op = q
    BY <1>1, <2>1, StartEffect
  <2>6. writes'[w].op[1] \in Looking => AtHome(w)'
    BY <2>1, <2>3, <2>5, AtHomeAtStart
  <2> QED BY <1>3, <2>4, <2>6
<1> QED BY <1>4, <1>5

LEMMA InvariantByWriter ==
    ASSUME IInv, NEW w \in Writers, WriterStep(w)
    PROVE  IInv'
<1>1. Base
  BY DEF IInv
<1>2. Types' /\ (\A v \in Writers : Sent(v)') /\ (\A u \in Users : There(u)') /\ Alone1'
  BY <1>1, TypesByWriter, SentByWriter, ThereByWriter, Alone1ByWriter
<1>3. Base'
  BY <1>2 DEF Base
<1> QED BY <1>3, ShownByWriter, EmbeddedByWriter, HeldGoodByWriter, FedGoodByWriter,
           NestedGoodByWriter, DoneGoodByWriter DEF IInv

-----------------------------------------------------------------------------
(* The steps of a reader.                                                  *)

ReaderStep(r) ==
    \/ \E s \in scenario.reads : Begin(r, s)
    \/ Get(r) \/ Query(r) \/ ResolveNested(r) \/ GetNested(r) \/ LoadNested(r)
    \/ SetNested(r) \/ Set(r) \/ Finish(r)

\* What a reader leaves as it was.
Quiet == UNCHANGED <<rows, mapped, acked, ver, writes, scenario>>
OtherReads(r) == \A q \in Readers \ {r} : reads'[q] = reads[q]

LEMMA ReaderFields ==
    DOMAIN Idle = {"at", "site", "since", "vers", "stage", "got", "inner", "batch"}
BY DEF Idle

LEMMA ReaderLeaves ==
    ASSUME Types, NEW r \in Readers, ReaderStep(r)
    PROVE  /\ Quiet /\ OtherReads(r) /\ DOMAIN reads' = Readers
           /\ DOMAIN reads'[r] = DOMAIN Idle
<1> USE DEF Quiet, OtherReads
<1>0. /\ DOMAIN reads = Readers
      /\ DOMAIN reads[r] = {"at", "site", "since", "vers", "stage", "got", "inner", "batch"}
  BY ReaderFields DEF Types
<1>1. CASE \E s \in scenario.reads : Begin(r, s)
  <2>1. PICK s \in scenario.reads : Begin(r, s)
    BY <1>1
  <2>2. PICK I : I = [Idle EXCEPT !.at = "get", !.site = s, !.since = acked, !.vers = Resolved(KeyOf(s))]
    OBVIOUS
  <2>3. DOMAIN I = DOMAIN Idle
    BY <2>2
  <2>4. reads' = [reads EXCEPT ![r] = I]
    BY <2>1, <2>2 DEF Begin
  <2>5. Quiet
    BY <2>1 DEF Begin
  <2> QED BY <1>0, <2>3, <2>4, <2>5
<1>2. CASE Get(r)
  <2>1. PICK D : reads' = IF Hits(reads[r].site, reads[r].vers) = {} THEN [reads EXCEPT ![r].at = "load"]
                ELSE [reads EXCEPT ![r].at = "done", ![r].got = D]
    BY <1>2 DEF Get
  <2>2. Quiet
    BY <1>2 DEF Get
  <2> QED BY <1>0, <2>1, <2>2, ReaderFields
<1>3. CASE Query(r)
  <2>1. PICK a, b, c : reads' = [reads EXCEPT ![r].got = a, ![r].stage = b, ![r].at = c]
    BY <1>3 DEF Query
  <2>2. Quiet
    BY <1>3 DEF Query
  <2> QED BY <1>0, <2>1, <2>2, ReaderFields
<1>4. CASE ResolveNested(r)
  <2>1. PICK a : reads' = [reads EXCEPT ![r].at = "mget", ![r].inner = a]
    BY <1>4 DEF ResolveNested
  <2>2. Quiet
    BY <1>4 DEF ResolveNested
  <2> QED BY <1>0, <2>1, <2>2, ReaderFields
<1>5. CASE GetNested(r)
  <2>1. PICK a, b : \/ reads' = NextStage(r, a)
                    \/ reads' = [reads EXCEPT ![r].at = "mload", ![r].got = a, ![r].batch = b]
    BY <1>5 DEF GetNested
  <2>2. Quiet
    BY <1>5 DEF GetNested
  <2> QED BY <1>0, <2>1, <2>2, ReaderFields DEF NextStage
<1>6. CASE LoadNested(r)
  <2>1. PICK a, b : \/ reads' = NextStage(r, a)
                    \/ reads' = [reads EXCEPT ![r].at = "mset", ![r].got = a, ![r].batch = b]
    BY <1>6 DEF LoadNested
  <2>2. Quiet
    BY <1>6 DEF LoadNested
  <2> QED BY <1>0, <2>1, <2>2, ReaderFields DEF NextStage
<1>7. CASE SetNested(r)
  <2>1. reads' = NextStage(r, reads[r].got) /\ Quiet
    BY <1>7 DEF SetNested
  <2> QED BY <1>0, <2>1, ReaderFields DEF NextStage
<1>8. CASE Set(r)
  <2>1. reads' = [reads EXCEPT ![r].at = "done"] /\ Quiet
    BY <1>8 DEF Set
  <2> QED BY <1>0, <2>1, ReaderFields
<1>9. CASE Finish(r)
  <2>1. reads' = [reads EXCEPT ![r] = Idle] /\ Quiet
    BY <1>9 DEF Finish
  <2> QED BY <1>0, <2>1
<1> QED BY <1>1, <1>2, <1>3, <1>4, <1>5, <1>6, <1>7, <1>8, <1>9 DEF ReaderStep

\* A reader that goes on keeps its read and its key.
GoesOn(r) ==
    /\ reads'[r].site = reads[r].site /\ reads'[r].vers = reads[r].vers
    /\ reads'[r].since = reads[r].since

LEMMA BeginEffect ==
    ASSUME Types, NEW r \in Readers, NEW s, Begin(r, s)
    PROVE  /\ reads'[r].at = "get" /\ reads'[r].site = s /\ reads'[r].since = acked
           /\ reads'[r].vers = Resolved(KeyOf(s)) /\ reads'[r].got = {} /\ reads'[r].stage = 1
           /\ UNCHANGED entries
<1>1. PICK I : I = [Idle EXCEPT !.at = "get", !.site = s, !.since = acked, !.vers = Resolved(KeyOf(s))]
  OBVIOUS
<1>2. reads' = [reads EXCEPT ![r] = I] /\ UNCHANGED entries
  BY <1>1 DEF Begin
<1>3. DOMAIN reads = Readers
  BY DEF Types
<1>4. reads'[r] = I
  BY <1>2, <1>3
<1>5. /\ I.at = "get" /\ I.site = s /\ I.since = acked /\ I.vers = Resolved(KeyOf(s))
      /\ I.got = {} /\ I.stage = 1
  BY <1>1 DEF Idle
<1> QED BY <1>2, <1>4, <1>5

LEMMA GetEffect ==
    ASSUME Types, NEW r \in Readers, Get(r)
    PROVE  /\ reads[r].at = "get" /\ GoesOn(r) /\ UNCHANGED entries
           /\ reads'[r].stage = reads[r].stage
           /\ \/ reads'[r].at = "load" /\ reads'[r].got = reads[r].got
              \/ /\ reads'[r].at = "done"
                 /\ \E e \in Hits(reads[r].site, reads[r].vers) : reads'[r].got = e.data
<1> DEFINE h == Hits(reads[r].site, reads[r].vers)
<1>0. /\ DOMAIN reads = Readers
      /\ DOMAIN reads[r] = {"at", "site", "since", "vers", "stage", "got", "inner", "batch"}
  BY ReaderFields DEF Types
<1>1. PICK D : /\ reads' = IF h = {} THEN [reads EXCEPT ![r].at = "load"]
                          ELSE [reads EXCEPT ![r].at = "done", ![r].got = D]
               /\ D = (CHOOSE e \in h : TRUE).data
  BY DEF Get
<1>2. reads[r].at = "get" /\ UNCHANGED entries
  BY DEF Get
<1> HIDE DEF h
<1>3. CASE h = {}
  BY <1>0, <1>1, <1>2, <1>3 DEF GoesOn
<1>4. CASE h # {}
  <2>1. \E e \in h : D = e.data
    BY <1>1, <1>4
  <2>2. reads' = [reads EXCEPT ![r].at = "done", ![r].got = D]
    BY <1>1, <1>4
  <2>3. reads'[r].at = "done" /\ reads'[r].got = D /\ GoesOn(r) /\ reads'[r].stage = reads[r].stage
    BY <1>0, <2>2 DEF GoesOn
  <2> QED BY <1>2, <2>1, <2>3 DEF h
<1> QED BY <1>3, <1>4

LEMMA QueryEffect ==
    ASSUME Types, NEW r \in Readers, Query(r)
    PROVE  /\ AtStage(r, {"rows", "memberFields"}) /\ GoesOn(r) /\ UNCHANGED entries
           /\ reads'[r].stage = reads[r].stage + 1 /\ reads'[r].at \in {"load", "done"}
           /\ \E S : /\ \/ Stage(r) = "rows" /\ S = RowsOf(reads[r].site)
                        \/ /\ Stage(r) = "memberFields"
                           /\ S = {MemberValues(u, reads[r].site[2]) : u \in OnPage(reads[r].got)}
                     /\ reads'[r].got = Seen(S) \cup
                            (IF reads[r].site[1] = "filtered" THEN OfListed(reads[r].site[2], reads[r].got)
                             ELSE reads[r].got)
<1>0. /\ DOMAIN reads = Readers
      /\ DOMAIN reads[r] = {"at", "site", "since", "vers", "stage", "got", "inner", "batch"}
  BY ReaderFields DEF Types
<1>1. PICK S, kept, last :
         /\ S = (IF Stage(r) = "rows" THEN RowsOf(reads[r].site)
                 ELSE {MemberValues(u, reads[r].site[2]) : u \in OnPage(reads[r].got)})
         /\ kept = (IF reads[r].site[1] = "filtered" THEN OfListed(reads[r].site[2], reads[r].got)
                    ELSE reads[r].got)
         /\ last \in BOOLEAN
         /\ reads' = [reads EXCEPT ![r].got = kept \cup Seen(S), ![r].stage = reads[r].stage + 1,
                                   ![r].at = IF last THEN "done" ELSE "load"]
  <2> DEFINE T == IF Stage(r) = "rows" THEN RowsOf(reads[r].site)
                  ELSE {MemberValues(u, reads[r].site[2]) : u \in OnPage(reads[r].got)}
             K == IF reads[r].site[1] = "filtered" THEN OfListed(reads[r].site[2], reads[r].got)
                  ELSE reads[r].got
             L == Stage(r) = "rows" /\ ~Cacheable(reads[r].site, Seen(T))
  <2>1. reads' = [reads EXCEPT ![r].got = K \cup Seen(T), ![r].stage = reads[r].stage + 1,
                               ![r].at = IF L THEN "done" ELSE "load"]
    BY DEF Query
  <2>2. L \in BOOLEAN
    OBVIOUS
  <2> HIDE DEF L
  <2> QED BY <2>1, <2>2
<1>2. AtStage(r, {"rows", "memberFields"}) /\ UNCHANGED entries
  BY DEF Query
<1>3. /\ reads'[r].got = kept \cup Seen(S) /\ reads'[r].stage = reads[r].stage + 1
      /\ reads'[r].at \in {"load", "done"} /\ GoesOn(r)
  BY <1>0, <1>1 DEF GoesOn
<1>4. \/ Stage(r) = "rows" /\ S = RowsOf(reads[r].site)
      \/ /\ Stage(r) = "memberFields"
         /\ S = {MemberValues(u, reads[r].site[2]) : u \in OnPage(reads[r].got)}
  BY <1>1, <1>2 DEF AtStage
<1>5. reads'[r].got = Seen(S) \cup
          (IF reads[r].site[1] = "filtered" THEN OfListed(reads[r].site[2], reads[r].got)
           ELSE reads[r].got)
  BY <1>1, <1>3
<1> QED BY <1>2, <1>3, <1>4, <1>5

LEMMA ResolveEffect ==
    ASSUME Types, NEW r \in Readers, ResolveNested(r)
    PROVE  /\ AtStage(r, {"filter", "fields"}) /\ GoesOn(r) /\ UNCHANGED entries
           /\ reads'[r].stage = reads[r].stage /\ reads'[r].got = reads[r].got
           /\ reads'[r].at = "mget"
           /\ reads'[r].inner = Resolved(UNION {KeyOf(s) : s \in Nested(r)})
<1>0. /\ DOMAIN reads = Readers
      /\ DOMAIN reads[r] = {"at", "site", "since", "vers", "stage", "got", "inner", "batch"}
  BY ReaderFields DEF Types
<1>1. PICK a : /\ a = Resolved(UNION {KeyOf(s) : s \in Nested(r)})
               /\ reads' = [reads EXCEPT ![r].at = "mget", ![r].inner = a]
  BY DEF ResolveNested
<1>2. AtStage(r, {"filter", "fields"}) /\ UNCHANGED entries
  BY DEF ResolveNested
<1> QED BY <1>0, <1>1, <1>2 DEF GoesOn

LEMMA NextStageIs ==
    ASSUME Types, NEW r \in Readers, NEW data, reads' = NextStage(r, data)
    PROVE  /\ GoesOn(r) /\ reads'[r].at = "load" /\ reads'[r].stage = reads[r].stage + 1
           /\ reads'[r].got = data
<1>1. /\ DOMAIN reads = Readers
      /\ DOMAIN reads[r] = {"at", "site", "since", "vers", "stage", "got", "inner", "batch"}
  BY ReaderFields DEF Types
<1>2. reads' = [reads EXCEPT ![r].at = "load", ![r].stage = reads[r].stage + 1, ![r].got = data,
                             ![r].inner = <<>>, ![r].batch = {}]
  BY DEF NextStage
<1> QED BY <1>1, <1>2 DEF GoesOn

LEMMA GetNestedEffect ==
    ASSUME Types, NEW r \in Readers, GetNested(r)
    PROVE  /\ reads[r].at = "mget" /\ GoesOn(r) /\ UNCHANGED entries
           /\ reads'[r].got = reads[r].got \cup
                 (UNION {e.data : e \in UNION {Hits(s, reads[r].inner) : s \in Nested(r)}})
           /\ \/ reads'[r].at = "load" /\ reads'[r].stage = reads[r].stage + 1
              \/ /\ reads'[r].at = "mload" /\ reads'[r].stage = reads[r].stage
                 /\ reads'[r].inner = reads[r].inner /\ reads'[r].batch \subseteq Nested(r)
<1>0. /\ DOMAIN reads = Readers
      /\ DOMAIN reads[r] = {"at", "site", "since", "vers", "stage", "got", "inner", "batch"}
  BY ReaderFields DEF Types
<1>1. PICK data, left :
         /\ data = reads[r].got \cup
                 (UNION {e.data : e \in UNION {Hits(s, reads[r].inner) : s \in Nested(r)}})
         /\ left \subseteq Nested(r)
         /\ reads' = IF left = {} THEN NextStage(r, data)
                     ELSE [reads EXCEPT ![r].at = "mload", ![r].got = data, ![r].batch = left]
  <2> DEFINE D == reads[r].got \cup
                    (UNION {e.data : e \in UNION {Hits(s, reads[r].inner) : s \in Nested(r)}})
             L == {s \in Nested(r) : Hits(s, reads[r].inner) = {}}
  <2>1. reads' = IF L = {} THEN NextStage(r, D)
                 ELSE [reads EXCEPT ![r].at = "mload", ![r].got = D, ![r].batch = L]
    BY DEF GetNested
  <2>2. L \subseteq Nested(r)
    OBVIOUS
  <2> HIDE DEF L
  <2> QED BY <2>1, <2>2
<1>2. reads[r].at = "mget" /\ UNCHANGED entries
  BY DEF GetNested
<1>3. CASE left = {}
  <2>1. reads' = NextStage(r, data)
    BY <1>1, <1>3
  <2> QED BY <1>1, <1>2, <2>1, NextStageIs
<1>4. CASE left # {}
  <2>1. reads' = [reads EXCEPT ![r].at = "mload", ![r].got = data, ![r].batch = left]
    BY <1>1, <1>4
  <2>2. /\ reads'[r].at = "mload" /\ reads'[r].got = data /\ reads'[r].batch = left
        /\ reads'[r].stage = reads[r].stage /\ reads'[r].inner = reads[r].inner /\ GoesOn(r)
    BY <1>0, <2>1 DEF GoesOn
  <2> QED BY <1>1, <1>2, <2>2
<1> QED BY <1>3, <1>4

LEMMA LoadNestedEffect ==
    ASSUME Types, NEW r \in Readers, LoadNested(r)
    PROVE  /\ reads[r].at = "mload" /\ GoesOn(r) /\ UNCHANGED entries
           /\ reads'[r].got = reads[r].got \cup
                 (UNION {Seen(RowsOf(s)) : s \in reads[r].batch})
           /\ \/ reads'[r].at = "load" /\ reads'[r].stage = reads[r].stage + 1
              \/ /\ reads'[r].at = "mset" /\ reads'[r].stage = reads[r].stage
                 /\ reads'[r].inner = reads[r].inner
                 /\ \A e \in reads'[r].batch :
                       \E s \in reads[r].batch : e = Entry(s, reads[r].inner, Seen(RowsOf(s)))
<1>0. /\ DOMAIN reads = Readers
      /\ DOMAIN reads[r] = {"at", "site", "since", "vers", "stage", "got", "inner", "batch"}
  BY ReaderFields DEF Types
<1> DEFINE L == {Entry(s, reads[r].inner, Seen(RowsOf(s))) : s \in reads[r].batch}
           data == reads[r].got \cup (UNION {e.data : e \in L})
           sets == {e \in L : Cacheable(e.site, e.data)}
<1>1. /\ data = reads[r].got \cup (UNION {Seen(RowsOf(s)) : s \in reads[r].batch})
      /\ \A e \in sets : \E s \in reads[r].batch : e = Entry(s, reads[r].inner, Seen(RowsOf(s)))
      /\ reads' = IF sets = {} THEN NextStage(r, data)
                  ELSE [reads EXCEPT ![r].at = "mset", ![r].got = data, ![r].batch = sets]
  <2>1. reads' = IF sets = {} THEN NextStage(r, data)
                 ELSE [reads EXCEPT ![r].at = "mset", ![r].got = data, ![r].batch = sets]
    BY DEF LoadNested
  <2>2. \A e \in sets : \E s \in reads[r].batch : e = Entry(s, reads[r].inner, Seen(RowsOf(s)))
    OBVIOUS
  <2>3. \A s : Entry(s, reads[r].inner, Seen(RowsOf(s))).data = Seen(RowsOf(s))
    BY DEF Entry
  <2>4. (UNION {e.data : e \in L}) = (UNION {Seen(RowsOf(s)) : s \in reads[r].batch})
    BY <2>3
  <2> QED BY <2>1, <2>2, <2>4
<1> HIDE DEF L, data, sets
<1>2. reads[r].at = "mload" /\ UNCHANGED entries
  BY DEF LoadNested
<1>3. CASE sets = {}
  <2>1. reads' = NextStage(r, data)
    BY <1>1, <1>3
  <2> QED BY <1>1, <1>2, <2>1, NextStageIs
<1>4. CASE sets # {}
  <2>1. reads' = [reads EXCEPT ![r].at = "mset", ![r].got = data, ![r].batch = sets]
    BY <1>1, <1>4
  <2>2. /\ reads'[r].at = "mset" /\ reads'[r].got = data /\ reads'[r].batch = sets
        /\ reads'[r].stage = reads[r].stage /\ reads'[r].inner = reads[r].inner /\ GoesOn(r)
    BY <1>0, <2>1 DEF GoesOn
  <2> QED BY <1>1, <1>2, <2>2
<1> QED BY <1>3, <1>4

LEMMA SetEffect ==
    ASSUME Types, NEW r \in Readers, Set(r)
    PROVE  /\ reads[r].at = "load" /\ reads[r].stage > Len(Loader(reads[r].site)) /\ GoesOn(r)
           /\ entries' \subseteq entries \cup {Coming(r)}
           /\ reads'[r].at = "done" /\ reads'[r].got = reads[r].got
           /\ reads'[r].stage = reads[r].stage
<1>1. /\ DOMAIN reads = Readers
      /\ DOMAIN reads[r] = {"at", "site", "since", "vers", "stage", "got", "inner", "batch"}
  BY ReaderFields DEF Types
<1>2. /\ reads' = [reads EXCEPT ![r].at = "done"]
      /\ reads[r].at = "load" /\ reads[r].stage > Len(Loader(reads[r].site))
  BY DEF Set
<1>3. Entry(reads[r].site, reads[r].vers, reads[r].got) = Coming(r)
  <2>1. ReadOK(r)
    BY <1>2 DEF Types, Idle
  <2>2. KeyVersions(reads[r].site, reads[r].vers) = reads[r].vers
    BY <2>1 DEF ReadOK, KeyVersions
  <2> QED BY <2>2 DEF Entry, Coming
<1>4. entries' = StoredAll({Coming(r)})
  BY <1>3 DEF Set
<1> QED BY <1>1, <1>2, <1>4 DEF GoesOn, StoredAll

LEMMA SetNestedEffect ==
    ASSUME Types, NEW r \in Readers, SetNested(r)
    PROVE  /\ reads[r].at = "mset" /\ GoesOn(r)
           /\ entries' \subseteq entries \cup reads[r].batch
           /\ reads'[r].at = "load" /\ reads'[r].got = reads[r].got
           /\ reads'[r].stage = reads[r].stage + 1
<1>1. /\ reads' = NextStage(r, reads[r].got) /\ reads[r].at = "mset"
      /\ entries' = StoredAll(reads[r].batch)
  BY DEF SetNested
<1> QED BY <1>1, NextStageIs DEF StoredAll

LEMMA FinishEffect ==
    ASSUME Types, NEW r \in Readers, Finish(r)
    PROVE  reads'[r] = Idle /\ reads'[r].at = "idle" /\ UNCHANGED entries /\ reads[r].at = "done"
<1>1. reads' = [reads EXCEPT ![r] = Idle] /\ UNCHANGED entries /\ reads[r].at = "done"
  BY DEF Finish
<1>2. DOMAIN reads = Readers
  BY DEF Types
<1>3. reads'[r] = Idle
  BY <1>1, <1>2
<1> QED BY <1>1, <1>3 DEF Idle

(* What no reader disturbs. *)

LEMMA Undisturbed ==
    ASSUME Quiet
    PROVE  /\ \A i, k, n : Good(i, k, n)' <=> Good(i, k, n)
           /\ \A n : Version(n)' = Version(n)
           /\ \A v : (IsCurrent(v)' <=> IsCurrent(v)) /\ (Past(v)' <=> Past(v))
           /\ \A u : (Kept(u)' <=> Kept(u)) /\ Seat(u)' = Seat(u)
           /\ \A t, i : Claimed(t, i)' <=> Claimed(t, i)
           /\ \A s, data, early : ListedOK(s, data, early)' <=> ListedOK(s, data, early)
           /\ \A e : EntryOK(e)' <=> EntryOK(e)
<1>1. \A w, n : Ahead(w, n)' <=> Ahead(w, n)
  BY DEF Quiet, Ahead, TenantsAt
<1>2. \A w, i, k : Newer(w, i, k)' <=> Newer(w, i, k)
  BY DEF Quiet, Newer
<1>3. \A i, k, n : Good(i, k, n)' <=> Good(i, k, n)
  BY <1>1, <1>2 DEF Quiet, Good
<1>4. \A n : Version(n)' = Version(n)
  BY DEF Quiet, Version
<1>5. \A v : (IsCurrent(v)' <=> IsCurrent(v)) /\ (Past(v)' <=> Past(v))
  BY <1>4 DEF IsCurrent, Past
<1>6. \A u : (Kept(u)' <=> Kept(u)) /\ Seat(u)' = Seat(u)
  BY DEF Quiet, Kept, Seat, Deleted
<1>7. ExposedBy(scenario)' = ExposedBy(scenario)
  BY SameScenario DEF Quiet
<1>8. \A t, i : Claimed(t, i)' <=> Claimed(t, i)
  BY <1>6, <1>7 DEF Claimed
<1>9. \A s, data, early : ListedOK(s, data, early)' <=> ListedOK(s, data, early)
  BY <1>6 DEF ListedOK
<1>10. \A e : EntryOK(e)' <=> EntryOK(e)
  BY <1>5 DEF EntryOK, Quiet
<1> QED BY <1>3, <1>4, <1>5, <1>6, <1>8, <1>9, <1>10

LEMMA WritersUndisturbed ==
    ASSUME Quiet
    PROVE  /\ \A w : (WriteOK(w)' <=> WriteOK(w)) /\ (Sent(w)' <=> Sent(w))
           /\ \A u : There(u)' <=> There(u)
           /\ Alone1' <=> Alone1
<1>1. \A w : WriteOK(w)' <=> WriteOK(w)
  BY DEF Quiet, WriteOK
<1>2. \A w : Sent(w)' <=> Sent(w)
  BY DEF Quiet, Sent
<1>3. \A u : There(u)' <=> There(u)
  BY DEF Quiet, There, Creates
<1>4. \A w : AtHome(w)' <=> AtHome(w)
  BY DEF Quiet, AtHome, TenantsAt
<1>5. AtFirst' = AtFirst
  BY DEF Quiet, AtFirst
<1>6. Alone1' <=> Alone1
  BY <1>4, <1>5 DEF Quiet, Alone1
<1> QED BY <1>1, <1>2, <1>3, <1>6

LEMMA OtherReader ==
    ASSUME Quiet, NEW r \in Readers, OtherReads(r), NEW q \in Readers, q # r
    PROVE  /\ reads'[q] = reads[q] /\ Nested(q)' = Nested(q) /\ Coming(q)' = Coming(q)
           /\ (ReadOK(q)' <=> ReadOK(q)) /\ (Early(q)' <=> Early(q))
           /\ \A e : Feeds(e, q)' <=> Feeds(e, q)
<1>1. reads'[q] = reads[q]
  BY DEF OtherReads
<1>2. Stage(q)' = Stage(q)
  BY <1>1 DEF Stage
<1>3. Nested(q)' = Nested(q)
  BY <1>1, <1>2 DEF Nested, OnPage
<1>4. Coming(q)' = Coming(q)
  BY <1>1 DEF Coming
<1>5. Early(q)' <=> Early(q)
  BY <1>1 DEF Early
<1>6. \A e : Feeds(e, q)' <=> Feeds(e, q)
  BY <1>1, <1>3 DEF Feeds
<1>7. (\A v : Past(v)' <=> Past(v)) /\ (\A e : EntryOK(e)' <=> EntryOK(e))
  BY Undisturbed
<1>8. ReadOK(q)' <=> ReadOK(q)
  <2>1. reads[q].at = "mset" =>
           ((\A e \in reads[q].batch : EntryOK(e)' /\ e.site \in NestedSites)
             <=> (\A e \in reads[q].batch : EntryOK(e) /\ e.site \in NestedSites))
    BY <1>7
  <2>2. scenario' = scenario /\ acked' = acked
    BY DEF Quiet
  <2> QED BY <1>1, <1>2, <1>3, <1>7, <2>1, <2>2 DEF ReadOK
<1> QED BY <1>1, <1>3, <1>4, <1>5, <1>6, <1>8

LEMMA SitesApart == Sites \cap NestedSites = {}
<1> SUFFICES ASSUME NEW s \in Sites, s \in NestedSites PROVE FALSE
  OBVIOUS
<1>1. s[1] \in {"list", "filtered", "members", "core", "mappings", "assigned"}
  BY SiteKinds DEF Sites
<1>2. s[1] \in {"hydrated", "filterIds"}
  BY NestedForms
<1> QED BY <1>1, <1>2

\* Rows as they are now are not stale, whoever asks for them.
\* What a query sees now is good for whatever namespace serves it.
LEMMA FreshGood ==
    ASSUME Types, NEW i \in Items, NEW n
    PROVE  Good(i, rows[i], n) /\ rows[i] \in Nat
<1>1. acked[i] <= rows[i] /\ rows[i] \in Nat
  BY DEF Types
<1>2. ASSUME NEW w \in Writers PROVE ~Newer(w, i, rows[i])
  <2> SUFFICES ASSUME writes[w].at = "run" PROVE ~(writes[w].wrote[i] > rows[i])
    BY DEF Newer
  <2>1. WriteOK(w)
    BY PathOf
  <2>2. writes[w].wrote[i] \in Nat /\ writes[w].wrote[i] <= rows[i]
    BY <2>1 DEF WriteOK
  <2> QED BY <1>1, <2>2
<1> QED BY <1>1, <1>2 DEF Good

\* Nobody asked for newer ones than those that have been acknowledged.
LEMMA ToldIfGood ==
    ASSUME Types, NEW i \in Items, NEW k \in Nat, NEW s, NEW v, Good(i, k, Chan(s, i))
    PROVE  Told(s, v, i, k)
<1>1. acked[i] <= k /\ acked[i] \in Nat
  BY DEF Good, Types
<1>2. ASSUME NEW r \in Readers, reads[r].at # "idle" PROVE reads[r].since[i] <= k
  <2>1. ReadOK(r)
    BY <1>2 DEF Types, Idle
  <2>2. reads[r].since[i] \in Nat /\ reads[r].since[i] <= acked[i]
    BY <2>1 DEF ReadOK
  <2> QED BY <1>1, <2>2
<1> QED BY <1>2 DEF Told

\* ... and may be told to the readers of any key.
LEMMA FreshTold ==
    ASSUME Types, NEW S \in SUBSET Items, NEW d \in Seen(S), NEW s, NEW v
    PROVE  Told(s, v, d[1], d[2]) /\ d[1] \in S /\ d[2] \in Nat
<1>1. PICK i \in S : d = <<i, rows[i]>>
  BY DEF Seen
<1>2. Told(s, v, i, rows[i])
  BY FreshGood, ToldIfGood
<1> QED BY <1>1, <1>2, FreshGood

LEMMA ToldOn ==
    ASSUME Types, NEW r \in Readers, ReaderStep(r), NEW s, NEW v, NEW i \in Items, NEW k \in Nat,
           Told(s, v, i, k)
    PROVE  Told(s, v, i, k)'
<1>1. Quiet /\ OtherReads(r)
  BY ReaderLeaves
<1>2. (IsCurrent(v)' <=> IsCurrent(v)) /\ (Good(i, k, Chan(s, i))' <=> Good(i, k, Chan(s, i)))
  BY <1>1, Undisturbed
<1>3. \A q \in Readers : reads[q].at # "idle" /\ reads[q].site = s /\ reads[q].vers = v =>
          reads[q].since[i] <= k
  BY DEF Told
<1>4. IsCurrent(v) => Good(i, k, Chan(s, i))
  BY DEF Told
<1>5. ASSUME reads'[r].at # "idle", reads'[r].site = s, reads'[r].vers = v
      PROVE  reads'[r].since[i] <= k
  <2>1. CASE \E x \in scenario.reads : Begin(r, x)
    <3>1. v = Resolved(KeyOf(s)) /\ reads'[r].since = acked
      BY <1>5, <2>1, BeginEffect
    <3>2. IsCurrent(v)
      BY <3>1 DEF Resolved, IsCurrent
    <3>3. Good(i, k, Chan(s, i))
      BY <1>4, <3>2
    <3> QED BY <3>1, <3>3 DEF Good
  <2>2. CASE GoesOn(r) /\ reads[r].at # "idle"
    BY <1>3, <1>5, <2>2 DEF GoesOn
  <2>3. CASE Finish(r)
    BY <1>5, <2>3, FinishEffect
  <2>4. ASSUME Get(r) \/ Query(r) \/ ResolveNested(r) \/ GetNested(r) \/ LoadNested(r)
                 \/ SetNested(r) \/ Set(r)
        PROVE  GoesOn(r) /\ reads[r].at # "idle"
    BY <2>4, GetEffect, QueryEffect, ResolveEffect, GetNestedEffect, LoadNestedEffect,
       SetNestedEffect, SetEffect DEF AtStage
  <2> QED BY <2>1, <2>2, <2>3, <2>4 DEF ReaderStep
<1>6. \A q \in Readers : reads'[q].at # "idle" /\ reads'[q].site = s /\ reads'[q].vers = v =>
          reads'[q].since[i] <= k
  BY <1>1, <1>3, <1>5 DEF OtherReads
<1> QED BY <1>2, <1>4, <1>6 DEF Told

(* What a reader takes from its queries and its nested reads. *)

LEMMA StageIs ==
    ASSUME NEW s \in Sites, NEW n \in 1..Len(Loader(s)), NEW x, x = Loader(s)[n]
    PROVE  /\ x \in {"filter", "rows", "fields", "memberFields"}
           /\ s[1] \notin Lists => x = "rows"
           /\ x = "memberFields" => s[1] = "members"
           /\ x = "filter" => s[1] = "filtered" /\ n = 1
           /\ s[1] = "filtered" => Len(Loader(s)) = 3 /\ (x = "rows" => n = 2) /\ (x = "fields" => n = 3)
<1>1. CASE s[1] = "list"
  <2>1. Loader(s) = <<"rows", "fields">>
    BY <1>1 DEF Loader
  <2> QED BY <1>1, <2>1 DEF Lists
<1>2. CASE s[1] = "filtered"
  <2>1. Loader(s) = <<"filter", "rows", "fields">>
    BY <1>2 DEF Loader
  <2>2. Len(Loader(s)) = 3 /\ n \in 1..3
    BY <2>1
  <2> QED BY <1>2, <2>1, <2>2 DEF Lists
<1>3. CASE s[1] = "members"
  <2>1. Loader(s) = <<"rows", "fields", "memberFields">>
    BY <1>3 DEF Loader
  <2>2. Len(Loader(s)) = 3 /\ n \in 1..3
    BY <2>1
  <2> QED BY <1>3, <2>1, <2>2 DEF Lists
<1>4. CASE s[1] \notin Lists
  <2>1. Loader(s) = <<"rows">>
    BY <1>4 DEF Loader, Lists
  <2> QED BY <1>4, <2>1 DEF Lists
<1> QED BY <1>1, <1>2, <1>3, <1>4 DEF Lists

LEMMA LoaderLen == ASSUME NEW s \in Sites PROVE Len(Loader(s)) \in Nat
<1>1. CASE s[1] \in Lists
  BY <1>1 DEF Loader, Lists
<1>2. CASE s[1] \notin Lists
  BY <1>2 DEF Loader, Lists
<1> QED BY <1>1, <1>2

LEMMA Running ==
    ASSUME Types, NEW r \in Readers, reads[r].at # "idle"
    PROVE  /\ ReadOK(r) /\ reads[r].site \in Sites /\ reads[r].site \in scenario.reads
           /\ Len(Loader(reads[r].site)) \in Nat
           /\ reads[r].stage \in 1..(Len(Loader(reads[r].site)) + 1)
           /\ reads[r].got \subseteq May(reads[r].site) \X Nat
           /\ KeyOf(reads[r].site) \subseteq Namespaces
<1>1. ReadOK(r)
  BY DEF Types, Idle
<1>2. reads[r].site \in scenario.reads /\ reads[r].site \in Sites
  BY <1>1, ScenarioIs DEF ReadOK
<1>3. Len(Loader(reads[r].site)) \in Nat /\ KeyOf(reads[r].site) \subseteq Namespaces
  BY <1>2, LoaderLen, KeyIs
<1> QED BY <1>1, <1>2, <1>3 DEF ReadOK

LEMMA NestedOf ==
    ASSUME Types, NEW r \in Readers, reads[r].at # "idle",
           reads[r].stage <= Len(Loader(reads[r].site)), Stage(r) \in {"filter", "fields"}
    PROVE  /\ reads[r].site[1] \in Lists /\ reads[r].site[2] \in Tenants
           /\ Nested(r) \subseteq NestedSites
           /\ \A s \in Nested(r) : KeyOf(s) \subseteq Namespaces
           /\ Stage(r) = "filter" => reads[r].site[1] = "filtered" /\ reads[r].stage = 1 /\ Nested(r) = {FilterIds}
           /\ Stage(r) = "fields" => /\ reads[r].site[1] = "filtered" => reads[r].stage = 3
                                     /\ Nested(r) = {Hydrated(u) : u \in OnPage(reads[r].got)}
<1>1. /\ reads[r].site \in Sites
      /\ reads[r].stage \in 1..Len(Loader(reads[r].site)) /\ Len(Loader(reads[r].site)) \in Nat
  BY Running
<1>2. Stage(r) = Loader(reads[r].site)[reads[r].stage]
  BY DEF Stage
<1>3. /\ reads[r].site[1] \in Lists
      /\ Stage(r) = "filter" => reads[r].site[1] = "filtered" /\ reads[r].stage = 1
      /\ reads[r].site[1] = "filtered" /\ Stage(r) = "fields" => reads[r].stage = 3
  BY <1>1, <1>2, StageIs
<1>4. Nested(r) \subseteq NestedSites
  BY DEF Nested, NestedSites, OnPage
<1>5. \A s \in Nested(r) : KeyOf(s) \subseteq Namespaces
  <2> TAKE s \in Nested(r)
  <2>1. s \in Sites \cup NestedSites
    BY <1>4
  <2> QED BY <2>1, KeyIs
<1>6. reads[r].site[2] \in Tenants
  BY <1>1, <1>3, ListForms
<1>7. /\ Stage(r) = "filter" => Nested(r) = {FilterIds}
      /\ Stage(r) = "fields" => Nested(r) = {Hydrated(u) : u \in OnPage(reads[r].got)}
  BY DEF Nested
<1> QED BY <1>3, <1>4, <1>5, <1>6, <1>7

LEMMA ListMay ==
    ASSUME NEW x, x[1] \in Lists
    PROVE  May(x) = {Definitions} \cup (UNION {OfUser(u, {x[2]}) : u \in Users})
BY DEF May, Lists

LEMMA ListRows ==
    ASSUME NEW x, x[1] \in Lists
    PROVE  RowsOf(x) = {Mapping(u, x[2]) : u \in Users} \cup {Role(u, x[2]) : u \in Users}
                \cup {Person(u) : u \in Listed(x[2])} \cup {Member(u, x[2]) : u \in Listed(x[2])}
BY DEF RowsOf, Lists

\* The data of a nested read: values of whom the page shows, or of anybody before it.
LEMMA NestedData ==
    ASSUME Types, Shown, NEW r \in Readers, reads[r].at # "idle",
           reads[r].stage <= Len(Loader(reads[r].site)), Stage(r) \in {"filter", "fields"},
           NEW s \in Nested(r), NEW data, data \subseteq May(s) \X Nat
    PROVE  /\ data \subseteq May(reads[r].site) \X Nat
           /\ \A d \in data, u \in Users : d[1] # Person(u)
           /\ reads[r].at \in Loading => ListedOK(reads[r].site, data, Early(r))
<1>0. PICK x, t : x = reads[r].site /\ t = x[2]
  OBVIOUS
<1>1. x[1] \in Lists /\ t \in Tenants /\ s \in NestedSites
  BY <1>0, NestedOf
<1>2. \A d \in data : /\ d[1] \in May(s) /\ d[2] \in Nat /\ d = <<d[1], d[2]>>
                      /\ ~Tenanted(d[1]) /\ d[1][1] # "Users"
                      /\ d[1] = Definitions \/ (d[1] = Values(d[1][2]) /\ d[1][2] \in Users)
                      /\ s[1] = "hydrated" /\ d[1] # Definitions => d[1] = Values(s[2])
  <2> TAKE d \in data
  <2>1. d[1] \in May(s) /\ d[2] \in Nat /\ d = <<d[1], d[2]>>
    OBVIOUS
  <2> QED BY <1>1, <2>1, MayServed
<1>3. data \subseteq May(x) \X Nat
  <2> SUFFICES ASSUME NEW d \in data PROVE d \in May(x) \X Nat
    OBVIOUS
  <2>1. May(x) = {Definitions} \cup (UNION {OfUser(u, {t}) : u \in Users})
    <3>1. x[1] \in Lists /\ t = x[2]
      BY <1>0, <1>1
    <3>2. May(x) = {Definitions} \cup (UNION {OfUser(u, {x[2]}) : u \in Users})
      BY <3>1, ListMay
    <3> QED BY <3>1, <3>2
  <2>2. d[1] \in May(x)
    BY <1>2, <2>1 DEF OfUser
  <2> QED BY <1>2, <2>2
<1>4. \A d \in data, u \in Users : d[1] # Person(u)
  BY <1>2 DEF Person
<1>5. ASSUME reads[r].at \in Loading PROVE ListedOK(x, data, Early(r))
  <2> SUFFICES ASSUME NEW d \in data, Personal(d[1]), Kept(d[1][2]),
                      ~(Early(r) /\ d[1][1] = "FieldValues")
               PROVE  t \in Seat(d[1][2])
    BY <1>0, <1>2 DEF ListedOK
  <2>1. d[1] # Definitions
    BY DEF Personal, Definitions
  <2>2. d[1] = Values(d[1][2]) /\ d[1][1] = "FieldValues"
    BY <1>2, <2>1 DEF Values
  <2>3. ~Early(r)
    BY <2>2
  <2>4. Stage(r) = "fields"
    BY <1>0, <1>5, <2>3, NestedOf DEF Early
  <2>5. PICK u \in OnPage(reads[r].got) : s = Hydrated(u)
    BY <2>4, NestedOf
  <2>6. s[1] = "hydrated" /\ s[2] = u
    BY <2>5, SiteKinds
  <2>7. d[1] = Values(u) /\ d[1][2] = u
    BY <1>2, <2>1, <2>6 DEF Values
  <2>8. PICK p \in reads[r].got : p[1] = Person(u)
    BY DEF OnPage
  <2>9. Personal(p[1]) /\ p[1][2] = u /\ p[1][1] = "Users"
    BY <2>8 DEF Person, Personal
  <2>10. ListedOK(x, reads[r].got, Early(r))
    BY <1>0 DEF Shown
  <2>11. Kept(p[1][2]) => t \in Seat(p[1][2])
    BY <1>0, <1>1, <2>3, <2>9, <2>10 DEF ListedOK
  <2> QED BY <2>7, <2>9, <2>11
<1> QED BY <1>0, <1>3, <1>4, <1>5

\* Rows of a query: a page has only users of its tenant.
LEMMA QueryData ==
    ASSUME Base, NEW r \in Readers, AtStage(r, {"rows", "memberFields"}), NEW S,
           \/ Stage(r) = "rows" /\ S = RowsOf(reads[r].site)
           \/ /\ Stage(r) = "memberFields"
              /\ S = {MemberValues(u, reads[r].site[2]) : u \in OnPage(reads[r].got)}
    PROVE  /\ S \subseteq May(reads[r].site) /\ S \subseteq Items
           /\ Seen(S) \subseteq May(reads[r].site) \X Nat
           /\ ListedOK(reads[r].site, Seen(S), FALSE)
<1>0. PICK x, t : x = reads[r].site /\ t = x[2]
  OBVIOUS
<1>1. Types /\ reads[r].at = "load" /\ x \in Sites /\ x \in Sites \cup NestedSites
      /\ reads[r].stage \in 1..Len(Loader(x)) /\ Stage(r) = Loader(x)[reads[r].stage]
  <2>1. Types /\ reads[r].at = "load"
    BY DEF Base, AtStage
  <2> QED BY <1>0, <2>1, Running DEF AtStage, Stage
<1>2. S \subseteq May(x)
  <2>1. CASE S = RowsOf(x)
    BY <1>1, <2>1, RowsInMay
  <2>2. CASE Stage(r) = "memberFields" /\ S = {MemberValues(u, t) : u \in OnPage(reads[r].got)}
    <3>1. x[1] \in Lists
      BY <1>1, <2>2, StageIs
    <3>2. May(x) = {Definitions} \cup (UNION {OfUser(u, {t}) : u \in Users})
      BY <1>0, <3>1, ListMay
    <3>3. \A u \in Users : MemberValues(u, t) \in OfUser(u, {t})
      BY DEF OfUser, OfTenant
    <3>4. OnPage(reads[r].got) \subseteq Users
      BY DEF OnPage
    <3> QED BY <2>2, <3>2, <3>3, <3>4
  <2> QED BY <1>0, <2>1, <2>2
<1>3. S \subseteq Items
  BY <1>1, <1>2, MayServed
<1>4. Seen(S) \subseteq May(x) \X Nat
  BY <1>1, <1>2, <1>3 DEF Seen, Types
<1>5. ASSUME x[1] \in Lists, NEW d \in Seen(S), Personal(d[1])
      PROVE  /\ d[1][1] = "Users" => d[2] # 0
             /\ t \in Seat(d[1][2])
  <2>1. PICK i \in S : d = <<i, rows[i]>>
    BY DEF Seen
  <2>2. d[1] = i /\ d[2] = rows[i]
    BY <2>1
  <2>3. CASE S = RowsOf(x)
    <3>1. i \in {Mapping(u, t) : u \in Users} \cup {Role(u, t) : u \in Users}
                \cup {Person(u) : u \in Listed(t)} \cup {Member(u, t) : u \in Listed(t)}
      <4>1. x[1] \in Lists /\ t = x[2]
        BY <1>0, <1>5
      <4>2. i \in RowsOf(x)
        BY <2>1, <2>3
      <4>3. RowsOf(x) = {Mapping(u, x[2]) : u \in Users} \cup {Role(u, x[2]) : u \in Users}
                \cup {Person(u) : u \in Listed(x[2])} \cup {Member(u, x[2]) : u \in Listed(x[2])}
        BY <4>1, ListRows
      <4> QED BY <4>1, <4>2, <4>3
    <3>2. PICK u \in Listed(t) : i = Person(u)
      BY <1>5, <2>2, <3>1 DEF Personal, Mapping, Role, Member
    <3>3. u \in Users /\ t \in mapped[u]
      BY DEF Listed
    <3>4. rows[Person(u)] # 0
      BY <3>3 DEF Base, There
    <3>5. i[2] = u
      BY <3>2 DEF Person
    <3> QED BY <2>2, <3>2, <3>3, <3>4, <3>5 DEF Seat
  <2>4. CASE S = {MemberValues(u, t) : u \in OnPage(reads[r].got)}
    BY <1>5, <2>2, <2>4 DEF MemberValues, Personal
  <2> QED BY <1>0, <2>3, <2>4
<1>6. ListedOK(x, Seen(S), FALSE)
  BY <1>0, <1>5 DEF ListedOK
<1> QED BY <1>0, <1>2, <1>3, <1>4, <1>6

(* A reader after its step. *)

LEMMA SameNested ==
    ASSUME NEW r \in Readers, GoesOn(r), reads'[r].stage = reads[r].stage,
           OnPage(reads'[r].got) = OnPage(reads[r].got)
    PROVE  Nested(r)' = Nested(r) /\ Stage(r)' = Stage(r)
<1>1. Stage(r)' = Stage(r)
  BY DEF Stage, GoesOn
<1>2. Nested(r)' = IF Stage(r)' = "filter" THEN {FilterIds} ELSE {Hydrated(u) : u \in OnPage(reads'[r].got)}
  BY DEF Nested, OnPage
<1>3. Nested(r) = IF Stage(r) = "filter" THEN {FilterIds} ELSE {Hydrated(u) : u \in OnPage(reads[r].got)}
  BY DEF Nested
<1> QED BY <1>1, <1>2, <1>3

LEMMA ReadOKIf ==
    ASSUME Types, NEW r \in Readers, Quiet, GoesOn(r), reads[r].at # "idle",
           reads'[r].at \in {"done"} \cup Loading,
           reads'[r].stage \in 1..(Len(Loader(reads[r].site)) + 1),
           reads'[r].got \subseteq May(reads[r].site) \X Nat,
           reads'[r].at \in {"mget", "mload", "mset"} =>
              /\ reads'[r].stage = reads[r].stage /\ reads[r].stage <= Len(Loader(reads[r].site))
              /\ Stage(r) \in {"filter", "fields"}
              /\ OnPage(reads'[r].got) = OnPage(reads[r].got)
              /\ reads'[r].inner \in [UNION {KeyOf(s) : s \in Nested(r)} -> Nat] /\ Past(reads'[r].inner),
           reads'[r].at = "mload" => reads'[r].batch \subseteq Nested(r),
           reads'[r].at = "mset" => \A e \in reads'[r].batch : EntryOK(e) /\ e.site \in NestedSites
    PROVE  ReadOK(r)'
<1>1. /\ ReadOK(r) /\ Len(Loader(reads[r].site)) \in Nat
      /\ reads[r].stage \in 1..(Len(Loader(reads[r].site)) + 1)
  BY Running
<1>2. PICK R : R = reads[r]
  OBVIOUS
<1>3. /\ R.site \in scenario.reads /\ R.since \in [Items -> Nat] /\ \A i \in Items : R.since[i] <= acked[i]
      /\ R.vers \in [KeyOf(R.site) -> Nat] /\ Past(R.vers)
  BY <1>1, <1>2 DEF ReadOK
<1>4. PICK Q : Q = reads'[r]
  OBVIOUS
<1>5. Q.site = R.site /\ Q.since = R.since /\ Q.vers = R.vers
  BY <1>2, <1>4 DEF GoesOn
<1>6. (\A v : Past(v)' <=> Past(v)) /\ (\A e : EntryOK(e)' <=> EntryOK(e))
  BY Undisturbed
<1>7. scenario' = scenario /\ acked' = acked
  BY DEF Quiet
<1>8. ASSUME Q.at \in {"mget", "mload", "mset"}
      PROVE  /\ Q.site[1] \in Lists
             /\ Q.stage <= Len(Loader(Q.site)) /\ Stage(r)' \in {"filter", "fields"}
             /\ Q.inner \in [UNION {KeyOf(s) : s \in Nested(r)'} -> Nat] /\ Past(Q.inner)
             /\ Nested(r)' = Nested(r)
  <2>1. /\ Q.stage = R.stage /\ R.stage <= Len(Loader(R.site)) /\ Stage(r) \in {"filter", "fields"}
        /\ OnPage(Q.got) = OnPage(R.got)
        /\ Q.inner \in [UNION {KeyOf(s) : s \in Nested(r)} -> Nat] /\ Past(Q.inner)
    BY <1>2, <1>4, <1>8
  <2>2. Nested(r)' = Nested(r) /\ Stage(r)' = Stage(r)
    BY <1>2, <1>4, <2>1, SameNested
  <2>3. R.site[1] \in Lists
    BY <1>2, <2>1, NestedOf
  <2> QED BY <1>5, <2>1, <2>2, <2>3
<1>9. Q.at = "mload" => Q.batch \subseteq Nested(r)'
  BY <1>4, <1>8
<1>10. Q.at = "mset" => \A e \in Q.batch : EntryOK(e)' /\ e.site \in NestedSites
  BY <1>4, <1>6
<1>11. /\ Q.at \in {"done"} \cup Loading /\ Q.stage \in 1..(Len(Loader(R.site)) + 1)
       /\ Q.got \subseteq May(R.site) \X Nat
  BY <1>2, <1>4
<1>12. Q.at # "get"
  BY <1>11 DEF Loading
<1> HIDE DEF Loading
<1> QED BY <1>3, <1>4, <1>5, <1>6, <1>7, <1>8, <1>9, <1>10, <1>11, <1>12 DEF ReadOK

LEMMA ReadOKAtBegin ==
    ASSUME Base, NEW r \in Readers, NEW s \in scenario.reads, Begin(r, s)
    PROVE  ReadOK(r)'
<1>1. Types /\ s \in Sites /\ s \in Sites \cup NestedSites
  BY ScenarioIs DEF Base
<1>2. Quiet
  BY DEF Begin, Quiet
<1>3. PICK Q : Q = reads'[r]
  OBVIOUS
<1>4. /\ Q.at = "get" /\ Q.site = s /\ Q.since = acked
      /\ Q.vers = Resolved(KeyOf(s)) /\ Q.got = {} /\ Q.stage = 1
  BY <1>1, <1>3, BeginEffect
<1>5. KeyOf(s) \subseteq Namespaces
  BY <1>1, KeyIs
<1>6. \A n \in Namespaces : Version(n) \in Nat
  BY <1>1 DEF Types, Version
<1>7. Resolved(KeyOf(s)) \in [KeyOf(s) -> Nat] /\ Past(Resolved(KeyOf(s)))
  BY <1>5, <1>6 DEF Resolved, Past
<1>8. Past(Q.vers)'
  BY <1>2, <1>4, <1>7, Undisturbed
<1>9. acked' = acked /\ scenario' = scenario /\ acked \in [Items -> Nat]
  BY <1>1, <1>2 DEF Quiet, Types
<1>10. 1 \in 1..(Len(Loader(s)) + 1)
  BY <1>1, LoaderLen
<1>11. \A i \in Items : acked[i] <= acked[i]
  BY <1>9
<1> QED BY <1>3, <1>4, <1>7, <1>8, <1>9, <1>10, <1>11 DEF ReadOK

LEMMA ToldNow ==
    ASSUME IInv, NEW r \in Readers, reads[r].at \in {"get"} \cup Loading, NEW d \in reads[r].got,
           Claim(reads[r].site, d[1])
    PROVE  Told(reads[r].site, reads[r].vers, d[1], d[2])
<1>1. Types
  BY DEF IInv, Base
<1>2. CASE reads[r].at = "get"
  <2>1. ReadOK(r)
    BY <1>1, <1>2, Running
  <2> QED BY <1>2, <2>1 DEF ReadOK
<1>3. CASE reads[r].at \in Loading
  <2>1. PICK e : e = Coming(r)
    OBVIOUS
  <2>2. e \in Held /\ e.site = reads[r].site /\ e.vers = reads[r].vers /\ e.data = reads[r].got
    BY <1>3, <2>1 DEF Held, Coming
  <2>3. \A x \in e.data : Claim(e.site, x[1]) => Told(e.site, e.vers, x[1], x[2])
    BY <2>2 DEF IInv, HeldGood
  <2> QED BY <2>2, <2>3
<1> QED BY <1>2, <1>3

LEMMA AfterGet ==
    ASSUME IInv, NEW r \in Readers, Get(r), Quiet
    PROVE  /\ ReadOK(r)'
           /\ ListedOK(reads[r].site, reads[r].got, Early(r))'
           /\ \A d \in reads'[r].got : Claim(reads[r].site, d[1]) =>
                  Told(reads[r].site, reads[r].vers, d[1], d[2])
<1>1. Types /\ Shown
  BY DEF IInv, Base
<1>2. PICK s, v : s = reads[r].site /\ v = reads[r].vers
  OBVIOUS
<1>3. reads[r].at = "get" /\ GoesOn(r) /\ UNCHANGED entries /\ reads'[r].stage = reads[r].stage
  BY <1>1, GetEffect
<1>4. ReadOK(r) /\ reads[r].stage \in 1..(Len(Loader(s)) + 1) /\ reads[r].got = {} /\ v \in [KeyOf(s) -> Nat]
  <2>1. ReadOK(r) /\ reads[r].stage \in 1..(Len(Loader(s)) + 1)
    BY <1>1, <1>2, <1>3, Running
  <2> QED BY <1>2, <1>3, <2>1 DEF ReadOK
<1>5. CASE reads'[r].at = "load" /\ reads'[r].got = reads[r].got
  <2>1. reads'[r].at \notin {"mget", "mload", "mset"} /\ reads'[r].at \in {"done"} \cup Loading
    BY <1>5 DEF Loading
  <2>2. ReadOK(r)'
    BY <1>1, <1>2, <1>3, <1>4, <1>5, <2>1, ReadOKIf
  <2> QED BY <1>4, <1>5, <2>2 DEF ListedOK
<1>6. CASE reads'[r].at = "done" /\ \E e \in Hits(s, v) : reads'[r].got = e.data
  <2>1. PICK e \in Hits(s, v) : reads'[r].got = e.data
    BY <1>6
  <2>2. e \in entries /\ e.site = s /\ e.vers = KeyVersions(s, v)
    BY <2>1 DEF Hits
  <2>3. e.vers = v
    BY <1>4, <2>2 DEF KeyVersions
  <2>4. e.data \subseteq May(s) \X Nat /\ e \in Held
    BY <1>1, <2>2 DEF Types, EntryOK, Held
  <2>5. reads'[r].at \notin {"mget", "mload", "mset"} /\ reads'[r].at \in {"done"} \cup Loading
    BY <1>6
  <2>6. ReadOK(r)'
    BY <1>1, <1>2, <1>3, <1>4, <2>1, <2>4, <2>5, ReadOKIf
  <2>7. ListedOK(s, e.data, FALSE)
    BY <1>1, <2>2 DEF Shown
  <2>8. ListedOK(s, e.data, FALSE)'
    BY <2>7, Undisturbed
  <2>9. Early(r)' = FALSE
    BY <1>6 DEF Early, Loading
  <2>10. ListedOK(reads[r].site, reads[r].got, Early(r))'
    <3>1. PICK D : D = e.data
      OBVIOUS
    <3>2. ListedOK(s, D, FALSE)' /\ reads'[r].site = s /\ reads'[r].got = D
      BY <1>2, <1>3, <2>1, <2>8, <3>1 DEF GoesOn
    <3> QED BY <2>9, <3>2
  <2>11. \A d \in e.data : Claim(s, d[1]) => Told(s, v, d[1], d[2])
    BY <2>2, <2>3, <2>4 DEF IInv, HeldGood
  <2> QED BY <1>2, <2>1, <2>6, <2>10, <2>11
<1> QED BY <1>1, <1>2, <1>5, <1>6, GetEffect

LEMMA LaterListed ==
    ASSUME Quiet, NEW r \in Readers, GoesOn(r), NEW data, reads'[r].got = data,
           NEW early, ListedOK(reads[r].site, data, early), early => Early(r)'
    PROVE  ListedOK(reads[r].site, reads[r].got, Early(r))'
<1>1. PICK s, now : s = reads[r].site /\ now = Early(r)'
  OBVIOUS
<1>2. ListedOK(s, data, now)
  BY <1>1 DEF ListedOK
<1>3. ListedOK(s, data, now)'
  BY <1>2, Undisturbed
<1>4. reads'[r].site = s
  BY <1>1 DEF GoesOn
<1> QED BY <1>1, <1>3, <1>4

LEMMA AfterQuery ==
    ASSUME IInv, NEW r \in Readers, Query(r), Quiet
    PROVE  /\ ReadOK(r)'
           /\ ListedOK(reads[r].site, reads[r].got, Early(r))'
           /\ \A d \in reads'[r].got : Claim(reads[r].site, d[1]) =>
                  Told(reads[r].site, reads[r].vers, d[1], d[2])
<1>1. Types /\ Shown /\ Base
  BY DEF IInv, Base
<1>2. PICK s, v, G : s = reads[r].site /\ v = reads[r].vers /\ G = reads[r].got
  OBVIOUS
<1>3. /\ AtStage(r, {"rows", "memberFields"}) /\ GoesOn(r)
      /\ reads'[r].stage = reads[r].stage + 1 /\ reads'[r].at \in {"load", "done"}
  BY <1>1, QueryEffect
<1>4. PICK S : /\ \/ Stage(r) = "rows" /\ S = RowsOf(reads[r].site)
                  \/ /\ Stage(r) = "memberFields"
                     /\ S = {MemberValues(u, reads[r].site[2]) : u \in OnPage(reads[r].got)}
               /\ reads'[r].got = Seen(S) \cup
                      (IF reads[r].site[1] = "filtered" THEN OfListed(reads[r].site[2], reads[r].got)
                       ELSE reads[r].got)
  BY <1>1, QueryEffect
<1>5. PICK K : K = IF s[1] = "filtered" THEN OfListed(s[2], G) ELSE G
  OBVIOUS
<1>6. reads'[r].got = Seen(S) \cup K /\ K \subseteq G
  BY <1>2, <1>4, <1>5 DEF OfListed
<1>7. /\ S \subseteq Items /\ Seen(S) \subseteq May(s) \X Nat /\ ListedOK(s, Seen(S), FALSE)
  <2>1. /\ S \subseteq May(reads[r].site) /\ S \subseteq Items
        /\ Seen(S) \subseteq May(reads[r].site) \X Nat
        /\ ListedOK(reads[r].site, Seen(S), FALSE)
    BY <1>1, <1>3, <1>4, QueryData
  <2> QED BY <1>2, <2>1
<1>8. reads[r].at = "load" /\ reads[r].stage <= Len(Loader(s)) /\ Stage(r) \in {"rows", "memberFields"}
  BY <1>2, <1>3 DEF AtStage
<1>9. /\ s \in Sites /\ s \in Sites \cup NestedSites /\ Len(Loader(s)) \in Nat
      /\ reads[r].stage \in 1..Len(Loader(s)) /\ G \subseteq May(s) \X Nat
  BY <1>1, <1>2, <1>8, Running
<1>10. ReadOK(r)'
  <2>1. reads'[r].stage \in 1..(Len(Loader(reads[r].site)) + 1)
    BY <1>2, <1>3, <1>9
  <2>2. reads'[r].at \in {"done"} \cup Loading /\ reads'[r].at \notin {"mget", "mload", "mset"}
    BY <1>3 DEF Loading
  <2>3. reads'[r].got \subseteq May(reads[r].site) \X Nat
    BY <1>2, <1>6, <1>7, <1>9
  <2>4. reads[r].at # "idle"
    BY <1>8
  <2> QED BY <1>1, <1>3, <2>1, <2>2, <2>3, <2>4, ReadOKIf
<1>11. ListedOK(s, K, FALSE)
  <2> SUFFICES ASSUME s[1] \in Lists, NEW d \in K, Personal(d[1])
               PROVE  /\ d[1][1] = "Users" => d[2] # 0
                      /\ Kept(d[1][2]) => s[2] \in Seat(d[1][2])
    BY DEF ListedOK
  <2>1. /\ d[1][1] = "Users" => d[2] # 0
        /\ Kept(d[1][2]) /\ ~(Early(r) /\ d[1][1] = "FieldValues") => s[2] \in Seat(d[1][2])
    <3>1. ListedOK(s, G, Early(r))
      BY <1>1, <1>2, <1>8 DEF Shown
    <3> QED BY <1>6, <3>1 DEF ListedOK
  <2>2. CASE ~(Early(r) /\ d[1][1] = "FieldValues")
    BY <2>1, <2>2
  <2>3. CASE Early(r) /\ d[1][1] = "FieldValues"
    <3>1. s[1] = "filtered"
      BY <1>2, <2>3 DEF Early
    <3>2. d[1] \in May(s)
      BY <1>6, <1>9
    <3>3. d[1] \in Items
      BY <1>9, <3>2, MayServed
    <3>4. d[1][2] \in Users /\ d[1] = Values(d[1][2])
      BY <2>3, <3>3, PersonalIs
    <3>5. d[1][2] \in Listed(s[2])
      BY <1>5, <3>1, <3>4 DEF OfListed
    <3> QED BY <2>1, <3>5 DEF Listed, Seat
  <2> QED BY <2>2, <2>3
<1>12. ListedOK(reads[r].site, reads[r].got, Early(r))'
  <2>1. PICK data : data = reads'[r].got
    OBVIOUS
  <2>2. ListedOK(reads[r].site, data, FALSE)
    BY <1>2, <1>6, <1>7, <1>11, <2>1 DEF ListedOK
  <2> QED BY <1>3, <2>1, <2>2, LaterListed
<1>13. ASSUME NEW d \in reads'[r].got, Claim(s, d[1]) PROVE Told(s, v, d[1], d[2])
  <2>1. CASE d \in Seen(S)
    BY <1>1, <1>7, <2>1, FreshTold
  <2>2. CASE d \in K
    <3>1. d \in reads[r].got /\ Claim(reads[r].site, d[1])
      BY <1>2, <1>6, <1>13, <2>2
    <3>2. reads[r].at \in {"get"} \cup Loading
      BY <1>8 DEF Loading
    <3>3. Told(reads[r].site, reads[r].vers, d[1], d[2])
      BY <3>1, <3>2, ToldNow
    <3> QED BY <1>2, <3>3
  <2> QED BY <1>6, <2>1, <2>2
<1> QED BY <1>2, <1>10, <1>12, <1>13

LEMMA NestedAfter ==
    ASSUME Types, Shown, NEW r \in Readers, Quiet, GoesOn(r), reads[r].at \in {"mget", "mload"},
           NEW P, \A d \in P : \E s \in Nested(r) : d \in May(s) \X Nat,
           reads'[r].got = reads[r].got \cup P,
           \/ reads'[r].at = "load" /\ reads'[r].stage = reads[r].stage + 1
           \/ /\ reads'[r].at \in {"mload", "mset"} /\ reads'[r].stage = reads[r].stage
              /\ reads'[r].inner = reads[r].inner,
           reads'[r].at = "mload" => reads'[r].batch \subseteq Nested(r),
           reads'[r].at = "mset" => \A e \in reads'[r].batch : EntryOK(e) /\ e.site \in NestedSites
    PROVE  /\ ReadOK(r)'
           /\ ListedOK(reads[r].site, reads[r].got, Early(r))'
<1>1. PICK s, G : s = reads[r].site /\ G = reads[r].got
  OBVIOUS
<1>2. /\ ReadOK(r) /\ Len(Loader(s)) \in Nat /\ G \subseteq May(s) \X Nat
      /\ reads[r].stage \in 1..(Len(Loader(s)) + 1)
  BY <1>1, Running
<1>3. /\ reads[r].stage <= Len(Loader(s)) /\ Stage(r) \in {"filter", "fields"}
      /\ reads[r].inner \in [UNION {KeyOf(x) : x \in Nested(r)} -> Nat] /\ Past(reads[r].inner)
  BY <1>1, <1>2 DEF ReadOK
<1>4. reads[r].at # "idle" /\ reads[r].at \in Loading
  BY DEF Loading
<1>5. ASSUME NEW d \in P
      PROVE  /\ d \in May(s) \X Nat /\ (\A u \in Users : d[1] # Person(u))
             /\ ListedOK(s, {d}, Early(r))
  <2>1. PICK x \in Nested(r) : d \in May(x) \X Nat
    BY <1>5
  <2>2. PICK D : D = {d}
    OBVIOUS
  <2>3. D \subseteq May(x) \X Nat
    BY <2>1, <2>2
  <2>4. reads[r].stage <= Len(Loader(reads[r].site))
    BY <1>1, <1>3
  <2>5. Stage(r) \in {"filter", "fields"}
    BY <1>3
  <2>6. /\ D \subseteq May(reads[r].site) \X Nat
        /\ \A c \in D, u \in Users : c[1] # Person(u)
        /\ reads[r].at \in Loading => ListedOK(reads[r].site, D, Early(r))
    BY <1>4, <2>3, <2>4, <2>5, NestedData
  <2> QED BY <1>1, <1>4, <2>2, <2>6
<1>6. OnPage(reads'[r].got) = OnPage(reads[r].got)
  BY <1>5 DEF OnPage
<1>7. ReadOK(r)'
  <2>1. reads'[r].stage \in 1..(Len(Loader(reads[r].site)) + 1)
    BY <1>1, <1>2, <1>3
  <2>2. reads'[r].at \in {"done"} \cup Loading
    BY DEF Loading
  <2>3. reads'[r].got \subseteq May(reads[r].site) \X Nat
    BY <1>1, <1>2, <1>5
  <2>4. reads'[r].at \in {"mget", "mload", "mset"} =>
              /\ reads'[r].stage = reads[r].stage /\ reads[r].stage <= Len(Loader(reads[r].site))
              /\ Stage(r) \in {"filter", "fields"}
              /\ OnPage(reads'[r].got) = OnPage(reads[r].got)
              /\ reads'[r].inner \in [UNION {KeyOf(x) : x \in Nested(r)} -> Nat] /\ Past(reads'[r].inner)
    BY <1>1, <1>3, <1>6
  <2> QED BY <1>4, <2>1, <2>2, <2>3, <2>4, ReadOKIf
<1>8. Early(r) => Early(r)'
  <2> SUFFICES ASSUME Early(r) PROVE Early(r)'
    OBVIOUS
  <2>1. s[1] = "filtered" /\ reads[r].stage <= 2
    BY <1>1 DEF Early
  <2>2. reads[r].stage = 1
    BY <1>1, <1>2, <1>3, <1>4, <2>1, NestedOf
  <2> QED BY <1>1, <2>1, <2>2 DEF Early, GoesOn, Loading
<1>9. ListedOK(reads[r].site, reads[r].got, Early(r))'
  <2>1. PICK data, early : data = reads'[r].got /\ early = Early(r)
    OBVIOUS
  <2>2. ListedOK(s, G, early)
    BY <1>1, <1>4, <2>1 DEF Shown
  <2>3. \A d \in P : ListedOK(s, {d}, early)
    BY <1>5, <2>1
  <2>4. data = G \cup P
    BY <1>1, <2>1
  <2>5. ListedOK(reads[r].site, data, early)
    BY <1>1, <2>2, <2>3, <2>4 DEF ListedOK
  <2> QED BY <1>8, <2>1, <2>5, LaterListed
<1> QED BY <1>7, <1>9

LEMMA AfterResolve ==
    ASSUME IInv, NEW r \in Readers, ResolveNested(r), Quiet
    PROVE  /\ ReadOK(r)'
           /\ ListedOK(reads[r].site, reads[r].got, Early(r))'
           /\ \A d \in reads'[r].got : Claim(reads[r].site, d[1]) =>
                  Told(reads[r].site, reads[r].vers, d[1], d[2])
<1>1. Types /\ Shown
  BY DEF IInv, Base
<1>2. /\ AtStage(r, {"filter", "fields"}) /\ GoesOn(r)
      /\ reads'[r].stage = reads[r].stage /\ reads'[r].got = reads[r].got
      /\ reads'[r].at = "mget"
      /\ reads'[r].inner = Resolved(UNION {KeyOf(s) : s \in Nested(r)})
  BY <1>1, ResolveEffect
<1>3. /\ reads[r].at = "load" /\ reads[r].stage <= Len(Loader(reads[r].site))
      /\ Stage(r) \in {"filter", "fields"}
  BY <1>2 DEF AtStage
<1>4. reads[r].at # "idle" /\ reads[r].at \in Loading /\ reads'[r].at \in {"done"} \cup Loading
  BY <1>2, <1>3 DEF Loading
<1>5. /\ reads[r].stage \in 1..(Len(Loader(reads[r].site)) + 1)
      /\ reads[r].got \subseteq May(reads[r].site) \X Nat
  BY <1>1, <1>4, Running
<1>6. PICK S : S = UNION {KeyOf(s) : s \in Nested(r)}
  OBVIOUS
<1>7. S \subseteq Namespaces
  <2>1. \A s \in Nested(r) : KeyOf(s) \subseteq Namespaces
    BY <1>1, <1>3, <1>4, NestedOf
  <2> QED BY <1>6, <2>1
<1>8. \A n \in Namespaces : Version(n) \in Nat
  BY <1>1 DEF Types, Version
<1>9. Resolved(S) \in [S -> Nat] /\ Past(Resolved(S))
  BY <1>7, <1>8 DEF Resolved, Past
<1>10. ReadOK(r)'
  <2>1. reads'[r].at \in {"mget", "mload", "mset"} =>
              /\ reads'[r].stage = reads[r].stage /\ reads[r].stage <= Len(Loader(reads[r].site))
              /\ Stage(r) \in {"filter", "fields"}
              /\ OnPage(reads'[r].got) = OnPage(reads[r].got)
              /\ reads'[r].inner \in [UNION {KeyOf(s) : s \in Nested(r)} -> Nat] /\ Past(reads'[r].inner)
    BY <1>2, <1>3, <1>6, <1>9
  <2>2. reads'[r].at # "mload" /\ reads'[r].at # "mset"
    BY <1>2
  <2>3. /\ reads'[r].stage \in 1..(Len(Loader(reads[r].site)) + 1)
        /\ reads'[r].got \subseteq May(reads[r].site) \X Nat
    BY <1>2, <1>5
  <2> QED BY <1>1, <1>2, <1>4, <2>1, <2>2, <2>3, ReadOKIf
<1>11. ListedOK(reads[r].site, reads[r].got, Early(r))'
  <2>1. Early(r) => Early(r)'
    BY <1>2 DEF Early, GoesOn, Loading
  <2>2. PICK data, early : data = reads[r].got /\ early = Early(r)
    OBVIOUS
  <2>3. ListedOK(reads[r].site, data, early)
    BY <1>1, <1>4, <2>2 DEF Shown
  <2>4. reads'[r].got = data /\ (early => Early(r)')
    BY <1>2, <2>1, <2>2
  <2> QED BY <1>2, <2>3, <2>4, LaterListed
<1>12. ASSUME NEW d \in reads'[r].got, Claim(reads[r].site, d[1])
       PROVE  Told(reads[r].site, reads[r].vers, d[1], d[2])
  <2>1. d \in reads[r].got /\ reads[r].at \in {"get"} \cup Loading
    BY <1>2, <1>4, <1>12
  <2> QED BY <1>12, <2>1, ToldNow
<1> QED BY <1>10, <1>11, <1>12

LEMMA AfterGetNested ==
    ASSUME IInv, NEW r \in Readers, GetNested(r), Quiet
    PROVE  /\ ReadOK(r)'
           /\ ListedOK(reads[r].site, reads[r].got, Early(r))'
           /\ \A d \in reads'[r].got : Claim(reads[r].site, d[1]) =>
                  Told(reads[r].site, reads[r].vers, d[1], d[2])
<1>1. Types /\ Shown
  BY DEF IInv, Base
<1>2. PICK P : P = UNION {e.data : e \in UNION {Hits(s, reads[r].inner) : s \in Nested(r)}}
  OBVIOUS
<1>3. /\ reads[r].at = "mget" /\ GoesOn(r) /\ reads'[r].got = reads[r].got \cup P
      /\ \/ reads'[r].at = "load" /\ reads'[r].stage = reads[r].stage + 1
         \/ /\ reads'[r].at = "mload" /\ reads'[r].stage = reads[r].stage
            /\ reads'[r].inner = reads[r].inner /\ reads'[r].batch \subseteq Nested(r)
  BY <1>1, <1>2, GetNestedEffect
<1>4. \A d \in P : \E s \in Nested(r) : \E e \in Hits(s, reads[r].inner) : d \in e.data
  BY <1>2
<1>5. \A s \in Nested(r) : \A e \in Hits(s, reads[r].inner) :
          /\ e \in Held /\ Feeds(e, r) /\ e.site = s /\ e.data \subseteq May(s) \X Nat
  BY <1>1, <1>3 DEF Hits, Held, Feeds, Types, EntryOK
<1>6. ReadOK(r)' /\ ListedOK(reads[r].site, reads[r].got, Early(r))'
  <2>1. \A d \in P : \E s \in Nested(r) : d \in May(s) \X Nat
    BY <1>4, <1>5
  <2>2. /\ \/ reads'[r].at = "load" /\ reads'[r].stage = reads[r].stage + 1
           \/ /\ reads'[r].at \in {"mload", "mset"} /\ reads'[r].stage = reads[r].stage
              /\ reads'[r].inner = reads[r].inner
        /\ reads'[r].at = "mload" => reads'[r].batch \subseteq Nested(r)
        /\ reads'[r].at # "mset" /\ reads[r].at \in {"mget", "mload"}
    BY <1>3
  <2> QED BY <1>1, <1>3, <2>1, <2>2, NestedAfter
<1>7. ASSUME NEW d \in reads'[r].got, Claim(reads[r].site, d[1])
      PROVE  Told(reads[r].site, reads[r].vers, d[1], d[2])
  <2>1. CASE d \in reads[r].got
    <3>1. reads[r].at \in {"get"} \cup Loading
      BY <1>3 DEF Loading
    <3> QED BY <1>7, <2>1, <3>1, ToldNow
  <2>2. CASE d \in P
    <3>1. PICK e \in Held : Feeds(e, r) /\ d \in e.data
      BY <1>4, <1>5, <2>2
    <3> QED BY <1>7, <3>1 DEF IInv, FedGood
  <2> QED BY <1>3, <2>1, <2>2
<1> QED BY <1>6, <1>7

\* An entry made of rows as they are now.
Fresh(e) ==
    /\ EntryOK(e) /\ e.site \in NestedSites
    /\ \E S \in SUBSET Items : e.data = Seen(S)

LEMMA AfterLoadNested ==
    ASSUME IInv, NEW r \in Readers, LoadNested(r), Quiet
    PROVE  /\ ReadOK(r)'
           /\ ListedOK(reads[r].site, reads[r].got, Early(r))'
           /\ \A d \in reads'[r].got : Claim(reads[r].site, d[1]) =>
                  Told(reads[r].site, reads[r].vers, d[1], d[2])
           /\ reads'[r].at = "mset" =>
                  \A e \in reads'[r].batch : Fresh(e) /\ e.site \in Nested(r)
<1>1. Types /\ Shown
  BY DEF IInv, Base
<1>2. PICK P : P = UNION {Seen(RowsOf(s)) : s \in reads[r].batch}
  OBVIOUS
<1>3. /\ reads[r].at = "mload" /\ GoesOn(r) /\ reads'[r].got = reads[r].got \cup P
      /\ \/ reads'[r].at = "load" /\ reads'[r].stage = reads[r].stage + 1
         \/ /\ reads'[r].at = "mset" /\ reads'[r].stage = reads[r].stage
            /\ reads'[r].inner = reads[r].inner
            /\ \A e \in reads'[r].batch :
                  \E s \in reads[r].batch : e = Entry(s, reads[r].inner, Seen(RowsOf(s)))
  BY <1>1, <1>2, LoadNestedEffect
<1>4. ReadOK(r)
  BY <1>1, <1>3, Running
<1>5. /\ reads[r].stage <= Len(Loader(reads[r].site)) /\ Stage(r) \in {"filter", "fields"}
      /\ reads[r].inner \in [UNION {KeyOf(s) : s \in Nested(r)} -> Nat] /\ Past(reads[r].inner)
      /\ reads[r].batch \subseteq Nested(r) /\ reads[r].at # "idle"
  BY <1>3, <1>4 DEF ReadOK
<1>6. Nested(r) \subseteq NestedSites /\ \A s \in Nested(r) : KeyOf(s) \subseteq Namespaces
  BY <1>1, <1>5, NestedOf
<1>7. ASSUME NEW s \in reads[r].batch
      PROVE  /\ s \in Nested(r) /\ s \in NestedSites /\ RowsOf(s) \subseteq Items
             /\ Seen(RowsOf(s)) \subseteq May(s) \X Nat
  <2>1. s \in Nested(r) /\ s \in NestedSites /\ s \in Sites \cup NestedSites
    BY <1>5, <1>6
  <2>2. RowsOf(s) \subseteq May(s)
    BY <2>1, RowsInMay
  <2>3. RowsOf(s) \subseteq Items
    BY <2>1, <2>2, MayServed
  <2> QED BY <1>1, <2>1, <2>2, <2>3 DEF Seen, Types
<1>8. ASSUME NEW s \in reads[r].batch, NEW e, e = Entry(s, reads[r].inner, Seen(RowsOf(s)))
      PROVE  Fresh(e) /\ e.site = s
  <2>1. e.site = s /\ e.vers = KeyVersions(s, reads[r].inner) /\ e.data = Seen(RowsOf(s))
    BY <1>8 DEF Entry
  <2>2. KeyOf(s) \subseteq UNION {KeyOf(x) : x \in Nested(r)}
    BY <1>7
  <2>3. e.vers \in [KeyOf(s) -> Nat] /\ Past(e.vers)
    BY <1>5, <2>1, <2>2 DEF KeyVersions, Past
  <2> QED BY <1>7, <2>1, <2>3 DEF Fresh, EntryOK
<1>9. reads'[r].at = "mset" => \A e \in reads'[r].batch : Fresh(e) /\ e.site \in Nested(r)
  BY <1>3, <1>7, <1>8
<1>10. ReadOK(r)' /\ ListedOK(reads[r].site, reads[r].got, Early(r))'
  <2>1. \A d \in P : \E s \in Nested(r) : d \in May(s) \X Nat
    BY <1>2, <1>7
  <2>2. /\ \/ reads'[r].at = "load" /\ reads'[r].stage = reads[r].stage + 1
           \/ /\ reads'[r].at \in {"mload", "mset"} /\ reads'[r].stage = reads[r].stage
              /\ reads'[r].inner = reads[r].inner
        /\ reads'[r].at # "mload" /\ reads[r].at \in {"mget", "mload"}
    BY <1>3
  <2>3. reads'[r].at = "mset" => \A e \in reads'[r].batch : EntryOK(e) /\ e.site \in NestedSites
    BY <1>9 DEF Fresh
  <2> QED BY <1>1, <1>3, <2>1, <2>2, <2>3, NestedAfter
<1>11. ASSUME NEW d \in reads'[r].got, Claim(reads[r].site, d[1])
       PROVE  Told(reads[r].site, reads[r].vers, d[1], d[2])
  <2>1. CASE d \in reads[r].got
    <3>1. reads[r].at \in {"get"} \cup Loading
      BY <1>3 DEF Loading
    <3> QED BY <1>11, <2>1, <3>1, ToldNow
  <2>2. CASE d \in P
    <3>1. PICK s \in reads[r].batch : d \in Seen(RowsOf(s))
      BY <1>2, <2>2
    <3>2. PICK S : S = RowsOf(s)
      OBVIOUS
    <3>3. S \in SUBSET Items /\ d \in Seen(S)
      BY <1>7, <3>1, <3>2
    <3> QED BY <1>1, <3>3, FreshTold
  <2> QED BY <1>3, <2>1, <2>2
<1> QED BY <1>9, <1>10, <1>11

LEMMA AfterSets ==
    ASSUME IInv, NEW r \in Readers, Set(r) \/ SetNested(r), Quiet
    PROVE  /\ ReadOK(r)'
           /\ ListedOK(reads[r].site, reads[r].got, Early(r))'
           /\ \A d \in reads'[r].got : Claim(reads[r].site, d[1]) =>
                  Told(reads[r].site, reads[r].vers, d[1], d[2])
<1>1. Types /\ Shown
  BY DEF IInv, Base
<1>2. /\ GoesOn(r) /\ reads'[r].got = reads[r].got
      /\ \/ /\ reads[r].at = "load" /\ reads[r].stage > Len(Loader(reads[r].site))
            /\ reads'[r].at = "done" /\ reads'[r].stage = reads[r].stage
         \/ /\ reads[r].at = "mset"
            /\ reads'[r].at = "load" /\ reads'[r].stage = reads[r].stage + 1
  BY <1>1, SetEffect, SetNestedEffect
<1>3. reads[r].at # "idle" /\ reads[r].at \in Loading /\ reads'[r].at \in {"done"} \cup Loading
      /\ reads'[r].at \notin {"mget", "mload", "mset"}
  BY <1>2 DEF Loading
<1>4. /\ ReadOK(r) /\ Len(Loader(reads[r].site)) \in Nat /\ reads[r].site \in Sites
      /\ reads[r].stage \in 1..(Len(Loader(reads[r].site)) + 1)
      /\ reads[r].got \subseteq May(reads[r].site) \X Nat
  BY <1>1, <1>3, Running
<1>5. reads[r].at = "mset" => /\ reads[r].stage <= Len(Loader(reads[r].site))
                              /\ Stage(r) \in {"filter", "fields"}
  BY <1>4 DEF ReadOK
<1>6. ReadOK(r)'
  <2>1. reads'[r].stage \in 1..(Len(Loader(reads[r].site)) + 1)
    BY <1>2, <1>4, <1>5
  <2>2. reads'[r].got \subseteq May(reads[r].site) \X Nat
    BY <1>2, <1>4
  <2> QED BY <1>1, <1>2, <1>3, <2>1, <2>2, ReadOKIf
<1>7. Early(r) => Early(r)'
  <2>1. CASE reads[r].at = "load"
    <3>1. reads[r].site[1] = "filtered" => Len(Loader(reads[r].site)) = 3
      BY DEF Loader
    <3>2. reads[r].stage > Len(Loader(reads[r].site))
      BY <1>2, <2>1
    <3>3. reads[r].site[1] = "filtered" => ~(reads[r].stage <= 2)
      <4>1. PICK n, l : n = reads[r].stage /\ l = Len(Loader(reads[r].site))
        OBVIOUS
      <4>2. n \in 1..(l + 1) /\ l \in Nat
        BY <1>4, <4>1
      <4>3. n > l /\ (reads[r].site[1] = "filtered" => l = 3)
        BY <3>1, <3>2, <4>1
      <4>4. reads[r].site[1] = "filtered" => ~(n <= 2)
        BY <4>2, <4>3
      <4> QED BY <4>1, <4>4
    <3>4. ~Early(r)
      BY <3>3 DEF Early
    <3> QED BY <3>4
  <2>2. CASE reads[r].at = "mset"
    <3> SUFFICES ASSUME Early(r) PROVE Early(r)'
      OBVIOUS
    <3>1. reads[r].site[1] = "filtered" /\ reads[r].stage <= 2
      BY DEF Early
    <3>2. reads[r].stage <= Len(Loader(reads[r].site)) /\ Stage(r) \in {"filter", "fields"}
      BY <1>5, <2>2
    <3>3. reads[r].stage = 1
      BY <1>1, <1>3, <3>1, <3>2, NestedOf
    <3> QED BY <1>2, <2>2, <3>1, <3>3 DEF Early, GoesOn, Loading
  <2> QED BY <1>2, <2>1, <2>2
<1>8. ListedOK(reads[r].site, reads[r].got, Early(r))'
  <2>1. PICK data, early : data = reads[r].got /\ early = Early(r)
    OBVIOUS
  <2>2. ListedOK(reads[r].site, data, early)
    BY <1>1, <1>3, <2>1 DEF Shown
  <2>3. reads'[r].got = data /\ (early => Early(r)')
    BY <1>2, <1>7, <2>1
  <2> QED BY <1>2, <2>2, <2>3, LaterListed
<1>9. ASSUME NEW d \in reads'[r].got, Claim(reads[r].site, d[1])
      PROVE  Told(reads[r].site, reads[r].vers, d[1], d[2])
  <2>1. d \in reads[r].got /\ reads[r].at \in {"get"} \cup Loading
    BY <1>2, <1>3, <1>9
  <2> QED BY <1>9, <2>1, ToldNow
<1> QED BY <1>6, <1>8, <1>9

(* The invariant after a step of a reader. *)

LEMMA StepsOfReader ==
    ASSUME Types, NEW r \in Readers, ReaderStep(r)
    PROVE  \/ \E s \in scenario.reads : Begin(r, s)
           \/ reads'[r] = Idle
           \/ /\ Get(r) \/ Query(r) \/ ResolveNested(r) \/ GetNested(r) \/ LoadNested(r)
                        \/ SetNested(r) \/ Set(r)
              /\ GoesOn(r)
<1>1. ASSUME Get(r) \/ Query(r) \/ ResolveNested(r) \/ GetNested(r) \/ LoadNested(r)
                 \/ SetNested(r) \/ Set(r)
      PROVE  GoesOn(r)
  BY <1>1, GetEffect, QueryEffect, ResolveEffect, GetNestedEffect, LoadNestedEffect,
     SetNestedEffect, SetEffect
<1> QED BY <1>1, FinishEffect DEF ReaderStep

LEMMA AfterGoingOn ==
    ASSUME IInv, NEW r \in Readers, ReaderStep(r),
           Get(r) \/ Query(r) \/ ResolveNested(r) \/ GetNested(r) \/ LoadNested(r)
               \/ SetNested(r) \/ Set(r)
    PROVE  /\ ReadOK(r)'
           /\ ListedOK(reads[r].site, reads[r].got, Early(r))'
           /\ \A d \in reads'[r].got : Claim(reads[r].site, d[1]) =>
                  Told(reads[r].site, reads[r].vers, d[1], d[2])
<1>1. Quiet
  BY ReaderLeaves DEF IInv, Base
<1>2. CASE Get(r)
  BY <1>1, <1>2, AfterGet
<1>3. CASE Query(r)
  BY <1>1, <1>3, AfterQuery
<1>4. CASE ResolveNested(r)
  BY <1>1, <1>4, AfterResolve
<1>5. CASE GetNested(r)
  BY <1>1, <1>5, AfterGetNested
<1>6. CASE LoadNested(r)
  BY <1>1, <1>6, AfterLoadNested
<1>7. CASE Set(r) \/ SetNested(r)
  BY <1>1, <1>7, AfterSets
<1> QED BY <1>2, <1>3, <1>4, <1>5, <1>6, <1>7

LEMMA AfterStep ==
    ASSUME IInv, NEW r \in Readers, ReaderStep(r), reads'[r] # Idle
    PROVE  /\ ReadOK(r)'
           /\ ListedOK(reads[r].site, reads[r].got, Early(r))'
           /\ \A d \in reads'[r].got : Claim(reads'[r].site, d[1]) =>
                  Told(reads[r].site, reads[r].vers, d[1], d[2])'
<1>1. Types /\ Base
  BY DEF IInv, Base
<1>2. CASE \E s \in scenario.reads : Begin(r, s)
  <2>1. PICK s \in scenario.reads : Begin(r, s)
    BY <1>2
  <2>2. ReadOK(r)'
    BY <1>1, <2>1, ReadOKAtBegin
  <2>3. reads'[r].got = {}
    BY <1>1, <2>1, BeginEffect
  <2> QED BY <2>2, <2>3 DEF ListedOK
<1>3. CASE /\ Get(r) \/ Query(r) \/ ResolveNested(r) \/ GetNested(r) \/ LoadNested(r)
                        \/ SetNested(r) \/ Set(r)
           /\ GoesOn(r)
  <2>1. /\ ReadOK(r)'
        /\ ListedOK(reads[r].site, reads[r].got, Early(r))'
        /\ \A d \in reads'[r].got : Claim(reads[r].site, d[1]) =>
                  Told(reads[r].site, reads[r].vers, d[1], d[2])
    BY <1>3, AfterGoingOn
  <2>2. ASSUME NEW d \in reads'[r].got, Claim(reads'[r].site, d[1])
        PROVE  Told(reads[r].site, reads[r].vers, d[1], d[2])'
    <3>1. PICK s, v : s = reads[r].site /\ v = reads[r].vers
      OBVIOUS
    <3>2. reads'[r].site = s /\ reads'[r].vers = v
      BY <1>3, <3>1 DEF GoesOn
    <3>3. Told(s, v, d[1], d[2])
      BY <2>1, <2>2, <3>1, <3>2
    <3>4. s \in Sites \cup NestedSites
      <4>1. s \in scenario'.reads /\ scenario' = scenario
        BY <1>1, <2>1, <3>2, ReaderLeaves DEF ReadOK, Quiet
      <4> QED BY <1>1, <4>1, ScenarioIs
    <3>5. d \in May(s) \X Nat
      BY <2>1, <2>2, <3>2 DEF ReadOK
    <3>6. d[1] \in May(s) /\ d[2] \in Nat
      BY <3>5
    <3>7. d[1] \in Items
      BY <3>4, <3>6, MayServed
    <3>8. Told(s, v, d[1], d[2])'
      BY <1>1, <3>3, <3>6, <3>7, ToldOn
    <3> QED BY <3>2, <3>8
  <2> QED BY <2>1, <2>2
<1> QED BY <1>1, <1>2, <1>3, StepsOfReader

LEMMA EntriesAfter ==
    ASSUME Types, NEW r \in Readers, ReaderStep(r)
    PROVE  entries' \subseteq Held
<1>1. CASE entries' = entries
  BY <1>1 DEF Held
<1>2. CASE SetNested(r)
  <2>1. reads[r].at = "mset" /\ entries' \subseteq entries \cup reads[r].batch
    BY <1>2, SetNestedEffect
  <2> QED BY <2>1 DEF Held
<1>3. CASE Set(r)
  <2>1. reads[r].at = "load" /\ entries' \subseteq entries \cup {Coming(r)}
    BY <1>3, SetEffect
  <2> QED BY <2>1 DEF Held, Loading
<1> QED BY <1>1, <1>2, <1>3, BeginEffect, GetEffect, QueryEffect, ResolveEffect, GetNestedEffect,
           LoadNestedEffect, FinishEffect DEF ReaderStep

LEMMA OnlyLoadNested ==
    ASSUME Types, NEW r \in Readers, ReaderStep(r), reads'[r].at = "mset"
    PROVE  LoadNested(r)
BY BeginEffect, GetEffect, QueryEffect, ResolveEffect, GetNestedEffect, SetNestedEffect, SetEffect,
   FinishEffect DEF ReaderStep

LEMMA HeldAfter ==
    ASSUME IInv, NEW r \in Readers, ReaderStep(r), NEW e \in Held'
    PROVE  \/ e \in Held
           \/ reads'[r].at \in Loading /\ e = Coming(r)'
           \/ Fresh(e) /\ e.site \in Nested(r) /\ LoadNested(r)
<1>1. Types /\ Quiet /\ OtherReads(r)
  BY ReaderLeaves DEF IInv, Base
<1>2. CASE e \in entries'
  BY <1>1, <1>2, EntriesAfter
<1>3. CASE \E q \in Readers : reads'[q].at \in Loading /\ e = Coming(q)'
  <2>1. PICK q \in Readers : reads'[q].at \in Loading /\ e = Coming(q)'
    BY <1>3
  <2>2. CASE q # r
    <3>1. reads'[q] = reads[q] /\ Coming(q)' = Coming(q)
      BY <1>1, <2>2, OtherReader
    <3> QED BY <2>1, <3>1 DEF Held
  <2> QED BY <2>1, <2>2
<1>4. CASE \E q \in Readers : reads'[q].at = "mset" /\ e \in reads'[q].batch
  <2>1. PICK q \in Readers : reads'[q].at = "mset" /\ e \in reads'[q].batch
    BY <1>4
  <2>2. CASE q # r
    <3>1. reads'[q] = reads[q]
      BY <1>1, <2>2 DEF OtherReads
    <3> QED BY <2>1, <3>1 DEF Held
  <2>3. CASE q = r
    <3>1. LoadNested(r)
      BY <1>1, <2>1, <2>3, OnlyLoadNested
    <3>2. reads'[r].at = "mset" => \A f \in reads'[r].batch : Fresh(f) /\ f.site \in Nested(r)
      BY <1>1, <3>1, AfterLoadNested
    <3> QED BY <2>1, <2>3, <3>1, <3>2
  <2> QED BY <2>2, <2>3
<1> QED BY <1>2, <1>3, <1>4 DEF Held

LEMMA TypesByReader ==
    ASSUME IInv, NEW r \in Readers, ReaderStep(r)
    PROVE  Types'
<1>1. /\ Types /\ Quiet /\ OtherReads(r) /\ DOMAIN reads' = Readers
      /\ DOMAIN reads'[r] = DOMAIN Idle
  BY ReaderLeaves DEF IInv, Base
<1>2. ASSUME NEW e \in entries' PROVE EntryOK(e)'
  <2>1. e \in Held
    BY <1>1, EntriesAfter
  <2>2. /\ e.vers \in [KeyOf(e.site) -> Nat] /\ Past(e.vers)
        /\ e.data \subseteq May(e.site) \X Nat
        /\ e.site \in scenario.reads \cup NestedSites
    BY <1>1, <2>1, HeldForms
  <2>3. EntryOK(e)
    BY <2>2 DEF EntryOK
  <2> QED BY <1>1, <2>3, Undisturbed
<1>3. ASSUME NEW q \in Readers
      PROVE  DOMAIN reads'[q] = DOMAIN Idle /\ (reads'[q] = Idle \/ ReadOK(q)')
  <2>1. CASE q = r
    BY <1>1, <2>1, AfterStep
  <2>2. CASE q # r
    <3>1. reads'[q] = reads[q] /\ (ReadOK(q)' <=> ReadOK(q))
      BY <1>1, <2>2, OtherReader
    <3>2. DOMAIN reads[q] = DOMAIN Idle /\ (reads[q] = Idle \/ ReadOK(q))
      BY <1>1 DEF Types
    <3> QED BY <3>1, <3>2
  <2> QED BY <2>1, <2>2
<1>4. ASSUME NEW w \in Writers
      PROVE  DOMAIN writes'[w] = DOMAIN NotStarted /\ (writes'[w] = NotStarted \/ WriteOK(w)')
  <2>1. WriteOK(w)' <=> WriteOK(w)
    BY <1>1, WritersUndisturbed
  <2> QED BY <1>1, <2>1 DEF Types, Quiet
<1>5. /\ scenario' \in Scenarios /\ rows' \in [Items -> Nat] /\ acked' \in [Items -> Nat]
      /\ \A i \in Items : acked'[i] <= rows'[i]
      /\ mapped' \in [Users -> SUBSET Tenants] /\ ver' \in [Namespaces -> Nat]
      /\ \A n \in Namespaces \ scenario'.missing : ver'[n] # 0
      /\ DOMAIN writes' = Writers
  BY <1>1 DEF Types, Quiet
<1> QED BY <1>1, <1>2, <1>3, <1>4, <1>5 DEF Types

LEMMA BaseByReader ==
    ASSUME IInv, NEW r \in Readers, ReaderStep(r)
    PROVE  Base'
<1>1. Base /\ Quiet
  BY ReaderLeaves DEF IInv, Base
<1>2. \A w \in Writers : Sent(w)'
  BY <1>1, WritersUndisturbed DEF Base
<1>3. \A u \in Users : There(u)'
  BY <1>1, WritersUndisturbed DEF Base
<1>4. Alone1'
  BY <1>1, WritersUndisturbed DEF Base
<1> QED BY <1>2, <1>3, <1>4, TypesByReader DEF Base

LEMMA ShownByReader ==
    ASSUME IInv, NEW r \in Readers, ReaderStep(r)
    PROVE  Shown'
<1>1. Types /\ Shown /\ Quiet /\ OtherReads(r)
  BY ReaderLeaves DEF IInv, Base
<1>2. ASSUME NEW e \in entries' PROVE ListedOK(e.site, e.data, FALSE)'
  <2>1. ListedOK(e.site, e.data, FALSE)
    <3>1. CASE e \in entries
      BY <1>1, <3>1 DEF Shown
    <3>2. CASE SetNested(r) /\ e \in reads[r].batch
      <4>1. ReadOK(r) /\ reads[r].at = "mset"
        BY <1>1, <3>2, SetNestedEffect, Running
      <4>2. e.site[1] \notin Lists
        BY <3>2, <4>1, NestedForms DEF ReadOK
      <4> QED BY <4>2 DEF ListedOK
    <3>3. CASE Set(r) /\ e = Coming(r)
      <4>1. /\ reads[r].at = "load" /\ reads[r].stage > Len(Loader(reads[r].site))
            /\ GoesOn(r) /\ reads'[r].at = "done" /\ reads'[r].got = reads[r].got
        BY <1>1, <3>3, SetEffect
      <4>2. ListedOK(reads[r].site, reads[r].got, Early(r))'
        BY <3>3, AfterGoingOn
      <4>3. PICK s, data : s = reads[r].site /\ data = reads[r].got
        OBVIOUS
      <4>4. reads'[r].site = s /\ reads'[r].got = data /\ Early(r)' = FALSE
        BY <4>1, <4>3 DEF GoesOn, Early, Loading
      <4>5. ListedOK(s, data, FALSE)'
        BY <4>2, <4>4
      <4>6. ListedOK(s, data, FALSE)
        BY <1>1, <4>5, Undisturbed
      <4> QED BY <3>3, <4>3, <4>6 DEF Coming
    <3>4. \/ entries' = entries
          \/ SetNested(r) /\ entries' \subseteq entries \cup reads[r].batch
          \/ Set(r) /\ entries' \subseteq entries \cup {Coming(r)}
      BY <1>1, BeginEffect, GetEffect, QueryEffect, ResolveEffect, GetNestedEffect,
         LoadNestedEffect, SetNestedEffect, SetEffect, FinishEffect DEF ReaderStep
    <3> QED BY <3>1, <3>2, <3>3, <3>4
  <2> QED BY <1>1, <2>1, Undisturbed
<1>3. ASSUME NEW q \in Readers, reads'[q].at # "idle"
      PROVE  ListedOK(reads[q].site, reads[q].got, Early(q))'
  <2>1. CASE q = r
    BY <1>3, <2>1, AfterStep DEF Idle
  <2>2. CASE q # r
    <3>1. reads'[q] = reads[q] /\ (Early(q)' <=> Early(q))
      BY <1>1, <2>2, OtherReader
    <3>2. PICK s, data, early : s = reads[q].site /\ data = reads[q].got /\ early = Early(q)
      OBVIOUS
    <3>3. ListedOK(s, data, early)
      BY <1>1, <1>3, <3>1, <3>2 DEF Shown
    <3>4. ListedOK(s, data, early)'
      BY <1>1, <3>3, Undisturbed
    <3>5. reads'[q].site = s /\ reads'[q].got = data /\ (Early(q)' <=> early)
      BY <3>1, <3>2
    <3> QED BY <3>4, <3>5 DEF ListedOK
  <2> QED BY <2>1, <2>2
<1>4. \A e \in entries' : ListedOK(e.site, e.data, FALSE)'
  BY <1>2
<1>5. \A q \in Readers : reads'[q].at # "idle" => ListedOK(reads[q].site, reads[q].got, Early(q))'
  BY <1>3
<1> QED BY <1>4, <1>5 DEF Shown

LEMMA ComingSite ==
    ASSUME IInv, NEW r \in Readers, ReaderStep(r), reads'[r].at \in Loading
    PROVE  /\ Coming(r)'.site = reads'[r].site /\ Coming(r)'.vers = reads'[r].vers
           /\ Coming(r)'.data = reads'[r].got
           /\ reads'[r].site \in Sites /\ reads'[r].site \notin NestedSites
<1>1. Coming(r)'.site = reads'[r].site /\ Coming(r)'.vers = reads'[r].vers
           /\ Coming(r)'.data = reads'[r].got
  BY DEF Coming
<1>2. reads'[r] # Idle
  BY DEF Idle, Loading
<1>3. ReadOK(r)'
  BY <1>2, AfterStep
<1>4. Types /\ scenario' = scenario
  BY ReaderLeaves DEF IInv, Base, Quiet
<1>5. reads'[r].site \in Sites
  BY <1>3, <1>4, ScenarioIs DEF ReadOK
<1> QED BY <1>1, <1>5, SitesApart

LEMMA EmbeddedByReader ==
    ASSUME IInv, NEW r \in Readers, ReaderStep(r)
    PROVE  Embedded'
<1>1. Types /\ Shown /\ Embedded /\ Quiet
  BY ReaderLeaves DEF IInv, Base
<1>2. scenario' = scenario /\ (\A u : (Kept(u)' <=> Kept(u)) /\ Seat(u)' = Seat(u))
  BY <1>1, Undisturbed DEF Quiet
<1> SUFFICES ASSUME NEW e \in Held'
             PROVE  /\ e.site[1] = "hydrated" /\ Kept(e.site[2]) =>
                          \E s \in scenario.reads : s[1] \in Lists /\ s[2] \in Seat(e.site[2])
                    /\ e.site[1] = "filterIds" => \E s \in scenario.reads : s[1] = "filtered"
  BY <1>2 DEF Embedded
<1>3. CASE e \in Held
  BY <1>1, <1>3 DEF Embedded
<1>4. CASE reads'[r].at \in Loading /\ e = Coming(r)'
  <2>1. e.site \in Sites
    BY <1>4, ComingSite
  <2>2. e.site[1] \notin {"hydrated", "filterIds"}
    BY <2>1, SiteKinds DEF Sites
  <2> QED BY <2>2
<1>5. CASE Fresh(e) /\ e.site \in Nested(r) /\ LoadNested(r)
  <2>1. reads[r].at = "mload"
    BY <1>5 DEF LoadNested
  <2>2. ReadOK(r) /\ reads[r].site \in scenario.reads /\ reads[r].at # "idle"
    BY <1>1, <2>1, Running
  <2>3. reads[r].stage <= Len(Loader(reads[r].site)) /\ Stage(r) \in {"filter", "fields"}
    BY <2>1, <2>2 DEF ReadOK
  <2>4. /\ reads[r].site[1] \in Lists
        /\ Stage(r) = "filter" => reads[r].site[1] = "filtered" /\ Nested(r) = {FilterIds}
        /\ Stage(r) = "fields" => /\ reads[r].site[1] = "filtered" => reads[r].stage = 3
                                  /\ Nested(r) = {Hydrated(u) : u \in OnPage(reads[r].got)}
    BY <1>1, <2>2, <2>3, NestedOf
  <2>5. CASE Stage(r) = "filter"
    <3>1. e.site = FilterIds
      BY <1>5, <2>4, <2>5
    <3>2. e.site[1] = "filterIds"
      BY <3>1, SiteKinds
    <3> QED BY <2>2, <2>4, <2>5, <3>2
  <2>6. CASE Stage(r) = "fields"
    <3>1. PICK u \in OnPage(reads[r].got) : e.site = Hydrated(u)
      BY <1>5, <2>4, <2>6
    <3>2. e.site[1] = "hydrated" /\ e.site[2] = u
      BY <3>1, SiteKinds
    <3>3. PICK p \in reads[r].got : p[1] = Person(u)
      BY DEF OnPage
    <3>4. Personal(p[1]) /\ p[1][2] = u /\ p[1][1] = "Users"
      BY <3>3 DEF Person, Personal
    <3>5. ListedOK(reads[r].site, reads[r].got, Early(r))
      BY <1>1, <2>2 DEF Shown
    <3>6. Kept(u) => reads[r].site[2] \in Seat(u)
      BY <2>4, <3>4, <3>5 DEF ListedOK
    <3> QED BY <2>2, <2>4, <3>2, <3>6
  <2> QED BY <2>3, <2>5, <2>6
<1> QED BY <1>3, <1>4, <1>5, HeldAfter

LEMMA SameClaims ==
    ASSUME Quiet
    PROVE  \A s, i : Claim(s, i)' <=> Claim(s, i)
BY Undisturbed DEF Claim

LEMMA HeldGoodByReader ==
    ASSUME IInv, NEW r \in Readers, ReaderStep(r)
    PROVE  HeldGood'
<1>1. Types /\ Shown /\ Quiet
  BY ReaderLeaves DEF IInv, Base
<1> SUFFICES ASSUME NEW e \in Held', NEW d \in e.data, Claim(e.site, d[1])'
             PROVE  Told(e.site, e.vers, d[1], d[2])'
  BY DEF HeldGood
<1>2. Claim(e.site, d[1])
  BY <1>1, SameClaims
<1>3. CASE e \in Held
  <2>1. Told(e.site, e.vers, d[1], d[2])
    BY <1>2, <1>3 DEF IInv, HeldGood
  <2>2. d[1] \in Items /\ d[2] \in Nat
    BY <1>1, <1>2, <1>3, HeldServed
  <2> QED BY <1>1, <2>1, <2>2, ToldOn
<1>4. CASE reads'[r].at \in Loading /\ e = Coming(r)'
  <2>1. e.site = reads'[r].site /\ e.vers = reads'[r].vers /\ e.data = reads'[r].got
    BY <1>4, ComingSite
  <2>2. reads'[r] # Idle
    BY <1>4 DEF Idle, Loading
  <2>3. \A x \in reads'[r].got : Claim(reads'[r].site, x[1]) =>
                  Told(reads[r].site, reads[r].vers, x[1], x[2])'
    BY <2>2, AfterStep
  <2>4. PICK s, v : s = reads'[r].site /\ v = reads'[r].vers
    OBVIOUS
  <2>5. Told(s, v, d[1], d[2])'
    BY <1>2, <2>1, <2>3, <2>4
  <2> QED BY <2>1, <2>4, <2>5
<1>5. CASE Fresh(e)
  <2>1. PICK S \in SUBSET Items : e.data = Seen(S)
    BY <1>5 DEF Fresh
  <2>2. d \in Seen(S)
    BY <2>1
  <2>3. Told(e.site, e.vers, d[1], d[2]) /\ d[1] \in S /\ d[2] \in Nat
    BY <1>1, <2>2, FreshTold
  <2>4. d[1] \in Items
    BY <2>3
  <2> QED BY <1>1, <2>3, <2>4, ToldOn
<1> QED BY <1>3, <1>4, <1>5, HeldAfter

LEMMA OnlyResolve ==
    ASSUME Types, NEW r \in Readers, ReaderStep(r), reads'[r].at = "mget"
    PROVE  ResolveNested(r)
BY BeginEffect, GetEffect, QueryEffect, GetNestedEffect, LoadNestedEffect, SetNestedEffect, SetEffect,
   FinishEffect DEF ReaderStep

LEMMA FedGoodByReader ==
    ASSUME IInv, NEW r \in Readers, ReaderStep(r)
    PROVE  FedGood'
<1>1. Types /\ Shown /\ Quiet /\ OtherReads(r)
  BY ReaderLeaves DEF IInv, Base
<1> SUFFICES ASSUME NEW e \in Held', NEW q \in Readers, Feeds(e, q)', NEW d \in e.data,
                    Claim(reads[q].site, d[1])'
             PROVE  Told(reads[q].site, reads[q].vers, d[1], d[2])'
  BY DEF FedGood
<1>2. PICK s, v : s = reads'[q].site /\ v = reads'[q].vers
  OBVIOUS
<1>3. Claim(s, d[1])
  BY <1>1, <1>2, SameClaims
<1>4. reads'[q].at = "mget" /\ e.site \in Nested(q)' /\ e.vers = KeyVersions(e.site, reads'[q].inner)
  BY DEF Feeds
<1>5. e.site \in NestedSites
  BY <1>4 DEF Nested, NestedSites, OnPage
<1>6. e \in Held \/ (Fresh(e) /\ LoadNested(r))
  <2>1. ~(reads'[r].at \in Loading /\ e = Coming(r)')
    BY <1>5, ComingSite
  <2> QED BY <2>1, HeldAfter
<1>7. CASE Fresh(e)
  <2>1. PICK S \in SUBSET Items : e.data = Seen(S)
    BY <1>7 DEF Fresh
  <2>2. d \in Seen(S)
    BY <2>1
  <2>3. Told(s, v, d[1], d[2]) /\ d[1] \in S /\ d[2] \in Nat
    BY <1>1, <2>2, FreshTold
  <2>4. d[1] \in Items
    BY <2>3
  <2>5. Told(s, v, d[1], d[2])'
    BY <1>1, <2>3, <2>4, ToldOn
  <2> QED BY <1>2, <2>5
<1>8. CASE e \in Held
  <2>1. e.site \in Sites \cup NestedSites /\ e.data \subseteq May(e.site) \X Nat
    BY <1>1, <1>8, HeldForms
  <2>2. d[1] \in May(e.site) /\ d[2] \in Nat
    BY <2>1
  <2>3. d[1] \in Items
    BY <2>1, <2>2, MayServed
  <2>4. Told(s, v, d[1], d[2])
    <3>1. CASE q # r
      <4>1. reads'[q] = reads[q] /\ Feeds(e, q)
        BY <1>1, <3>1, OtherReader
      <4>2. \A x \in e.data : Claim(reads[q].site, x[1]) =>
                Told(reads[q].site, reads[q].vers, x[1], x[2])
        BY <1>8, <4>1 DEF IInv, FedGood
      <4> QED BY <1>2, <1>3, <4>1, <4>2
    <3>2. CASE q = r
      <4>1. ResolveNested(r)
        BY <1>1, <1>4, <3>2, OnlyResolve
      <4>2. /\ GoesOn(r) /\ AtStage(r, {"filter", "fields"})
            /\ reads'[r].stage = reads[r].stage /\ reads'[r].got = reads[r].got
            /\ reads'[r].inner = Resolved(UNION {KeyOf(x) : x \in Nested(r)})
        BY <1>1, <4>1, ResolveEffect
      <4>3. /\ reads[r].at # "idle" /\ reads[r].stage <= Len(Loader(reads[r].site))
            /\ Stage(r) \in {"filter", "fields"}
        BY <4>2 DEF AtStage
      <4>4. s[1] \in Lists /\ s \in scenario.reads /\ s \in Sites \cup NestedSites
        <5>1. reads[r].site[1] \in Lists
          BY <1>1, <4>3, NestedOf
        <5>2. reads[r].site \in scenario.reads /\ reads[r].site \in Sites
          BY <1>1, <4>3, Running
        <5> QED BY <1>2, <3>2, <4>2, <5>1, <5>2 DEF GoesOn
      <4>5. Nested(r)' = Nested(r)
        BY <4>2, SameNested
      <4>6. KeyOf(e.site) \subseteq UNION {KeyOf(x) : x \in Nested(r)}
        BY <1>4, <3>2, <4>5
      <4>7. IsCurrent(e.vers)
        BY <1>4, <3>2, <4>2, <4>6 DEF IsCurrent, KeyVersions, Resolved
      <4>8. Claimed(s[2], d[1])
        BY <1>3, <4>4 DEF Claim
      <4>9. Good(d[1], d[2], Userlist(s[2]))
        BY <1>5, <1>8, <4>4, <4>7, <4>8 DEF IInv, NestedGood
      <4>10. Chan(s, d[1]) = Userlist(s[2])
        BY <4>4 DEF Chan, Lists
      <4>11. Good(d[1], d[2], Chan(s, d[1]))
        BY <4>9, <4>10
      <4> QED BY <1>1, <2>2, <2>3, <4>11, ToldIfGood
    <3> QED BY <3>1, <3>2
  <2>5. Told(s, v, d[1], d[2])'
    BY <1>1, <2>2, <2>3, <2>4, ToldOn
  <2> QED BY <1>2, <2>5
<1> QED BY <1>6, <1>7, <1>8

LEMMA NestedGoodByReader ==
    ASSUME IInv, NEW r \in Readers, ReaderStep(r)
    PROVE  NestedGood'
<1>1. Types /\ Quiet /\ scenario' = scenario
  BY ReaderLeaves DEF IInv, Base, Quiet
<1> SUFFICES ASSUME NEW e \in Held', e.site \in NestedSites, IsCurrent(e.vers)', NEW d \in e.data,
                    NEW s \in scenario.reads, s[1] \in Lists, Claimed(s[2], d[1])'
             PROVE  Good(d[1], d[2], Userlist(s[2]))'
  BY <1>1 DEF NestedGood
<1>2. IsCurrent(e.vers) /\ Claimed(s[2], d[1])
  BY <1>1, Undisturbed
<1>3. Good(d[1], d[2], Userlist(s[2]))
  <2>1. CASE e \in Held
    BY <1>2, <2>1 DEF IInv, NestedGood
  <2>2. CASE Fresh(e)
    <3>1. PICK S \in SUBSET Items : e.data = Seen(S)
      BY <2>2 DEF Fresh
    <3>2. PICK i \in S : d = <<i, rows[i]>>
      BY <3>1 DEF Seen
    <3> QED BY <1>1, <3>2, FreshGood
  <2>3. ~(reads'[r].at \in Loading /\ e = Coming(r)')
    BY ComingSite
  <2> QED BY <2>1, <2>2, <2>3, HeldAfter
<1> QED BY <1>1, <1>3, Undisturbed

LEMMA DoneGoodByReader ==
    ASSUME IInv, NEW r \in Readers, ReaderStep(r)
    PROVE  DoneGood'
<1>1. Types /\ Quiet /\ OtherReads(r)
  BY ReaderLeaves DEF IInv, Base
<1> SUFFICES ASSUME NEW q \in Readers, reads'[q].at = "done", NEW d \in reads'[q].got,
                    Claim(reads[q].site, d[1])'
             PROVE  d[2] >= reads'[q].since[d[1]]
  BY DEF DoneGood
<1>2. Claim(reads'[q].site, d[1])
  <2>1. PICK s : s = reads'[q].site
    OBVIOUS
  <2>2. Claim(s, d[1])
    BY <1>1, <2>1, SameClaims
  <2> QED BY <2>1, <2>2
<1>3. CASE q # r
  BY <1>1, <1>2, <1>3 DEF OtherReads, IInv, DoneGood
<1>4. CASE q = r
  <2>1. reads'[r] # Idle
    BY <1>4 DEF Idle
  <2>2. Told(reads[r].site, reads[r].vers, d[1], d[2])'
    BY <1>2, <1>4, <2>1, AfterStep
  <2>3. reads'[r].since[d[1]] <= d[2]
    BY <1>4, <2>2 DEF Told
  <2>4. ReadOK(r)'
    BY <2>1, AfterStep
  <2> QED BY <1>4, <2>3
<1> QED BY <1>3, <1>4

LEMMA InvariantByReader ==
    ASSUME IInv, NEW r \in Readers, ReaderStep(r)
    PROVE  IInv'
BY BaseByReader, ShownByReader, EmbeddedByReader, HeldGoodByReader, FedGoodByReader,
   NestedGoodByReader, DoneGoodByReader DEF IInv

(* The first state, and a state that stays. *)

LEMMA Initially == Init => IInv
<1> SUFFICES ASSUME Init PROVE IInv
  OBVIOUS
<1>1. /\ scenario \in Scenarios
      /\ rows = [i \in Items |-> IF i \in AtFirst THEN 1 ELSE 0] /\ mapped = scenario.home
      /\ acked = rows /\ ver = [n \in Namespaces |-> IF n \in scenario.missing THEN 0 ELSE 2]
      /\ entries = {}
      /\ \A r \in Readers : reads[r] = Idle
      /\ \A w \in Writers : writes[w] = NotStarted
      /\ DOMAIN reads = Readers /\ DOMAIN writes = Writers
  BY DEF Init
<1>2. scenario.home \in [Users -> SUBSET Tenants]
  BY <1>1, PathAssumption
<1>3. Types
  <2>1. rows \in [Items -> Nat] /\ \A i \in Items : acked[i] <= rows[i]
    BY <1>1
  <2>2. ver \in [Namespaces -> Nat] /\ \A n \in Namespaces \ scenario.missing : ver[n] # 0
    BY <1>1
  <2> QED BY <1>1, <1>2, <2>1, <2>2 DEF Types
<1>4. ASSUME NEW w \in Writers PROVE Sent(w) /\ writes[w].at = "new"
  <2>1. /\ \A i \in Items : writes[w].wrote[i] = 0
        /\ writes[w].queue = <<>> /\ Len(writes[w].queue) = 0 /\ writes[w].at = "new"
    BY <1>1 DEF NotStarted, Zero
  <2>2. 1..Len(writes[w].queue) = {}
    BY <2>1
  <2> QED BY <2>1, <2>2 DEF Sent
<1>5. ASSUME NEW u \in Users PROVE There(u)
  <2>1. mapped[u] # {} => rows[Person(u)] # 0
    <3> SUFFICES ASSUME mapped[u] # {} PROVE rows[Person(u)] # 0
      OBVIOUS
    <3>1. Person(u) \in OfUser(u, scenario.home[u]) /\ Person(u) \in OfUser(u, Tenants)
      BY DEF OfUser
    <3>2. Person(u) \in AtFirst /\ Person(u) \in Items
      BY <1>1, <3>1 DEF AtFirst, Items
    <3> QED BY <1>1, <3>2
  <2>2. \A w \in Writers : writes[w].at # "run"
    BY <1>4
  <2> QED BY <2>1, <2>2 DEF There, Creates
<1>6. Alone1
  BY <1>1, <1>4 DEF Alone1
<1>7. \A r \in Readers : reads[r].at = "idle"
  BY <1>1 DEF Idle
<1>8. Held = {}
  BY <1>1, <1>7 DEF Held, Loading
<1>9. Base
  BY <1>3, <1>4, <1>5, <1>6 DEF Base
<1>10. Shown
  BY <1>1, <1>7 DEF Shown
<1>11. Embedded /\ HeldGood /\ FedGood /\ NestedGood
  BY <1>8 DEF Embedded, HeldGood, FedGood, NestedGood
<1>12. DoneGood
  BY <1>7 DEF DoneGood
<1> QED BY <1>9, <1>10, <1>11, <1>12 DEF IInv

LEMMA Staying ==
    ASSUME IInv, UNCHANGED vars
    PROVE  IInv'
<1>1. Quiet /\ UNCHANGED <<entries, reads>>
  BY DEF vars, Quiet
<1>2. entries' = entries /\ reads' = reads /\ scenario' = scenario
  BY <1>1 DEF Quiet
<1>3. /\ Held' = Held
      /\ \A r : Nested(r)' = Nested(r) /\ Stage(r)' = Stage(r)
      /\ \A r, e : Feeds(e, r)' <=> Feeds(e, r)
  BY <1>1, SameHeld
<1>4. ASSUME NEW q PROVE ReadOK(q)' <=> ReadOK(q)
  <2>1. (\A v : Past(v)' <=> Past(v)) /\ (\A e : EntryOK(e)' <=> EntryOK(e))
    BY <1>1, Undisturbed
  <2>2. acked' = acked
    BY <1>1 DEF Quiet
  <2>3. reads[q].at = "mset" =>
           ((\A e \in reads[q].batch : EntryOK(e)' /\ e.site \in NestedSites)
             <=> (\A e \in reads[q].batch : EntryOK(e) /\ e.site \in NestedSites))
    BY <2>1
  <2>4. reads'[q] = reads[q] /\ Nested(q)' = Nested(q) /\ Stage(q)' = Stage(q)
    BY <1>2, <1>3
  <2> QED BY <1>2, <2>1, <2>2, <2>3, <2>4 DEF ReadOK
<1>5. \A w : WriteOK(w)' <=> WriteOK(w)
  BY <1>1, WritersUndisturbed
<1>6. Types'
  <2>1. Types
    BY DEF IInv, Base
  <2>2. \A e \in entries : EntryOK(e)'
    BY <1>1, <2>1, Undisturbed DEF Types
  <2>3. \A r \in Readers : DOMAIN reads[r] = DOMAIN Idle /\ (reads[r] = Idle \/ ReadOK(r)')
    BY <1>4, <2>1 DEF Types
  <2>4. \A w \in Writers : DOMAIN writes[w] = DOMAIN NotStarted /\ (writes[w] = NotStarted \/ WriteOK(w)')
    BY <1>5, <2>1 DEF Types
  <2>5. /\ scenario \in Scenarios /\ rows \in [Items -> Nat] /\ acked \in [Items -> Nat]
        /\ \A i \in Items : acked[i] <= rows[i]
        /\ mapped \in [Users -> SUBSET Tenants] /\ ver \in [Namespaces -> Nat]
        /\ \A n \in Namespaces \ scenario.missing : ver[n] # 0
        /\ DOMAIN writes = Writers /\ DOMAIN reads = Readers
    BY <2>1 DEF Types
  <2> QED BY <1>1, <1>2, <2>2, <2>3, <2>4, <2>5 DEF Types, Quiet
<1>7. Base'
  <2>1. (\A w \in Writers : Sent(w)) /\ (\A u \in Users : There(u)) /\ Alone1
    BY DEF IInv, Base
  <2>2. (\A w \in Writers : Sent(w)') /\ (\A u \in Users : There(u)') /\ Alone1'
    BY <1>1, <2>1, WritersUndisturbed
  <2> QED BY <1>6, <2>2 DEF Base
<1>8. \A s, data, early : ListedOK(s, data, early)' <=> ListedOK(s, data, early)
  BY <1>1, Undisturbed
<1>9. Shown'
  <2>1. \A r : Early(r)' <=> Early(r)
    BY <1>2 DEF Early
  <2>2. Shown
    BY DEF IInv
  <2>3. \A e \in entries' : ListedOK(e.site, e.data, FALSE)'
    BY <1>2, <1>8, <2>2 DEF Shown
  <2>4. ASSUME NEW r \in Readers, reads'[r].at # "idle"
        PROVE  ListedOK(reads[r].site, reads[r].got, Early(r))'
    <3>1. PICK s, data, early : s = reads[r].site /\ data = reads[r].got /\ early = Early(r)
      OBVIOUS
    <3>2. ListedOK(s, data, early)
      BY <1>2, <2>2, <2>4, <3>1 DEF Shown
    <3>3. ListedOK(s, data, early)'
      BY <1>8, <3>2
    <3>4. reads'[r].site = s /\ reads'[r].got = data /\ (Early(r)' <=> early)
      BY <1>2, <2>1, <3>1
    <3> QED BY <3>3, <3>4 DEF ListedOK
  <2> QED BY <2>3, <2>4 DEF Shown
<1>10. /\ \A i, k, n : Good(i, k, n)' <=> Good(i, k, n)
       /\ \A v : IsCurrent(v)' <=> IsCurrent(v)
       /\ \A u : (Kept(u)' <=> Kept(u)) /\ Seat(u)' = Seat(u)
       /\ \A t, i : Claimed(t, i)' <=> Claimed(t, i)
  BY <1>1, Undisturbed
<1>11. \A s, v, i, k : Told(s, v, i, k)' <=> Told(s, v, i, k)
  BY <1>2, <1>10 DEF Told
<1>12. \A s, i : Claim(s, i)' <=> Claim(s, i)
  BY <1>1, SameClaims
<1>13. Embedded'
  BY <1>2, <1>3, <1>10 DEF IInv, Embedded
<1>14. HeldGood'
  BY <1>3, <1>11, <1>12 DEF IInv, HeldGood
<1>15. NestedGood'
  BY <1>2, <1>3, <1>10 DEF IInv, NestedGood
<1>16. FedGood'
  <2> SUFFICES ASSUME NEW e \in Held, NEW r \in Readers, Feeds(e, r), NEW d \in e.data,
                      Claim(reads[r].site, d[1])'
               PROVE  Told(reads[r].site, reads[r].vers, d[1], d[2])'
    BY <1>3 DEF FedGood
  <2>1. PICK s, v : s = reads[r].site /\ v = reads[r].vers
    OBVIOUS
  <2>2. reads'[r].site = s /\ reads'[r].vers = v
    BY <1>2, <2>1
  <2>3. Claim(s, d[1])' /\ Claim(s, d[1])
    BY <1>12, <2>2
  <2>4. Told(s, v, d[1], d[2])
    BY <2>1, <2>3 DEF IInv, FedGood
  <2>5. Told(s, v, d[1], d[2])'
    BY <1>11, <2>4
  <2> QED BY <2>2, <2>5
<1>17. DoneGood'
  <2> SUFFICES ASSUME NEW r \in Readers, reads[r].at = "done", NEW d \in reads[r].got,
                      Claim(reads[r].site, d[1])'
               PROVE  d[2] >= reads[r].since[d[1]]
    BY <1>2 DEF DoneGood
  <2>1. PICK s : s = reads[r].site
    OBVIOUS
  <2>2. reads'[r].site = s
    BY <1>2, <2>1
  <2>3. Claim(s, d[1])
    BY <1>12, <2>2
  <2> QED BY <2>1, <2>3 DEF IInv, DoneGood
<1> QED BY <1>7, <1>9, <1>13, <1>14, <1>15, <1>16, <1>17 DEF IInv

-----------------------------------------------------------------------------
(* The theorems. *)

LEMMA StepsAre == Next => \/ \E r \in Readers : ReaderStep(r)
                          \/ \E w \in Writers : WriterStep(w)
BY DEF Next, ReaderStep, WriterStep

\* The inductive invariant holds: what is in the cache, or about to be, under
\* current versions is never staler than what a handler under way will invalidate
\* (cache.service.ts getOrLoad, bulkGetOrLoad, invalidate; the handlers' awaits).
THEOREM Invariance == Spec => []IInv
<1>1. Init => IInv
  BY Initially
<1>2. IInv /\ [Next]_vars => IInv'
  BY StepsAre, InvariantByReader, InvariantByWriter, Staying
<1> QED BY <1>1, <1>2, PTL DEF Spec

LEMMA TypesFromInvariant == IInv => TypeOK
<1> SUFFICES ASSUME IInv PROVE TypeOK
  OBVIOUS
<1>1. Types
  BY DEF IInv, Base
<1>2. ASSUME NEW e \in entries PROVE DOMAIN e.vers = KeyOf(e.site) /\ e.data \subseteq Items \X Nat
  <2>1. EntryOK(e) /\ e \in Held
    BY <1>1 DEF Types, Held
  <2>2. e.site \in Sites \cup NestedSites /\ e.data \subseteq May(e.site) \X Nat
    BY <1>1, <2>1, HeldForms
  <2>3. May(e.site) \subseteq Items
    BY <2>2, MayServed
  <2> QED BY <2>1, <2>2, <2>3 DEF EntryOK
<1>3. ASSUME NEW w \in Writers PROVE Range(writes[w].queue) \subseteq Namespaces
  <2>1. CASE writes[w] = NotStarted
    <3>1. writes[w].queue = <<>> /\ Len(writes[w].queue) = 0
      BY <2>1 DEF NotStarted
    <3> QED BY <3>1 DEF Range
  <2>2. CASE WriteOK(w)
    <3>1. writes[w].queue \in Seq(Namespaces)
      BY <2>2 DEF WriteOK
    <3> QED BY <3>1 DEF Range
  <2> QED BY <1>1, <2>1, <2>2 DEF Types
<1> QED BY <1>1, <1>2, <1>3 DEF Types, TypeOK

LEMMA FreshFromInvariant == IInv => FreshButExposed
<1> SUFFICES ASSUME IInv, NEW r \in Readers, reads[r].at = "done", NEW i \in Missed(r)
             PROVE  i \in IF reads[r].site[1] \in Lists THEN ExposedBy(scenario) ELSE {}
  BY DEF FreshButExposed
<1>1. Types /\ Shown /\ DoneGood
  BY DEF IInv, Base
<1>2. PICK s : s = reads[r].site
  OBVIOUS
<1>3. PICK d \in reads[r].got : d[1] = i /\ d[2] < reads[r].since[i]
  BY DEF Missed
<1>4. /\ ReadOK(r) /\ s \in Sites \cup NestedSites /\ reads[r].got \subseteq May(s) \X Nat
  BY <1>1, <1>2, Running
<1>5. i \in May(s) /\ d[2] \in Nat
  BY <1>3, <1>4
<1>6. i \in Items
  BY <1>4, <1>5, MayServed
<1>7. reads[r].since[i] \in Nat
  BY <1>4, <1>6 DEF ReadOK
<1>8. ~Claim(s, i)
  BY <1>1, <1>2, <1>3, <1>5, <1>7 DEF DoneGood
<1>9. s[1] \in Lists /\ ~Claimed(s[2], i)
  BY <1>8 DEF Claim
<1>10. ASSUME i \notin ExposedBy(scenario) PROVE FALSE
  <2>1. Personal(i) /\ s[2] \notin Seat(i[2])
    BY <1>9, <1>10 DEF Claimed
  <2>2. Kept(i[2])
    BY <1>1, <1>6, <1>10, <2>1, UnexposedKept
  <2>3. ListedOK(s, reads[r].got, Early(r)) /\ ~Early(r)
    BY <1>1, <1>2 DEF Shown, Early, Loading
  <2> QED BY <1>3, <1>9, <2>1, <2>2, <2>3 DEF ListedOK
<1> QED BY <1>2, <1>9, <1>10

\* The variables keep their types: an entry has the versions of exactly the
\* namespaces that its read joins (cache.service.ts buildVersionedKey).
THEOREM TypesCorrect == Spec => []TypeOK
BY Invariance, TypesFromInvariant, PTL

\* A read that has finished shows every write whose request had succeeded when it
\* began (docs/CACHING_STRATEGY.md 1.1 goal 2), except in lists the rows of
\* ExposedBy: however many users, tenants, readers and writers there are, in
\* whatever order their awaits interleave, with either store, and whatever fails.
THEOREM ReadsAreFreshOrExposed == Spec => []FreshButExposed
BY Invariance, FreshFromInvariant, PTL
=============================================================================

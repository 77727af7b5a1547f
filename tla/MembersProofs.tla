--------------------------- MODULE MembersProofs ---------------------------
(***************************************************************************)
(* How far the batch job can overfill a batch, and what holds of the       *)
(* memberships that the handlers and the job write without a transaction,  *)
(* for any users, batches, capacity, mix of requests and number of them    *)
(* at once.                                                                *)
(*                                                                         *)
(* JobRespectsCapacity is not inductive: the count that a run of the job   *)
(* took is stale when it inserts.  Bounded(c) therefore counts the runs    *)
(* that have found room in c and not yet inserted along with the members   *)
(* that the job has put there: a run joins them only below the capacity,   *)
(* and there are never more runs than requests at once.  Placed says what  *)
(* a request knows at each of its statements.                              *)
(*                                                                         *)
(* Three other properties follow from RowsInv: Distinct says what a        *)
(* request that has looked for a membership still knows of the rows when   *)
(* it writes, unless it has raced; Placing adds to what the job has done   *)
(* the runs that have inserted a user and not yet activated the user;      *)
(* Cascading adds to the cohorts whose status has reached their members    *)
(* those that a request has half changed, and says that such a request     *)
(* has its cohort to itself or leaves it unsettled.                        *)
(*                                                                         *)
(* BulkInv, last, says of a bulk request that runs alone that it has done  *)
(* what it asks but for errors and what its loops have yet to do.          *)
(***************************************************************************)
EXTENDS Members, FiniteSetTheorems, TLAPS

\* What a request f that is at a statement has found by then.
Placed(f) ==
    /\ f.at \in {"insert", "save", "delete", "exists", "activate"} => f.user \in Users
    /\ f.at \in {"insert", "save", "exists", "activate", "status", "members", "cascade",
                 "archive", "purge"} => f.cohort \in Cohorts
    /\ f.at \in {"save", "delete"} => f.member \in MemberIds /\ f.entity \in Row
    /\ f.at = "loop" /\ (f.into # {} \/ f.out # {}) => f.user \in Users

\* f is a run of the job that has found room in c.
Counted(f, c) ==
    /\ f.op.name = "assignStudentsToBatches"
    /\ f.at \in {"exists", "insert"} /\ f.cohort = c

ByJob(c) == {m \in ActiveIn(c) : members[m].byJob}
Coming(c) == {r \in Requests : Counted(run[r], c)}
Bounded(c) ==
    Cardinality(ByJob(c)) + Cardinality(Coming(c)) < Capacity + scenario.parallel

IInv ==
    /\ TypeOK
    /\ \A r \in Requests : Placed(run[r])
    /\ Cardinality(Running) <= scenario.parallel
    /\ \A c \in Cohorts : Bounded(c)

\* The conjuncts of TypeOK but those of members, run and scenario.
OthersTyped ==
    /\ cohorts \in [Cohorts -> CohortStatuses]
    /\ mapping \in [Users -> {"pending", "active"}]
    /\ raced \subseteq Users \X Cohorts
    /\ unsettled \subseteq Cohorts
    /\ erred \subseteq Users /\ removed \subseteq Users

\* A step leaves no batch with more members by the job.
Harmless ==
    /\ members' \in [MemberIds -> Row \cup {None}]
    /\ \A c \in Cohorts : ByJob(c)' \subseteq ByJob(c)

\* Request r goes on to f, and has found no more room than it had.
Moves(r, f) ==
    /\ run[r].at # "idle"
    /\ f \in Run /\ Placed(f)
    /\ \A c \in Cohorts : Counted(f, c) => Counted(run[r], c)
    /\ Set(r, f)
    /\ scenario' = scenario

-----------------------------------------------------------------------------
(* Counting. *)

LEMMA Parallel == TypeOK => scenario.parallel \in Nat
BY MembersAssumption DEF TypeOK

LEMMA OneMoreAtMost ==
    ASSUME NEW S, NEW x, IsFiniteSet(S)
    PROVE  /\ IsFiniteSet(S \cup {x})
           /\ Cardinality(S \cup {x}) <= Cardinality(S) + 1
<1>1. Cardinality(S) \in Nat BY FS_CardinalityType
<1> QED BY <1>1, FS_AddElement

LEMMA Counts ==
    ASSUME NEW c
    PROVE  /\ IsFiniteSet(Running) /\ Cardinality(Running) \in Nat
           /\ IsFiniteSet(ByJob(c)) /\ Cardinality(ByJob(c)) \in Nat
           /\ IsFiniteSet(Coming(c)) /\ Cardinality(Coming(c)) \in Nat
           /\ IsFiniteSet(ActiveIn(c)) /\ Cardinality(ActiveIn(c)) \in Nat
           /\ Cardinality(ByJob(c)) <= Cardinality(ActiveIn(c))
           /\ Coming(c) \subseteq Running
<1>1. IsFiniteSet(MemberIds) /\ IsFiniteSet(Requests) BY MembersAssumption
<1>2. Running \subseteq Requests BY DEF Running
<1>3. Coming(c) \subseteq Running BY DEF Coming, Counted, Running
<1>4. ActiveIn(c) \subseteq MemberIds BY DEF ActiveIn, Rows
<1>5. ByJob(c) \subseteq ActiveIn(c) BY DEF ByJob
<1>6. IsFiniteSet(Running) /\ IsFiniteSet(ActiveIn(c))
  BY <1>1, <1>2, <1>4, FS_Subset
<1>7. IsFiniteSet(ByJob(c)) /\ IsFiniteSet(Coming(c))
  BY <1>3, <1>5, <1>6, FS_Subset
<1>8. Cardinality(ByJob(c)) <= Cardinality(ActiveIn(c)) BY <1>5, <1>6, FS_Subset
<1> QED BY <1>3, <1>6, <1>7, <1>8, FS_CardinalityType

\* The same in the next state.
LEMMA CountsNext ==
    ASSUME NEW c
    PROVE  /\ IsFiniteSet(Running') /\ Cardinality(Running') \in Nat
           /\ IsFiniteSet(ByJob(c)') /\ Cardinality(ByJob(c)') \in Nat
           /\ IsFiniteSet(Coming(c)') /\ Cardinality(Coming(c)') \in Nat
           /\ Coming(c)' \subseteq Running'
<1>1. IsFiniteSet(MemberIds) /\ IsFiniteSet(Requests) BY MembersAssumption
<1>2. Running' \subseteq Requests BY DEF Running
<1>3. Coming(c)' \subseteq Running' BY DEF Coming, Counted, Running
<1>4. ByJob(c)' \subseteq MemberIds BY DEF ByJob, ActiveIn, Rows
<1>5. IsFiniteSet(Running') /\ IsFiniteSet(ByJob(c)')
  BY <1>1, <1>2, <1>4, FS_Subset
<1>6. IsFiniteSet(Coming(c)') BY <1>3, <1>5, FS_Subset
<1> QED BY <1>3, <1>5, <1>6, FS_CardinalityType

\* A batch stays within its bound if nobody joins and no run finds room.
LEMMA FewerBounded ==
    ASSUME IInv, NEW c \in Cohorts, scenario' = scenario,
           ByJob(c)' \subseteq ByJob(c), Coming(c)' \subseteq Coming(c)
    PROVE  Bounded(c)'
<1>1. /\ Cardinality(ByJob(c)') <= Cardinality(ByJob(c))
      /\ Cardinality(Coming(c)') <= Cardinality(Coming(c))
  BY Counts, FS_Subset
<1>2. Bounded(c) BY DEF IInv
<1>3. scenario.parallel \in Nat /\ Capacity \in Nat
  BY Parallel, MembersAssumption DEF IInv
<1>4. Cardinality(ByJob(c)') + Cardinality(Coming(c)') < Capacity + scenario.parallel
  BY <1>1, <1>2, <1>3, Counts, CountsNext DEF Bounded
<1> QED BY <1>4 DEF Bounded

-----------------------------------------------------------------------------
(* Steps. *)

LEMMA RunSame == scenario' = scenario => Run' = Run
BY DEF Run

LEMMA RunTyped ==
    ASSUME TypeOK, NEW r \in Requests, NEW f \in Run, Set(r, f), scenario' = scenario
    PROVE  /\ run' \in [Requests -> Run']
           /\ run'[r] = f
           /\ \A q \in Requests \ {r} : run'[q] = run[q]
BY RunSame DEF TypeOK, Set

\* A step of a request that finds no room and adds no member by the job.
LEMMA MovePreserves ==
    ASSUME IInv, NEW r \in Requests, NEW f, Moves(r, f), Harmless, OthersTyped'
    PROVE  IInv'
<1>1. TypeOK /\ scenario' = scenario /\ f \in Run /\ Set(r, f) BY DEF IInv, Moves
<1>2. /\ run' \in [Requests -> Run']
      /\ run'[r] = f
      /\ \A q \in Requests \ {r} : run'[q] = run[q]
  BY <1>1, RunTyped
<1>3. TypeOK' BY <1>1, <1>2 DEF TypeOK, OthersTyped, Harmless
<1>4. \A q \in Requests : Placed(run'[q]) BY <1>2 DEF IInv, Moves
<1>5. Running' \subseteq Running BY <1>2 DEF Running, Moves
<1>6. Cardinality(Running') <= scenario'.parallel
  <2>1. Cardinality(Running') <= Cardinality(Running) BY <1>5, Counts, FS_Subset
  <2> QED BY <2>1, <1>1, Counts, CountsNext, Parallel DEF IInv
<1>7. ASSUME NEW c \in Cohorts PROVE Bounded(c)'
  <2>1. Coming(c)' \subseteq Coming(c) BY <1>2 DEF Coming, Moves
  <2> QED BY <2>1, <1>1, FewerBounded DEF Harmless
<1> QED BY <1>3, <1>4, <1>6, <1>7 DEF IInv

LEMMA RowsLeftAlone ==
    ASSUME TypeOK, members' = members
    PROVE  Harmless
BY DEF TypeOK, Harmless, ByJob, ActiveIn, Rows

LEMMA OthersLeftAlone ==
    ASSUME TypeOK, UnchangedRows, UnchangedHistory
    PROVE  Harmless /\ OthersTyped' /\ scenario' = scenario
<1>1. Harmless BY RowsLeftAlone DEF UnchangedRows
<1> QED BY <1>1 DEF TypeOK, OthersTyped, UnchangedRows, UnchangedHistory

\* A save that is not the job's.
LEMMA SaveHarmless ==
    ASSUME TypeOK, NEW r \in Requests, NEW m \in MemberIds, NEW row \in Row,
           row.byJob = FALSE, Save(r, m, row)
    PROVE  Harmless /\ raced' \subseteq Users \X Cohorts /\ removed' \subseteq Users
<1>1. members' \in [MemberIds -> Row \cup {None}] BY DEF TypeOK, Save
<1>2. ASSUME NEW c \in Cohorts PROVE ByJob(c)' \subseteq ByJob(c)
  BY DEF TypeOK, Save, ByJob, ActiveIn, Rows
<1>3. <<row.user, row.cohort>> \in Users \X Cohorts BY DEF Row
<1>4. raced' \subseteq Users \X Cohorts BY <1>3 DEF TypeOK, Save
<1>5. Losing(m, row.user) \subseteq Users BY DEF TypeOK, Losing, Rows, Row
<1>6. removed' \subseteq Users BY <1>5 DEF TypeOK, Save
<1> QED BY <1>1, <1>2, <1>4, <1>6 DEF Harmless

LEMMA NewRowTyped ==
    ASSUME NEW u \in Users, NEW c \in Cohorts, NEW s \in MemberStatuses, NEW b \in BOOLEAN
    PROVE  NewRow(u, c, s, b) \in Row /\ NewRow(u, c, s, b).byJob = b
<1>1. Late(c) \in BOOLEAN BY DEF Late
<1> QED BY <1>1 DEF NewRow, Row

LEMMA RewrittenTyped ==
    ASSUME NEW e \in Row, NEW u \in Users, NEW c \in Cohorts, NEW s \in MemberStatuses
    PROVE  /\ Rewritten(e, u, c, s) \in Row
           /\ Rewritten(e, u, c, s).user = u /\ Rewritten(e, u, c, s).cohort = c
           /\ Rewritten(e, u, c, s).status = s
           /\ Rewritten(e, u, c, s).year = e.year
           /\ Rewritten(e, u, c, s).moved = e.moved
           /\ Rewritten(e, u, c, s).byJob = FALSE
           /\ Rewritten(e, u, c, s).late = Late(c)
<1>1. Late(c) \in BOOLEAN BY DEF Late
<1> QED BY <1>1 DEF Rewritten, Row

LEMMA OpTyped ==
    ASSUME TypeOK, NEW r \in Requests
    PROVE  LET o == run[r].op IN
           /\ o \in Op /\ o \in scenario.ops \cup {NoOp}
           /\ o.name \in Singles \cup Loops =>
                 Asked(o) \in MemberStatuses /\ o.status \in MemberStatuses \cup {None}
           /\ o.name = "updateCohort" => o.status \in CohortStatuses \ {"pending"}
           /\ o.name = "updateCohortStatuses" => o.status \in CohortStatuses
<1> DEFINE o == run[r].op
<1>1. o \in scenario.ops \cup {NoOp} BY DEF TypeOK, Run
<1>2. CASE o = NoOp
  BY <1>2 DEF NoOp, Op, Singles, Loops, Changes, Asked, MemberStatuses
<1>3. CASE o \in scenario.ops
  <2>1. scenario \in Scenarios BY DEF TypeOK
  <2>2. /\ o \in Op
        /\ o.name = "updateCohort" => o.status \in CohortStatuses \ {"pending"}
        /\ o.name = "updateCohortStatuses" => o.status \in CohortStatuses
        /\ o.name \in Singles \cup Loops => o.status \in MemberStatuses \cup {None}
    BY <1>3, <2>1, MembersAssumption
  <2> QED BY <2>2, <1>1 DEF Asked, MemberStatuses
<1> QED BY <1>1, <1>2, <1>3

-----------------------------------------------------------------------------
(* The steps of single requests. *)

LEMMA IdleTyped == Idle \in Run
BY DEF Idle, NoOp, Run

LEMMA StartedTyped ==
    ASSUME NEW p \in {"check", "loop", "find"}, NEW o \in scenario.ops,
           NEW a \in BOOLEAN, NEW U \in SUBSET Users
    PROVE  [Idle EXCEPT !.at = p, !.op = o, !.alone = a, !.users = U] \in Run
BY Zenon DEF Idle, Run

LEMMA StartPreserves ==
    ASSUME IInv, NEW r \in Requests, NEW o \in scenario.ops, Start(r, o)
    PROVE  IInv'
<1>1. TypeOK /\ scenario' = scenario BY DEF IInv, Start, UnchangedHistory
<1>2. Harmless /\ OthersTyped' BY <1>1, OthersLeftAlone DEF Start
<1>3. o \in Op BY <1>1, MembersAssumption DEF TypeOK
<1> DEFINE f == run'[r]
<1> DEFINE U == IF o.name = "assignStudentsToBatches"
                THEN {u \in Users : mapping[u] = "pending"} ELSE o.users
           a == o.name \in Loops /\ Running = {}
<1>4. /\ f \in Run /\ Placed(f)
      /\ \A c \in Cohorts : ~Counted(f, c)
  <2>1. U \in SUBSET Users /\ a \in BOOLEAN BY <1>3 DEF Op
  <2>2. f = [Idle EXCEPT !.at = First(o), !.op = o, !.alone = a, !.users = U]
    BY DEF Start
  <2>3. First(o) \in {"check", "loop", "find"} BY DEF First
  <2> HIDE DEF f, U, a
  <2>4. f.at \in {"check", "loop", "find"} /\ f.into = {} /\ f.out = {}
    BY <2>2, <2>3 DEF Idle
  <2>5. f \in Run BY <2>1, <2>2, <2>3, StartedTyped
  <2> QED BY <2>4, <2>5 DEF Placed, Counted
<1>5. ASSUME NEW q \in Requests \ {r}
      PROVE  /\ run'[q] \in Run /\ Placed(run'[q])
             /\ run'[q].at = run[q].at /\ run'[q].op = run[q].op
             /\ run'[q].cohort = run[q].cohort
  <2>1. run[q] \in Run /\ Placed(run[q]) BY DEF IInv, TypeOK
  <2>2. run'[q] = run[q] \/ run'[q] = [run[q] EXCEPT !.alone = FALSE] BY DEF Start
  <2>3. CASE run'[q] = run[q] BY <2>1, <2>3
  <2>4. CASE run'[q] = [run[q] EXCEPT !.alone = FALSE]
    <3>1. run'[q] \in Run BY Zenon, <2>1, <2>4 DEF Run
    <3>2. /\ run'[q].at = run[q].at /\ run'[q].op = run[q].op
          /\ run'[q].cohort = run[q].cohort /\ run'[q].user = run[q].user
          /\ run'[q].member = run[q].member /\ run'[q].entity = run[q].entity
          /\ run'[q].into = run[q].into /\ run'[q].out = run[q].out
      BY <2>1, <2>4 DEF Run
    <3> QED BY <2>1, <3>1, <3>2 DEF Placed
  <2> QED BY <2>2, <2>3, <2>4
<1>6. TypeOK'
  <2>1. run' \in [Requests -> Run'] BY <1>1, <1>4, <1>5, RunSame DEF Start
  <2> QED BY <2>1, <1>1, <1>2 DEF TypeOK, OthersTyped, Harmless
<1>7. Cardinality(Running') <= scenario'.parallel
  <2>1. Running' \subseteq Running \cup {r} BY <1>5 DEF Running
  <2>2. /\ IsFiniteSet(Running \cup {r})
        /\ Cardinality(Running \cup {r}) <= Cardinality(Running) + 1
    BY Counts, OneMoreAtMost
  <2>3. Cardinality(Running') <= Cardinality(Running \cup {r})
    BY <2>1, <2>2, FS_Subset
  <2>4. Cardinality(Running) < scenario.parallel BY DEF Start
  <2> QED BY <1>1, <2>2, <2>3, <2>4, Counts, CountsNext, Parallel, FS_CardinalityType
<1>8. ASSUME NEW c \in Cohorts PROVE Bounded(c)'
  <2>1. Coming(c)' \subseteq Coming(c) BY <1>4, <1>5 DEF Coming, Counted
  <2> QED BY <2>1, <1>1, <1>2, FewerBounded DEF Harmless
<1> QED BY <1>4, <1>5, <1>6, <1>7, <1>8 DEF IInv

\* A step that ends a request.
LEMMA EndMoves ==
    ASSUME TypeOK, NEW r \in Requests, run[r].at # "idle", End(r), scenario' = scenario
    PROVE  Moves(r, Idle)
BY DEF Moves, End, Idle, NoOp, Run, Placed, Counted

\* A step that reads, and moves the request to f.
LEMMA ReadPreserves ==
    ASSUME IInv, NEW r \in Requests, NEW f, Moves(r, f), UnchangedRows, UnchangedHistory
    PROVE  IInv'
BY MovePreserves, OthersLeftAlone DEF IInv

LEMMA CheckPreserves ==
    ASSUME IInv, NEW r \in Requests, Check(r)
    PROVE  IInv'
<1>1. PICK u \in run[r].op.users, c \in run[r].op.into :
        Set(r, IF RowsOf(u, c) # {} THEN Idle
               ELSE [run[r] EXCEPT !.at = "insert", !.user = u, !.cohort = c])
  BY DEF Check
<1>2. /\ TypeOK /\ scenario' = scenario /\ UnchangedRows /\ UnchangedHistory
      /\ run[r].at # "idle"
      /\ run[r].op.name = "createCohortMembers"
  BY DEF Check, IInv, UnchangedHistory, At
<1>3. u \in Users /\ c \in Cohorts BY <1>2, OpTyped DEF Op
<1>4. CASE RowsOf(u, c) # {}
  BY <1>1, <1>2, <1>4, EndMoves, ReadPreserves DEF End
<1>5. CASE RowsOf(u, c) = {}
  <2> DEFINE f == [run[r] EXCEPT !.at = "insert", !.user = u, !.cohort = c]
  <2>0. run[r] \in Run BY <1>2 DEF TypeOK
  <2>1. f \in Run BY Zenon, <1>3, <2>0 DEF Run
  <2>2. /\ f.at = "insert" /\ f.user = u /\ f.cohort = c
        /\ f.op.name = "createCohortMembers"
    BY <1>2, <2>0 DEF Run
  <2>3. Placed(f) /\ \A d \in Cohorts : ~Counted(f, d)
    BY <2>2, <1>3 DEF Placed, Counted
  <2>4. Moves(r, f) BY <1>1, <1>2, <1>5, <2>1, <2>3 DEF Moves
  <2> QED BY <2>4, <1>2, ReadPreserves
<1> QED BY <1>4, <1>5

LEMMA InsertPreserves ==
    ASSUME IInv, NEW r \in Requests, Insert(r)
    PROVE  IInv'
<1> DEFINE row == NewRow(run[r].user, run[r].cohort, Asked(run[r].op), FALSE)
<1>1. PICK m \in MemberIds : Save(r, m, row) BY DEF Insert
<1>2. TypeOK /\ scenario' = scenario /\ run[r].at = "insert" /\ End(r)
  BY DEF Insert, IInv, UnchangedHistory, At
<1>3. run[r].user \in Users /\ run[r].cohort \in Cohorts BY <1>2 DEF IInv, Placed
<1>4. Asked(run[r].op) \in MemberStatuses BY <1>2, OpTyped DEF Insert, At, Singles
<1>5. row \in Row /\ row.byJob = FALSE BY <1>3, <1>4, NewRowTyped
<1>6. Harmless /\ raced' \subseteq Users \X Cohorts /\ removed' \subseteq Users
  BY <1>1, <1>2, <1>5, SaveHarmless
<1>7. OthersTyped' BY <1>2, <1>6 DEF Insert, UnchangedHistory, TypeOK, OthersTyped
<1> QED BY <1>2, <1>6, <1>7, EndMoves, MovePreserves

\* What updateCohortMembers or deleteCohortMemberById knows when it has found the row of m.
Finding(r, m, k, u, c) ==
    [run[r] EXCEPT !.at = IF run[r].op.name = "updateCohortMembers" THEN "save" ELSE "delete",
                   !.entity = [members[m] EXCEPT !.moved = @ \/ k # m
                                \/ u # members[m].user \/ c # members[m].cohort],
                   !.member = k, !.user = u, !.cohort = c]

LEMMA FindMemberDoes ==
    ASSUME NEW r \in Requests, FindMember(r)
    PROVE  \/ End(r)
           \/ \E m \in Rows, k \in MemberIds, u \in Users, c \in Cohorts :
                Set(r, Finding(r, m, k, u, c))
BY DEF FindMember, Finding

LEMMA FindMemberPreserves ==
    ASSUME IInv, NEW r \in Requests, FindMember(r)
    PROVE  IInv'
<1>1. /\ TypeOK /\ scenario' = scenario /\ UnchangedRows /\ UnchangedHistory
      /\ run[r].at = "find"
      /\ run[r].op.name \in {"updateCohortMembers", "deleteCohortMemberById"}
  BY DEF FindMember, IInv, UnchangedHistory
<1>2. CASE End(r) BY <1>1, <1>2, EndMoves, ReadPreserves
<1>3. ASSUME NEW m \in Rows, NEW k \in MemberIds, NEW u \in Users, NEW c \in Cohorts,
             Set(r, Finding(r, m, k, u, c))
      PROVE  IInv'
  <2> DEFINE at == IF run[r].op.name = "updateCohortMembers" THEN "save" ELSE "delete"
             e == [members[m] EXCEPT !.moved = @ \/ k # m
                    \/ u # members[m].user \/ c # members[m].cohort]
             f == [run[r] EXCEPT !.at = at, !.entity = e, !.member = k,
                                 !.user = u, !.cohort = c]
  <2>1. members[m] \in Row BY <1>1 DEF TypeOK, Rows
  <2>2. e \in Row BY <2>1 DEF Row
  <2>0. at \in {"save", "delete"} /\ run[r] \in Run BY <1>1 DEF TypeOK
  <2>3. Set(r, f) BY <1>3 DEF Finding
  <2> HIDE DEF at, e
  <2>4. f \in Run BY Zenon, <2>0, <2>2 DEF Run
  <2>5. /\ f.at \in {"save", "delete"} /\ f.op = run[r].op /\ f.member = k
        /\ f.entity = e /\ f.user = u /\ f.cohort = c
    BY <2>0 DEF Run
  <2>6. Placed(f) /\ \A d \in Cohorts : ~Counted(f, d)
    BY <1>1, <2>2, <2>5 DEF Placed, Counted
  <2>7. Moves(r, f) BY <1>1, <2>3, <2>4, <2>6 DEF Moves
  <2> QED BY <1>1, <2>7, ReadPreserves
<1> QED BY <1>2, <1>3, FindMemberDoes

LEMMA SaveMemberPreserves ==
    ASSUME IInv, NEW r \in Requests, SaveMember(r)
    PROVE  IInv'
<1> DEFINE e == run[r].entity
           s == IF run[r].op.status = None THEN e.status ELSE run[r].op.status
           row == Rewritten(e, run[r].user, run[r].cohort, s)
<1>1. Save(r, run[r].member, row) BY DEF SaveMember
<1>2. TypeOK /\ scenario' = scenario /\ run[r].at = "save" /\ End(r)
  BY DEF SaveMember, IInv, UnchangedHistory, At
<1>3. /\ run[r].member \in MemberIds /\ e \in Row
      /\ run[r].user \in Users /\ run[r].cohort \in Cohorts
  BY <1>2 DEF IInv, Placed
<1>4. s \in MemberStatuses BY <1>2, <1>3, OpTyped DEF SaveMember, At, Singles, Row
<1>5. row \in Row /\ row.byJob = FALSE
  <2> HIDE DEF e, s
  <2> QED BY <1>3, <1>4 DEF Rewritten, Row, Late
<1>6. Harmless /\ raced' \subseteq Users \X Cohorts /\ removed' \subseteq Users
  BY <1>1, <1>2, <1>3, <1>5, SaveHarmless
<1>7. OthersTyped' BY <1>2, <1>6 DEF SaveMember, UnchangedHistory, TypeOK, OthersTyped
<1> QED BY <1>2, <1>6, <1>7, EndMoves, MovePreserves

LEMMA DeleteMemberPreserves ==
    ASSUME IInv, NEW r \in Requests, DeleteMember(r)
    PROVE  IInv'
<1>1. TypeOK /\ scenario' = scenario /\ run[r].at = "delete" /\ End(r)
  BY DEF DeleteMember, IInv, UnchangedHistory, At
<1>2. Losing(run[r].member, None) \subseteq Users
  BY <1>1 DEF TypeOK, Losing, Rows, Row
<1>3. Harmless
  <2>1. members' \in [MemberIds -> Row \cup {None}] BY <1>1 DEF DeleteMember, TypeOK
  <2>2. ASSUME NEW c \in Cohorts PROVE ByJob(c)' \subseteq ByJob(c)
    BY <1>1 DEF DeleteMember, TypeOK, ByJob, ActiveIn, Rows
  <2> QED BY <2>1, <2>2 DEF Harmless
<1>4. OthersTyped'
  BY <1>1, <1>2 DEF DeleteMember, UnchangedHistory, TypeOK, OthersTyped
<1> QED BY <1>1, <1>3, <1>4, EndMoves, MovePreserves

-----------------------------------------------------------------------------
(* The steps of the bulk handler. *)

\* A request that goes on in its loop at user u, or none.
LEMMA LoopTyped ==
    ASSUME NEW f \in Run, NEW u \in Users \cup {None}, NEW I \in SUBSET Cohorts,
           NEW O \in SUBSET Cohorts, NEW U \in SUBSET Users
    PROVE  [f EXCEPT !.user = u, !.users = U, !.out = O, !.into = I] \in Run
BY Zenon DEF Run

LEMMA ToldTyped ==
    ASSUME NEW f \in Run, NEW p \in {"reply", "done"}, NEW t \in Messages \cup {None}
    PROVE  [f EXCEPT !.at = p, !.told = t] \in Run
BY Zenon DEF Run

\* A request that is not the job's, or is in its loop, counts for no batch.
LEMMA LoopMoves ==
    ASSUME NEW r \in Requests, NEW f \in Run, run[r].at # "idle", Set(r, f),
           scenario' = scenario,
           f.at \in {"loop", "reply", "done"},
           (f.into # {} \/ f.out # {}) => f.user \in Users
    PROVE  Moves(r, f)
BY DEF Moves, Placed, Counted

LEMMA BulkUserPreserves ==
    ASSUME IInv, NEW r \in Requests, BulkUser(r)
    PROVE  IInv'
<1>1. /\ TypeOK /\ scenario' = scenario /\ UnchangedRows /\ UnchangedHistory
      /\ run[r].at = "loop" /\ run[r] \in Run
  BY DEF BulkUser, IInv, TypeOK, UnchangedHistory, At
<1>2. PICK u \in run[r].users :
        Set(r, [run[r] EXCEPT !.user = u, !.users = @ \ {u},
                              !.out = run[r].op.out, !.into = run[r].op.into])
  BY DEF BulkUser
<1> DEFINE U == run[r].users \ {u}
           O == run[r].op.out
           I == run[r].op.into
           f == [run[r] EXCEPT !.user = u, !.users = U, !.out = O, !.into = I]
<1>3. Set(r, f) BY <1>2
<1>4. u \in Users /\ U \in SUBSET Users BY <1>1 DEF Run
<1>5. O \in SUBSET Cohorts /\ I \in SUBSET Cohorts BY <1>1, OpTyped DEF Op
<1>6. f \in Run
  <2> HIDE DEF U, O, I
  <2> QED BY <1>1, <1>4, <1>5, LoopTyped
<1>7. f.at = "loop" /\ f.user = u BY <1>1 DEF Run
<1>8. Moves(r, f)
  <2> HIDE DEF f
  <2> QED BY <1>1, <1>3, <1>4, <1>6, <1>7, LoopMoves
<1> QED BY <1>1, <1>8, ReadPreserves

LEMMA RemovePreserves ==
    ASSUME IInv, NEW r \in Requests, NEW c, Remove(r, c)
    PROVE  IInv'
<1>1. /\ TypeOK /\ scenario' = scenario
      /\ run[r].at = "loop" /\ run[r] \in Run
      /\ c \in run[r].out
  BY DEF Remove, IInv, TypeOK, UnchangedHistory, At
<1>2. run[r].user \in Users /\ c \in Cohorts BY <1>1 DEF IInv, Placed, Run
<1> DEFINE O == run[r].out \ {c}
           R == run[r].results \cup {<<run[r].user, c, "left">>}
           f == [run[r] EXCEPT !.out = O, !.results = R]
<1>3. f \in Run
  <2>1. /\ O \in SUBSET Cohorts
        /\ R \in SUBSET (Users \X Cohorts \X {"left", "joined"})
    BY <1>1, <1>2 DEF Run
  <2> HIDE DEF O, R
  <2> QED BY Zenon, <1>1, <2>1 DEF Run
<1>4. f.at = "loop" /\ f.user = run[r].user BY <1>1 DEF Run
<1>5. Moves(r, f)
  <2>1. Set(r, f) BY DEF Remove
  <2> HIDE DEF f
  <2> QED BY <1>1, <1>2, <1>3, <1>4, <2>1, LoopMoves
<1>6. Harmless
  <2> DEFINE left(m) == [members[m] EXCEPT !.status = "reassigned", !.byJob = FALSE]
  <2>1. ASSUME NEW m \in RowsOf(run[r].user, c)
        PROVE  left(m) \in Row /\ left(m).status = "reassigned"
    BY <1>1 DEF TypeOK, RowsOf, Rows, Row, MemberStatuses
  <2>2. members' = [m \in MemberIds |-> IF m \in RowsOf(run[r].user, c) THEN left(m)
                                        ELSE members[m]]
    BY DEF Remove
  <2> HIDE DEF left
  <2>3. members' \in [MemberIds -> Row \cup {None}] BY <1>1, <2>1, <2>2 DEF TypeOK
  <2>4. ASSUME NEW d \in Cohorts PROVE ByJob(d)' \subseteq ByJob(d)
    BY <2>1, <2>2 DEF ByJob, ActiveIn, Rows
  <2> QED BY <2>3, <2>4 DEF Harmless
<1>7. OthersTyped' BY <1>1 DEF Remove, UnchangedHistory, TypeOK, OthersTyped
<1> QED BY <1>5, <1>6, <1>7, MovePreserves

LEMMA FindAnyPreserves ==
    ASSUME IInv, NEW r \in Requests, NEW c, FindAny(r, c)
    PROVE  IInv'
<1>1. /\ TypeOK /\ scenario' = scenario /\ UnchangedRows /\ UnchangedHistory
      /\ run[r].at = "loop" /\ run[r] \in Run
      /\ run[r].op.name = "createBulkCohortMembers"
      /\ c \in run[r].into
  BY DEF FindAny, IInv, TypeOK, UnchangedHistory, At
<1>2. run[r].user \in Users /\ c \in Cohorts BY <1>1 DEF IInv, Placed, Run
<1>3. CASE Set(r, [run[r] EXCEPT !.at = "insert", !.cohort = c])
  <2> DEFINE f == [run[r] EXCEPT !.at = "insert", !.cohort = c]
  <2>1. f \in Run BY Zenon, <1>1, <1>2 DEF Run
  <2>2. /\ f.at = "insert" /\ f.user = run[r].user /\ f.cohort = c
        /\ f.op.name = "createBulkCohortMembers"
    BY <1>1 DEF Run
  <2>3. Placed(f) /\ \A d \in Cohorts : ~Counted(f, d) BY <1>2, <2>2 DEF Placed, Counted
  <2>4. Moves(r, f) BY <1>1, <1>3, <2>1, <2>3 DEF Moves
  <2> QED BY <1>1, <2>4, ReadPreserves
<1>4. ASSUME NEW m \in RowsOf(run[r].user, c),
             Set(r, [run[r] EXCEPT !.at = "save", !.cohort = c,
                                   !.member = m, !.entity = members[m]])
      PROVE  IInv'
  <2> DEFINE e == members[m]
             f == [run[r] EXCEPT !.at = "save", !.cohort = c, !.member = m, !.entity = e]
  <2>1. m \in MemberIds /\ e \in Row BY <1>1 DEF TypeOK, RowsOf, Rows
  <2>2. Set(r, f) BY <1>4
  <2> HIDE DEF e
  <2>3. f \in Run BY Zenon, <1>1, <1>2, <2>1 DEF Run
  <2>4. /\ f.at = "save" /\ f.user = run[r].user /\ f.cohort = c
        /\ f.member = m /\ f.entity = e /\ f.op.name = "createBulkCohortMembers"
    BY <1>1 DEF Run
  <2>5. Placed(f) /\ \A d \in Cohorts : ~Counted(f, d)
    BY <1>2, <2>1, <2>4 DEF Placed, Counted
  <2>6. Moves(r, f) BY <1>1, <2>2, <2>3, <2>5 DEF Moves
  <2> QED BY <1>1, <2>6, ReadPreserves
<1> QED BY <1>3, <1>4 DEF FindAny

\* The addition of one user to one cohort is done.
LEMMA AddedMoves ==
    ASSUME IInv, NEW r \in Requests, Added(r), scenario' = scenario,
           run[r].at \in {"insert", "save"}
    PROVE  \E f : Moves(r, f)
<1>1. run[r] \in Run /\ run[r].user \in Users /\ run[r].cohort \in Cohorts
  BY DEF IInv, TypeOK, Placed
<1> DEFINE I == run[r].into \ {run[r].cohort}
           R == run[r].results \cup {<<run[r].user, run[r].cohort, "joined">>}
           f == [run[r] EXCEPT !.at = "loop", !.into = I, !.results = R, !.cohort = None,
                               !.member = None, !.entity = None]
<1>2. Set(r, f) BY DEF Added
<1>3. f \in Run
  <2>1. /\ I \in SUBSET Cohorts
        /\ R \in SUBSET (Users \X Cohorts \X {"left", "joined"})
    BY <1>1 DEF Run
  <2> HIDE DEF I, R
  <2> QED BY Zenon, <1>1, <2>1 DEF Run
<1>4. f.at = "loop" /\ f.user = run[r].user BY <1>1 DEF Run
<1>5. Moves(r, f)
  <2> HIDE DEF f
  <2> QED BY <1>1, <1>2, <1>3, <1>4, LoopMoves
<1> QED BY <1>5

LEMMA InsertAddedPreserves ==
    ASSUME IInv, NEW r \in Requests, InsertAdded(r)
    PROVE  IInv'
<1> DEFINE row == NewRow(run[r].user, run[r].cohort, Asked(run[r].op), FALSE)
<1>1. PICK m \in MemberIds : Save(r, m, row) BY DEF InsertAdded
<1>2. TypeOK /\ scenario' = scenario /\ run[r].at = "insert" /\ Added(r)
  BY DEF InsertAdded, IInv, UnchangedHistory, At
<1>3. run[r].user \in Users /\ run[r].cohort \in Cohorts BY <1>2 DEF IInv, Placed
<1>4. Asked(run[r].op) \in MemberStatuses BY <1>2, OpTyped DEF InsertAdded, At, Loops
<1>5. row \in Row /\ row.byJob = FALSE BY <1>3, <1>4, NewRowTyped
<1>6. Harmless /\ raced' \subseteq Users \X Cohorts /\ removed' \subseteq Users
  BY <1>1, <1>2, <1>5, SaveHarmless
<1>7. OthersTyped' BY <1>2, <1>6 DEF InsertAdded, UnchangedHistory, TypeOK, OthersTyped
<1>8. PICK f : Moves(r, f) BY <1>2, AddedMoves
<1> QED BY <1>6, <1>7, <1>8, MovePreserves

LEMMA SaveAddedPreserves ==
    ASSUME IInv, NEW r \in Requests, SaveAdded(r)
    PROVE  IInv'
<1> DEFINE e == run[r].entity
           s == IF ~run[r].op.verbatim THEN "active"
                ELSE IF run[r].op.status = None THEN e.status ELSE run[r].op.status
           row == Rewritten(e, e.user, e.cohort, s)
<1>1. Save(r, run[r].member, row) BY DEF SaveAdded
<1>2. TypeOK /\ scenario' = scenario /\ run[r].at = "save" /\ Added(r)
  BY DEF SaveAdded, IInv, UnchangedHistory, At
<1>3. run[r].member \in MemberIds /\ e \in Row BY <1>2 DEF IInv, Placed
<1>4. s \in MemberStatuses
  BY <1>2, <1>3, OpTyped DEF SaveAdded, At, Loops, Row, MemberStatuses
<1>5. row \in Row /\ row.byJob = FALSE
  <2>1. e.user \in Users /\ e.cohort \in Cohorts BY <1>3 DEF Row
  <2> HIDE DEF e, s
  <2> QED BY <1>3, <1>4, <2>1 DEF Rewritten, Row, Late
<1>6. Harmless /\ raced' \subseteq Users \X Cohorts /\ removed' \subseteq Users
  BY <1>1, <1>2, <1>3, <1>5, SaveHarmless
<1>7. OthersTyped' BY <1>2, <1>6 DEF SaveAdded, UnchangedHistory, TypeOK, OthersTyped
<1>8. PICK f : Moves(r, f) BY <1>2, AddedMoves
<1> QED BY <1>6, <1>7, <1>8, MovePreserves

LEMMA BulkFailsPreserves ==
    ASSUME IInv, NEW r \in Requests, BulkFails(r)
    PROVE  IInv'
<1>1. /\ TypeOK /\ scenario' = scenario /\ UnchangedRows /\ UnchangedHistory
      /\ run[r] \in Run
  BY DEF BulkFails, IInv, TypeOK, UnchangedHistory
<1>2. PICK c \in Cohorts :
        /\ Removing(r, c) \/ Adding(r, c)
        /\ Set(r, [Skipped(r, c) EXCEPT !.errors = @ \cup {<<run[r].user, c>>}])
  BY DEF BulkFails
<1>3. run[r].user \in Users /\ run[r].at # "idle"
  BY <1>2 DEF Removing, Adding, IInv, Placed
<1> DEFINE O == run[r].out \ {c}
           I == IF Removing(r, c) THEN run[r].into ELSE run[r].into \ {c}
           g == [run[r] EXCEPT !.at = "loop", !.out = O, !.cohort = None,
                               !.member = None, !.entity = None, !.into = I]
           E == g.errors \cup {<<run[r].user, c>>}
           f == [g EXCEPT !.errors = E]
<1>4. g \in Run
  <2>1. O \in SUBSET Cohorts /\ I \in SUBSET Cohorts BY <1>1 DEF Run
  <2> HIDE DEF O, I
  <2> QED BY Zenon, <1>1, <2>1 DEF Run
<1>5. g.at = "loop" /\ g.user = run[r].user BY <1>1 DEF Run
<1>6. Set(r, f) BY <1>2 DEF Skipped
<1> HIDE DEF g
<1>7. E \in SUBSET (Users \X Cohorts) BY <1>3, <1>4 DEF Run
<1>8. f.at = "loop" /\ f.user = run[r].user BY <1>4, <1>5 DEF Run
<1>9. f \in Run
  <2> HIDE DEF E
  <2> QED BY ZenonT(60), <1>4, <1>7 DEF Run
<1>10. Moves(r, f)
  <2> HIDE DEF f
  <2> QED BY <1>1, <1>3, <1>6, <1>8, <1>9, LoopMoves
<1> QED BY <1>1, <1>10, ReadPreserves

LEMMA RepliesPreserve ==
    ASSUME IInv, NEW r \in Requests, BulkReply(r) \/ ReplyErrors(r)
    PROVE  IInv'
<1>1. /\ TypeOK /\ scenario' = scenario /\ UnchangedRows /\ UnchangedHistory
      /\ run[r] \in Run /\ run[r].at \in {"loop", "reply"}
      /\ (run[r].into # {} \/ run[r].out # {}) => run[r].at = "reply"
  BY DEF BulkReply, ReplyErrors, IInv, TypeOK, UnchangedHistory, At, UserDone
<1>2. run[r].told \in Messages \cup {None} BY <1>1 DEF Run
<1>3. PICK p \in {"reply", "done"}, t \in Messages \cup {None} :
        Set(r, [run[r] EXCEPT !.at = p, !.told = t])
  BY <1>2 DEF BulkReply, ReplyErrors, Respond, Messages
<1> DEFINE f == [run[r] EXCEPT !.at = p, !.told = t]
<1>4. f \in Run BY <1>1, <1>3, ToldTyped
<1>5. f.at = p BY <1>1 DEF Run
<1>6. Placed(f) /\ \A c \in Cohorts : ~Counted(f, c)
  BY <1>3, <1>5 DEF Placed, Counted
<1>7. Moves(r, f) BY <1>1, <1>3, <1>4, <1>6 DEF Moves
<1> QED BY <1>1, <1>7, ReadPreserves

\* Finish and JobDone.
LEMMA EndPreserves ==
    ASSUME IInv, NEW r \in Requests, Finish(r) \/ JobDone(r)
    PROVE  IInv'
<1>1. /\ TypeOK /\ scenario' = scenario /\ UnchangedRows /\ UnchangedHistory
      /\ run[r].at # "idle" /\ End(r)
  BY DEF Finish, JobDone, At, IInv, UnchangedHistory
<1> QED BY <1>1, EndMoves, ReadPreserves

-----------------------------------------------------------------------------
(* The steps of the handlers of a cohort. *)

LEMMA FindCohortPreserves ==
    ASSUME IInv, NEW r \in Requests, FindCohort(r)
    PROVE  IInv'
<1>1. /\ TypeOK /\ scenario' = scenario /\ UnchangedRows /\ erred' = erred
      /\ run[r] \in Run /\ run[r].at = "find"
      /\ run[r].op.name \in {"updateCohort", "updateCohortStatus"}
  BY DEF FindCohort, IInv, TypeOK
<1> DEFINE at == IF run[r].op.name = "updateCohort" THEN "status" ELSE "archive"
<1>2. PICK c \in run[r].op.into :
        /\ Set(r, [run[r] EXCEPT !.at = at, !.cohort = c, !.old = cohorts[c]])
        /\ unsettled' = IF Contested(r, c) THEN unsettled \cup {c} ELSE unsettled
  BY DEF FindCohort
<1>3. c \in Cohorts BY <1>1, OpTyped DEF Op
<1> DEFINE old == cohorts[c]
           f == [run[r] EXCEPT !.at = at, !.cohort = c, !.old = old]
<1>4. Set(r, f) BY <1>2
<1>5. at \in {"status", "archive"} /\ old \in CohortStatuses BY <1>1, <1>3 DEF TypeOK
<1> HIDE DEF at, old
<1>6. f \in Run BY Zenon, <1>1, <1>3, <1>5 DEF Run
<1>7. f.at = at /\ f.cohort = c /\ f.op.name # "assignStudentsToBatches"
  BY <1>1 DEF Run
<1>8. Placed(f) /\ \A d \in Cohorts : ~Counted(f, d)
  BY <1>3, <1>5, <1>7 DEF Placed, Counted
<1>9. Moves(r, f) BY <1>1, <1>4, <1>6, <1>8 DEF Moves
<1>10. OthersTyped' BY <1>1, <1>2, <1>3 DEF TypeOK, OthersTyped, UnchangedRows
<1>11. Harmless BY <1>1, RowsLeftAlone DEF UnchangedRows
<1> QED BY <1>9, <1>10, <1>11, MovePreserves

LEMMA SaveCohortPreserves ==
    ASSUME IInv, NEW r \in Requests, SaveCohort(r)
    PROVE  IInv'
<1> DEFINE c == run[r].cohort
           new == run[r].op.status
           f == [run[r] EXCEPT !.at = "members"]
<1>1. /\ TypeOK /\ scenario' = scenario /\ run[r] \in Run /\ run[r].at = "status"
      /\ run[r].op.name = "updateCohort"
      /\ UNCHANGED <<members, mapping, raced, erred, removed>>
      /\ cohorts' = [cohorts EXCEPT ![c] = new]
      /\ Set(r, f) \/ End(r)
      /\ unsettled' \in {unsettled, unsettled \cup {c}}
  BY DEF SaveCohort, IInv, TypeOK, At, End
<1>2. c \in Cohorts BY <1>1 DEF IInv, Placed
<1>3. new \in CohortStatuses BY <1>1, OpTyped
<1>4. OthersTyped' BY <1>1, <1>2, <1>3 DEF TypeOK, OthersTyped
<1>5. Harmless BY <1>1, RowsLeftAlone
<1>6. CASE Set(r, f)
  <2>1. f \in Run BY Zenon, <1>1 DEF Run
  <2>2. f.at = "members" /\ f.cohort = c /\ f.op.name = "updateCohort"
    BY <1>1 DEF Run
  <2>3. Placed(f) /\ \A d \in Cohorts : ~Counted(f, d) BY <1>2, <2>2 DEF Placed, Counted
  <2>4. Moves(r, f) BY <1>1, <1>6, <2>1, <2>3 DEF Moves
  <2> QED BY <1>4, <1>5, <2>4, MovePreserves
<1>7. CASE End(r) BY <1>1, <1>4, <1>5, <1>7, EndMoves, MovePreserves
<1> QED BY <1>1, <1>6, <1>7

LEMMA FindMembersPreserves ==
    ASSUME IInv, NEW r \in Requests, FindMembers(r)
    PROVE  IInv'
<1> DEFINE f == [run[r] EXCEPT !.at = "cascade"]
<1>1. /\ TypeOK /\ scenario' = scenario /\ UnchangedRows /\ erred' = erred
      /\ run[r] \in Run /\ run[r].at = "members" /\ run[r].op.name = "updateCohort"
      /\ Set(r, f) \/ End(r)
      /\ unsettled' \subseteq unsettled
  BY DEF FindMembers, IInv, TypeOK, At, End, Settled
<1>2. run[r].cohort \in Cohorts BY <1>1 DEF IInv, Placed
<1>3. OthersTyped' BY <1>1 DEF TypeOK, OthersTyped, UnchangedRows
<1>4. Harmless BY <1>1, RowsLeftAlone DEF UnchangedRows
<1>5. CASE Set(r, f)
  <2>1. f \in Run BY Zenon, <1>1 DEF Run
  <2>2. f.at = "cascade" /\ f.cohort = run[r].cohort /\ f.op.name = "updateCohort"
    BY <1>1 DEF Run
  <2>3. Placed(f) /\ \A d \in Cohorts : ~Counted(f, d) BY <1>2, <2>2 DEF Placed, Counted
  <2>4. Moves(r, f) BY <1>1, <1>5, <2>1, <2>3 DEF Moves
  <2> QED BY <1>3, <1>4, <2>4, MovePreserves
<1>6. CASE End(r) BY <1>1, <1>3, <1>4, <1>6, EndMoves, MovePreserves
<1> QED BY <1>1, <1>5, <1>6

LEMMA CascadePreserves ==
    ASSUME IInv, NEW r \in Requests, Cascade(r)
    PROVE  IInv'
<1>1. /\ TypeOK /\ scenario' = scenario /\ run[r].at = "cascade" /\ End(r)
      /\ run[r].op.name = "updateCohort"
      /\ UNCHANGED <<cohorts, mapping, raced, erred, removed>>
      /\ unsettled' \subseteq unsettled
  BY DEF Cascade, IInv, At, Settled
<1>2. run[r].op.status \in MemberStatuses
  BY <1>1, OpTyped DEF CohortStatuses, MemberStatuses
<1>3. Harmless
  <2> DEFINE moved(m) == [members[m] EXCEPT !.status = run[r].op.status,
                                            !.byJob = FALSE, !.late = FALSE]
  <2>1. ASSUME NEW m \in Rows PROVE moved(m) \in Row /\ moved(m).byJob = FALSE
    BY <1>1, <1>2 DEF TypeOK, Rows, Row
  <2>2. members' = [m \in MemberIds |->
            IF m \in Rows /\ members[m].cohort = run[r].cohort THEN moved(m)
            ELSE members[m]]
    BY DEF Cascade
  <2> HIDE DEF moved
  <2>3. members' \in [MemberIds -> Row \cup {None}] BY <1>1, <2>1, <2>2 DEF TypeOK
  <2>4. ASSUME NEW d \in Cohorts PROVE ByJob(d)' \subseteq ByJob(d)
    BY <2>1, <2>2 DEF ByJob, ActiveIn, Rows
  <2> QED BY <2>3, <2>4 DEF Harmless
<1>4. OthersTyped' BY <1>1 DEF TypeOK, OthersTyped
<1> QED BY <1>1, <1>3, <1>4, EndMoves, MovePreserves

LEMMA ArchivePreserves ==
    ASSUME IInv, NEW r \in Requests, Archive(r)
    PROVE  IInv'
<1> DEFINE f == [run[r] EXCEPT !.at = "purge"]
<1>1. /\ TypeOK /\ scenario' = scenario /\ run[r] \in Run /\ run[r].at = "archive"
      /\ run[r].op.name = "updateCohortStatus" /\ Set(r, f)
  BY DEF Archive, IInv, TypeOK, At, UnchangedHistory
<1>2. run[r].cohort \in Cohorts BY <1>1 DEF IInv, Placed
<1>3. OthersTyped'
  BY <1>1, <1>2 DEF Archive, UnchangedHistory, TypeOK, OthersTyped, CohortStatuses
<1>4. Harmless BY <1>1, RowsLeftAlone DEF Archive
<1>5. f \in Run BY Zenon, <1>1 DEF Run
<1>6. f.at = "purge" /\ f.cohort = run[r].cohort /\ f.op.name = "updateCohortStatus"
  BY <1>1 DEF Run
<1>7. Placed(f) /\ \A d \in Cohorts : ~Counted(f, d) BY <1>2, <1>6 DEF Placed, Counted
<1>8. Moves(r, f) BY <1>1, <1>5, <1>7 DEF Moves
<1> QED BY <1>3, <1>4, <1>8, MovePreserves

LEMMA PurgePreserves ==
    ASSUME IInv, NEW r \in Requests, Purge(r)
    PROVE  IInv'
<1>1. /\ TypeOK /\ scenario' = scenario /\ run[r].at = "purge" /\ End(r)
      /\ UNCHANGED <<cohorts, mapping, raced, erred>>
      /\ unsettled' \subseteq unsettled
  BY DEF Purge, IInv, At
<1> DEFINE gone == {m \in Rows : members[m].cohort = run[r].cohort}
<1>2. \A m \in Rows : m \in MemberIds /\ members[m] \in Row /\ members[m].user \in Users
  BY <1>1 DEF TypeOK, Rows, Row
<1>3. removed' \subseteq Users
  <2>1. removed' = removed \cup {members[m].user : m \in gone} BY DEF Purge
  <2> QED BY <1>1, <1>2, <2>1 DEF TypeOK
<1>4. Harmless
  <2>1. members' = [m \in MemberIds |-> IF m \in gone THEN None ELSE members[m]]
    BY DEF Purge
  <2>2. members' \in [MemberIds -> Row \cup {None}] BY <1>1, <2>1 DEF TypeOK
  <2>3. ASSUME NEW d \in Cohorts PROVE ByJob(d)' \subseteq ByJob(d)
    BY <2>1 DEF ByJob, ActiveIn, Rows
  <2> QED BY <2>2, <2>3 DEF Harmless
<1>5. OthersTyped' BY <1>1, <1>3 DEF TypeOK, OthersTyped
<1> QED BY <1>1, <1>4, <1>5, EndMoves, MovePreserves

LEMMA SaveStatusesPreserves ==
    ASSUME IInv, NEW r \in Requests, SaveStatuses(r)
    PROVE  IInv'
<1>1. /\ TypeOK /\ scenario' = scenario /\ run[r].at = "find" /\ End(r)
      /\ run[r].op.name = "updateCohortStatuses"
  BY DEF SaveStatuses, IInv, At
<1>2. run[r].op.status \in CohortStatuses /\ run[r].op.into \subseteq Cohorts
  BY <1>1, OpTyped DEF Op
<1>3. OthersTyped' BY <1>1, <1>2 DEF SaveStatuses, TypeOK, OthersTyped
<1>4. Harmless BY <1>1, RowsLeftAlone DEF SaveStatuses
<1> QED BY <1>1, <1>3, <1>4, EndMoves, MovePreserves

-----------------------------------------------------------------------------
(* The steps of the job. *)

LEMMA NextUserPreserves ==
    ASSUME IInv, NEW r \in Requests, NextUser(r)
    PROVE  IInv'
<1>1. /\ TypeOK /\ scenario' = scenario /\ UnchangedRows /\ UnchangedHistory
      /\ run[r].at = "loop" /\ run[r] \in Run /\ run[r].out = {}
  BY DEF NextUser, IInv, TypeOK, UnchangedHistory, At, UserDone
<1>2. PICK u \in run[r].users :
        Set(r, [run[r] EXCEPT !.user = u, !.users = @ \ {u},
                              !.into = {c \in Batches[u] : cohorts[c] = "active"}])
  BY DEF NextUser
<1> DEFINE U == run[r].users \ {u}
           I == {c \in Batches[u] : cohorts[c] = "active"}
           f == [run[r] EXCEPT !.user = u, !.users = U, !.into = I]
<1>3. Set(r, f) BY <1>2
<1>4. u \in Users /\ U \in SUBSET Users BY <1>1 DEF Run
<1>5. I \in SUBSET Cohorts BY <1>4, MembersAssumption
<1>6. f \in Run
  <2> HIDE DEF U, I
  <2> QED BY Zenon, <1>1, <1>4, <1>5 DEF Run
<1>7. f.at = "loop" /\ f.user = u BY <1>1 DEF Run
<1>8. Moves(r, f)
  <2> HIDE DEF f
  <2> QED BY <1>1, <1>3, <1>4, <1>6, <1>7, LoopMoves
<1> QED BY <1>1, <1>8, ReadPreserves

LEMMA SkipUserPreserves ==
    ASSUME IInv, NEW r \in Requests, SkipUser(r)
    PROVE  IInv'
<1>1. /\ TypeOK /\ scenario' = scenario /\ UnchangedRows /\ unsettled' = unsettled
      /\ run[r].at = "loop" /\ run[r] \in Run /\ run[r].out = {} /\ run[r].into = {}
  BY DEF SkipUser, IInv, TypeOK, At, UserDone
<1>2. PICK u \in run[r].users :
        /\ Set(r, [run[r] EXCEPT !.user = u, !.users = @ \ {u}])
        /\ erred' = erred \cup {u}
  BY DEF SkipUser
<1> DEFINE U == run[r].users \ {u}
           f == [run[r] EXCEPT !.user = u, !.users = U]
<1>3. Set(r, f) BY <1>2
<1>4. u \in Users /\ U \in SUBSET Users BY <1>1 DEF Run
<1>5. f \in Run
  <2> HIDE DEF U
  <2> QED BY Zenon, <1>1, <1>4 DEF Run
<1>6. f.at = "loop" /\ f.user = u BY <1>1 DEF Run
<1>7. Moves(r, f)
  <2> HIDE DEF f
  <2> QED BY <1>1, <1>3, <1>4, <1>5, <1>6, LoopMoves
<1>8. OthersTyped' BY <1>1, <1>2, <1>4 DEF TypeOK, OthersTyped, UnchangedRows
<1>9. Harmless BY <1>1, RowsLeftAlone DEF UnchangedRows
<1> QED BY <1>7, <1>8, <1>9, MovePreserves

\* A full batch is passed over.
LEMMA PassOverPreserves ==
    ASSUME IInv, NEW r \in Requests, NEW c, CountMembers(r, c), ~HasRoom(c)
    PROVE  IInv'
<1> DEFINE I == run[r].into \ {c}
           f == [run[r] EXCEPT !.into = I]
<1>1. /\ TypeOK /\ scenario' = scenario /\ UnchangedRows /\ UnchangedHistory
      /\ run[r].at = "loop" /\ run[r] \in Run /\ c \in run[r].into
      /\ Set(r, f)
  BY DEF CountMembers, FirstBatch, IInv, TypeOK, UnchangedHistory, At
<1>2. run[r].user \in Users BY <1>1 DEF IInv, Placed
<1>3. f \in Run
  <2>1. I \in SUBSET Cohorts BY <1>1 DEF Run
  <2> HIDE DEF I
  <2> QED BY Zenon, <1>1, <2>1 DEF Run
<1>4. f.at = "loop" /\ f.user = run[r].user BY <1>1 DEF Run
<1>5. Moves(r, f)
  <2> HIDE DEF f
  <2> QED BY <1>1, <1>2, <1>3, <1>4, LoopMoves
<1> QED BY <1>1, <1>5, ReadPreserves

\* A run that finds room in c is one more that may insert there, but then fewer
\* than Capacity members are in c, and the runs are no more than the requests.
LEMMA FindRoomPreserves ==
    ASSUME IInv, NEW r \in Requests, NEW c, CountMembers(r, c), HasRoom(c)
    PROVE  IInv'
<1> DEFINE f == [run[r] EXCEPT !.at = "exists", !.cohort = c]
<1>1. /\ TypeOK /\ scenario' = scenario /\ UnchangedRows /\ UnchangedHistory
      /\ run[r].at = "loop" /\ run[r] \in Run /\ c \in run[r].into
      /\ Set(r, f)
  BY DEF CountMembers, FirstBatch, IInv, TypeOK, UnchangedHistory, At
<1>2. run[r].user \in Users /\ c \in Cohorts BY <1>1 DEF IInv, Placed, Run
<1>3. f \in Run BY Zenon, <1>1, <1>2 DEF Run
<1>4. f.at = "exists" /\ f.user = run[r].user /\ f.cohort = c BY <1>1 DEF Run
<1>5. Placed(f) BY <1>2, <1>4 DEF Placed
<1>6. Harmless /\ OthersTyped' BY <1>1, OthersLeftAlone
<1>7. /\ run' \in [Requests -> Run']
      /\ run'[r] = f
      /\ \A q \in Requests \ {r} : run'[q] = run[q]
  BY <1>1, <1>3, RunTyped
<1>8. TypeOK' BY <1>1, <1>6, <1>7 DEF TypeOK, OthersTyped, Harmless
<1>9. \A q \in Requests : Placed(run'[q]) BY <1>5, <1>7 DEF IInv
<1>10. Cardinality(Running') <= scenario.parallel
  <2>1. Running' \subseteq Running BY <1>1, <1>7 DEF Running
  <2>2. Cardinality(Running') <= Cardinality(Running) BY <2>1, Counts, FS_Subset
  <2> QED BY <2>2, <1>1, Counts, CountsNext, Parallel DEF IInv
<1>11. ASSUME NEW d \in Cohorts PROVE Bounded(d)'
  <2>1. CASE d # c
    <3>1. Coming(d)' \subseteq Coming(d) BY <2>1, <1>4, <1>7 DEF Coming, Counted
    <3> QED BY <3>1, <1>1, <1>6, FewerBounded DEF Harmless
  <2>2. CASE d = c
    <3>1. Cardinality(Coming(c)') <= Cardinality(Running') BY CountsNext, FS_Subset
    <3>2. Cardinality(ByJob(c)) < Capacity BY Counts, MembersAssumption DEF HasRoom
    <3>3. ByJob(c)' = ByJob(c)
      BY <1>1 DEF UnchangedRows, ByJob, ActiveIn, Rows
    <3>4. Cardinality(ByJob(c)') + Cardinality(Coming(c)')
            < Capacity + scenario.parallel
      BY <3>1, <3>2, <3>3, <1>1, <1>10, Counts, CountsNext, Parallel, MembersAssumption
    <3> QED BY <2>2, <3>4, <1>1 DEF Bounded
  <2> QED BY <2>1, <2>2
<1> QED BY <1>1, <1>8, <1>9, <1>10, <1>11 DEF IInv

LEMMA FindExistingPreserves ==
    ASSUME IInv, NEW r \in Requests, FindExisting(r)
    PROVE  IInv'
<1>1. /\ TypeOK /\ scenario' = scenario /\ UnchangedRows /\ UnchangedHistory
      /\ run[r].at = "exists" /\ run[r] \in Run
      /\ run[r].op.name = "assignStudentsToBatches"
  BY DEF FindExisting, IInv, TypeOK, UnchangedHistory, At
<1>2. run[r].user \in Users /\ run[r].cohort \in Cohorts BY <1>1 DEF IInv, Placed
<1>3. CASE Set(r, [run[r] EXCEPT !.at = "loop", !.into = {}, !.cohort = None])
  <2> DEFINE f == [run[r] EXCEPT !.at = "loop", !.into = {}, !.cohort = None]
  <2>1. f \in Run BY Zenon, <1>1 DEF Run
  <2>2. f.at = "loop" /\ f.user = run[r].user BY <1>1 DEF Run
  <2>3. Moves(r, f)
    <3>1. Set(r, f) BY <1>3
    <3> HIDE DEF f
    <3> QED BY <1>1, <1>2, <2>1, <2>2, <3>1, LoopMoves
  <2> QED BY <1>1, <2>3, ReadPreserves
<1>4. CASE Set(r, [run[r] EXCEPT !.at = "insert"])
  <2> DEFINE f == [run[r] EXCEPT !.at = "insert"]
  <2>1. f \in Run BY Zenon, <1>1 DEF Run
  <2>2. /\ f.at = "insert" /\ f.user = run[r].user /\ f.cohort = run[r].cohort
        /\ f.op = run[r].op
    BY <1>1 DEF Run
  <2>3. Placed(f) BY <1>2, <2>2 DEF Placed
  <2>4. \A c \in Cohorts : Counted(f, c) => Counted(run[r], c)
    BY <1>1, <2>2 DEF Counted
  <2>5. Moves(r, f) BY <1>1, <1>4, <2>1, <2>3, <2>4 DEF Moves
  <2> QED BY <1>1, <2>5, ReadPreserves
<1> QED BY <1>3, <1>4 DEF FindExisting

\* The run that inserts was counted until then: one member more, one run less.
LEMMA InsertStudentPreserves ==
    ASSUME IInv, NEW r \in Requests, InsertStudent(r)
    PROVE  IInv'
<1> DEFINE c == run[r].cohort
           row == NewRow(run[r].user, c, "active", TRUE)
           f == [run[r] EXCEPT !.at = "activate"]
<1>1. PICK m \in MemberIds : Free(m) /\ Save(r, m, row) BY DEF InsertStudent
<1>2. /\ TypeOK /\ scenario' = scenario /\ run[r].at = "insert" /\ run[r] \in Run
      /\ run[r].op.name = "assignStudentsToBatches" /\ Set(r, f)
      /\ UNCHANGED <<cohorts, mapping, unsettled, erred>>
  BY DEF InsertStudent, IInv, TypeOK, UnchangedHistory, At
<1>3. run[r].user \in Users /\ c \in Cohorts BY <1>2 DEF IInv, Placed
<1>4. row \in Row BY <1>3, NewRowTyped DEF MemberStatuses
<1>5. row.cohort = c /\ row.user = run[r].user BY DEF NewRow
<1>6. members' = [members EXCEPT ![m] = row] /\ m \notin Rows
  BY <1>1 DEF Save, Free, Rows
<1>7. members' \in [MemberIds -> Row \cup {None}] BY <1>2, <1>4, <1>6 DEF TypeOK
<1> HIDE DEF row
<1>8. OthersTyped'
  <2>1. <<row.user, row.cohort>> \in Users \X Cohorts BY <1>3, <1>5
  <2>2. raced' \subseteq Users \X Cohorts BY <2>1, <1>1, <1>2 DEF Save, TypeOK
  <2>3. removed' = removed BY <1>1, <1>6 DEF Save, Losing
  <2> QED BY <2>2, <2>3, <1>2 DEF TypeOK, OthersTyped
<1>9. f \in Run BY Zenon, <1>2 DEF Run
<1>10. f.at = "activate" /\ f.user = run[r].user /\ f.cohort = c BY <1>2 DEF Run
<1>11. Placed(f) /\ \A d : ~Counted(f, d) BY <1>3, <1>10 DEF Placed, Counted
<1>12. /\ run' \in [Requests -> Run']
       /\ run'[r] = f
       /\ \A q \in Requests \ {r} : run'[q] = run[q]
  BY <1>2, <1>9, RunTyped
<1>13. TypeOK' BY <1>2, <1>7, <1>8, <1>12 DEF TypeOK, OthersTyped
<1>14. \A q \in Requests : Placed(run'[q]) BY <1>11, <1>12 DEF IInv
<1>15. Cardinality(Running') <= scenario.parallel
  <2>1. Running' \subseteq Running BY <1>2, <1>12 DEF Running
  <2>2. Cardinality(Running') <= Cardinality(Running) BY <2>1, Counts, FS_Subset
  <2> QED BY <2>2, <1>2, Counts, CountsNext, Parallel DEF IInv
<1>16. ASSUME NEW d \in Cohorts PROVE Bounded(d)'
  <2>1. CASE d # c
    <3>1. Coming(d)' \subseteq Coming(d) BY <1>11, <1>12 DEF Coming
    <3>2. ByJob(d)' \subseteq ByJob(d)
      BY <2>1, <1>2, <1>5, <1>6 DEF TypeOK, ByJob, ActiveIn, Rows
    <3> QED BY <3>1, <3>2, <1>2, FewerBounded
  <2>2. CASE d = c
    <3>1. Coming(d)' \subseteq Coming(d) \ {r} /\ r \in Coming(d)
      BY <2>2, <1>2, <1>11, <1>12 DEF Coming, Counted
    <3>2. Cardinality(ByJob(d)') <= Cardinality(ByJob(d)) + 1
      <4>1. ByJob(d)' \subseteq ByJob(d) \cup {m}
        <5>1. \A n \in MemberIds \ {m} : members'[n] = members[n]
          BY <1>2, <1>6 DEF TypeOK
        <5> QED BY <5>1 DEF ByJob, ActiveIn, Rows
      <4>2. /\ IsFiniteSet(ByJob(d) \cup {m})
            /\ Cardinality(ByJob(d) \cup {m}) <= Cardinality(ByJob(d)) + 1
        BY Counts, OneMoreAtMost
      <4>3. Cardinality(ByJob(d)') <= Cardinality(ByJob(d) \cup {m})
        BY <4>1, <4>2, FS_Subset
      <4>4. /\ Cardinality(ByJob(d)) \in Nat /\ Cardinality(ByJob(d)') \in Nat
            /\ Cardinality(ByJob(d) \cup {m}) \in Nat
        BY <4>2, Counts, CountsNext, FS_CardinalityType
      <4> QED BY <4>2, <4>3, <4>4
    <3>3. Cardinality(Coming(d)') <= Cardinality(Coming(d)) - 1
      <4>1. IsFiniteSet(Coming(d)) BY Counts
      <4>2. /\ IsFiniteSet(Coming(d) \ {r})
            /\ Cardinality(Coming(d) \ {r}) = Cardinality(Coming(d)) - 1
        BY <3>1, <4>1, FS_RemoveElement
      <4>3. Cardinality(Coming(d)') <= Cardinality(Coming(d) \ {r})
        BY <3>1, <4>2, FS_Subset
      <4> QED BY <4>2, <4>3
    <3>4. Bounded(d) BY DEF IInv
    <3>5. Cardinality(ByJob(d)') + Cardinality(Coming(d)')
            < Capacity + scenario.parallel
      BY <3>2, <3>3, <3>4, <1>2, Counts, CountsNext, Parallel, MembersAssumption
      DEF Bounded
    <3> QED BY <3>5, <1>2 DEF Bounded
  <2> QED BY <2>1, <2>2
<1> QED BY <1>2, <1>13, <1>14, <1>15, <1>16 DEF IInv

LEMMA ActivatePreserves ==
    ASSUME IInv, NEW r \in Requests, Activate(r)
    PROVE  IInv'
<1> DEFINE f == [run[r] EXCEPT !.at = "loop", !.into = {}, !.cohort = None]
<1>1. /\ TypeOK /\ scenario' = scenario /\ run[r].at = "activate" /\ run[r] \in Run
      /\ Set(r, f)
  BY DEF Activate, IInv, TypeOK, UnchangedHistory, At
<1>2. run[r].user \in Users BY <1>1 DEF IInv, Placed
<1>3. f \in Run BY Zenon, <1>1 DEF Run
<1>4. f.at = "loop" /\ f.user = run[r].user BY <1>1 DEF Run
<1>5. Moves(r, f)
  <2> HIDE DEF f
  <2> QED BY <1>1, <1>2, <1>3, <1>4, LoopMoves
<1>6. OthersTyped' BY <1>1, <1>2 DEF Activate, UnchangedHistory, TypeOK, OthersTyped
<1>7. Harmless BY <1>1, RowsLeftAlone DEF Activate
<1> QED BY <1>5, <1>6, <1>7, MovePreserves

LEMMA JobFailsPreserves ==
    ASSUME IInv, NEW r \in Requests, JobFails(r)
    PROVE  IInv'
<1>1. /\ TypeOK /\ scenario' = scenario /\ UnchangedRows /\ unsettled' = unsettled
      /\ run[r] \in Run
      /\ erred' = erred \cup {run[r].user}
  BY DEF JobFails, IInv, TypeOK
<1>2. PICK c \in run[r].into :
        /\ run[r].at \in {"loop", "exists", "insert", "activate"}
        /\ Set(r, [run[r] EXCEPT !.at = "loop", !.into = @ \ {c}, !.cohort = None])
  BY DEF JobFails
<1>3. run[r].user \in Users BY <1>2 DEF IInv, Placed
<1> DEFINE I == run[r].into \ {c}
           f == [run[r] EXCEPT !.at = "loop", !.into = I, !.cohort = None]
<1>4. Set(r, f) BY <1>2
<1>5. f \in Run
  <2>1. I \in SUBSET Cohorts BY <1>1 DEF Run
  <2> HIDE DEF I
  <2> QED BY Zenon, <1>1, <2>1 DEF Run
<1>6. f.at = "loop" /\ f.user = run[r].user BY <1>1 DEF Run
<1>7. Moves(r, f)
  <2> HIDE DEF f
  <2> QED BY <1>1, <1>2, <1>3, <1>4, <1>5, <1>6, LoopMoves
<1>8. OthersTyped' BY <1>1, <1>3 DEF TypeOK, OthersTyped, UnchangedRows
<1>9. Harmless BY <1>1, RowsLeftAlone DEF UnchangedRows
<1> QED BY <1>7, <1>8, <1>9, MovePreserves

LEMMA AbortPreserves ==
    ASSUME IInv, NEW r \in Requests, Abort(r)
    PROVE  IInv'
<1>1. /\ TypeOK /\ scenario' = scenario /\ UnchangedRows /\ run[r].at # "idle"
      /\ run[r] \in Run /\ End(r)
  BY DEF Abort, IInv, TypeOK
<1>2. erred' \subseteq Users BY <1>1 DEF Abort, TypeOK, Run
<1>3. unsettled' \subseteq Cohorts BY <1>1 DEF Abort, TypeOK, IInv, Placed
<1>4. OthersTyped' BY <1>1, <1>2, <1>3 DEF TypeOK, OthersTyped, UnchangedRows
<1>5. Harmless BY <1>1, RowsLeftAlone DEF UnchangedRows
<1> QED BY <1>1, <1>4, <1>5, EndMoves, MovePreserves

-----------------------------------------------------------------------------
(* The theorems. *)

LEMMA InitEstablishes == Init => IInv
<1> SUFFICES ASSUME Init PROVE IInv OBVIOUS
<1>1. TypeOK BY IdleTyped DEF Init, TypeOK, CohortStatuses
<1>2. ASSUME NEW r \in Requests PROVE Placed(run[r])
  BY DEF Init, Placed, Idle
<1>3. Running = {} BY DEF Init, Running, Idle
<1>4. Cardinality(Running) <= scenario.parallel
  BY <1>1, <1>3, Parallel, FS_EmptySet
<1>5. ASSUME NEW c \in Cohorts PROVE Bounded(c)
  <2>1. ByJob(c) = {} BY DEF Init, ByJob, ActiveIn, Rows
  <2>2. Coming(c) = {} BY <1>3, Counts
  <2>3. Cardinality(ByJob(c)) = 0 /\ Cardinality(Coming(c)) = 0
    BY <2>1, <2>2, FS_EmptySet
  <2> QED BY <1>1, <2>3, Parallel, MembersAssumption DEF Bounded
<1> QED BY <1>1, <1>2, <1>4, <1>5 DEF IInv

LEMMA StutterPreserves ==
    ASSUME IInv, UNCHANGED vars
    PROVE  IInv'
<1>1. scenario' = scenario /\ Run' = Run BY RunSame DEF vars
<1>2. TypeOK' BY <1>1 DEF IInv, TypeOK, vars
<1>3. \A r \in Requests : Placed(run'[r]) BY DEF IInv, vars
<1>4. Running' = Running BY DEF Running, vars
<1>5. ASSUME NEW c \in Cohorts PROVE Bounded(c)'
  <2>1. ByJob(c)' = ByJob(c) BY DEF ByJob, ActiveIn, Rows, vars
  <2>2. Coming(c)' = Coming(c) BY DEF Coming, vars
  <2> QED BY <1>1, <2>1, <2>2, FewerBounded
<1> QED BY <1>1, <1>2, <1>3, <1>4, <1>5 DEF IInv

LEMMA NextPreserves == IInv /\ [Next]_vars => IInv'
<1> SUFFICES ASSUME IInv, [Next]_vars PROVE IInv' OBVIOUS
<1>1. ASSUME NEW r \in Requests, NEW o \in scenario.ops, Start(r, o) PROVE IInv'
  BY <1>1, StartPreserves
<1>2. ASSUME NEW r \in Requests,
             \/ Check(r) \/ Insert(r) \/ FindMember(r) \/ SaveMember(r)
             \/ DeleteMember(r)
      PROVE  IInv'
  BY <1>2, CheckPreserves, InsertPreserves, FindMemberPreserves,
     SaveMemberPreserves, DeleteMemberPreserves
<1>3. ASSUME NEW r \in Requests,
             \/ BulkUser(r) \/ InsertAdded(r) \/ SaveAdded(r) \/ BulkFails(r)
             \/ BulkReply(r) \/ ReplyErrors(r) \/ Finish(r)
      PROVE  IInv'
  BY <1>3, BulkUserPreserves, InsertAddedPreserves, SaveAddedPreserves,
     BulkFailsPreserves, RepliesPreserve, EndPreserves
<1>4. ASSUME NEW r \in Requests, NEW c \in Cohorts,
             Remove(r, c) \/ FindAny(r, c) \/ CountMembers(r, c)
      PROVE  IInv'
  BY <1>4, RemovePreserves, FindAnyPreserves, PassOverPreserves, FindRoomPreserves
<1>5. ASSUME NEW r \in Requests,
             \/ FindCohort(r) \/ SaveCohort(r) \/ FindMembers(r) \/ Cascade(r)
             \/ Archive(r) \/ Purge(r) \/ SaveStatuses(r)
      PROVE  IInv'
  BY <1>5, FindCohortPreserves, SaveCohortPreserves, FindMembersPreserves,
     CascadePreserves, ArchivePreserves, PurgePreserves, SaveStatusesPreserves
<1>6. ASSUME NEW r \in Requests,
             \/ NextUser(r) \/ SkipUser(r) \/ FindExisting(r) \/ InsertStudent(r)
             \/ Activate(r) \/ JobFails(r) \/ JobDone(r) \/ Abort(r)
      PROVE  IInv'
  BY <1>6, NextUserPreserves, SkipUserPreserves, FindExistingPreserves,
     InsertStudentPreserves, ActivatePreserves, JobFailsPreserves, EndPreserves,
     AbortPreserves
<1>7. CASE UNCHANGED vars BY <1>7, StutterPreserves
<1> QED BY <1>1, <1>2, <1>3, <1>4, <1>5, <1>6, <1>7 DEF Next

\* The invariant behind the others: at every statement of every handler a request
\* knows what its next one needs (Placed), and each batch is within its bound.
THEOREM Invariance == Spec => []IInv
BY InitEstablishes, NextPreserves, PTL DEF Spec

\* The handlers of memberships and cohorts and the job keep their rows well-formed.
THEOREM TypeCorrect == Spec => []TypeOK
<1>1. IInv => TypeOK BY DEF IInv
<1> QED BY <1>1, Invariance, PTL

\* However many runs of assignStudentsToBatches overlap, with each other and with
\* the handlers, the job's own members exceed a batch's capacity by less than the
\* number of requests at once.
THEOREM CapacityRespected == Spec => []JobRespectsCapacity
<1>1. ASSUME IInv PROVE JobRespectsCapacity
  <2>1. ASSUME NEW c \in Cohorts
        PROVE  Cardinality({m \in ActiveIn(c) : members[m].byJob})
                 < Capacity + scenario.parallel
    <3>1. Bounded(c) BY <1>1 DEF IInv
    <3>2. Cardinality(ByJob(c)) < Capacity + scenario.parallel
      BY <1>1, <3>1, Counts, Parallel, MembersAssumption DEF Bounded, IInv
    <3> QED BY <3>2 DEF ByJob
  <2> QED BY <2>1 DEF JobRespectsCapacity
<1> QED BY <1>1, Invariance, PTL

-----------------------------------------------------------------------------
(* Memberships that are not twice, users whom the job has placed, and statuses that reach the
   members. *)

\* The memberships of u in c that no update has given another user, cohort or id.
Fixed(u, c) ==
    {m \in Rows : members[m].user = u /\ members[m].cohort = c /\ ~members[m].moved}

\* What a request f that is about to write a row knows of the rows.
Knows(f) ==
    /\ f.at = "activate" => f.op.name = "assignStudentsToBatches"
    /\ f.member # None => f.at \in {"save", "delete"}
    /\ f.at = "save" /\ f.op.name = "createBulkCohortMembers" =>
          f.entity.user = f.user /\ f.entity.cohort = f.cohort
    /\ f.at = "save" /\ ~f.entity.moved => f.entity.year = f.cohort
    /\ <<f.user, f.cohort>> \notin raced =>
          /\ f.at = "insert" => Fixed(f.user, f.cohort) = {}
          /\ f.at = "save" /\ ~f.entity.moved => Fixed(f.user, f.cohort) \subseteq {f.member}

\* A membership that no update has moved refers to the year of its own cohort.
YearsFit == \A m \in Rows : ~members[m].moved => members[m].year = members[m].cohort

Distinct == DuplicatesNeedRaces /\ YearsFit /\ \A r \in Requests : Knows(run[r])

\* A run of the job has inserted u and is about to activate u.
Bringing(u) == \E q \in Requests : run[q].at = "activate" /\ run[q].user = u

Placing ==
    \A u \in Users :
        /\ mapping[u] = "active" \/ Bringing(u) =>
              u \in removed \/ \E m \in Rows : members[m].user = u
        /\ (\E m \in Rows : members[m].user = u /\ members[m].byJob) =>
              mapping[u] = "active" \/ u \in erred \/ Bringing(u)

\* What is said of the members of c once a change of its status has reached them.
Reached(c) ==
    cohorts[c] \in {"archived", "inactive"} =>
        \A m \in Rows : members[m].cohort = c /\ members[m].status = "active" => members[m].late

\* The places of a change of a cohort that it has found, and those at which the cohort has its
\* new status and the members do not.
Found == {"status", "archive", "members", "cascade", "purge"}
Halfway == {"members", "cascade", "purge"}

\* A change f of a cohort has it to itself, or the cohort is unsettled.
Follows(f) ==
    /\ f.at \in Found =>
          f.op.name \in {"updateCohort", "updateCohortStatus"} /\ f.cohort \in f.op.into
    /\ f.at = "status" => f.cohort \in unsettled \/ cohorts[f.cohort] = f.old
    /\ f.at \in {"members", "cascade"} =>
          f.cohort \in unsettled \/ cohorts[f.cohort] = f.op.status

Alone ==
    \A q, s \in Requests :
        q # s /\ run[q].at \in Found /\ run[s].at \in Found /\ run[q].cohort = run[s].cohort =>
            run[q].cohort \in unsettled

Cascading ==
    /\ Alone /\ \A r \in Requests : Follows(run[r])
    /\ \A c \in Cohorts :
         \/ c \in unsettled \/ Reached(c)
         \/ \E q \in Requests : run[q].at \in Halfway /\ run[q].cohort = c

RowsInv == Distinct /\ Placing /\ Cascading

\* Requests other than r stay as they are; a start may take away that they ran alone.
Alike(f, g) ==
    /\ g.at = f.at /\ g.op = f.op /\ g.user = f.user /\ g.cohort = f.cohort
    /\ g.member = f.member /\ g.entity = f.entity /\ g.old = f.old
Others(r) == \A q \in Requests \ {r} : Alike(run[q], run'[q])

\* Request f is not about to write or delete a row.
Released(f) ==
    /\ f.member = None /\ f.at \notin {"insert", "save", "delete"}
    /\ f.at = "activate" => f.op.name = "assignStudentsToBatches"

\* No row is added, and none changes its user, cohort or year.
Thinned ==
    \A m \in MemberIds :
        members'[m] = None
        \/ (m \in Rows /\ members'[m].user = members[m].user
                       /\ members'[m].cohort = members[m].cohort
                       /\ members'[m].year = members[m].year
                       /\ members'[m].moved = members[m].moved)

LEMMA ThinnedRows ==
    ASSUME Thinned
    PROVE  /\ Rows' \subseteq Rows
           /\ \A m \in Rows' : /\ members'[m].user = members[m].user
                              /\ members'[m].cohort = members[m].cohort
                              /\ members'[m].year = members[m].year
                              /\ members'[m].moved = members[m].moved
           /\ \A u, c : Fixed(u, c)' \subseteq Fixed(u, c)
BY DEF Thinned, Rows, Fixed

\* What another request knows of the rows, it knows still if they are no more.
LEMMA KnowsStill ==
    ASSUME NEW q \in Requests, Knows(run[q]), Alike(run[q], run'[q]), raced' = raced,
           \A u, c : Fixed(u, c)' \subseteq Fixed(u, c)
    PROVE  Knows(run[q])'
BY DEF Knows, Alike

LEMMA DistinctKept ==
    ASSUME Distinct, NEW r \in Requests, Others(r), raced' = raced, Thinned,
           Released(run'[r])
    PROVE  Distinct'
<1>1. /\ Rows' \subseteq Rows
      /\ \A m \in Rows' : /\ members'[m].user = members[m].user
                         /\ members'[m].cohort = members[m].cohort
                         /\ members'[m].year = members[m].year
                         /\ members'[m].moved = members[m].moved
      /\ \A u, c : Fixed(u, c)' \subseteq Fixed(u, c)
  BY ThinnedRows
<1>2. DuplicatesNeedRaces' /\ YearsFit'
  BY <1>1 DEF Distinct, DuplicatesNeedRaces, YearsFit
<1>3. ASSUME NEW q \in Requests PROVE Knows(run[q])'
  <2>1. CASE q = r
    BY <2>1 DEF Knows, Released
  <2>2. CASE q # r
    <3>1. Alike(run[q], run'[q]) /\ Knows(run[q])
      BY <2>2 DEF Others, Distinct
    <3> QED BY <3>1, <1>1, KnowsStill
  <2> QED BY <2>1, <2>2
<1> QED BY <1>2, <1>3 DEF Distinct

\* Request r has looked for the membership of its user in its cohort.
LEMMA DistinctLooks ==
    ASSUME Distinct, NEW r \in Requests, Others(r), raced' = raced, members' = members,
           NEW f, f = run'[r], NEW u, NEW c, f.user = u, f.cohort = c,
           \/ f.at = "insert" /\ f.member = None /\ RowsOf(u, c) = {}
           \/ /\ f.at \in {"save", "delete"}
              /\ f.op.name = "createBulkCohortMembers" =>
                    f.entity.user = u /\ f.entity.cohort = c
              /\ ~f.entity.moved => f.member \in Fixed(u, c) /\ f.entity = members[f.member]
    PROVE  Distinct'
<1>1. Rows' = Rows /\ \A v, d : Fixed(v, d)' = Fixed(v, d)
  BY DEF Rows, Fixed
<1>2. DuplicatesNeedRaces' /\ YearsFit'
  BY <1>1 DEF Distinct, DuplicatesNeedRaces, YearsFit
<1>3. Knows(f)'
  <2>1. CASE f.at = "insert"
    <3>1. Fixed(u, c) = {}
      BY <2>1 DEF Fixed, RowsOf, Distinct, YearsFit
    <3> QED BY <1>1, <2>1, <3>1 DEF Knows
  <2>2. CASE f.at # "insert"
    <3>1. ASSUME ~f.entity.moved
          PROVE  /\ f.entity.year = c
                 /\ <<u, c>> \notin raced => Fixed(u, c) \subseteq {f.member}
      BY <2>2, <3>1 DEF Fixed, Distinct, DuplicatesNeedRaces, YearsFit
    <3> QED BY <1>1, <2>2, <3>1 DEF Knows
  <2> QED BY <2>1, <2>2
<1>4. ASSUME NEW q \in Requests, q # r PROVE Knows(run[q])'
  <2>1. Alike(run[q], run'[q]) /\ Knows(run[q])
    BY <1>4 DEF Others, Distinct
  <2> QED BY <2>1, <1>1, KnowsStill
<1>5. Knows(run[r])'
  BY <1>3 DEF Knows
<1> QED BY <1>2, <1>4, <1>5 DEF Distinct

\* Request r writes the row that it has looked for, or one that an update moves: whoever has
\* looked for it as well has raced.
LEMMA DistinctSaves ==
    ASSUME Distinct, NEW r \in Requests, Others(r), Released(run'[r]),
           members \in [MemberIds -> Row \cup {None}],
           NEW m \in MemberIds, NEW row \in Row, Save(r, m, row),
           NEW u, NEW c, row.user = u, row.cohort = c,
           ~row.moved => /\ row.year = c
                         /\ <<u, c>> \notin raced => Fixed(u, c) \subseteq {m}
    PROVE  Distinct'
<1>0. m # None /\ row # None
  BY MembersAssumption DEF Row
<1>1. /\ members'[m] = row /\ \A n \in MemberIds \ {m} : members'[n] = members[n]
      /\ Rows' = Rows \cup {m}
  BY <1>0 DEF Save, Rows
<1>2. /\ \A n \in Rows' : n # m => n \in Rows /\ members'[n] = members[n]
      /\ raced \subseteq raced'
      /\ \A q \in Requests \ {r} : AboutToWrite(q, u, c) => <<u, c>> \in raced'
  BY <1>1 DEF Save, Rows
<1>3. /\ Fixed(u, c)' \subseteq Fixed(u, c) \cup {m}
      /\ \A v, d : v # u \/ d # c => Fixed(v, d)' \subseteq Fixed(v, d)
      /\ row.moved => Fixed(u, c)' \subseteq Fixed(u, c)
  BY <1>1, <1>2 DEF Fixed
<1>4. DuplicatesNeedRaces'
  <2> SUFFICES ASSUME NEW k \in Rows', NEW n \in Rows', k # n,
                      members'[k].user = members'[n].user,
                      members'[k].cohort = members'[n].cohort,
                      ~members'[k].moved, ~members'[n].moved
               PROVE  <<members'[k].user, members'[k].cohort>> \in raced'
    BY DEF DuplicatesNeedRaces
  <2>1. CASE k # m /\ n # m
    BY <2>1, <1>2 DEF Distinct, DuplicatesNeedRaces
  <2>2. ASSUME NEW j \in Rows', j # m, members'[j].user = u, members'[j].cohort = c,
               ~members'[j].moved, ~row.moved
        PROVE  <<u, c>> \in raced'
    <3>1. j \in Fixed(u, c) BY <2>2, <1>2 DEF Fixed
    <3> QED BY <2>2, <3>1, <1>2
  <2>3. CASE k = m
    BY <2>2, <2>3, <1>1
  <2>4. CASE n = m
    BY <2>2, <2>4, <1>1
  <2> QED BY <2>1, <2>3, <2>4
<1>5. YearsFit'
  BY <1>1, <1>2 DEF Distinct, YearsFit
<1>6. ASSUME NEW q \in Requests, q # r PROVE Knows(run[q])'
  <2>1. Alike(run[q], run'[q]) /\ Knows(run[q])
    BY <1>6 DEF Others, Distinct
  <2>3. PICK v, d : v = run[q].user /\ d = run[q].cohort OBVIOUS
  <2>2. ASSUME <<v, d>> \notin raced', run[q].at \in {"insert", "save"}
        PROVE  <<v, d>> \notin raced /\ Fixed(v, d)' \subseteq Fixed(v, d)
    <3>1. v # u \/ d # c
      BY <2>2, <2>3, <1>2, <1>6 DEF AboutToWrite
    <3> QED BY <2>2, <3>1, <1>2, <1>3
  <2>4. /\ run'[q].at = run[q].at /\ run'[q].op = run[q].op /\ run'[q].entity = run[q].entity
        /\ run'[q].user = v /\ run'[q].cohort = d /\ run'[q].member = run[q].member
    BY <2>1, <2>3 DEF Alike
  <2> QED BY <2>1, <2>2, <2>3, <2>4 DEF Knows
<1>7. Knows(run[r])'
  BY DEF Knows, Released
<1> QED BY <1>4, <1>5, <1>6, <1>7 DEF Distinct

\* A step that brings nobody, and that loses a user only to removed or erred.
LEMMA PlacingKept ==
    ASSUME Placing, NEW r \in Requests, Others(r), mapping' = mapping,
           erred \subseteq erred', removed \subseteq removed',
           \A m \in Rows : \/ m \in Rows' /\ members'[m].user = members[m].user
                           \/ members[m].user \in removed',
           \A m \in Rows' : members'[m].byJob =>
                m \in Rows /\ members[m].byJob /\ members'[m].user = members[m].user,
           run[r].at = "activate" => run[r].user \in erred',
           run'[r].at # "activate"
    PROVE  Placing'
<1> SUFFICES ASSUME NEW u \in Users
             PROVE  /\ mapping'[u] = "active" \/ Bringing(u)' =>
                          u \in removed' \/ \E m \in Rows' : members'[m].user = u
                    /\ (\E m \in Rows' : members'[m].user = u /\ members'[m].byJob) =>
                          mapping'[u] = "active" \/ u \in erred' \/ Bringing(u)'
  BY DEF Placing
<1>1. Bringing(u)' => Bringing(u)
  BY DEF Bringing, Others, Alike
<1>2. Bringing(u) => Bringing(u)' \/ u \in erred'
  BY DEF Bringing, Others, Alike
<1>3. mapping'[u] = "active" \/ Bringing(u)' =>
        u \in removed' \/ \E m \in Rows' : members'[m].user = u
  BY <1>1 DEF Placing
<1>4. (\E m \in Rows' : members'[m].user = u /\ members'[m].byJob) =>
        mapping'[u] = "active" \/ u \in erred' \/ Bringing(u)'
  BY <1>2 DEF Placing
<1> QED BY <1>3, <1>4

\* A step of a request that is no change of a cohort, or that leaves one unsettled.
LEMMA CascadingKept ==
    ASSUME Cascading, NEW r \in Requests, Others(r), cohorts' = cohorts,
           unsettled \subseteq unsettled',
           \A m \in Rows' : members'[m].status = "active" /\ ~members'[m].late =>
                \/ cohorts[members'[m].cohort] = "active"
                \/ /\ m \in Rows /\ members[m].status = "active" /\ ~members[m].late
                   /\ members'[m].cohort = members[m].cohort,
           run[r].at \in Halfway => run[r].cohort \in unsettled',
           run'[r].at \notin Found
    PROVE  Cascading'
<1>1. Alone'
  BY DEF Cascading, Alone, Others, Alike
<1>2. ASSUME NEW q \in Requests PROVE Follows(run[q])'
  <2>1. CASE q = r
    BY <2>1 DEF Follows, Found
  <2>2. CASE q # r
    <3>1. Alike(run[q], run'[q]) /\ Follows(run[q])
      BY <2>2 DEF Others, Cascading
    <3> QED BY <3>1 DEF Alike, Follows
  <2> QED BY <2>1, <2>2
<1>3. ASSUME NEW c \in Cohorts
      PROVE  \/ c \in unsettled' \/ Reached(c)'
             \/ \E q \in Requests : run'[q].at \in Halfway /\ run'[q].cohort = c
  <2>1. CASE c \in unsettled
    BY <2>1
  <2>2. CASE Reached(c)
    BY <2>2 DEF Reached
  <2>3. ASSUME NEW q \in Requests, run[q].at \in Halfway, run[q].cohort = c
        PROVE  \/ c \in unsettled'
               \/ \E s \in Requests : run'[s].at \in Halfway /\ run'[s].cohort = c
    BY <2>3 DEF Others, Alike
  <2> QED BY <2>1, <2>2, <2>3 DEF Cascading
<1> QED BY <1>1, <1>2, <1>3 DEF Cascading

-----------------------------------------------------------------------------
\* Request r reads or ends, is not about to write, and changes no row.
Tame(r) ==
    /\ Others(r) /\ Released(run'[r]) /\ run'[r].at \notin Found \cup {"activate"}
    /\ UNCHANGED <<members, cohorts, mapping, raced, removed>>
    /\ unsettled \subseteq unsettled' /\ erred \subseteq erred'
    /\ run[r].at \in Halfway => run[r].cohort \in unsettled'
    /\ run[r].at = "activate" => run[r].user \in erred'

LEMMA TameKeeps ==
    ASSUME RowsInv, NEW r \in Requests, Tame(r)
    PROVE  RowsInv'
<1>1. Thinned /\ Rows' = Rows
  BY DEF Thinned, Tame, Rows
<1>2. Distinct'
  BY <1>1, DistinctKept DEF RowsInv, Tame
<1>3. Placing'
  BY <1>1, PlacingKept DEF RowsInv, Tame
<1>4. Cascading'
  BY <1>1, CascadingKept DEF RowsInv, Tame
<1> QED BY <1>2, <1>3, <1>4 DEF RowsInv

LEMMA SetDoes ==
    ASSUME TypeOK, NEW r \in Requests, NEW f, Set(r, f)
    PROVE  run'[r] = f /\ Others(r)
BY DEF TypeOK, Set, Others, Alike

LEMMA MoveIsTame ==
    ASSUME TypeOK, RowsInv, NEW r \in Requests, NEW f, Set(r, f),
           f.at \in {"idle", "check", "find", "loop", "reply", "done", "exists"},
           \/ f.member = None
           \/ f.member = run[r].member /\ run[r].at \notin {"save", "delete"},
           UnchangedRows, unsettled \subseteq unsettled', erred \subseteq erred',
           run[r].at \in Halfway => run[r].cohort \in unsettled',
           run[r].at = "activate" => run[r].user \in erred'
    PROVE  Tame(r)
<1>1. run'[r] = f /\ Others(r)
  BY SetDoes
<1>2. Knows(run[r])
  BY DEF RowsInv, Distinct
<1>3. Released(run'[r]) /\ run'[r].at \notin Found \cup {"activate"}
  BY <1>1, <1>2 DEF Knows, Released, Found
<1> QED BY <1>1, <1>3 DEF Tame, UnchangedRows

\* The same of a step that tells the history nothing.
LEMMA QuietMoveIsTame ==
    ASSUME TypeOK, RowsInv, NEW r \in Requests, NEW f, Set(r, f),
           f.at \in {"idle", "check", "find", "loop", "reply", "done", "exists"},
           \/ f.member = None
           \/ f.member = run[r].member /\ run[r].at \notin {"save", "delete"},
           UnchangedRows, UnchangedHistory,
           run[r].at \notin Halfway, run[r].at # "activate"
    PROVE  Tame(r)
BY MoveIsTame DEF UnchangedHistory

LEMMA EndIsTame ==
    ASSUME TypeOK, RowsInv, NEW r \in Requests, End(r), UnchangedRows, UnchangedHistory,
           run[r].at \notin Halfway, run[r].at # "activate"
    PROVE  Tame(r)
<1>1. Idle.at = "idle" /\ Idle.member = None
  BY DEF Idle
<1> QED BY <1>1, QuietMoveIsTame DEF End

LEMMA StartIsTame ==
    ASSUME TypeOK, NEW r \in Requests, NEW o \in scenario.ops, Start(r, o)
    PROVE  Tame(r)
<1>1. /\ run'[r].at = First(o) /\ run'[r].member = None
  BY DEF Start, Idle
<1>2. First(o) \in {"check", "loop", "find"}
  BY DEF First
<1>3. ASSUME NEW q \in Requests \ {r} PROVE Alike(run[q], run'[q])
  <2>1. run'[q] = run[q] \/ run'[q] = [run[q] EXCEPT !.alone = FALSE]
    BY DEF Start
  <2>2. run[q] \in Run BY DEF TypeOK
  <2> QED BY <2>1, <2>2 DEF Alike, Run
<1>4. run[r].at = "idle"
  BY DEF Start
<1> QED
  BY <1>1, <1>2, <1>3, <1>4
  DEF Start, Tame, Others, Released, Found, Halfway, UnchangedRows, UnchangedHistory

\* The steps of the two loops that look for nobody.
LEMMA BulkIsTame ==
    ASSUME TypeOK, RowsInv, NEW r \in Requests,
           BulkUser(r) \/ BulkFails(r) \/ BulkReply(r) \/ ReplyErrors(r) \/ Finish(r)
    PROVE  Tame(r)
<1>0. run[r] \in Run /\ UnchangedRows /\ UnchangedHistory
  BY DEF TypeOK, BulkUser, BulkFails, BulkReply, ReplyErrors, Finish
<1>1. CASE BulkUser(r)
  <2>1. PICK u \in run[r].users :
          Set(r, [run[r] EXCEPT !.user = u, !.users = @ \ {u},
                                !.out = run[r].op.out, !.into = run[r].op.into])
    BY <1>1 DEF BulkUser
  <2> DEFINE f == [run[r] EXCEPT !.user = u, !.users = @ \ {u},
                                 !.out = run[r].op.out, !.into = run[r].op.into]
  <2>2. f.at = run[r].at /\ f.member = run[r].member BY <1>0 DEF Run
  <2>3. run[r].at = "loop" BY <1>1 DEF BulkUser, At
  <2>4. Set(r, f) BY <2>1
  <2> HIDE DEF f
  <2> QED BY <1>0, <2>2, <2>3, <2>4, QuietMoveIsTame DEF Halfway
<1>2. CASE BulkFails(r)
  <2>1. PICK c \in Cohorts :
          /\ Removing(r, c) \/ Adding(r, c)
          /\ Set(r, [Skipped(r, c) EXCEPT !.errors = @ \cup {<<run[r].user, c>>}])
    BY <1>2 DEF BulkFails
  <2> DEFINE f == [Skipped(r, c) EXCEPT !.errors = @ \cup {<<run[r].user, c>>}]
  <2>2. f.at = "loop" /\ f.member = None BY <1>0 DEF Run, Skipped
  <2>3. run[r].at \in {"loop", "insert", "save"} BY <2>1 DEF Removing, Adding
  <2>4. Set(r, f) BY <2>1
  <2> HIDE DEF f
  <2> QED BY <1>0, <2>2, <2>3, <2>4, QuietMoveIsTame DEF Halfway
<1>3. CASE BulkReply(r) \/ ReplyErrors(r)
  <2>0. run[r].told \in Messages \cup {None} BY <1>0 DEF Run
  <2>1. PICK p \in {"reply", "done"}, t \in Messages \cup {None} :
          Set(r, [run[r] EXCEPT !.at = p, !.told = t])
    BY <1>3, <2>0 DEF BulkReply, ReplyErrors, Respond, Messages
  <2> DEFINE f == [run[r] EXCEPT !.at = p, !.told = t]
  <2>2. f.at = p /\ f.member = run[r].member BY <1>0 DEF Run
  <2>3. run[r].at \in {"loop", "reply"} /\ Set(r, f)
    BY <1>3, <2>1 DEF BulkReply, ReplyErrors, At
  <2> HIDE DEF f
  <2> QED BY <1>0, <2>2, <2>3, QuietMoveIsTame DEF Halfway
<1>4. CASE Finish(r)
  <2>1. End(r) /\ run[r].at = "done" BY <1>4 DEF Finish
  <2> QED BY <1>0, <2>1, EndIsTame DEF Halfway
<1> QED BY <1>1, <1>2, <1>3, <1>4

LEMMA JobIsTame ==
    ASSUME TypeOK, RowsInv, NEW r \in Requests,
           \/ NextUser(r) \/ SkipUser(r) \/ JobDone(r) \/ \E c \in Cohorts : CountMembers(r, c)
    PROVE  Tame(r)
<1>0. run[r] \in Run /\ UnchangedRows /\ run[r].at = "loop"
  BY DEF TypeOK, NextUser, SkipUser, JobDone, CountMembers, At
<1>1. CASE NextUser(r)
  <2>1. PICK u \in run[r].users :
          Set(r, [run[r] EXCEPT !.user = u, !.users = @ \ {u},
                                !.into = {c \in Batches[u] : cohorts[c] = "active"}])
    BY <1>1 DEF NextUser
  <2> DEFINE f == [run[r] EXCEPT !.user = u, !.users = @ \ {u},
                                 !.into = {c \in Batches[u] : cohorts[c] = "active"}]
  <2>2. f.at = run[r].at /\ f.member = run[r].member BY <1>0 DEF Run
  <2>3. Set(r, f) /\ UnchangedHistory BY <1>1, <2>1 DEF NextUser
  <2> HIDE DEF f
  <2> QED BY <1>0, <2>2, <2>3, QuietMoveIsTame DEF Halfway
<1>2. CASE SkipUser(r)
  <2>1. PICK u \in run[r].users :
          /\ Set(r, [run[r] EXCEPT !.user = u, !.users = @ \ {u}])
          /\ erred' = erred \cup {u}
    BY <1>2 DEF SkipUser
  <2> DEFINE f == [run[r] EXCEPT !.user = u, !.users = @ \ {u}]
  <2>2. f.at = run[r].at /\ f.member = run[r].member BY <1>0 DEF Run
  <2>3. Set(r, f) /\ unsettled' = unsettled BY <1>2, <2>1 DEF SkipUser
  <2> HIDE DEF f
  <2> QED BY <1>0, <2>1, <2>2, <2>3, MoveIsTame DEF Halfway
<1>3. CASE JobDone(r)
  BY <1>0, <1>3, EndIsTame DEF JobDone, Halfway
<1>4. ASSUME NEW c \in Cohorts, CountMembers(r, c) PROVE Tame(r)
  <2> DEFINE f == [run[r] EXCEPT !.at = "exists", !.cohort = c]
             g == [run[r] EXCEPT !.into = @ \ {c}]
  <2>1. /\ f.at = "exists" /\ f.member = run[r].member
        /\ g.at = run[r].at /\ g.member = run[r].member
    BY <1>0 DEF Run
  <2>2. Set(r, f) \/ Set(r, g) BY <1>4 DEF CountMembers
  <2>3. UnchangedHistory BY <1>4 DEF CountMembers
  <2> HIDE DEF f, g
  <2>4. CASE Set(r, f) BY <1>0, <2>1, <2>3, <2>4, QuietMoveIsTame DEF Halfway
  <2>5. CASE Set(r, g) BY <1>0, <2>1, <2>3, <2>5, QuietMoveIsTame DEF Halfway
  <2> QED BY <2>2, <2>4, <2>5
<1> QED BY <1>1, <1>2, <1>3, <1>4

\* The job has met an error on the user of a run that fails or dies.
LEMMA FailureIsTame ==
    ASSUME TypeOK, RowsInv, \A q \in Requests : Placed(run[q]),
           NEW r \in Requests, JobFails(r) \/ Abort(r)
    PROVE  Tame(r)
<1>0. run[r] \in Run /\ UnchangedRows /\ Knows(run[r]) /\ Placed(run[r])
  BY DEF TypeOK, JobFails, Abort, RowsInv, Distinct
<1>1. CASE JobFails(r)
  <2>1. PICK c \in run[r].into :
          /\ run[r].at \in {"loop", "exists", "insert", "activate"}
          /\ Set(r, [run[r] EXCEPT !.at = "loop", !.into = @ \ {c}, !.cohort = None])
    BY <1>1 DEF JobFails
  <2> DEFINE f == [run[r] EXCEPT !.at = "loop", !.into = @ \ {c}, !.cohort = None]
  <2>2. f.at = "loop" /\ f.member = run[r].member BY <1>0 DEF Run
  <2>3. Set(r, f) /\ unsettled' = unsettled /\ erred' = erred \cup {run[r].user}
    BY <1>1, <2>1 DEF JobFails
  <2> HIDE DEF f
  <2> QED BY <1>0, <2>1, <2>2, <2>3, MoveIsTame DEF Halfway
<1>2. CASE Abort(r)
  <2>1. End(r) /\ Idle.at = "idle" /\ Idle.member = None BY <1>2 DEF Abort, Idle
  <2>2. /\ unsettled \subseteq unsettled'
        /\ run[r].at \in Halfway => run[r].cohort \in unsettled'
    BY <1>2 DEF Abort, Halfway
  <2>3. /\ erred \subseteq erred'
        /\ run[r].at = "activate" => run[r].user \in erred'
    <3>1. run[r].at = "activate" =>
            run[r].op.name = "assignStudentsToBatches" /\ run[r].user # None
      BY <1>0, MembersAssumption DEF Knows, Placed
    <3> QED BY <1>2, <3>1 DEF Abort
  <2> QED BY <1>0, <2>1, <2>2, <2>3, MoveIsTame DEF End
<1> QED BY <1>1, <1>2

-----------------------------------------------------------------------------
(* Requests that look for a membership, and those that write the one that they looked for. *)

LEMMA LooksKeep ==
    ASSUME RowsInv, NEW r \in Requests, Others(r), UnchangedRows, UnchangedHistory,
           run[r].at \notin Halfway \cup {"activate"},
           NEW f, f = run'[r], NEW u, NEW c, f.user = u, f.cohort = c,
           \/ f.at = "insert" /\ f.member = None /\ RowsOf(u, c) = {}
           \/ /\ f.at \in {"save", "delete"}
              /\ f.op.name = "createBulkCohortMembers" =>
                    f.entity.user = u /\ f.entity.cohort = c
              /\ ~f.entity.moved => f.member \in Fixed(u, c) /\ f.entity = members[f.member]
    PROVE  RowsInv'
<1>1. /\ UNCHANGED <<members, cohorts, mapping, raced, removed, unsettled, erred>>
      /\ Rows' = Rows
  BY DEF UnchangedRows, UnchangedHistory, Rows
<1>2. run'[r].at \in {"insert", "save", "delete"}
  OBVIOUS
<1>3. Distinct'
  BY <1>1, DistinctLooks DEF RowsInv
<1>4. Placing'
  BY <1>1, <1>2, PlacingKept DEF RowsInv
<1>5. Cascading'
  BY <1>1, <1>2, CascadingKept DEF RowsInv, Found
<1> QED BY <1>3, <1>4, <1>5 DEF RowsInv

LEMMA CheckKeeps ==
    ASSUME TypeOK, RowsInv, NEW r \in Requests, Check(r)
    PROVE  RowsInv'
<1>1. /\ run[r] \in Run /\ UnchangedRows /\ UnchangedHistory
      /\ run[r].at = "check" /\ Knows(run[r])
  BY DEF TypeOK, Check, At, RowsInv, Distinct
<1>2. PICK u \in run[r].op.users, c \in run[r].op.into :
        Set(r, IF RowsOf(u, c) # {} THEN Idle
               ELSE [run[r] EXCEPT !.at = "insert", !.user = u, !.cohort = c])
  BY DEF Check
<1>3. CASE RowsOf(u, c) # {}
  BY <1>1, <1>2, <1>3, EndIsTame, TameKeeps DEF End, Halfway
<1>4. CASE RowsOf(u, c) = {}
  <2> DEFINE f == [run[r] EXCEPT !.at = "insert", !.user = u, !.cohort = c]
  <2>1. f.at = "insert" /\ f.user = u /\ f.cohort = c /\ f.member = run[r].member
    BY <1>1 DEF Run
  <2>2. Set(r, f) BY <1>2, <1>4
  <2> HIDE DEF f
  <2>3. run'[r] = f /\ Others(r) BY <2>2, SetDoes
  <2>4. f.member = None BY <1>1, <2>1 DEF Knows
  <2> QED BY <1>1, <1>4, <2>1, <2>3, <2>4, LooksKeep DEF Halfway
<1> QED BY <1>3, <1>4

LEMMA FindMemberKeeps ==
    ASSUME TypeOK, RowsInv, NEW r \in Requests, FindMember(r)
    PROVE  RowsInv'
<1>1. run[r] \in Run /\ UnchangedRows /\ UnchangedHistory /\ run[r].at = "find"
  BY DEF TypeOK, FindMember
<1>2. CASE End(r)
  BY <1>1, <1>2, EndIsTame, TameKeeps DEF Halfway
<1>3. ASSUME NEW m \in Rows, NEW k \in MemberIds, NEW u \in Users, NEW c \in Cohorts,
             Set(r, Finding(r, m, k, u, c)),
             run[r].op.name # "createBulkCohortMembers"
      PROVE  RowsInv'
  <2> DEFINE f == Finding(r, m, k, u, c)
  <2>0. members[m] \in Row BY DEF TypeOK, Rows
  <2>1. /\ f.at \in {"save", "delete"} /\ f.member = k /\ f.op = run[r].op
        /\ f.user = u /\ f.cohort = c
        /\ f.entity = [members[m] EXCEPT !.moved = @ \/ k # m
                         \/ u # members[m].user \/ c # members[m].cohort]
    BY <1>1 DEF Run, Finding
  <2> DEFINE gone == k # m \/ u # members[m].user \/ c # members[m].cohort
             e == [members[m] EXCEPT !.moved = @ \/ gone]
  <2>7. e.moved = (members[m].moved \/ gone)
    BY <2>0 DEF Row
  <2>8. ~e.moved => members[m].moved = e.moved /\ ~gone
    <3>1. ASSUME ~e.moved PROVE ~gone /\ ~members[m].moved BY <2>7, <3>1
    <3> QED BY <2>0, <3>1, <2>7 DEF Row
  <2>9. ~e.moved => e = members[m]
    BY <2>0, <2>8 DEF Row
  <2>2. ~f.entity.moved =>
          /\ k = m /\ u = members[m].user /\ c = members[m].cohort
          /\ ~members[m].moved /\ f.entity = members[m]
    BY <2>1, <2>7, <2>9
  <2>3. ~f.entity.moved => f.member \in Fixed(u, c) /\ f.entity = members[f.member]
    BY <2>1, <2>2 DEF Fixed
  <2>4. Set(r, f) BY <1>3
  <2> HIDE DEF f
  <2>5. run'[r] = f /\ Others(r) BY <2>4, SetDoes
  <2> QED BY <1>1, <1>3, <2>1, <2>3, <2>5, LooksKeep DEF Halfway
<1>4. run[r].op.name # "createBulkCohortMembers" BY DEF FindMember
<1> QED BY <1>2, <1>3, <1>4, FindMemberDoes

LEMMA FindAnyKeeps ==
    ASSUME TypeOK, RowsInv, NEW r \in Requests, NEW c \in Cohorts, FindAny(r, c)
    PROVE  RowsInv'
<1>1. /\ run[r] \in Run /\ UnchangedRows /\ UnchangedHistory
      /\ run[r].at = "loop" /\ Knows(run[r])
  BY DEF TypeOK, FindAny, At, RowsInv, Distinct
<1>2. CASE /\ RowsOf(run[r].user, c) = {}
           /\ Set(r, [run[r] EXCEPT !.at = "insert", !.cohort = c])
  <2> DEFINE f == [run[r] EXCEPT !.at = "insert", !.cohort = c]
  <2>1. /\ f.at = "insert" /\ f.user = run[r].user /\ f.cohort = c
        /\ f.member = run[r].member
    BY <1>1 DEF Run
  <2>2. Set(r, f) BY <1>2
  <2> HIDE DEF f
  <2>3. run'[r] = f /\ Others(r) BY <2>2, SetDoes
  <2>4. f.member = None BY <1>1, <2>1 DEF Knows
  <2> QED BY <1>1, <1>2, <2>1, <2>3, <2>4, LooksKeep DEF Halfway
<1>3. ASSUME NEW m \in RowsOf(run[r].user, c),
             Set(r, [run[r] EXCEPT !.at = "save", !.cohort = c,
                                   !.member = m, !.entity = members[m]])
      PROVE  RowsInv'
  <2> DEFINE f == [run[r] EXCEPT !.at = "save", !.cohort = c,
                                 !.member = m, !.entity = members[m]]
  <2>1. /\ f.at = "save" /\ f.user = run[r].user /\ f.cohort = c
        /\ f.member = m /\ f.entity = members[m]
    BY <1>1 DEF Run
  <2>2. Set(r, f) BY <1>3
  <2> HIDE DEF f
  <2>3. run'[r] = f /\ Others(r) BY <2>2, SetDoes
  <2>4. /\ f.entity.user = run[r].user /\ f.entity.cohort = c
        /\ ~f.entity.moved => m \in Fixed(run[r].user, c)
    BY <2>1 DEF RowsOf, Fixed
  <2> QED BY <1>1, <1>3, <2>1, <2>3, <2>4, LooksKeep DEF Halfway
<1> QED BY <1>2, <1>3 DEF FindAny

LEMMA FindExistingKeeps ==
    ASSUME TypeOK, RowsInv, NEW r \in Requests, FindExisting(r)
    PROVE  RowsInv'
<1>1. /\ run[r] \in Run /\ UnchangedRows /\ UnchangedHistory
      /\ run[r].at = "exists" /\ Knows(run[r])
  BY DEF TypeOK, FindExisting, At, RowsInv, Distinct
<1> DEFINE f == [run[r] EXCEPT !.at = "loop", !.into = {}, !.cohort = None]
           g == [run[r] EXCEPT !.at = "insert"]
<1>2. /\ f.at = "loop" /\ f.member = run[r].member
      /\ g.at = "insert" /\ g.member = run[r].member
      /\ g.user = run[r].user /\ g.cohort = run[r].cohort
  BY <1>1 DEF Run
<1>3. Set(r, IF RowsOf(run[r].user, run[r].cohort) # {} THEN f ELSE g)
  BY DEF FindExisting
<1> HIDE DEF f, g
<1>4. CASE RowsOf(run[r].user, run[r].cohort) # {}
  <2>1. Set(r, f) BY <1>3, <1>4
  <2> QED BY <1>1, <1>2, <2>1, QuietMoveIsTame, TameKeeps DEF Halfway
<1>5. CASE RowsOf(run[r].user, run[r].cohort) = {}
  <2>1. Set(r, g) BY <1>3, <1>5
  <2>2. run'[r] = g /\ Others(r) BY <2>1, SetDoes
  <2>3. g.member = None BY <1>1, <1>2 DEF Knows
  <2> QED BY <1>1, <1>2, <1>5, <2>2, <2>3, LooksKeep DEF Halfway
<1> QED BY <1>4, <1>5

\* A handler, not the job, writes the membership of u in c, which it has looked for, or which
\* is one that an update moves.
LEMMA SavesKeep ==
    ASSUME TypeOK, RowsInv, NEW r \in Requests, Others(r), Released(run'[r]),
           run'[r].at \in {"idle", "loop"}, run[r].at \in {"insert", "save"},
           UNCHANGED <<cohorts, mapping>>, UnchangedHistory,
           NEW m \in MemberIds, NEW row \in Row, Save(r, m, row),
           NEW u, NEW c, row.user = u, row.cohort = c,
           row.byJob = FALSE, row.late = Late(c),
           ~row.moved => /\ row.year = c
                         /\ <<u, c>> \notin raced => Fixed(u, c) \subseteq {m}
    PROVE  RowsInv'
<1>3. members \in [MemberIds -> Row \cup {None}] BY DEF TypeOK
<1>4. Distinct'
  BY <1>3, DistinctSaves DEF RowsInv
<1>5. /\ members'[m] = row /\ \A n \in MemberIds \ {m} : members'[n] = members[n]
      /\ Rows' = Rows \cup {m}
  <2>1. row # None BY MembersAssumption
  <2>2. members'[m] = row /\ \A n \in MemberIds \ {m} : members'[n] = members[n]
    BY <1>3 DEF Save
  <2> QED BY <2>1, <2>2 DEF Rows
<1>6. removed \subseteq removed' /\ (m \in Rows /\ members[m].user # u =>
                                     members[m].user \in removed')
  BY DEF Save, Losing
<1>7. UNCHANGED <<unsettled, erred>>
  BY DEF UnchangedHistory
<1>8. Placing'
  <2>1. \A n \in Rows : \/ n \in Rows' /\ members'[n].user = members[n].user
                       \/ members[n].user \in removed'
    BY <1>5, <1>6 DEF Rows
  <2>2. \A n \in Rows' : members'[n].byJob =>
          n \in Rows /\ members[n].byJob /\ members'[n].user = members[n].user
    BY <1>5 DEF Rows
  <2> QED BY <1>6, <1>7, <2>1, <2>2, PlacingKept DEF RowsInv
<1>9. Cascading'
  <2>1. \A n \in Rows' : members'[n].status = "active" /\ ~members'[n].late =>
            \/ cohorts[members'[n].cohort] = "active"
            \/ /\ n \in Rows /\ members[n].status = "active" /\ ~members[n].late
               /\ members'[n].cohort = members[n].cohort
    BY <1>5 DEF Rows, Late
  <2> QED BY <1>7, <2>1, CascadingKept DEF RowsInv, Halfway, Found
<1> QED BY <1>4, <1>8, <1>9 DEF RowsInv

LEMMA AddedDoes ==
    ASSUME TypeOK, NEW r \in Requests, End(r) \/ Added(r)
    PROVE  Others(r) /\ Released(run'[r]) /\ run'[r].at \in {"idle", "loop"}
<1>1. CASE End(r)
  BY <1>1, SetDoes DEF End, Idle, Released
<1>2. CASE Added(r)
  <2> DEFINE f == [run[r] EXCEPT !.at = "loop", !.into = @ \ {run[r].cohort},
                     !.results = @ \cup {<<run[r].user, run[r].cohort, "joined">>},
                     !.cohort = None, !.member = None, !.entity = None]
  <2>1. f.at = "loop" /\ f.member = None
    BY DEF TypeOK, Run
  <2>2. Set(r, f) BY <1>2 DEF Added
  <2> HIDE DEF f
  <2> QED BY <2>1, <2>2, SetDoes DEF Released
<1> QED BY <1>1, <1>2

LEMMA InsertsKeep ==
    ASSUME TypeOK, RowsInv, \A q \in Requests : Placed(run[q]),
           NEW r \in Requests, Insert(r) \/ InsertAdded(r)
    PROVE  RowsInv'
<1>1. PICK u, c, o : u = run[r].user /\ c = run[r].cohort /\ o = run[r].op
  OBVIOUS
<1>2. /\ run[r].at = "insert" /\ Knows(run[r])
      /\ End(r) \/ Added(r)
      /\ UNCHANGED <<cohorts, mapping>> /\ UnchangedHistory
  BY DEF Insert, InsertAdded, At, RowsInv, Distinct
<1>3. PICK m \in MemberIds : Free(m) /\ Save(r, m, NewRow(u, c, Asked(o), FALSE))
  BY <1>1 DEF Insert, InsertAdded
<1>4. u \in Users /\ c \in Cohorts
  BY <1>1, <1>2 DEF Placed
<1>5. Asked(o) \in MemberStatuses
  <2>1. run[r].op.name \in Singles \cup Loops
    BY DEF Insert, InsertAdded, At, Singles, Loops
  <2> QED BY <1>1, <2>1, OpTyped
<1> DEFINE row == NewRow(u, c, Asked(o), FALSE)
<1>6. /\ row \in Row /\ row.user = u /\ row.cohort = c /\ row.year = c
      /\ row.byJob = FALSE /\ row.late = Late(c)
  BY <1>4, <1>5 DEF NewRow, Row, Late
<1>7. <<u, c>> \notin raced => Fixed(u, c) \subseteq {m}
  BY <1>1, <1>2 DEF Knows
<1> HIDE DEF row
<1> QED BY <1>2, <1>3, <1>6, <1>7, AddedDoes, SavesKeep DEF row

\* The entity found by request r is saved, for user v in cohort d.
LEMMA SavesEntity ==
    ASSUME TypeOK, RowsInv, \A q \in Requests : Placed(run[q]),
           NEW r \in Requests, run[r].at = "save", End(r) \/ Added(r),
           UNCHANGED <<cohorts, mapping>>, UnchangedHistory,
           NEW v, NEW d, v = run[r].user, d = run[r].cohort, NEW s \in MemberStatuses,
           NEW e, e = run[r].entity, Save(r, run[r].member, Rewritten(e, v, d, s))
    PROVE  RowsInv'
<1>1. /\ run[r].member \in MemberIds /\ e \in Row /\ v \in Users /\ d \in Cohorts
      /\ Knows(run[r])
  BY DEF Placed, RowsInv, Distinct
<1> DEFINE row == Rewritten(e, v, d, s)
<1>2. /\ row \in Row /\ row.user = v /\ row.cohort = d /\ row.year = e.year
      /\ row.moved = e.moved /\ row.byJob = FALSE /\ row.late = Late(d)
  BY <1>1 DEF Rewritten, Row, Late
<1>3. ~row.moved => /\ row.year = d
                    /\ <<v, d>> \notin raced => Fixed(v, d) \subseteq {run[r].member}
  BY <1>1, <1>2 DEF Knows
<1>4. Save(r, run[r].member, row)
  OBVIOUS
<1> HIDE DEF row
<1> QED BY <1>1, <1>2, <1>3, <1>4, AddedDoes, SavesKeep

LEMMA SaveMemberKeeps ==
    ASSUME TypeOK, RowsInv, \A q \in Requests : Placed(run[q]),
           NEW r \in Requests, SaveMember(r)
    PROVE  RowsInv'
<1> DEFINE e == run[r].entity
           s == IF run[r].op.status = None THEN e.status ELSE run[r].op.status
<1>1. /\ run[r].at = "save" /\ End(r) /\ run[r].op.name \in Singles \cup Loops
      /\ UNCHANGED <<cohorts, mapping>> /\ UnchangedHistory
      /\ Save(r, run[r].member, Rewritten(e, run[r].user, run[r].cohort, s))
  BY DEF SaveMember, At, Singles
<1>2. e \in Row
  BY <1>1 DEF Placed
<1>3. s \in MemberStatuses
  BY <1>1, <1>2, OpTyped DEF Row
<1> HIDE DEF s
<1> QED BY <1>1, <1>3, SavesEntity

LEMMA SaveAddedKeeps ==
    ASSUME TypeOK, RowsInv, \A q \in Requests : Placed(run[q]),
           NEW r \in Requests, SaveAdded(r)
    PROVE  RowsInv'
<1> DEFINE e == run[r].entity
           s == IF ~run[r].op.verbatim THEN "active"
                ELSE IF run[r].op.status = None THEN e.status ELSE run[r].op.status
<1>1. /\ run[r].at = "save" /\ Added(r) /\ run[r].op.name = "createBulkCohortMembers"
      /\ UNCHANGED <<cohorts, mapping>> /\ UnchangedHistory
      /\ Save(r, run[r].member, Rewritten(e, e.user, e.cohort, s))
  BY DEF SaveAdded, At
<1>2. e \in Row /\ e.user = run[r].user /\ e.cohort = run[r].cohort
  BY <1>1 DEF Placed, RowsInv, Distinct, Knows
<1>3. s \in MemberStatuses
  BY <1>1, <1>2, OpTyped DEF MemberStatuses, Row, Loops
<1> HIDE DEF s
<1> QED BY <1>1, <1>2, <1>3, SavesEntity

-----------------------------------------------------------------------------
(* The job puts a user into a batch, and activates the user. *)

LEMMA InsertStudentKeeps ==
    ASSUME TypeOK, RowsInv, \A q \in Requests : Placed(run[q]),
           NEW r \in Requests, InsertStudent(r)
    PROVE  RowsInv'
<1> DEFINE u == run[r].user
           c == run[r].cohort
           row == NewRow(u, c, "active", TRUE)
           f == [run[r] EXCEPT !.at = "activate"]
<1>1. /\ run[r].at = "insert" /\ run[r].op.name = "assignStudentsToBatches"
      /\ Set(r, f)
      /\ UNCHANGED <<cohorts, mapping, unsettled, erred>>
      /\ run[r] \in Run /\ Knows(run[r])
      /\ members \in [MemberIds -> Row \cup {None}]
  BY DEF InsertStudent, At, UnchangedHistory, TypeOK, RowsInv, Distinct
<1>2. PICK m \in MemberIds : Free(m) /\ Save(r, m, row)
  BY DEF InsertStudent
<1>3. u \in Users /\ c \in Cohorts
  BY <1>1 DEF Placed
<1>4. /\ row \in Row /\ row.user = u /\ row.cohort = c /\ row.late = Late(c)
      /\ row.year = c
  BY <1>3 DEF NewRow, Row, Late, MemberStatuses
<1>5. f.at = "activate" /\ f.op = run[r].op /\ f.user = u /\ f.member = None
  BY <1>1 DEF Run, Knows
<1> HIDE DEF row, f
<1>6. run'[r] = f /\ Others(r)
  BY <1>1, SetDoes
<1>7. Released(run'[r])
  BY <1>1, <1>5, <1>6 DEF Released
<1>8. Distinct'
  <2>1. <<u, c>> \notin raced => Fixed(u, c) \subseteq {m}
    BY <1>1 DEF Knows
  <2> QED BY <1>1, <1>2, <1>4, <1>6, <1>7, <2>1, DistinctSaves DEF RowsInv
<1>9. /\ members'[m] = row /\ \A n \in MemberIds \ {m} : members'[n] = members[n]
      /\ Rows' = Rows \cup {m} /\ m \notin Rows /\ removed' = removed
  <2>1. row # None BY <1>4, MembersAssumption
  <2>2. members'[m] = row /\ \A n \in MemberIds \ {m} : members'[n] = members[n]
    BY <1>1, <1>2 DEF Save
  <2>3. removed' = removed BY <1>2 DEF Save, Losing, Free, Rows
  <2> QED BY <1>2, <2>1, <2>2, <2>3 DEF Rows, Free
<1>10. Placing'
  <2> SUFFICES ASSUME NEW v \in Users
               PROVE  /\ mapping'[v] = "active" \/ Bringing(v)' =>
                            v \in removed' \/ \E n \in Rows' : members'[n].user = v
                      /\ (\E n \in Rows' : members'[n].user = v /\ members'[n].byJob) =>
                            mapping'[v] = "active" \/ v \in erred' \/ Bringing(v)'
    BY DEF Placing
  <2>1. CASE v = u
    <3>1. Bringing(v)' BY <2>1, <1>5, <1>6 DEF Bringing
    <3>2. m \in Rows' /\ members'[m].user = v BY <2>1, <1>4, <1>9
    <3> QED BY <3>1, <3>2
  <2>2. CASE v # u
    <3>1. Bringing(v)' <=> Bringing(v)
      BY <2>2, <1>1, <1>5, <1>6 DEF Bringing, Others, Alike
    <3>2. \A n \in Rows : n \in Rows' /\ members'[n] = members[n]
      BY <1>9 DEF Rows
    <3>3. \A n \in Rows' : members'[n].user = v => n \in Rows /\ members'[n] = members[n]
      BY <2>2, <1>4, <1>9 DEF Rows
    <3> QED BY <1>1, <1>9, <3>1, <3>2, <3>3 DEF RowsInv, Placing
  <2> QED BY <2>1, <2>2
<1>11. Cascading'
  <2>1. \A n \in Rows' : members'[n].status = "active" /\ ~members'[n].late =>
            \/ cohorts[members'[n].cohort] = "active"
            \/ /\ n \in Rows /\ members[n].status = "active" /\ ~members[n].late
               /\ members'[n].cohort = members[n].cohort
    BY <1>4, <1>9 DEF Rows, Late
  <2> QED BY <1>1, <1>5, <1>6, <2>1, CascadingKept DEF RowsInv, Halfway, Found
<1> QED BY <1>8, <1>10, <1>11 DEF RowsInv

LEMMA ActivateKeeps ==
    ASSUME TypeOK, RowsInv, \A q \in Requests : Placed(run[q]),
           NEW r \in Requests, Activate(r)
    PROVE  RowsInv'
<1> DEFINE u == run[r].user
           f == [run[r] EXCEPT !.at = "loop", !.into = {}, !.cohort = None]
<1>1. /\ run[r].at = "activate" /\ Set(r, f)
      /\ mapping' = [mapping EXCEPT ![u] = "active"]
      /\ UNCHANGED <<members, cohorts, raced, removed, unsettled, erred>>
      /\ run[r] \in Run /\ Knows(run[r]) /\ u \in Users
      /\ mapping \in [Users -> {"pending", "active"}]
  BY DEF Activate, At, UnchangedHistory, TypeOK, RowsInv, Distinct, Placed
<1>2. f.at = "loop" /\ f.member = None
  BY <1>1 DEF Run, Knows
<1> HIDE DEF f
<1>3. run'[r] = f /\ Others(r)
  BY <1>1, SetDoes
<1>4. Released(run'[r]) /\ Thinned /\ Rows' = Rows
  BY <1>1, <1>2, <1>3 DEF Released, Thinned, Rows
<1>5. Distinct'
  BY <1>1, <1>3, <1>4, DistinctKept DEF RowsInv
<1>6. Placing'
  <2> SUFFICES ASSUME NEW v \in Users
               PROVE  /\ mapping'[v] = "active" \/ Bringing(v)' =>
                            v \in removed' \/ \E n \in Rows' : members'[n].user = v
                      /\ (\E n \in Rows' : members'[n].user = v /\ members'[n].byJob) =>
                            mapping'[v] = "active" \/ v \in erred' \/ Bringing(v)'
    BY DEF Placing
  <2>1. CASE v = u
    <3>1. mapping'[v] = "active" /\ Bringing(v) BY <2>1, <1>1 DEF Bringing
    <3> QED BY <1>1, <1>4, <3>1 DEF RowsInv, Placing
  <2>2. CASE v # u
    <3>1. Bringing(v)' <=> Bringing(v)
      BY <2>2, <1>1, <1>2, <1>3 DEF Bringing, Others, Alike
    <3>2. mapping'[v] = mapping[v] BY <2>2, <1>1
    <3> QED BY <1>1, <1>4, <3>1, <3>2 DEF RowsInv, Placing
  <2> QED BY <2>1, <2>2
<1>7. Cascading'
  BY <1>1, <1>2, <1>3, <1>4, CascadingKept DEF RowsInv, Halfway, Found
<1> QED BY <1>5, <1>6, <1>7 DEF RowsInv

-----------------------------------------------------------------------------
(* Requests that take memberships away. *)

LEMMA DeleteMemberKeeps ==
    ASSUME TypeOK, RowsInv, \A q \in Requests : Placed(run[q]),
           NEW r \in Requests, DeleteMember(r)
    PROVE  RowsInv'
<1>1. /\ run[r].at = "delete" /\ End(r) /\ run[r].member \in MemberIds
      /\ members' = [members EXCEPT ![run[r].member] = None]
      /\ removed' = removed \cup Losing(run[r].member, None)
      /\ UNCHANGED <<cohorts, mapping, raced, unsettled, erred>>
      /\ Knows(run[r]) /\ members \in [MemberIds -> Row \cup {None}]
  BY DEF DeleteMember, At, UnchangedHistory, TypeOK, RowsInv, Distinct, Placed
<1>2. Idle.at = "idle" /\ Idle.member = None
  BY DEF Idle
<1>3. run'[r] = Idle /\ Others(r)
  BY <1>1, SetDoes DEF End
<1>4. /\ members'[run[r].member] = None
      /\ \A n \in MemberIds \ {run[r].member} : members'[n] = members[n]
  BY <1>1
<1>5. Released(run'[r]) /\ Thinned
  BY <1>2, <1>3, <1>4 DEF Released, Thinned, Rows
<1>6. Rows' = Rows \ {run[r].member}
  BY <1>4 DEF Rows
<1>7. Distinct'
  BY <1>1, <1>3, <1>5, DistinctKept DEF RowsInv
<1>8. \A n \in Rows \ {run[r].member} : members'[n] = members[n]
  BY <1>4 DEF Rows
<1>9. \A n \in Rows : \/ n \in Rows' /\ members'[n].user = members[n].user
                      \/ members[n].user \in removed'
  <2>1. \A n \in Rows : members[n].user # None
    BY <1>1, MembersAssumption DEF Rows, Row
  <2> QED BY <1>1, <1>6, <1>8, <2>1 DEF Losing
<1>10. Placing'
  BY <1>1, <1>2, <1>3, <1>6, <1>8, <1>9, PlacingKept DEF RowsInv
<1>11. Cascading'
  BY <1>1, <1>2, <1>3, <1>6, <1>8, CascadingKept DEF RowsInv, Halfway, Found
<1> QED BY <1>7, <1>10, <1>11 DEF RowsInv

LEMMA RemoveKeeps ==
    ASSUME TypeOK, RowsInv, NEW r \in Requests, NEW c \in Cohorts, Remove(r, c)
    PROVE  RowsInv'
<1> DEFINE f == [run[r] EXCEPT !.out = @ \ {c},
                               !.results = @ \cup {<<run[r].user, c, "left">>}]
<1>1. /\ run[r].at = "loop" /\ Set(r, f) /\ run[r] \in Run /\ Knows(run[r])
      /\ UNCHANGED <<cohorts, mapping, raced, removed, unsettled, erred>>
      /\ members \in [MemberIds -> Row \cup {None}]
  BY DEF Remove, At, UnchangedHistory, TypeOK, RowsInv, Distinct
<1>2. f.at = "loop" /\ f.member = None
  BY <1>1 DEF Run, Knows
<1> HIDE DEF f
<1>3. run'[r] = f /\ Others(r)
  BY <1>1, SetDoes
<1>4. \A n \in MemberIds :
        IF n \in RowsOf(run[r].user, c)
        THEN members'[n] = [members[n] EXCEPT !.status = "reassigned", !.byJob = FALSE]
        ELSE members'[n] = members[n]
  BY DEF Remove
<1>5. ASSUME NEW n \in Rows
      PROVE  /\ n \in Rows' /\ members'[n].user = members[n].user
             /\ members'[n].cohort = members[n].cohort
             /\ members'[n].year = members[n].year /\ members'[n].moved = members[n].moved
             /\ members'[n].byJob => members[n].byJob
             /\ members'[n].status = "active" => members'[n] = members[n]
  <2>1. members[n] \in Row BY <1>1 DEF Rows
  <2>2. CASE n \in RowsOf(run[r].user, c)
    <3> DEFINE row == [members[n] EXCEPT !.status = "reassigned", !.byJob = FALSE]
    <3>1. /\ row \in Row /\ row.user = members[n].user /\ row.cohort = members[n].cohort
          /\ row.year = members[n].year /\ row.moved = members[n].moved
          /\ row.byJob = FALSE /\ row.status = "reassigned"
      BY <2>1 DEF Row, MemberStatuses
    <3>2. members'[n] = row BY <1>4, <2>2 DEF Rows
    <3>3. row # None BY <3>1, MembersAssumption
    <3> HIDE DEF row
    <3> QED BY <3>1, <3>2, <3>3 DEF Rows
  <2>3. CASE n \notin RowsOf(run[r].user, c)
    BY <1>4, <2>3 DEF Rows
  <2> QED BY <2>2, <2>3
<1>6. \A n \in MemberIds \ Rows : members'[n] = None
  BY <1>4 DEF Rows, RowsOf
<1>7. Rows' = Rows /\ Released(run'[r]) /\ Thinned
  BY <1>2, <1>3, <1>5, <1>6 DEF Rows, Released, Thinned
<1>8. Distinct'
  BY <1>1, <1>3, <1>7, DistinctKept DEF RowsInv
<1>9. Placing'
  BY <1>1, <1>2, <1>3, <1>5, <1>7, PlacingKept DEF RowsInv
<1>10. Cascading'
  BY <1>1, <1>2, <1>3, <1>5, <1>7, CascadingKept DEF RowsInv, Halfway, Found
<1> QED BY <1>8, <1>9, <1>10 DEF RowsInv

-----------------------------------------------------------------------------
(* Requests that change a cohort. *)

\* A request other than r that has found c contests it.
LEMMA FoundContests ==
    ASSUME Cascading, NEW r \in Requests, NEW q \in Requests \ {r}, NEW c,
           run[q].at \in Found, run[q].cohort = c
    PROVE  Contested(r, c)
BY DEF Cascading, Follows, Contested, Changing, Found

\* Request r writes the status of its cohort.
LEMMA ChangesKeep ==
    ASSUME Cascading, \A q \in Requests : Placed(run[q]),
           NEW r \in Requests, Others(r), members' = members,
           run[r].at \in {"status", "archive"}, NEW c \in Cohorts, c = run[r].cohort,
           \A d \in Cohorts \ {c} : cohorts'[d] = cohorts[d],
           unsettled \subseteq unsettled', Follows(run[r])',
           run'[r].at \in Found => run'[r].at \in Halfway /\ run'[r].cohort = c,
           \/ c \in unsettled'
           \/ run'[r].at \in Halfway /\ run'[r].cohort = c
           \/ cohorts'[c] = cohorts[c]
    PROVE  Cascading'
<1>1. run[r].at \in Found /\ run[r].at \notin Halfway
  BY DEF Found, Halfway
<1>2. Alone'
  <2>1. ASSUME NEW q \in Requests \ {r}, run'[r].at \in Found, run'[q].at \in Found,
               run'[q].cohort = run'[r].cohort
        PROVE  run'[q].cohort \in unsettled'
    BY <2>1, <1>1 DEF Cascading, Alone, Others, Alike
  <2>2. \A q, s \in Requests \ {r} :
          q # s /\ run'[q].at \in Found /\ run'[s].at \in Found
            /\ run'[q].cohort = run'[s].cohort => run'[q].cohort \in unsettled'
    BY DEF Cascading, Alone, Others, Alike
  <2> QED BY <2>1, <2>2 DEF Alone
<1>3. ASSUME NEW q \in Requests \ {r} PROVE Follows(run[q])'
  <2>1. Alike(run[q], run'[q]) /\ Follows(run[q])
    BY DEF Others, Cascading
  <2>2. CASE run[q].at \in Found /\ run[q].cohort = c
    <3>1. run[q].cohort \in unsettled' BY <2>2, <1>1 DEF Cascading, Alone
    <3> QED BY <2>1, <3>1 DEF Alike, Follows
  <2>3. CASE run[q].at \in Found /\ run[q].cohort # c
    <3>1. run[q].cohort \in Cohorts BY <2>3 DEF Placed, Found
    <3>2. cohorts'[run[q].cohort] = cohorts[run[q].cohort] BY <2>3, <3>1
    <3> QED BY <2>1, <3>2 DEF Alike, Follows
  <2>4. CASE run[q].at \notin Found
    BY <2>1, <2>4 DEF Alike, Follows, Found
  <2> QED BY <2>2, <2>3, <2>4
<1>4. ASSUME NEW d \in Cohorts
      PROVE  \/ d \in unsettled' \/ Reached(d)'
             \/ \E q \in Requests : run'[q].at \in Halfway /\ run'[q].cohort = d
  <2>1. CASE d \in unsettled
    BY <2>1
  <2>2. CASE Reached(d) /\ cohorts'[d] = cohorts[d]
    BY <2>2 DEF Reached, Rows
  <2>3. ASSUME NEW q \in Requests, run[q].at \in Halfway, run[q].cohort = d
        PROVE  \E s \in Requests : run'[s].at \in Halfway /\ run'[s].cohort = d
    BY <2>3, <1>1 DEF Others, Alike
  <2> QED BY <2>1, <2>2, <2>3 DEF Cascading
<1> QED BY <1>2, <1>3, <1>4 DEF Cascading

\* Request r ends, having brought the status of its cohort to the members.
LEMMA SettlesKeep ==
    ASSUME Cascading, NEW r \in Requests, Others(r), cohorts' = cohorts,
           run[r].at \in Halfway, NEW c, c = run[r].cohort, run'[r].at \notin Found,
           \/ unsettled' = unsettled
           \/ unsettled' = unsettled \ {c} /\ ~Contested(r, c),
           c \in unsettled' \/ Reached(c)',
           \A d \in Cohorts \ {c} : Reached(d) => Reached(d)'
    PROVE  Cascading'
<1>1. \A q \in Requests \ {r} : run[q].at \in Found /\ run[q].cohort = c =>
          unsettled' = unsettled
  BY FoundContests
<1>2. Alone'
  BY <1>1 DEF Cascading, Alone, Others, Alike
<1>3. ASSUME NEW q \in Requests PROVE Follows(run[q])'
  <2>1. CASE q = r
    BY <2>1 DEF Follows, Found
  <2>2. CASE q # r
    <3>1. Alike(run[q], run'[q]) /\ Follows(run[q])
      BY <2>2 DEF Others, Cascading
    <3>2. CASE run[q].at \in Found /\ run[q].cohort = c
      <4>1. unsettled' = unsettled BY <2>2, <3>2, <1>1
      <4> QED BY <3>1, <4>1 DEF Alike, Follows
    <3>3. CASE run[q].at \in Found /\ run[q].cohort # c
      <4>1. run[q].cohort \in unsettled <=> run[q].cohort \in unsettled' BY <3>3
      <4> QED BY <3>1, <4>1 DEF Alike, Follows
    <3>4. CASE run[q].at \notin Found
      BY <3>1, <3>4 DEF Alike, Follows, Found
    <3> QED BY <3>2, <3>3, <3>4
  <2> QED BY <2>1, <2>2
<1>4. ASSUME NEW d \in Cohorts
      PROVE  \/ d \in unsettled' \/ Reached(d)'
             \/ \E q \in Requests : run'[q].at \in Halfway /\ run'[q].cohort = d
  <2>1. CASE d = c
    BY <2>1
  <2>2. CASE d # c /\ d \in unsettled
    BY <2>2
  <2>3. CASE d # c /\ Reached(d)
    BY <2>3
  <2>4. ASSUME d # c, NEW q \in Requests, run[q].at \in Halfway, run[q].cohort = d
        PROVE  run'[q].at \in Halfway /\ run'[q].cohort = d
    BY <2>4 DEF Others, Alike
  <2> QED BY <2>1, <2>2, <2>3, <2>4 DEF Cascading
<1> QED BY <1>2, <1>3, <1>4 DEF Cascading

\* A step of a change that leaves the rows alone.
LEMMA RowsStay ==
    ASSUME Distinct, Placing, NEW r \in Requests, Others(r), Released(run'[r]),
           UNCHANGED <<members, mapping, raced, erred, removed>>,
           run[r].at # "activate", run'[r].at # "activate"
    PROVE  Distinct' /\ Placing'
<1>1. Thinned /\ Rows' = Rows
  BY DEF Thinned, Rows
<1> QED BY <1>1, DistinctKept, PlacingKept

LEMMA FindCohortKeeps ==
    ASSUME TypeOK, RowsInv, NEW r \in Requests, FindCohort(r)
    PROVE  RowsInv'
<1>1. /\ run[r].at = "find" /\ run[r] \in Run /\ Knows(run[r])
      /\ run[r].op.name \in {"updateCohort", "updateCohortStatus"}
      /\ UNCHANGED <<members, cohorts, mapping, raced, removed, erred>>
      /\ Distinct /\ Placing /\ Cascading
  BY DEF FindCohort, UnchangedRows, TypeOK, RowsInv, Distinct
<1>2. PICK c \in run[r].op.into :
        /\ Set(r, [run[r] EXCEPT
                !.at = IF run[r].op.name = "updateCohort" THEN "status" ELSE "archive",
                !.cohort = c, !.old = cohorts[c]])
        /\ unsettled' = IF Contested(r, c) THEN unsettled \cup {c} ELSE unsettled
  BY DEF FindCohort
<1> DEFINE f == [run[r] EXCEPT
                !.at = IF run[r].op.name = "updateCohort" THEN "status" ELSE "archive",
                !.cohort = c, !.old = cohorts[c]]
<1>3. /\ f.at \in {"status", "archive"} /\ f.cohort = c /\ f.old = cohorts[c]
      /\ f.op = run[r].op /\ f.member = None
  BY <1>1 DEF Run, Knows
<1>4. Set(r, f) BY <1>2
<1> HIDE DEF f
<1>5. run'[r] = f /\ Others(r)
  BY <1>4, SetDoes
<1>6. Distinct' /\ Placing'
  BY <1>1, <1>3, <1>5, RowsStay DEF Released
<1>7. Alone'
  <2>1. ASSUME NEW q \in Requests \ {r}, run'[q].at \in Found, run'[q].cohort = c
        PROVE  c \in unsettled'
    <3>1. run[q].at \in Found /\ run[q].cohort = c
      BY <2>1, <1>5 DEF Others, Alike
    <3> QED BY <3>1, <1>1, <1>2, FoundContests
  <2>2. \A q, s \in Requests \ {r} :
          q # s /\ run'[q].at \in Found /\ run'[s].at \in Found
            /\ run'[q].cohort = run'[s].cohort => run'[q].cohort \in unsettled'
    BY <1>1, <1>2, <1>5 DEF Cascading, Alone, Others, Alike
  <2> QED BY <2>1, <2>2, <1>3, <1>5 DEF Alone
<1>8. ASSUME NEW q \in Requests PROVE Follows(run[q])'
  <2>1. CASE q = r
    BY <2>1, <1>1, <1>3, <1>5 DEF Follows
  <2>2. CASE q # r
    <3>1. Alike(run[q], run'[q]) /\ Follows(run[q])
      BY <2>2, <1>1, <1>5 DEF Others, Cascading
    <3> QED BY <3>1, <1>1, <1>2 DEF Alike, Follows
  <2> QED BY <2>1, <2>2
<1>9. ASSUME NEW d \in Cohorts
      PROVE  \/ d \in unsettled' \/ Reached(d)'
             \/ \E q \in Requests : run'[q].at \in Halfway /\ run'[q].cohort = d
  <2>1. CASE d \in unsettled
    BY <2>1, <1>2
  <2>2. CASE Reached(d)
    BY <2>2, <1>1 DEF Reached, Rows
  <2>3. ASSUME NEW q \in Requests, run[q].at \in Halfway, run[q].cohort = d
        PROVE  run'[q].at \in Halfway /\ run'[q].cohort = d
    BY <2>3, <1>1, <1>5 DEF Others, Alike, Halfway
  <2> QED BY <2>1, <2>2, <2>3, <1>1 DEF Cascading
<1> QED BY <1>6, <1>7, <1>8, <1>9 DEF RowsInv, Cascading

LEMMA SaveCohortKeeps ==
    ASSUME TypeOK, RowsInv, \A q \in Requests : Placed(run[q]),
           NEW r \in Requests, SaveCohort(r)
    PROVE  RowsInv'
<1> DEFINE c == run[r].cohort
           new == run[r].op.status
           f == [run[r] EXCEPT !.at = "members"]
<1>1. /\ run[r].at = "status" /\ run[r].op.name = "updateCohort"
      /\ run[r] \in Run /\ Knows(run[r]) /\ Follows(run[r]) /\ c \in Cohorts
      /\ UNCHANGED <<members, mapping, raced, removed, erred>>
      /\ Distinct /\ Placing /\ Cascading
  BY DEF SaveCohort, At, TypeOK, RowsInv, Distinct, Cascading, Placed
<1>2. /\ cohorts' = [cohorts EXCEPT ![c] = new]
      /\ Set(r, IF validTransition(run[r].old, new) THEN f ELSE Idle)
      /\ unsettled' = IF run[r].old = "pending" THEN unsettled \cup {c} ELSE unsettled
  BY DEF SaveCohort
<1>3. /\ f.at = "members" /\ f.cohort = c /\ f.op = run[r].op /\ f.member = None
      /\ Idle.at = "idle" /\ Idle.member = None
  BY <1>1 DEF Run, Knows, Idle
<1> HIDE DEF f
<1>4. /\ run'[r] = IF validTransition(run[r].old, new) THEN f ELSE Idle
      /\ Others(r)
  BY <1>2, SetDoes
<1>5. Distinct' /\ Placing'
  BY <1>1, <1>3, <1>4, RowsStay DEF Released
<1>6. cohorts'[c] = new /\ \A d \in Cohorts \ {c} : cohorts'[d] = cohorts[d]
  BY <1>1, <1>2 DEF TypeOK
<1>7. new \in {"active", "inactive", "archived"}
  BY <1>1, OpTyped DEF CohortStatuses
<1>8. Follows(run[r])'
  BY <1>1, <1>3, <1>4, <1>6 DEF Follows, Found
<1>9. \/ c \in unsettled'
      \/ run'[r].at \in Halfway /\ run'[r].cohort = c
      \/ cohorts'[c] = cohorts[c]
  <2>1. CASE validTransition(run[r].old, new)
    BY <2>1, <1>3, <1>4 DEF Halfway
  <2>2. CASE ~validTransition(run[r].old, new)
    <3>1. c \in unsettled \/ cohorts[c] = run[r].old
      BY <1>1 DEF Follows
    <3>2. cohorts[c] \in CohortStatuses
      BY <1>1 DEF TypeOK
    <3>3. c \in unsettled \/ run[r].old = "pending" \/ run[r].old = new
      BY <2>2, <3>1, <3>2, <1>7 DEF validTransition, CohortStatuses
    <3> QED BY <3>1, <3>3, <1>2, <1>6
  <2> QED BY <2>1, <2>2
<1>10. run'[r].at \in Found => run'[r].at \in Halfway /\ run'[r].cohort = c
  BY <1>3, <1>4 DEF Found, Halfway
<1>11. unsettled \subseteq unsettled'
  BY <1>2
<1>12. Cascading'
  BY <1>1, <1>4, <1>6, <1>8, <1>9, <1>10, <1>11, ChangesKeep
<1> QED BY <1>5, <1>12 DEF RowsInv

LEMMA FindMembersKeeps ==
    ASSUME TypeOK, RowsInv, \A q \in Requests : Placed(run[q]),
           NEW r \in Requests, NEW c, c = run[r].cohort, FindMembers(r)
    PROVE  RowsInv'
<1> DEFINE none == {m \in Rows : members[m].cohort = c} = {}
           f == [run[r] EXCEPT !.at = "cascade"]
<1>1. /\ run[r].at = "members" /\ run[r] \in Run /\ Knows(run[r]) /\ Follows(run[r])
      /\ UNCHANGED <<members, cohorts, mapping, raced, removed, erred>>
      /\ Distinct /\ Placing /\ Cascading
  BY DEF FindMembers, At, UnchangedRows, TypeOK, RowsInv, Distinct, Cascading
<1>2. /\ Set(r, IF none THEN Idle ELSE f)
      /\ unsettled' = IF none THEN Settled(r, c) ELSE unsettled
  BY DEF FindMembers
<1>3. /\ f.at = "cascade" /\ f.cohort = c /\ f.op = run[r].op /\ f.member = None
      /\ Idle.at = "idle" /\ Idle.member = None
  BY <1>1 DEF Run, Knows, Idle
<1> HIDE DEF f
<1>4. run'[r] = (IF none THEN Idle ELSE f) /\ Others(r)
  BY <1>2, SetDoes
<1>5. Distinct' /\ Placing'
  BY <1>1, <1>3, <1>4, RowsStay DEF Released
<1>6. CASE none
  <2>1. Reached(c)'
    BY <1>1, <1>6 DEF Reached, Rows
  <2>2. \A d \in Cohorts \ {c} : Reached(d) => Reached(d)'
    BY <1>1 DEF Reached, Rows
  <2>3. unsettled' = unsettled \/ (unsettled' = unsettled \ {c} /\ ~Contested(r, c))
    BY <1>2, <1>6 DEF Settled
  <2>4. Cascading'
    BY <1>1, <1>3, <1>4, <1>6, <2>1, <2>2, <2>3, SettlesKeep DEF Found, Halfway
  <2> QED BY <1>5, <2>4 DEF RowsInv
<1>7. CASE ~none
  <2>1. run'[r] = f /\ unsettled' = unsettled
    BY <1>2, <1>4, <1>7
  <2>2. \A q \in Requests : /\ run'[q].at \in Found <=> run[q].at \in Found
                            /\ run'[q].at \in Halfway <=> run[q].at \in Halfway
                            /\ run'[q].cohort = run[q].cohort
    BY <1>1, <1>3, <1>4, <2>1 DEF Others, Alike, Found, Halfway
  <2>3. Alone'
    BY <1>1, <2>1, <2>2 DEF Cascading, Alone
  <2>4. ASSUME NEW q \in Requests PROVE Follows(run[q])'
    <3>1. CASE q = r
      BY <3>1, <1>1, <1>3, <2>1 DEF Follows, Found
    <3>2. CASE q # r
      <4>1. Alike(run[q], run'[q]) /\ Follows(run[q])
        BY <3>2, <1>1, <1>4 DEF Others, Cascading
      <4> QED BY <4>1, <1>1, <2>1 DEF Alike, Follows
    <3> QED BY <3>1, <3>2
  <2>5. ASSUME NEW d \in Cohorts
        PROVE  \/ d \in unsettled' \/ Reached(d)'
               \/ \E q \in Requests : run'[q].at \in Halfway /\ run'[q].cohort = d
    <3>1. Reached(d) => Reached(d)' BY <1>1 DEF Reached, Rows
    <3> QED BY <1>1, <2>1, <2>2, <3>1 DEF Cascading
  <2> QED BY <1>5, <2>3, <2>4, <2>5 DEF RowsInv, Cascading
<1> QED BY <1>6, <1>7

LEMMA CascadeKeeps ==
    ASSUME TypeOK, RowsInv, \A q \in Requests : Placed(run[q]),
           NEW r \in Requests, NEW c, c = run[r].cohort, Cascade(r)
    PROVE  RowsInv'
<1> DEFINE s == run[r].op.status
<1>1. /\ run[r].at = "cascade" /\ run[r].op.name = "updateCohort" /\ End(r)
      /\ Knows(run[r]) /\ Follows(run[r]) /\ unsettled' = Settled(r, c)
      /\ UNCHANGED <<cohorts, mapping, raced, removed, erred>>
      /\ Distinct /\ Placing /\ Cascading
      /\ members \in [MemberIds -> Row \cup {None}]
  BY DEF Cascade, At, TypeOK, RowsInv, Distinct, Cascading
<1>2. Idle.at = "idle" /\ Idle.member = None
  BY DEF Idle
<1>3. run'[r] = Idle /\ Others(r)
  BY <1>1, SetDoes DEF End
<1>4. s \in MemberStatuses
  BY <1>1, OpTyped DEF CohortStatuses, MemberStatuses
<1>5. \A m \in MemberIds :
        members'[m] = IF m \in Rows /\ members[m].cohort = c
                      THEN [members[m] EXCEPT !.status = s, !.byJob = FALSE, !.late = FALSE]
                      ELSE members[m]
  BY DEF Cascade
<1>6. ASSUME NEW m \in Rows
      PROVE  /\ m \in Rows' /\ members'[m].user = members[m].user
             /\ members'[m].cohort = members[m].cohort
             /\ members'[m].byJob => members[m].byJob
             /\ members[m].cohort # c => members'[m] = members[m]
             /\ members'[m].year = members[m].year /\ members'[m].moved = members[m].moved
             /\ members[m].cohort = c => members'[m].status = s
  <2>1. members[m] \in Row BY <1>1 DEF Rows
  <2>2. CASE members[m].cohort = c
    <3> DEFINE row == [members[m] EXCEPT !.status = s, !.byJob = FALSE, !.late = FALSE]
    <3>1. /\ row \in Row /\ row.user = members[m].user /\ row.cohort = members[m].cohort
          /\ row.year = members[m].year /\ row.moved = members[m].moved
          /\ row.byJob = FALSE /\ row.status = s
      BY <2>1, <1>4 DEF Row
    <3>2. members'[m] = row BY <1>5, <2>2 DEF Rows
    <3>3. row # None BY <3>1, MembersAssumption
    <3> HIDE DEF row
    <3> QED BY <2>2, <3>1, <3>2, <3>3 DEF Rows
  <2>3. CASE members[m].cohort # c
    BY <1>5, <2>3 DEF Rows
  <2> QED BY <2>2, <2>3
<1>7. \A m \in MemberIds \ Rows : members'[m] = None
  BY <1>5 DEF Rows
<1>8. Rows' = Rows /\ Released(run'[r]) /\ Thinned
  BY <1>2, <1>3, <1>6, <1>7 DEF Rows, Released, Thinned
<1>9. Distinct'
  BY <1>1, <1>3, <1>8, DistinctKept
<1>10. Placing'
  BY <1>1, <1>2, <1>3, <1>6, <1>8, PlacingKept
<1>11. c \in unsettled' \/ Reached(c)'
  <2>1. CASE cohorts[c] # s
    BY <2>1, <1>1 DEF Follows, Settled
  <2>2. CASE cohorts[c] = s
    <3>1. \A m \in Rows' : members'[m].cohort = c => members'[m].status = s
      BY <1>6, <1>8
    <3> QED BY <2>2, <3>1, <1>1 DEF Reached
  <2> QED BY <2>1, <2>2
<1>12. \A d \in Cohorts \ {c} : Reached(d) => Reached(d)'
  BY <1>1, <1>6, <1>8 DEF Reached
<1>13. unsettled' = unsettled \/ (unsettled' = unsettled \ {c} /\ ~Contested(r, c))
  BY <1>1 DEF Settled
<1>14. Cascading'
  BY <1>1, <1>2, <1>3, <1>11, <1>12, <1>13, SettlesKeep DEF Found, Halfway
<1> QED BY <1>9, <1>10, <1>14 DEF RowsInv

LEMMA ArchiveKeeps ==
    ASSUME TypeOK, RowsInv, \A q \in Requests : Placed(run[q]),
           NEW r \in Requests, Archive(r)
    PROVE  RowsInv'
<1> DEFINE c == run[r].cohort
           f == [run[r] EXCEPT !.at = "purge"]
<1>1. /\ run[r].at = "archive" /\ Set(r, f) /\ run[r] \in Run
      /\ Knows(run[r]) /\ Follows(run[r]) /\ c \in Cohorts
      /\ cohorts' = [cohorts EXCEPT ![c] = "archived"]
      /\ UNCHANGED <<members, mapping, raced, removed, unsettled, erred>>
      /\ Distinct /\ Placing /\ Cascading
  BY DEF Archive, At, UnchangedHistory, TypeOK, RowsInv, Distinct, Cascading, Placed
<1>2. f.at = "purge" /\ f.cohort = c /\ f.op = run[r].op /\ f.member = None
  BY <1>1 DEF Run, Knows
<1> HIDE DEF f
<1>3. run'[r] = f /\ Others(r)
  BY <1>1, SetDoes
<1>4. Distinct' /\ Placing'
  BY <1>1, <1>2, <1>3, RowsStay DEF Released
<1>5. \A d \in Cohorts \ {c} : cohorts'[d] = cohorts[d]
  BY <1>1 DEF TypeOK
<1>6. Follows(run[r])'
  BY <1>1, <1>2, <1>3 DEF Follows, Found
<1>7. Cascading'
  BY <1>1, <1>2, <1>3, <1>5, <1>6, ChangesKeep DEF Halfway
<1> QED BY <1>4, <1>7 DEF RowsInv

LEMMA PurgeKeeps ==
    ASSUME TypeOK, RowsInv, NEW r \in Requests, NEW c, c = run[r].cohort, Purge(r)
    PROVE  RowsInv'
<1> DEFINE gone == {m \in Rows : members[m].cohort = c}
<1>1. /\ run[r].at = "purge" /\ End(r) /\ Knows(run[r])
      /\ members' = [m \in MemberIds |-> IF m \in gone THEN None ELSE members[m]]
      /\ removed' = removed \cup {members[m].user : m \in gone}
      /\ unsettled' = IF Contested(r, c) THEN unsettled ELSE unsettled \ {c}
      /\ UNCHANGED <<cohorts, mapping, raced, erred>>
      /\ Distinct /\ Placing /\ Cascading
  BY DEF Purge, At, RowsInv, Distinct
<1>2. Idle.at = "idle" /\ Idle.member = None
  BY DEF Idle
<1>3. run'[r] = Idle /\ Others(r)
  BY <1>1, SetDoes DEF End
<1>4. /\ \A m \in gone : members'[m] = None
      /\ \A m \in MemberIds \ gone : members'[m] = members[m]
      /\ Rows' = Rows \ gone
  BY <1>1 DEF Rows
<1>5. Released(run'[r]) /\ Thinned
  BY <1>2, <1>3, <1>4 DEF Released, Thinned, Rows
<1>6. Distinct'
  BY <1>1, <1>3, <1>5, DistinctKept
<1>7. \A m \in Rows : \/ m \in Rows' /\ members'[m].user = members[m].user
                      \/ members[m].user \in removed'
  BY <1>1, <1>4 DEF Rows
<1>8. \A m \in Rows' : members'[m] = members[m] /\ m \in Rows /\ members[m].cohort # c
  BY <1>4 DEF Rows
<1>9. Placing'
  BY <1>1, <1>2, <1>3, <1>7, <1>8, PlacingKept
<1>10. Reached(c)' /\ \A d \in Cohorts \ {c} : Reached(d) => Reached(d)'
  BY <1>1, <1>8 DEF Reached
<1>11. Cascading'
  BY <1>1, <1>2, <1>3, <1>10, SettlesKeep DEF Found, Halfway
<1> QED BY <1>6, <1>9, <1>11 DEF RowsInv

LEMMA SaveStatusesKeeps ==
    ASSUME TypeOK, RowsInv, \A q \in Requests : Placed(run[q]),
           NEW r \in Requests, SaveStatuses(r)
    PROVE  RowsInv'
<1>1. /\ run[r].at = "find" /\ End(r) /\ Knows(run[r])
      /\ cohorts' = [c \in Cohorts |-> IF c \in run[r].op.into THEN run[r].op.status
                                       ELSE cohorts[c]]
      /\ unsettled' = unsettled \cup run[r].op.into
      /\ UNCHANGED <<members, mapping, raced, erred, removed>>
      /\ Distinct /\ Placing /\ Cascading
  BY DEF SaveStatuses, At, RowsInv, Distinct
<1>2. Idle.at = "idle" /\ Idle.member = None
  BY DEF Idle
<1>3. run'[r] = Idle /\ Others(r)
  BY <1>1, SetDoes DEF End
<1>4. Distinct' /\ Placing'
  BY <1>1, <1>2, <1>3, RowsStay DEF Released
<1>5. \A c \in Cohorts : c \in unsettled' \/ cohorts'[c] = cohorts[c]
  BY <1>1
<1>6. Alone'
  BY <1>1, <1>2, <1>3 DEF Cascading, Alone, Others, Alike, Found
<1>7. ASSUME NEW q \in Requests PROVE Follows(run[q])'
  <2>1. CASE q = r
    BY <2>1, <1>2, <1>3 DEF Follows, Found
  <2>2. CASE q # r /\ run[q].at \in Found
    <3>1. Alike(run[q], run'[q]) /\ Follows(run[q]) /\ run[q].cohort \in Cohorts
      BY <2>2, <1>1, <1>3 DEF Others, Cascading, Placed, Found
    <3> QED BY <3>1, <1>1, <1>5 DEF Alike, Follows
  <2>3. CASE q # r /\ run[q].at \notin Found
    BY <2>3, <1>3 DEF Others, Alike, Follows, Found
  <2> QED BY <2>1, <2>2, <2>3
<1>8. ASSUME NEW c \in Cohorts
      PROVE  \/ c \in unsettled' \/ Reached(c)'
             \/ \E q \in Requests : run'[q].at \in Halfway /\ run'[q].cohort = c
  <2>1. CASE c \in unsettled
    BY <2>1, <1>1
  <2>2. CASE Reached(c)
    BY <2>2, <1>1, <1>5 DEF Reached, Rows
  <2>3. ASSUME NEW q \in Requests, run[q].at \in Halfway, run[q].cohort = c
        PROVE  run'[q].at \in Halfway /\ run'[q].cohort = c
    BY <2>3, <1>1, <1>3 DEF Others, Alike, Halfway
  <2> QED BY <2>1, <2>2, <2>3, <1>1 DEF Cascading
<1> QED BY <1>4, <1>6, <1>7, <1>8 DEF RowsInv, Cascading

-----------------------------------------------------------------------------
(* The invariant of the rows, and what it says. *)

LEMMA RowsBegin == Init => RowsInv
<1> SUFFICES ASSUME Init PROVE RowsInv OBVIOUS
<1>1. Rows = {} /\ \A r \in Requests : run[r] = Idle
  BY DEF Init, Rows
<1>2. Idle.at = "idle" /\ Idle.member = None
  BY DEF Idle
<1>3. Distinct
  BY <1>1, <1>2 DEF Distinct, DuplicatesNeedRaces, YearsFit, Knows
<1>4. Placing
  BY <1>1, <1>2 DEF Placing, Bringing, Init
<1>5. Cascading
  BY <1>1, <1>2 DEF Cascading, Alone, Follows, Found, Reached
<1> QED BY <1>3, <1>4, <1>5 DEF RowsInv

LEMMA RowsStutter ==
    ASSUME RowsInv, UNCHANGED vars
    PROVE  RowsInv'
<1>1. UNCHANGED <<members, cohorts, mapping, run, raced, unsettled, erred, removed>>
  BY DEF vars
<1>2. Rows' = Rows /\ \A u, c : RowsOf(u, c)' = RowsOf(u, c)
  BY <1>1 DEF Rows, RowsOf
<1>3. Distinct'
  BY <1>1, <1>2 DEF RowsInv, Distinct, DuplicatesNeedRaces, YearsFit, Knows, Fixed
<1>4. Placing'
  BY <1>1, <1>2 DEF RowsInv, Placing, Bringing
<1>5. Cascading'
  BY <1>1, <1>2 DEF RowsInv, Cascading, Alone, Follows, Reached
<1> QED BY <1>3, <1>4, <1>5 DEF RowsInv

LEMMA RowsKept == IInv /\ RowsInv /\ [Next]_vars => RowsInv'
<1> SUFFICES ASSUME IInv, RowsInv, [Next]_vars PROVE RowsInv' OBVIOUS
<1>0. TypeOK /\ \A q \in Requests : Placed(run[q])
  BY DEF IInv
<1>1. ASSUME NEW r \in Requests, NEW o \in scenario.ops, Start(r, o) PROVE RowsInv'
  BY <1>0, <1>1, StartIsTame, TameKeeps
<1>2. ASSUME NEW r \in Requests,
             \/ Check(r) \/ Insert(r) \/ FindMember(r) \/ SaveMember(r)
             \/ DeleteMember(r)
      PROVE  RowsInv'
  BY <1>0, <1>2, CheckKeeps, InsertsKeep, FindMemberKeeps, SaveMemberKeeps,
     DeleteMemberKeeps
<1>3. ASSUME NEW r \in Requests,
             \/ BulkUser(r) \/ InsertAdded(r) \/ SaveAdded(r) \/ BulkFails(r)
             \/ BulkReply(r) \/ ReplyErrors(r) \/ Finish(r)
      PROVE  RowsInv'
  BY <1>0, <1>3, BulkIsTame, TameKeeps, InsertsKeep, SaveAddedKeeps
<1>4. ASSUME NEW r \in Requests, NEW c \in Cohorts,
             Remove(r, c) \/ FindAny(r, c) \/ CountMembers(r, c)
      PROVE  RowsInv'
  BY <1>0, <1>4, RemoveKeeps, FindAnyKeeps, JobIsTame, TameKeeps
<1>5. ASSUME NEW r \in Requests,
             \/ FindCohort(r) \/ SaveCohort(r) \/ FindMembers(r) \/ Cascade(r)
             \/ Archive(r) \/ Purge(r) \/ SaveStatuses(r)
      PROVE  RowsInv'
  BY <1>0, <1>5, FindCohortKeeps, SaveCohortKeeps, FindMembersKeeps, CascadeKeeps,
     ArchiveKeeps, PurgeKeeps, SaveStatusesKeeps
<1>6. ASSUME NEW r \in Requests,
             \/ NextUser(r) \/ SkipUser(r) \/ FindExisting(r) \/ InsertStudent(r)
             \/ Activate(r) \/ JobFails(r) \/ JobDone(r) \/ Abort(r)
      PROVE  RowsInv'
  BY <1>0, <1>6, JobIsTame, FailureIsTame, TameKeeps, FindExistingKeeps,
     InsertStudentKeeps, ActivateKeeps
<1>7. CASE UNCHANGED vars BY <1>7, RowsStutter
<1> QED BY <1>1, <1>2, <1>3, <1>4, <1>5, <1>6, <1>7 DEF Next

\* What each writer of a membership, of a user's mapping and of a cohort's status knows of
\* the rows while the others run in between.
THEOREM RowsInvariance == Spec => []RowsInv
<1>1. Init => RowsInv BY RowsBegin
<1>2. IInv /\ RowsInv /\ [Next]_vars => RowsInv' BY RowsKept
<1> QED BY <1>1, <1>2, Invariance, PTL DEF Spec

\* No handler of memberships, however they overlap or die, makes a user a member of a
\* cohort twice unless two requests were between looking and saving at once, or an update
\* brought one of the two rows there without looking.
THEOREM DuplicatesAreRaces == Spec => []DuplicatesNeedRaces
<1>1. RowsInv => DuplicatesNeedRaces BY DEF RowsInv, Distinct
<1> QED BY <1>1, RowsInvariance, PTL

\* The job's insertion and its activation, two statements that others come between, agree:
\* whom it has activated it has placed, and whom it has placed it has activated unless it
\* met an error on that user.
THEOREM AssignmentsHold == Spec => []AssignmentsComplete
<1>1. ASSUME RowsInv PROVE AssignmentsComplete
  <2>1. ASSUME NEW u \in Users, \A q \in Running : run[q].user # u PROVE ~Bringing(u)
    BY <2>1 DEF Bringing, Running
  <2> QED BY <1>1, <2>1 DEF RowsInv, Placing, AssignmentsComplete
<1> QED BY <1>1, RowsInvariance, PTL

\* A change of a cohort's status, which is one statement for the cohort and one for its
\* members, leaves no member active in a cohort that is not, but for the exceptions that
\* CascadeReaches names.
THEOREM CascadesReach == Spec => []CascadeReaches
<1>1. ASSUME TypeOK, RowsInv PROVE CascadeReaches
  <2> SUFFICES ASSUME NEW m \in Rows, NEW c, c = members[m].cohort,
                      cohorts[c] \in {"archived", "inactive"},
                      members[m].status = "active",
                      ~\E q \in Requests : Changing(q, c), c \notin unsettled
               PROVE  members[m].late
    BY DEF CascadeReaches
  <2>1. c \in Cohorts
    BY <1>1 DEF TypeOK, Rows, Row
  <2>2. ASSUME NEW q \in Requests, run[q].at \in Halfway, run[q].cohort = c
        PROVE  FALSE
    BY <1>1, <2>2 DEF RowsInv, Cascading, Follows, Found, Halfway, Changing
  <2>3. Reached(c)
    BY <1>1, <2>1, <2>2 DEF RowsInv, Cascading
  <2> QED BY <2>3 DEF Reached
<1> QED BY <1>1, TypeCorrect, RowsInvariance, PTL

-----------------------------------------------------------------------------
(* What the bulk handler has listed as done when it replies. *)

Bulk(f) == f.op.name = "createBulkCohortMembers"

\* A request of a loop that is said to run alone does so, and only the bulk handler replies.
Lonely ==
    \A r \in Requests :
        /\ run[r].at \in {"reply", "done"} => Bulk(run[r])
        /\ run[r].alone =>
              run[r].at # "idle" /\ \A q \in Requests \ {r} : run[q].at = "idle"

\* What the request o asks of u and c.
Joined(o, u, c) == \E m \in RowsOf(u, c) : members[m].status = Asked(o)
Left(u, c) == \A m \in RowsOf(u, c) : members[m].status = "reassigned"

\* In the list of what is done.
In(f, u, c, what) == <<u, c, what>> \in f.results

\* What a bulk request f lists it has done, and it lists what it asks, but for errors and what
\* its loops have yet to do.
ListedIsDone(f) ==
    \A u \in Users, c \in Cohorts :
        /\ In(f, u, c, "joined") => Joined(f.op, u, c) /\ (u = f.user => f.out = {})
        /\ In(f, u, c, "left") /\ ~In(f, u, c, "joined") => Left(u, c)
        /\ In(f, u, c, "joined") \/ In(f, u, c, "left") => u \in f.op.users \ f.users
DoneIsListed(f) ==
    \A u \in f.op.users \ f.users, c \in Cohorts : <<u, c>> \notin f.errors =>
        /\ c \in f.op.into /\ (u = f.user => c \notin f.into) => In(f, u, c, "joined")
        /\ c \in f.op.out /\ (u = f.user => c \notin f.out) => In(f, u, c, "left")
DoneSoFar(f) == ListedIsDone(f) /\ DoneIsListed(f)

\* Where its loops are.
Looping(f) ==
    /\ f.at \in {"loop", "insert", "save", "reply", "done"}
    /\ f.users \subseteq f.op.users
    /\ f.into # {} \/ f.out # {} => f.user \in f.op.users \ f.users
    /\ f.out # {} => f.into = f.op.into
    /\ f.at \in {"insert", "save"} => f.out = {} /\ f.cohort \in f.into
    /\ f.into \subseteq f.op.into
    /\ f.at = "save" => f.member \in RowsOf(f.user, f.cohort) /\ f.entity = members[f.member]
    /\ f.at \in {"reply", "done"} => f.users = {} /\ f.into = {} /\ f.out = {}
    /\ f.told = IF f.at \in {"reply", "done"} THEN "COHORTMEMBER_SUCCESSFULLY" ELSE None

BulkInv ==
    /\ Lonely
    /\ \A r \in Requests :
         Bulk(run[r]) /\ run[r].alone => Looping(run[r]) /\ DoneSoFar(run[r])

\* The status that a bulk request saves on existing rows is the one that it asks for: in the
\* tenant that keeps the body's status there is one, elsewhere there is none or "active".
AsksWhatItSaves ==
    \A s \in Scenarios : \A o \in s.ops :
        o.name = "createBulkCohortMembers" =>
            IF o.verbatim THEN o.status # None ELSE o.status \in {None, "active"}

LEMMA StepOfOne ==
    ASSUME TypeOK, BulkInv, NEW r \in Requests, NEW f, Set(r, f), run[r].at # "idle",
           f.alone => run[r].alone /\ f.at # "idle",
           f.at \in {"reply", "done"} => Bulk(f),
           Bulk(f) /\ f.alone => Looping(f)' /\ DoneSoFar(f)'
    PROVE  BulkInv'
<1>1. run'[r] = f /\ \A q \in Requests \ {r} : run'[q] = run[q]
  BY DEF Set, TypeOK
<1>2. \A q \in Requests \ {r} : ~run[q].alone
  BY DEF BulkInv, Lonely
<1>3. Lonely'
  BY <1>1, <1>2 DEF BulkInv, Lonely, Bulk
<1>4. ASSUME NEW q \in Requests, Bulk(run'[q]), run'[q].alone
      PROVE  Looping(run[q])' /\ DoneSoFar(run[q])'
  <2>1. q = r /\ run'[q] = f
    BY <1>1, <1>2, <1>4
  <2>2. Looping(f)' /\ DoneSoFar(f)'
    BY <1>4, <2>1 DEF Bulk
  <2> QED BY <2>1, <2>2 DEF Looping, DoneSoFar, ListedIsDone, DoneIsListed
<1> QED BY <1>3, <1>4 DEF BulkInv, Bulk

\* A request that is not of the bulk handler, or that ends.
Passes(r) ==
    \/ run[r].at # "idle" /\ End(r)
    \/ \E f : /\ Set(r, f) /\ run[r].at # "idle" /\ ~Bulk(run[r])
              /\ f.op = run[r].op /\ f.alone = run[r].alone /\ f.at \notin {"idle", "reply", "done"}

LEMMA PassesKeeps ==
    ASSUME TypeOK, BulkInv, NEW r \in Requests, Passes(r)
    PROVE  BulkInv'
<1>1. CASE run[r].at # "idle" /\ End(r)
  <2>1. Idle.alone = FALSE /\ Idle.at = "idle" BY DEF Idle
  <2> QED BY <1>1, <2>1, StepOfOne DEF End
<1>2. ASSUME NEW f, Set(r, f), run[r].at # "idle", ~Bulk(run[r]), f.op = run[r].op,
             f.alone = run[r].alone, f.at \notin {"idle", "reply", "done"}
      PROVE  BulkInv'
  BY <1>2, StepOfOne DEF Bulk
<1> QED BY <1>1, <1>2 DEF Passes

LEMMA EndPasses ==
    ASSUME NEW r \in Requests,
           \/ Insert(r) \/ SaveMember(r) \/ DeleteMember(r) \/ Finish(r) \/ Cascade(r)
           \/ Purge(r) \/ SaveStatuses(r) \/ JobDone(r) \/ Abort(r)
    PROVE  Passes(r)
BY DEF Insert, SaveMember, DeleteMember, Finish, Cascade, Purge, SaveStatuses, JobDone,
       Abort, At, Passes

LEMMA SinglePasses ==
    ASSUME TypeOK, NEW r \in Requests, Check(r) \/ FindMember(r)
    PROVE  Passes(r)
<1>0. run[r] \in Run BY DEF TypeOK
<1>1. CASE Check(r)
  <2>1. PICK u \in run[r].op.users, c \in run[r].op.into :
          Set(r, IF RowsOf(u, c) # {} THEN Idle
                 ELSE [run[r] EXCEPT !.at = "insert", !.user = u, !.cohort = c])
    BY <1>1 DEF Check
  <2> DEFINE f == [run[r] EXCEPT !.at = "insert", !.user = u, !.cohort = c]
  <2>2. f.op = run[r].op /\ f.alone = run[r].alone /\ f.at = "insert"
    BY <1>0 DEF Run
  <2>3. End(r) \/ Set(r, f) BY <2>1 DEF End
  <2> HIDE DEF f
  <2> QED BY <1>1, <2>2, <2>3 DEF Check, At, Bulk, Passes
<1>2. CASE FindMember(r)
  <2>1. \/ End(r)
        \/ \E m \in Rows, k \in MemberIds, u \in Users, c \in Cohorts :
              Set(r, Finding(r, m, k, u, c))
    BY <1>2 DEF FindMember, Finding
  <2>2. ASSUME NEW m \in Rows, NEW k \in MemberIds, NEW u \in Users, NEW c \in Cohorts
        PROVE  LET f == Finding(r, m, k, u, c)
               IN /\ f.op = run[r].op /\ f.alone = run[r].alone
                  /\ f.at \in {"save", "delete"}
    BY <1>0 DEF Run, Finding
  <2> QED BY <1>2, <2>1, <2>2 DEF FindMember, Bulk, Passes
<1> QED BY <1>1, <1>2

LEMMA ChangePasses ==
    ASSUME TypeOK, NEW r \in Requests,
           FindCohort(r) \/ SaveCohort(r) \/ FindMembers(r) \/ Archive(r)
    PROVE  Passes(r)
<1>0. run[r] \in Run BY DEF TypeOK
<1>1. CASE FindCohort(r)
  <2> DEFINE f(c) == [run[r] EXCEPT
                !.at = IF run[r].op.name = "updateCohort" THEN "status" ELSE "archive",
                !.cohort = c, !.old = cohorts[c]]
  <2>1. \E c \in run[r].op.into : Set(r, f(c)) BY <1>1 DEF FindCohort
  <2>2. ASSUME NEW c PROVE /\ f(c).op = run[r].op /\ f(c).alone = run[r].alone
                           /\ f(c).at \in {"status", "archive"}
    BY <1>0 DEF Run
  <2> HIDE DEF f
  <2> QED BY <1>1, <2>1, <2>2 DEF FindCohort, Bulk, Passes
<1>2. ASSUME NEW p \in {"members", "cascade", "purge"}, run[r].at # "idle",
             ~Bulk(run[r]), End(r) \/ Set(r, [run[r] EXCEPT !.at = p])
      PROVE  Passes(r)
  <2> DEFINE f == [run[r] EXCEPT !.at = p]
  <2>1. f.op = run[r].op /\ f.alone = run[r].alone /\ f.at = p BY <1>0 DEF Run
  <2>2. End(r) \/ Set(r, f) BY <1>2
  <2> HIDE DEF f
  <2> QED BY <1>2, <2>1, <2>2 DEF Passes
<1>3. CASE SaveCohort(r)
  BY <1>2, <1>3 DEF SaveCohort, At, Bulk, End
<1>4. CASE FindMembers(r)
  BY <1>2, <1>4 DEF FindMembers, At, Bulk, End
<1>5. CASE Archive(r)
  BY <1>2, <1>5 DEF Archive, At, Bulk
<1> QED BY <1>1, <1>3, <1>4, <1>5

LEMMA JobPasses ==
    ASSUME TypeOK, NEW r \in Requests,
           \/ NextUser(r) \/ SkipUser(r) \/ FindExisting(r) \/ InsertStudent(r)
           \/ Activate(r) \/ JobFails(r) \/ \E c \in Cohorts : CountMembers(r, c)
    PROVE  Passes(r)
<1>0. run[r] \in Run /\ run[r].op.name = "assignStudentsToBatches"
  BY DEF TypeOK, NextUser, SkipUser, FindExisting, InsertStudent, Activate, JobFails,
         CountMembers, At
<1>1. ASSUME NEW f, Set(r, f), run[r].at # "idle", f.op = run[r].op,
             f.alone = run[r].alone, f.at \notin {"idle", "reply", "done"}
      PROVE  Passes(r)
  BY <1>0, <1>1 DEF Passes, Bulk
<1>2. CASE NextUser(r)
  <2> DEFINE f(u) == [run[r] EXCEPT !.user = u, !.users = @ \ {u},
                                    !.into = {c \in Batches[u] : cohorts[c] = "active"}]
  <2>1. PICK u \in run[r].users : Set(r, f(u))
    BY <1>2 DEF NextUser
  <2>2. f(u).op = run[r].op /\ f(u).alone = run[r].alone /\ f(u).at = "loop"
    BY <1>0, <1>2 DEF Run, NextUser, At
  <2> HIDE DEF f
  <2> QED BY <1>1, <1>2, <2>1, <2>2 DEF NextUser, At
<1>3. CASE SkipUser(r)
  <2> DEFINE f(u) == [run[r] EXCEPT !.user = u, !.users = @ \ {u}]
  <2>1. PICK u \in run[r].users : Set(r, f(u))
    BY <1>3 DEF SkipUser
  <2>2. f(u).op = run[r].op /\ f(u).alone = run[r].alone /\ f(u).at = "loop"
    BY <1>0, <1>3 DEF Run, SkipUser, At
  <2> HIDE DEF f
  <2> QED BY <1>1, <1>3, <2>1, <2>2 DEF SkipUser, At
<1>4. CASE FindExisting(r) \/ InsertStudent(r) \/ Activate(r)
  <2> DEFINE f == [run[r] EXCEPT !.at = "loop", !.into = {}, !.cohort = None]
             g(p) == [run[r] EXCEPT !.at = p]
  <2>1. /\ run[r].at # "idle"
        /\ Set(r, f) \/ \E p \in {"insert", "activate"} : Set(r, g(p))
    BY <1>4 DEF FindExisting, InsertStudent, Activate, At
  <2>2. f.op = run[r].op /\ f.alone = run[r].alone /\ f.at = "loop"
    BY <1>0 DEF Run
  <2>3. ASSUME NEW p PROVE g(p).op = run[r].op /\ g(p).alone = run[r].alone /\ g(p).at = p
    BY <1>0 DEF Run
  <2> HIDE DEF f, g
  <2>4. CASE Set(r, f)
    BY <1>1, <2>1, <2>2, <2>4
  <2>5. ASSUME NEW p \in {"insert", "activate"}, Set(r, g(p)) PROVE Passes(r)
    BY <1>1, <2>1, <2>3, <2>5
  <2> QED BY <2>1, <2>4, <2>5
<1>5. CASE JobFails(r)
  <2> DEFINE f(c) == [run[r] EXCEPT !.at = "loop", !.into = @ \ {c}, !.cohort = None]
  <2>1. PICK c \in run[r].into :
          run[r].at \in {"loop", "exists", "insert", "activate"} /\ Set(r, f(c))
    BY <1>5 DEF JobFails
  <2>2. f(c).op = run[r].op /\ f(c).alone = run[r].alone /\ f(c).at = "loop"
    BY <1>0 DEF Run
  <2> HIDE DEF f
  <2> QED BY <1>1, <2>1, <2>2
<1>6. ASSUME NEW c \in Cohorts, CountMembers(r, c) PROVE Passes(r)
  <2> DEFINE f == [run[r] EXCEPT !.at = "exists", !.cohort = c]
             g == [run[r] EXCEPT !.into = @ \ {c}]
  <2>1. run[r].at = "loop" /\ (Set(r, f) \/ Set(r, g))
    BY <1>6 DEF CountMembers, At
  <2>2. /\ f.op = run[r].op /\ f.alone = run[r].alone /\ f.at = "exists"
        /\ g.op = run[r].op /\ g.alone = run[r].alone /\ g.at = run[r].at
    BY <1>0 DEF Run
  <2> HIDE DEF f, g
  <2>3. CASE Set(r, f)
    BY <1>1, <2>1, <2>2, <2>3
  <2>4. CASE Set(r, g)
    BY <1>1, <2>1, <2>2, <2>4
  <2> QED BY <2>1, <2>3, <2>4
<1> QED BY <1>2, <1>3, <1>4, <1>5, <1>6

LEMMA StartIsCounted ==
    ASSUME TypeOK, BulkInv, NEW r \in Requests, NEW o \in scenario.ops, Start(r, o)
    PROVE  BulkInv'
<1> DEFINE f == run'[r]
<1>1. /\ f.at = First(o) /\ f.op = o /\ f.alone = (o.name \in Loops /\ Running = {})
      /\ f.user = None /\ f.into = {} /\ f.out = {} /\ f.errors = {} /\ f.results = {} /\ f.told = None
      /\ f.users = IF o.name = "assignStudentsToBatches"
                   THEN {u \in Users : mapping[u] = "pending"} ELSE o.users
  BY DEF Start, Idle
<1>2. ASSUME NEW q \in Requests \ {r}
      PROVE  ~run'[q].alone /\ run'[q].at = run[q].at /\ run'[q].op = run[q].op
  <2>1. run[q] \in Run BY DEF TypeOK
  <2>2. CASE q \in Running
    <3>1. run'[q] = [run[q] EXCEPT !.alone = FALSE] BY <2>2 DEF Start
    <3> QED BY <2>1, <3>1 DEF Run
  <2>3. CASE q \notin Running
    <3>1. run'[q] = run[q] BY <2>3 DEF Start
    <3>2. run[q].at = "idle" BY <2>3 DEF Running
    <3> QED BY <3>1, <3>2 DEF BulkInv, Lonely
  <2> QED BY <2>2, <2>3
<1>3. First(o) \in {"check", "loop", "find"} /\ (o.name \in Loops => First(o) = "loop")
  BY DEF First, Loops
<1>4. Lonely'
  BY <1>1, <1>2, <1>3 DEF BulkInv, Lonely, Bulk, Running
<1>5. Bulk(f) => Looping(run[r])' /\ DoneSoFar(run[r])'
  BY <1>1, <1>3 DEF Bulk, Looping, DoneSoFar, ListedIsDone, DoneIsListed, In, Loops
<1> QED BY <1>2, <1>4, <1>5 DEF BulkInv, Bulk

\* A step of the bulk handler that leaves the rows alone leaves alone what they say.
LEMMA SameRows ==
    ASSUME members' = members
    PROVE  /\ \A u, c : RowsOf(u, c)' = RowsOf(u, c)
           /\ \A o, u, c : (Joined(o, u, c)' <=> Joined(o, u, c)) /\ (Left(u, c)' <=> Left(u, c))
BY DEF Rows, RowsOf, Joined, Left, Asked

LEMMA LoopsKeep ==
    ASSUME TypeOK, BulkInv, NEW r \in Requests,
           BulkUser(r) \/ BulkReply(r) \/ ReplyErrors(r)
    PROVE  BulkInv'
<1>0. /\ run[r] \in Run /\ run[r].at \in {"loop", "reply"} /\ Bulk(run[r])
      /\ members' = members
      /\ run[r].at = "loop" => run[r].into = {} /\ run[r].out = {}
      /\ run[r].alone => Looping(run[r]) /\ DoneSoFar(run[r])
  BY DEF TypeOK, BulkUser, BulkReply, ReplyErrors, UserDone, At, Bulk, UnchangedRows, BulkInv,
         Lonely
<1>1. CASE BulkUser(r)
  <2> DEFINE f(u) == [run[r] EXCEPT !.user = u, !.users = @ \ {u},
                                    !.out = run[r].op.out, !.into = run[r].op.into]
  <2>1. PICK u \in run[r].users : Set(r, f(u))
    BY <1>1 DEF BulkUser
  <2> PICK g : g = f(u)
    OBVIOUS
  <2>2. /\ g.at = "loop" /\ g.op = run[r].op /\ g.user = u /\ g.users = run[r].users \ {u}
        /\ g.out = run[r].op.out /\ g.into = run[r].op.into
        /\ g.errors = run[r].errors /\ g.results = run[r].results /\ g.alone = run[r].alone
        /\ g.told = run[r].told
    BY <1>0, <1>1 DEF Run, BulkUser, At
  <2>3. Set(r, g) /\ run[r].at = "loop" BY <1>1, <2>1 DEF BulkUser, At
  <2>4. run[r].alone => Looping(g)' BY <1>0, <2>1, <2>2 DEF Looping
  <2>5. ASSUME run[r].alone PROVE ListedIsDone(g)'
    BY <1>0, <2>1, <2>2, <2>5, SameRows DEF DoneSoFar, ListedIsDone, In
  <2>6. ASSUME run[r].alone PROVE DoneIsListed(g)'
    BY <1>0, <2>1, <2>2, <2>3, <2>6 DEF DoneSoFar, DoneIsListed, In
  <2> QED BY <1>0, <2>2, <2>3, <2>4, <2>5, <2>6, StepOfOne DEF Bulk, DoneSoFar
<1>2. ASSUME NEW p \in {"reply", "done"}, NEW t, run[r].alone => run[r].users = {},
             run[r].alone => run[r].into = {} /\ run[r].out = {} /\ t = "COHORTMEMBER_SUCCESSFULLY",
             Set(r, [run[r] EXCEPT !.at = p, !.told = t])
      PROVE  BulkInv'
  <2> PICK g : g = [run[r] EXCEPT !.at = p, !.told = t]
    OBVIOUS
  <2>1. /\ g.at = p /\ g.op = run[r].op /\ g.user = run[r].user
        /\ g.users = run[r].users /\ g.out = run[r].out /\ g.into = run[r].into
        /\ g.errors = run[r].errors /\ g.results = run[r].results /\ g.alone = run[r].alone
        /\ g.told = t
    BY <1>0 DEF Run
  <2>2. Set(r, g) BY <1>2
  <2>3. run[r].alone => Looping(g)' BY <1>0, <1>2, <2>1 DEF Looping
  <2>4. run[r].alone => DoneSoFar(g)'
    BY <1>0, <2>1, SameRows DEF DoneSoFar, ListedIsDone, DoneIsListed, In
  <2> QED BY <1>0, <1>2, <2>1, <2>2, <2>3, <2>4, StepOfOne DEF Bulk
<1>3. CASE BulkReply(r)
  <2>1. run[r].at = "loop" /\ run[r].users = {} BY <1>3 DEF BulkReply, At
  <2>2. run[r].alone => run[r].told = None BY <1>0, <2>1 DEF Looping
  <2> QED BY <1>0, <1>2, <1>3, <2>1, <2>2 DEF BulkReply, Respond
<1>4. CASE ReplyErrors(r)
  <2>1. run[r].at = "reply" BY <1>4 DEF ReplyErrors
  <2>2. run[r].alone => run[r].users = {} /\ run[r].into = {} /\ run[r].out = {}
    BY <1>0, <2>1 DEF Looping
  <2>3. run[r].alone => run[r].told = "COHORTMEMBER_SUCCESSFULLY" /\ run[r].told # None
    BY <1>0, <2>1, MembersAssumption DEF Looping, Messages
  <2> QED BY <1>2, <1>4, <2>2, <2>3 DEF ReplyErrors, Respond
<1> QED BY <1>1, <1>3, <1>4

LEMMA FindAnyIsCounted ==
    ASSUME TypeOK, BulkInv, NEW r \in Requests, NEW c \in Cohorts, FindAny(r, c)
    PROVE  BulkInv'
<1>0. /\ run[r] \in Run /\ run[r].at = "loop" /\ Bulk(run[r]) /\ members' = members
      /\ run[r].out = {} /\ c \in run[r].into
      /\ run[r].alone => Looping(run[r]) /\ DoneSoFar(run[r])
  BY DEF TypeOK, FindAny, At, Bulk, UnchangedRows, BulkInv
<1>1. ASSUME NEW g, Set(r, g), g.at \in {"insert", "save"}, g.op = run[r].op,
             g.user = run[r].user, g.users = run[r].users, g.out = run[r].out,
             g.into = run[r].into, g.errors = run[r].errors, g.alone = run[r].alone,
             g.results = run[r].results, g.told = run[r].told, g.cohort = c,
             g.at = "save" => /\ g.member \in RowsOf(run[r].user, c)
                              /\ g.entity = members[g.member]
      PROVE  BulkInv'
  <2>1. run[r].alone => Looping(g)'
    BY <1>0, <1>1, SameRows DEF Looping
  <2>2. run[r].alone => DoneSoFar(g)'
    BY <1>0, <1>1, SameRows DEF DoneSoFar, ListedIsDone, DoneIsListed, In
  <2> QED BY <1>0, <1>1, <2>1, <2>2, StepOfOne DEF Bulk
<1>2. CASE Set(r, [run[r] EXCEPT !.at = "insert", !.cohort = c])
  <2> DEFINE g == [run[r] EXCEPT !.at = "insert", !.cohort = c]
  <2>1. /\ g.at = "insert" /\ g.op = run[r].op /\ g.user = run[r].user
        /\ g.users = run[r].users /\ g.out = run[r].out /\ g.into = run[r].into
        /\ g.errors = run[r].errors /\ g.alone = run[r].alone /\ g.cohort = c
        /\ g.results = run[r].results /\ g.told = run[r].told
    BY <1>0 DEF Run
  <2>2. Set(r, g) BY <1>2
  <2> HIDE DEF g
  <2> QED BY <1>1, <2>1, <2>2
<1>3. ASSUME NEW m \in RowsOf(run[r].user, c),
             Set(r, [run[r] EXCEPT !.at = "save", !.cohort = c,
                                   !.member = m, !.entity = members[m]])
      PROVE  BulkInv'
  <2> DEFINE g == [run[r] EXCEPT !.at = "save", !.cohort = c,
                                 !.member = m, !.entity = members[m]]
  <2>1. /\ g.at = "save" /\ g.op = run[r].op /\ g.user = run[r].user
        /\ g.users = run[r].users /\ g.out = run[r].out /\ g.into = run[r].into
        /\ g.errors = run[r].errors /\ g.alone = run[r].alone /\ g.cohort = c
        /\ g.results = run[r].results /\ g.told = run[r].told
        /\ g.member = m /\ g.entity = members[m]
    BY <1>0 DEF Run
  <2>2. Set(r, g) BY <1>3
  <2> HIDE DEF g
  <2> QED BY <1>1, <1>3, <2>1, <2>2
<1> QED BY <1>2, <1>3 DEF FindAny

LEMMA BulkFailsIsCounted ==
    ASSUME TypeOK, BulkInv, NEW r \in Requests, BulkFails(r)
    PROVE  BulkInv'
<1>0. /\ run[r] \in Run /\ Bulk(run[r]) /\ members' = members
      /\ run[r].alone => Looping(run[r]) /\ DoneSoFar(run[r])
  BY DEF TypeOK, BulkFails, Bulk, UnchangedRows, BulkInv
<1> DEFINE f(c) == [Skipped(r, c) EXCEPT !.errors = @ \cup {<<run[r].user, c>>}]
<1>1. PICK c \in Cohorts : (Removing(r, c) \/ Adding(r, c)) /\ Set(r, f(c))
  BY DEF BulkFails
<1> PICK g : g = f(c)
  OBVIOUS
<1>2. /\ g.at = "loop" /\ g.op = run[r].op /\ g.user = run[r].user
      /\ g.users = run[r].users /\ g.out = run[r].out \ {c}
      /\ g.into = (IF Removing(r, c) THEN run[r].into ELSE run[r].into \ {c})
      /\ g.errors = run[r].errors \cup {<<run[r].user, c>>} /\ g.alone = run[r].alone
      /\ g.results = run[r].results /\ g.told = run[r].told
  BY <1>0 DEF Run, Skipped
<1> HIDE DEF f
<1>3. Set(r, g) BY <1>1
<1>4. run[r].at \in {"loop", "insert", "save"}
  BY <1>1 DEF Removing, Adding
<1>5. ~Removing(r, c) /\ run[r].alone => run[r].out = {}
  BY <1>0, <1>1 DEF Removing, Adding, Looping
<1>6. run[r].alone => Looping(g)'
  <2> SUFFICES ASSUME run[r].alone PROVE Looping(g)' OBVIOUS
  <2>1. Looping(run[r]) BY <1>0
  <2>2. g.into \subseteq run[r].into /\ g.out \subseteq run[r].out BY <1>2
  <2>3. g.out # {} => g.into = run[r].into BY <1>2, <1>5
  <2>4. g.told = None BY <1>2, <1>4, <2>1 DEF Looping
  <2> QED BY <1>2, <2>1, <2>2, <2>3, <2>4 DEF Looping
<1>7. ASSUME run[r].alone PROVE ListedIsDone(g)'
  BY <1>0, <1>2, <1>7, SameRows DEF DoneSoFar, ListedIsDone, In
<1>8. ASSUME run[r].alone PROVE DoneIsListed(g)'
  <2>1. ASSUME NEW u \in run[r].op.users \ run[r].users, NEW d \in Cohorts,
               <<u, d>> \notin g.errors
        PROVE  /\ <<u, d>> \notin run[r].errors
               /\ u = run[r].user => (d \in g.into <=> d \in run[r].into)
               /\ u = run[r].user => (d \in g.out <=> d \in run[r].out)
    BY <1>2, <2>1
  <2>2. /\ g.op = run[r].op /\ g.users = run[r].users /\ g.user = run[r].user
        /\ g.results = run[r].results
    BY <1>2
  <2> QED BY <1>0, <1>8, <2>1, <2>2 DEF DoneSoFar, DoneIsListed, In
<1> QED BY <1>0, <1>2, <1>3, <1>4, <1>6, <1>7, <1>8, StepOfOne DEF Bulk, DoneSoFar

LEMMA RemoveIsCounted ==
    ASSUME TypeOK, BulkInv, NEW r \in Requests, NEW c \in Cohorts, Remove(r, c)
    PROVE  BulkInv'
<1>0. /\ run[r] \in Run /\ run[r].at = "loop" /\ Bulk(run[r]) /\ c \in run[r].out
      /\ run[r].alone => Looping(run[r]) /\ DoneSoFar(run[r])
      /\ members \in [MemberIds -> Row \cup {None}]
  BY DEF TypeOK, Remove, At, Bulk, BulkInv
<1>1. PICK g : g = [run[r] EXCEPT !.out = @ \ {c},
                                  !.results = @ \cup {<<run[r].user, c, "left">>}]
  OBVIOUS
<1>2. /\ g.at = "loop" /\ g.op = run[r].op /\ g.user = run[r].user
      /\ g.users = run[r].users /\ g.out = run[r].out \ {c} /\ g.into = run[r].into
      /\ g.errors = run[r].errors /\ g.alone = run[r].alone
      /\ g.results = run[r].results \cup {<<run[r].user, c, "left">>} /\ g.told = run[r].told
  BY <1>0, <1>1 DEF Run
<1>3. Set(r, g) BY <1>1 DEF Remove
<1>4. PICK u, o : u = run[r].user /\ o = run[r].op
  OBVIOUS
<1>5. \A m \in MemberIds :
        IF m \in RowsOf(u, c)
        THEN members'[m] = [members[m] EXCEPT !.status = "reassigned", !.byJob = FALSE]
        ELSE members'[m] = members[m]
  BY <1>4 DEF Remove
<1>6. ASSUME NEW m \in RowsOf(u, c)
      PROVE  /\ members'[m] # None /\ members'[m].status = "reassigned"
             /\ members'[m].user = u /\ members'[m].cohort = c /\ members'[m].year = c
  <2>1. /\ m \in MemberIds /\ members[m] \in Row /\ members[m].user = u
        /\ members[m].cohort = c /\ members[m].year = c
    BY <1>0 DEF RowsOf, Rows
  <2> DEFINE row == [members[m] EXCEPT !.status = "reassigned", !.byJob = FALSE]
  <2>2. /\ row \in Row /\ row.user = u /\ row.cohort = c /\ row.year = c
        /\ row.status = "reassigned"
    BY <2>1 DEF Row, MemberStatuses
  <2>3. members'[m] = row BY <1>5, <2>1
  <2>4. row # None BY <2>2, MembersAssumption
  <2> HIDE DEF row
  <2> QED BY <2>2, <2>3, <2>4
<1>7. ASSUME NEW v, NEW d
      PROVE  /\ RowsOf(v, d)' = RowsOf(v, d)
             /\ v # u \/ d # c => \A m \in RowsOf(v, d) : members'[m] = members[m]
  <2>1. \A m \in MemberIds : m \notin RowsOf(u, c) => members'[m] = members[m]
    BY <1>5
  <2>2. \A m \in MemberIds : m \in RowsOf(v, d)' <=> m \in RowsOf(v, d)
    <3>1. ASSUME NEW m \in MemberIds PROVE m \in RowsOf(v, d)' <=> m \in RowsOf(v, d)
      <4>1. CASE m \in RowsOf(u, c)
        BY <1>6, <4>1 DEF RowsOf, Rows
      <4>2. CASE m \notin RowsOf(u, c)
        BY <2>1, <4>2 DEF RowsOf, Rows
      <4> QED BY <4>1, <4>2
    <3> QED BY <3>1
  <2>3. RowsOf(v, d) \subseteq MemberIds /\ RowsOf(v, d)' \subseteq MemberIds
    BY DEF RowsOf, Rows
  <2>4. v # u \/ d # c => RowsOf(v, d) \cap RowsOf(u, c) = {}
    BY DEF RowsOf
  <2> QED BY <2>1, <2>2, <2>3, <2>4
<1>8. /\ Left(u, c)'
      /\ \A p, v, d : v # u \/ d # c => /\ Joined(p, v, d)' <=> Joined(p, v, d)
                                        /\ Left(v, d)' <=> Left(v, d)
  <2>1. Left(u, c)'
    BY <1>6, <1>7 DEF Left
  <2>2. ASSUME NEW p, NEW v, NEW d, v # u \/ d # c
        PROVE  (Joined(p, v, d)' <=> Joined(p, v, d)) /\ (Left(v, d)' <=> Left(v, d))
    BY <1>7, <2>2 DEF Joined, Left, Asked
  <2> QED BY <2>1, <2>2
<1>9. run[r].alone => Looping(g)'
  BY <1>0, <1>2 DEF Looping
<1>10. ASSUME run[r].alone PROVE DoneSoFar(g)'
  <2>0. /\ ~In(run[r], u, c, "joined")
        /\ run[r].op.users \ run[r].users = o.users \ g.users
        /\ c \in run[r].out /\ u \in o.users \ g.users
        /\ u \in Users => u \in run[r].op.users
    BY <1>0, <1>2, <1>4, <1>10 DEF Looping, DoneSoFar, ListedIsDone, In, Run
  <2>1. /\ \A v, d : In(g, v, d, "joined") <=> In(run[r], v, d, "joined")
        /\ \A v, d : In(g, v, d, "left") <=> In(run[r], v, d, "left") \/ (v = u /\ d = c)
    BY <1>2, <1>4 DEF In
  <2>2. ASSUME NEW v \in Users, NEW d \in Cohorts
        PROVE  /\ In(g, v, d, "joined") => Joined(o, v, d)' /\ (v = u => g.out = {})
               /\ In(g, v, d, "left") /\ ~In(g, v, d, "joined") => Left(v, d)'
               /\ In(g, v, d, "joined") \/ In(g, v, d, "left") => v \in o.users \ g.users
    <3>1. CASE v = u /\ d = c
      BY <1>8, <2>0, <2>1, <3>1
    <3>2. CASE v # u \/ d # c
      BY <1>0, <1>2, <1>4, <1>8, <1>10, <2>0, <2>1, <3>2 DEF DoneSoFar, ListedIsDone
    <3> QED BY <3>1, <3>2
  <2>3. ListedIsDone(g)'
    BY <1>2, <1>4, <2>2 DEF ListedIsDone, In
  <2>4. ASSUME NEW v \in o.users \ g.users, NEW d \in Cohorts, <<v, d>> \notin g.errors
        PROVE  /\ d \in o.into /\ (v = u => d \notin g.into) => In(g, v, d, "joined")
               /\ d \in o.out /\ (v = u => d \notin g.out) => In(g, v, d, "left")
    BY <1>0, <1>2, <1>4, <1>10, <2>0, <2>1, <2>4 DEF DoneSoFar, DoneIsListed
  <2>5. DoneIsListed(g)'
    BY <1>2, <1>4, <2>4 DEF DoneIsListed, In
  <2> QED BY <2>3, <2>5 DEF DoneSoFar
<1> QED BY <1>0, <1>2, <1>3, <1>9, <1>10, StepOfOne DEF Bulk

\* The addition of the current user to the next cohort, by a new row or by the one found.
LEMMA AddsIsCounted ==
    ASSUME TypeOK, BulkInv, NEW r \in Requests, NEW m \in MemberIds, NEW row \in Row,
           NEW u, NEW c, NEW o, u = run[r].user, c = run[r].cohort, o = run[r].op,
           row.user = u, row.cohort = c, Save(r, m, row), Added(r), Bulk(run[r]),
           run[r].at \in {"insert", "save"},
           run[r].alone => row.status = Asked(o) /\ row.year = c,
           run[r].alone /\ m \in Rows => m \in RowsOf(u, c)
    PROVE  BulkInv'
<1>0. /\ run[r] \in Run /\ row # None
      /\ run[r].alone => Looping(run[r]) /\ DoneSoFar(run[r])
      /\ members \in [MemberIds -> Row \cup {None}]
  BY MembersAssumption DEF TypeOK, BulkInv
<1>1. PICK g : g = [run[r] EXCEPT !.at = "loop", !.into = @ \ {run[r].cohort},
                            !.results = @ \cup {<<run[r].user, run[r].cohort, "joined">>},
                            !.cohort = None, !.member = None, !.entity = None]
  OBVIOUS
<1>2. /\ g.at = "loop" /\ g.op = o /\ g.user = u
      /\ g.users = run[r].users /\ g.out = run[r].out /\ g.into = run[r].into \ {c}
      /\ g.errors = run[r].errors /\ g.alone = run[r].alone
      /\ g.results = run[r].results \cup {<<u, c, "joined">>} /\ g.told = run[r].told
  BY <1>0, <1>1 DEF Run
<1>3. Set(r, g) BY <1>1 DEF Added
<1>4. members'[m] = row /\ \A n \in MemberIds \ {m} : members'[n] = members[n]
  BY <1>0 DEF Save
<1>5. ASSUME run[r].alone, NEW v, NEW d, v # u \/ d # c
      PROVE  RowsOf(v, d)' = RowsOf(v, d) /\ \A n \in RowsOf(v, d) : members'[n] = members[n]
  <2>1. m \notin RowsOf(v, d) /\ m \notin RowsOf(v, d)'
    BY <1>4, <1>5 DEF RowsOf
  <2> QED BY <1>4, <2>1 DEF RowsOf, Rows
<1>6. ASSUME run[r].alone
      PROVE  /\ Joined(o, u, c)'
             /\ \A p, v, d : v # u \/ d # c => /\ Joined(p, v, d)' <=> Joined(p, v, d)
                                               /\ Left(v, d)' <=> Left(v, d)
  <2>1. Joined(o, u, c)'
    BY <1>0, <1>4, <1>6 DEF Joined, RowsOf, Rows, Asked
  <2>2. ASSUME NEW p, NEW v, NEW d, v # u \/ d # c
        PROVE  (Joined(p, v, d)' <=> Joined(p, v, d)) /\ (Left(v, d)' <=> Left(v, d))
    BY <1>5, <1>6, <2>2 DEF Joined, Left, Asked
  <2> QED BY <2>1, <2>2
<1>7. run[r].alone => Looping(g)'
  BY <1>0, <1>2 DEF Looping
<1>8. ASSUME run[r].alone PROVE DoneSoFar(g)'
  <2>0. g.out = {} /\ u \in o.users \ g.users /\ run[r].users = g.users
    BY <1>0, <1>2, <1>8 DEF Looping
  <2>1. /\ \A v, d : In(g, v, d, "left") <=> In(run[r], v, d, "left")
        /\ \A v, d : In(g, v, d, "joined") <=> In(run[r], v, d, "joined") \/ (v = u /\ d = c)
    BY <1>2 DEF In
  <2>2. ASSUME NEW v \in Users, NEW d \in Cohorts
        PROVE  /\ In(g, v, d, "joined") => Joined(o, v, d)' /\ (v = u => g.out = {})
               /\ In(g, v, d, "left") /\ ~In(g, v, d, "joined") => Left(v, d)'
               /\ In(g, v, d, "joined") \/ In(g, v, d, "left") => v \in o.users \ g.users
    <3>1. CASE v = u /\ d = c
      BY <1>6, <1>8, <2>0, <2>1, <3>1
    <3>2. CASE v # u \/ d # c
      BY SMTT(60), <1>0, <1>2, <1>6, <1>8, <2>0, <2>1, <3>2 DEF DoneSoFar, ListedIsDone
    <3> QED BY <3>1, <3>2
  <2>3. ListedIsDone(g)'
    BY <1>2, <2>2 DEF ListedIsDone, In
  <2>4. ASSUME NEW v \in o.users \ g.users, NEW d \in Cohorts, <<v, d>> \notin g.errors
        PROVE  /\ d \in o.into /\ (v = u => d \notin g.into) => In(g, v, d, "joined")
               /\ d \in o.out /\ (v = u => d \notin g.out) => In(g, v, d, "left")
    BY <1>0, <1>2, <1>8, <2>0, <2>1, <2>4 DEF DoneSoFar, DoneIsListed
  <2>5. DoneIsListed(g)'
    BY <1>2, <2>4 DEF DoneIsListed, In
  <2> QED BY <2>3, <2>5 DEF DoneSoFar
<1> QED BY <1>2, <1>3, <1>7, <1>8, StepOfOne DEF Bulk

LEMMA AddedIsCounted ==
    ASSUME AsksWhatItSaves, TypeOK, RowsInv, BulkInv, \A q \in Requests : Placed(run[q]),
           NEW r \in Requests, InsertAdded(r) \/ SaveAdded(r)
    PROVE  BulkInv'
<1>1. PICK u, c, o : u = run[r].user /\ c = run[r].cohort /\ o = run[r].op
  OBVIOUS
<1>2. /\ run[r].at \in {"insert", "save"} /\ o.name = "createBulkCohortMembers"
      /\ Added(r) /\ Bulk(run[r])
      /\ Knows(run[r]) /\ Placed(run[r])
      /\ run[r].alone => Looping(run[r])
  BY <1>1 DEF InsertAdded, SaveAdded, At, Bulk, RowsInv, Distinct, BulkInv
<1>3. u \in Users /\ c \in Cohorts
  BY <1>1, <1>2 DEF Placed
<1>4. /\ Asked(o) \in MemberStatuses /\ o.status \in MemberStatuses \cup {None}
      /\ o \in scenario.ops \cup {NoOp}
  BY <1>1, <1>2, OpTyped DEF Loops
<1>5. CASE InsertAdded(r)
  <2>1. PICK m \in MemberIds : Free(m) /\ Save(r, m, NewRow(u, c, Asked(o), FALSE))
    BY <1>1, <1>5 DEF InsertAdded
  <2> DEFINE row == NewRow(u, c, Asked(o), FALSE)
  <2>2. /\ row \in Row /\ row.user = u /\ row.cohort = c /\ row.year = c
        /\ row.status = Asked(o)
    BY <1>3, <1>4 DEF NewRow, Row, Late
  <2>3. Save(r, m, row) /\ m \notin Rows BY <2>1 DEF Free, Rows
  <2> HIDE DEF row
  <2> QED BY <1>1, <1>2, <2>2, <2>3, AddsIsCounted
<1>6. CASE SaveAdded(r)
  <2> DEFINE e == run[r].entity
             s == IF ~o.verbatim THEN "active"
                  ELSE IF o.status = None THEN e.status ELSE o.status
             row == Rewritten(e, e.user, e.cohort, s)
  <2>1. run[r].at = "save" /\ Save(r, run[r].member, row)
    BY <1>1, <1>6 DEF SaveAdded, At
  <2>2. run[r].member \in MemberIds /\ e \in Row /\ e.user = u /\ e.cohort = c
    BY <1>1, <1>2, <2>1 DEF Placed, Knows
  <2>3. s = Asked(o)
    <3>1. o.name # NoOp.name BY <1>2 DEF NoOp
    <3>2. IF o.verbatim THEN o.status # None ELSE o.status \in {None, "active"}
      BY <1>2, <1>4, <3>1 DEF AsksWhatItSaves, TypeOK
    <3> QED BY <3>2, <1>4, MembersAssumption DEF Asked, MemberStatuses
  <2>4. /\ row \in Row /\ row.user = u /\ row.cohort = c /\ row.status = Asked(o)
        /\ row.year = e.year
    <3> HIDE DEF e, s
    <3> QED BY <1>3, <1>4, <2>2, <2>3 DEF Rewritten, Row, Late
  <2>6. run[r].alone => run[r].member \in RowsOf(u, c) /\ e.year = c
    BY <1>1, <1>2, <2>1 DEF Looping, RowsOf
  <2> HIDE DEF row, s, e
  <2> QED BY <1>1, <1>2, <2>1, <2>2, <2>4, <2>6, AddsIsCounted
<1> QED BY <1>5, <1>6

LEMMA BulkKept ==
    ASSUME AsksWhatItSaves
    PROVE  IInv /\ RowsInv /\ BulkInv /\ [Next]_vars => BulkInv'
<1> SUFFICES ASSUME IInv, RowsInv, BulkInv, [Next]_vars PROVE BulkInv' OBVIOUS
<1>0. TypeOK /\ \A q \in Requests : Placed(run[q])
  BY DEF IInv
<1>1. ASSUME NEW r \in Requests, NEW o \in scenario.ops, Start(r, o) PROVE BulkInv'
  BY <1>0, <1>1, StartIsCounted
<1>2. ASSUME NEW r \in Requests,
             \/ Check(r) \/ Insert(r) \/ FindMember(r) \/ SaveMember(r)
             \/ DeleteMember(r)
      PROVE  BulkInv'
  BY <1>0, <1>2, EndPasses, SinglePasses, PassesKeeps
<1>3. ASSUME NEW r \in Requests,
             \/ BulkUser(r) \/ InsertAdded(r) \/ SaveAdded(r) \/ BulkFails(r)
             \/ BulkReply(r) \/ ReplyErrors(r) \/ Finish(r)
      PROVE  BulkInv'
  BY <1>0, <1>3, LoopsKeep, AddedIsCounted, BulkFailsIsCounted, EndPasses, PassesKeeps
<1>4. ASSUME NEW r \in Requests, NEW c \in Cohorts,
             Remove(r, c) \/ FindAny(r, c) \/ CountMembers(r, c)
      PROVE  BulkInv'
  BY <1>0, <1>4, RemoveIsCounted, FindAnyIsCounted, JobPasses, PassesKeeps
<1>5. ASSUME NEW r \in Requests,
             \/ FindCohort(r) \/ SaveCohort(r) \/ FindMembers(r) \/ Cascade(r)
             \/ Archive(r) \/ Purge(r) \/ SaveStatuses(r)
      PROVE  BulkInv'
  BY <1>0, <1>5, ChangePasses, EndPasses, PassesKeeps
<1>6. ASSUME NEW r \in Requests,
             \/ NextUser(r) \/ SkipUser(r) \/ FindExisting(r) \/ InsertStudent(r)
             \/ Activate(r) \/ JobFails(r) \/ JobDone(r) \/ Abort(r)
      PROVE  BulkInv'
  BY <1>0, <1>6, JobPasses, EndPasses, PassesKeeps
<1>7. CASE UNCHANGED vars
  <2>1. members' = members /\ run' = run BY <1>7 DEF vars
  <2>2. Lonely' BY <2>1 DEF BulkInv, Lonely, Bulk
  <2>3. \A r \in Requests : Looping(run[r]) => Looping(run[r])'
    BY <2>1, SameRows DEF Looping
  <2>4. \A r \in Requests : DoneSoFar(run[r]) => DoneSoFar(run[r])'
    BY <2>1, SameRows DEF DoneSoFar, ListedIsDone, DoneIsListed, In
  <2> QED BY <2>1, <2>2, <2>3, <2>4 DEF BulkInv, Bulk
<1> QED BY <1>1, <1>2, <1>3, <1>4, <1>5, <1>6, <1>7 DEF Next

\* What the reply of a bulk request that ran alone lists has been done, and what it does not
\* list has failed, whichever of its statements did.  Of requests that ask on new rows for another status
\* than is saved on existing ones it need not hold, and the hypothesis leaves them out.
THEOREM BulkRepliesAreTrue ==
    ASSUME AsksWhatItSaves
    PROVE  Spec => []BulkAsListed
<1>1. Init => BulkInv
  <2>1. Idle.at = "idle" /\ Idle.alone = FALSE BY DEF Idle
  <2> QED BY <2>1 DEF Init, BulkInv, Lonely
<1>2. IInv /\ RowsInv /\ BulkInv /\ [Next]_vars => BulkInv'
  BY BulkKept
<1>3. ASSUME BulkInv PROVE BulkAsListed
  <2>0. \A r \in Requests : run[r].at \in {"reply", "done"} /\ run[r].alone =>
          run[r].told = "COHORTMEMBER_SUCCESSFULLY"
    BY <1>3 DEF BulkInv, Lonely, Looping
  <2> SUFFICES ASSUME NEW r \in Requests, run[r].at \in {"reply", "done"}, run[r].alone,
                      NEW u \in Users, NEW c \in Cohorts
               PROVE  LET o == run[r].op
                          joined == In(run[r], u, c, "joined")
                          left == In(run[r], u, c, "left")
                      IN /\ joined => Joined(o, u, c)
                         /\ left /\ ~joined => Left(u, c)
                         /\ u \in o.users /\ c \in o.into =>
                              joined \/ <<u, c>> \in run[r].errors
                         /\ u \in o.users /\ c \in o.out =>
                              left \/ <<u, c>> \in run[r].errors
    BY <2>0 DEF BulkAsListed, In, Joined, Left
  <2>1. Looping(run[r]) /\ DoneSoFar(run[r])
    BY <1>3 DEF BulkInv, Lonely
  <2> QED BY <2>1 DEF Looping, DoneSoFar, ListedIsDone, DoneIsListed
<1> QED BY <1>1, <1>2, <1>3, Invariance, RowsInvariance, PTL DEF Spec
=============================================================================

----------------------------- MODULE FreshReads -----------------------------
(***************************************************************************)
(* What the caching layer promises, with no cache in sight: a read returns *)
(* data that is real (some state the database has reached) and that is not *)
(* older than any write whose invalidation had completed when the read     *)
(* began.  docs/CACHING_STRATEGY.md, 1.1 goal 2, states it as "a completed *)
(* write is reflected by the very next read".                              *)
(*                                                                         *)
(* Data is abstracted to a counter per namespace: db[n] is the number of   *)
(* committed writes to the rows namespace n covers.                        *)
(***************************************************************************)
EXTENDS Naturals

CONSTANTS
    Namespaces, \* the version namespaces, each with its underlying rows
    Readers     \* requests that read

VARIABLES
    db,     \* db[n]: number of committed writes to the rows of n
    acked,  \* acked[n]: the newest of them whose write request has completed
    reads   \* reads[p]: what the read of p is doing

vars == <<db, acked, reads>>

Idle == [status |-> "idle"]
Running(sc, fl) == [status |-> "running", scope |-> sc, floor |-> fl]
Returned(v) == [status |-> "returned", value |-> v]

Init ==
    /\ db = [n \in Namespaces |-> 0]
    /\ acked = [n \in Namespaces |-> 0]
    /\ reads = [p \in Readers |-> Idle]

\* A write to the rows of the namespaces in N commits.
Commit(N) ==
    /\ db' = [n \in Namespaces |-> IF n \in N THEN db[n] + 1 ELSE db[n]]
    /\ UNCHANGED <<acked, reads>>

\* A write request has finished invalidating n: it announces what it wrote.
Acknowledge(n) ==
    /\ \E d \in acked[n]..db[n] : acked' = [acked EXCEPT ![n] = d]
    /\ UNCHANGED <<db, reads>>

Start(p, sc) ==
    /\ reads[p] = Idle
    /\ reads' = [reads EXCEPT ![p] = Running(sc, acked)]
    /\ UNCHANGED <<db, acked>>

\* The read returns, for every namespace it joins, a version between what was
\* acknowledged when it began and what is committed now.
Return(p) ==
    /\ reads[p].status = "running"
    /\ \E v \in [reads[p].scope -> UNION {0..db[n] : n \in Namespaces}] :
         /\ \A n \in reads[p].scope : reads[p].floor[n] <= v[n] /\ v[n] <= db[n]
         /\ reads' = [reads EXCEPT ![p] = Returned(v)]
    /\ UNCHANGED <<db, acked>>

Finish(p) ==
    /\ reads' = [reads EXCEPT ![p] = Idle]
    /\ UNCHANGED <<db, acked>>

Next ==
    \/ \E N \in SUBSET Namespaces : Commit(N)
    \/ \E n \in Namespaces : Acknowledge(n)
    \/ \E p \in Readers :
         \/ \E sc \in SUBSET Namespaces : Start(p, sc)
         \/ Return(p)
         \/ Finish(p)

Spec == Init /\ [][Next]_vars
=============================================================================

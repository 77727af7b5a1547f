------------------------------ MODULE Handlers ------------------------------
(***************************************************************************)
(* What the handlers of the catalog have in common (tenants, academic      *)
(* years, codes, options): a request is served by an async method, and     *)
(* between two of its awaited statements any statement of another request  *)
(* may run.  Nothing is wrapped in a transaction, and what was read before *)
(* an await is used after it.                                              *)
(*                                                                         *)
(* A request names what it competes for: the tree of tenants, the years of *)
(* a tenant, a key of a table, the options of a field.                     *)
(***************************************************************************)
EXTENDS Naturals, FiniteSets

CONSTANTS
    Requests,   \* concurrent requests
    Scenarios,  \* records [ops, parallel, faults]: what is requested, how many at
                \* once, and whether "database" errors end a handler
    None

ASSUME HandlersAssumption ==
    /\ IsFiniteSet(Requests)
    /\ \A c \in Scenarios : c.parallel \in Nat /\ c.faults \subseteq {"database"}

VARIABLES
    run,        \* the requests: where one is, what it asks, what it has read, what
                \* its loop has left
    raced,      \* history: what was written while another request had read it
    failed,     \* history: what a request had written to before it failed
    scenario    \* the one that this behaviour runs

shared == <<raced, failed, scenario>>

NoOp == [name |-> "none", of |-> {}]
Idle == [at |-> "idle", op |-> NoOp, seen |-> None, left |-> {}, begun |-> FALSE,
         wrote |-> FALSE]

InitHandlers ==
    /\ run = [r \in Requests |-> Idle]
    /\ raced = {} /\ failed = {}
    /\ scenario \in Scenarios

Running == {r \in Requests : run[r].at # "idle"}
At(r, names, here) == run[r].op.name \in names /\ run[r].at = here

\* Request r arrives and is about to run its first statement.
Arrive(r, o, first) ==
    /\ run[r].at = "idle"
    /\ Cardinality(Running) < scenario.parallel
    /\ run' = [run EXCEPT ![r] = [Idle EXCEPT !.at = first, !.op = o]]
    /\ UNCHANGED shared

\* f has run a statement, and there is the next one.
Then(f, there) == [f EXCEPT !.at = there, !.begun = TRUE]
Set(r, f) == run' = [run EXCEPT ![r] = f]
Go(r, there) == Set(r, Then(run[r], there))
End(r) == Set(r, Idle)

\* r writes X.
Writes(r, X) ==
    raced' = raced \cup {x \in X : \E q \in Running \ {r} :
                                     run[q].begun /\ x \in run[q].op.of}

\* Nobody is writing x, and nobody has done so half way or at once with another.
Settled(x) ==
    /\ \A r \in Running : x \notin run[r].op.of
    /\ x \notin raced \cup failed

\* A database error ends the handler with a reply of 500; what it wrote stays.
Abort(r) ==
    /\ "database" \in scenario.faults /\ run[r].at # "idle"
    /\ End(r)
    /\ failed' = IF run[r].wrote THEN failed \cup run[r].op.of ELSE failed
    /\ UNCHANGED <<raced, scenario>>
=============================================================================

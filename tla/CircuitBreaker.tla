--------------------------- MODULE CircuitBreaker ---------------------------
(***************************************************************************)
(* executeOp of src/src/cache/cache.service.ts in one pod: the per-op      *)
(* timeout and the circuit breaker that every Redis operation goes         *)
(* through, with several operations in flight at once.                     *)
(*                                                                         *)
(* Time is counted down: cooldown is how much of circuitOpenUntil lies     *)
(* ahead of Date.now(), and a pending operation knows how long its timer   *)
(* still runs.  The event loop may be late, so time passes whether or not  *)
(* a timer that is due has fired.  consecutiveFailures is only ever        *)
(* compared with cbFailures and therefore counted up to it.                *)
(***************************************************************************)
EXTENDS Integers, FiniteSets

CONSTANTS
    Ops,         \* concurrent requests, each with at most one operation
    CbFailures,  \* CACHE_CB_FAILURES
    OpTimeout,   \* CACHE_OP_TIMEOUT_MS, in ticks
    CooldownTime,\* CACHE_CB_COOLDOWN_MS, in ticks
    MaxTime      \* bound: ticks for which the history is kept after an answer

ASSUME BreakerAssumption ==
    /\ CbFailures \in Nat \ {0}
    /\ OpTimeout \in Nat \ {0}
    /\ CooldownTime \in Nat \ {0}
    /\ MaxTime \in Nat
    /\ IsFiniteSet(Ops)

VARIABLES
    failures, \* consecutiveFailures, up to CbFailures
    cooldown, \* time until circuitOpenUntil, 0 when the circuit is closed
    timer,    \* timer[o]: ticks until the timer of o is due, None if o is not pending
    sent,     \* history: operations unanswered since Redis last answered
    silent    \* history: ticks since then, up to MaxTime

breakerVars == <<failures, cooldown, timer, sent, silent>>

None == OpTimeout + 1
Pending(o) == timer[o] # None
isCircuitOpen == cooldown > 0

\* Mutant of Ticked: time does not stop at zero.
TickedBelowZero(t) == t - 1

Ticked(t) == IF t = 0 THEN 0 ELSE t - 1

InitBreaker ==
    /\ failures = 0
    /\ cooldown = 0
    /\ timer = [o \in Ops |-> None]
    /\ sent = 0
    /\ silent = 0

\* The circuit is closed: the operation is sent and its timer starts.
Send(o) ==
    /\ ~Pending(o) /\ ~isCircuitOpen
    /\ timer' = [timer EXCEPT ![o] = OpTimeout]
    /\ sent' = IF silent < MaxTime THEN sent + 1 ELSE sent
    /\ UNCHANGED <<failures, cooldown, silent>>

\* Mutant of Skip: a skipped operation counts as one more failure.
SkipIsAFailure(o) ==
    /\ ~Pending(o) /\ isCircuitOpen
    /\ cooldown' = CooldownTime
    /\ UNCHANGED <<failures, timer, sent, silent>>

\* The circuit is open: { ok: false } without an attempt.
Skip(o) ==
    /\ ~Pending(o) /\ isCircuitOpen
    /\ UNCHANGED breakerVars

recordSuccess ==
    /\ failures' = 0
    /\ cooldown' = 0
    /\ sent' = Cardinality({o \in Ops : Pending(o)}) - 1
    /\ silent' = 0

\* Redis answers before the timer fires, late or not.
Answer(o) ==
    /\ Pending(o)
    /\ timer' = [timer EXCEPT ![o] = None]
    /\ recordSuccess

\* Mutant of recordFailure: the circuit opens one failure too late.
OpensLate ==
    /\ failures' = IF failures = CbFailures THEN failures ELSE failures + 1
    /\ cooldown' = IF failures = CbFailures THEN CooldownTime ELSE cooldown
    /\ UNCHANGED <<sent, silent>>

\* Mutant of recordFailure: opening the circuit starts a new count.
StartsOver ==
    /\ failures' = IF failures + 1 = CbFailures THEN 0 ELSE failures + 1
    /\ cooldown' = IF failures + 1 = CbFailures THEN CooldownTime ELSE cooldown
    /\ UNCHANGED <<sent, silent>>

recordFailure ==
    /\ failures' = IF failures = CbFailures THEN failures ELSE failures + 1
    /\ cooldown' = IF failures' >= CbFailures THEN CooldownTime ELSE cooldown
    /\ UNCHANGED <<sent, silent>>

\* The operation is rejected, or its timer fires; what becomes of it afterwards
\* no longer reaches the breaker.
Fail(o) ==
    /\ Pending(o)
    /\ timer' = [timer EXCEPT ![o] = None]
    /\ recordFailure

TimeOut(o) == timer[o] = 0 /\ Fail(o)

Tick ==
    /\ cooldown' = Ticked(cooldown)
    /\ timer' = [o \in Ops |-> IF Pending(o) THEN Ticked(timer[o]) ELSE None]
    /\ silent' = IF silent < MaxTime THEN silent + 1 ELSE silent
    /\ UNCHANGED <<failures, sent>>

NextBreaker ==
    \/ \E o \in Ops : Send(o) \/ Skip(o) \/ Answer(o) \/ Fail(o)
    \/ Tick

BreakerSpec == InitBreaker /\ [][NextBreaker]_breakerVars

\* Time passes and a due timer fires.  Redis need not answer.
FairBreaker ==
    /\ BreakerSpec
    /\ WF_breakerVars(Tick)
    /\ \A o \in Ops : WF_breakerVars(TimeOut(o))

-----------------------------------------------------------------------------
BreakerTypes ==
    /\ failures \in 0..CbFailures
    /\ cooldown \in 0..CooldownTime
    /\ timer \in [Ops -> 0..None]
    /\ sent \in Nat
    /\ silent \in 0..MaxTime

\* The circuit is open only on top of CbFailures consecutive failures, so that
\* when the cooldown is over a single failed probe opens it again.
OpenMeansFailing == isCircuitOpen => failures = CbFailures

\* A dead Redis does not add its timeout to every request (1.5 rule 2): beyond
\* the failures that open the circuit, and what was in flight with the last of
\* them, each cooldown costs at most one attempt per concurrent request.
DeadRedisIsCheap ==
    silent < MaxTime =>
        sent < CbFailures + Cardinality(Ops) * (1 + silent \div CooldownTime)

\* The circuit does not stay open for good: there is a probe after the cooldown,
\* whatever the operations still in flight do to it.
Probes == isCircuitOpen ~> ~isCircuitOpen
=============================================================================

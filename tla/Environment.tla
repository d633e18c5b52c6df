------------------------------ MODULE Environment ------------------------------
(***************************************************************************)
(* What every component of Orqestra shares: the jobs, their max_retries,   *)
(* the worker connections, and a budget of the environment's failures.     *)
(*                                                                         *)
(* A worker connection (one Work stream) is a Session.  cmd/worker never   *)
(* reconnects and puts its pid and the time in the worker id it sends, so  *)
(* every stream has its own id: a Session is used once.                    *)
(***************************************************************************)
EXTENDS Integers, FiniteSets

CONSTANTS
    Jobs,        \* job ids
    Sessions,    \* Work streams, each with its own worker id
    Nil,         \* no job, no owner
    MaxRetries,  \* max_retries of each job row
    FaultKinds,  \* which failures the environment may inject
    MaxFaults    \* bound: how many it may inject in one behaviour

\* migrations/000001: CHECK (max_retries >= 0).
ASSUME MaxRetriesAssumption == MaxRetries \in [Jobs -> Nat]

ASSUME FiniteAssumption == IsFiniteSet(Jobs) /\ IsFiniteSet(Sessions)

ASSUME NilAssumption == Nil \notin Jobs /\ Nil \notin Sessions

\* "crash":      the server process dies (and is started again)
\* "disconnect": a Work stream breaks and its context is cancelled
\* "stale":      30 s pass without a heartbeat for a job
\* "redis":      a Redis command or transaction fails without effect
\* "db":         a Postgres statement fails without effect
Failures == {"crash", "disconnect", "stale", "redis", "db"}

ASSUME FaultAssumption == FaultKinds \subseteq Failures /\ MaxFaults \in Nat

VARIABLE faults  \* failures injected so far

\* One failure of kind k happens in this step.
Fault(k) ==
    /\ k \in FaultKinds
    /\ faults < MaxFaults
    /\ faults' = faults + 1

NoFault == UNCHANGED faults
================================================================================

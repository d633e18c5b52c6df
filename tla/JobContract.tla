------------------------------ MODULE JobContract ------------------------------
(***************************************************************************)
(* What Orqestra promises about a job, seen through its row alone: it is   *)
(* pending until it is given to a worker, it is run again after a failure  *)
(* until max_retries is used up, a job whose worker is lost goes back to   *)
(* pending without being charged for it, and what is settled stays so.     *)
(***************************************************************************)
EXTENDS Naturals

CONSTANTS Jobs, MaxRetries

VARIABLES state, charged  \* jobs.status and jobs.retry_count

contractVars == <<state, charged>>

ContractInit ==
    /\ state = [j \in Jobs |-> "none"]
    /\ charged = [j \in Jobs |-> 0]

Move(j, from, to) ==
    /\ state[j] \in from
    /\ state' = [state EXCEPT ![j] = to]

Submitted(j) == Move(j, {"none"}, "pending") /\ UNCHANGED charged

Dispatched(j) == Move(j, {"pending", "retrying"}, "running") /\ UNCHANGED charged

Interrupted(j) == Move(j, {"running"}, "pending") /\ UNCHANGED charged

Completed(j) == Move(j, {"running"}, "completed") /\ UNCHANGED charged

Retried(j) ==
    /\ charged[j] < MaxRetries[j]
    /\ Move(j, {"running"}, "retrying")
    /\ charged' = [charged EXCEPT ![j] = @ + 1]

GivenUp(j) ==
    /\ charged[j] = MaxRetries[j]
    /\ Move(j, {"running"}, "failed")
    /\ UNCHANGED charged

ContractNext ==
    \E j \in Jobs : \/ Submitted(j) \/ Dispatched(j) \/ Interrupted(j)
                    \/ Completed(j) \/ Retried(j) \/ GivenUp(j)

ContractSpec == ContractInit /\ [][ContractNext]_contractVars
================================================================================

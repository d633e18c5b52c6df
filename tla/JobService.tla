------------------------------- MODULE JobService ------------------------------
(***************************************************************************)
(* internal/service/job_service.go: SubmitJob and CancelJob, called by the *)
(* HTTP handlers.  CancelJob reads the row, then makes three independent   *)
(* writes.  The last two run under the request's context: they fail, and   *)
(* the failure is only logged or ignored, when the client goes away ("db", *)
(* "redis").  Requests for the same job are taken one at a time.           *)
(***************************************************************************)
EXTENDS RedisQueue, JobStore

CONSTANT Cancellable  \* jobs that clients may ask to cancel

ASSUME CancellableAssumption == Cancellable \subseteq Jobs

VARIABLES
    cancelPc,  \* where CancelJob for each job is
    cancelRc   \* the row.RetryCount it read

serviceVars == <<cancelPc, cancelRc>>

ServiceInit ==
    /\ cancelPc = [j \in Jobs |-> "idle"]
    /\ cancelRc = [j \in Jobs |-> 0]

ServiceTypeOK ==
    /\ cancelPc \in [Jobs -> {"idle", "update", "outbox", "queue"}]
    /\ cancelRc \in [Jobs -> Nat]
--------------------------------------------------------------------------------
SubmitJob(j) ==
    /\ InsertJob(j)
    /\ UNCHANGED <<redisVars, serviceVars>>
    /\ NoFault

\* GetJob; a settled job is refused.
CancelRead(j) ==
    /\ j \in Cancellable
    /\ cancelPc[j] = "idle"
    /\ status[j] \notin Settled \cup {"none"}
    /\ cancelPc' = [cancelPc EXCEPT ![j] = "update"]
    /\ cancelRc' = [cancelRc EXCEPT ![j] = retryCount[j]]
    /\ UNCHANGED <<redisVars, storeVars>>
    /\ NoFault

CancelUpdate(j) ==
    /\ cancelPc[j] = "update"
    /\ \/ /\ UpdateJobState(j, "cancelled", cancelRc[j])
          /\ cancelPc' = [cancelPc EXCEPT ![j] = "outbox"]
          /\ UNCHANGED cancelRc
          /\ NoFault
       \/ /\ Fault("db")  \* the error is returned, nothing else is done
          /\ cancelPc' = [cancelPc EXCEPT ![j] = "idle"]
          /\ cancelRc' = [cancelRc EXCEPT ![j] = 0]
          /\ UNCHANGED storeVars
    /\ UNCHANGED redisVars

CancelOutbox(j) ==
    /\ cancelPc[j] = "outbox"
    /\ \/ CancelOutboxEntry(j) /\ NoFault
       \/ Fault("db") /\ UNCHANGED storeVars
    /\ cancelPc' = [cancelPc EXCEPT ![j] = "queue"]
    /\ UNCHANGED <<redisVars, cancelRc>>

CancelQueue(j) ==
    /\ cancelPc[j] = "queue"
    /\ \/ Cancel(j) /\ NoFault
       \/ Fault("redis") /\ UNCHANGED redisVars
    /\ cancelPc' = [cancelPc EXCEPT ![j] = "idle"]
    /\ cancelRc' = [cancelRc EXCEPT ![j] = 0]
    /\ UNCHANGED storeVars

CancelStep(j) ==
    \/ CancelRead(j)
    \/ CancelUpdate(j)
    \/ CancelOutbox(j)
    \/ CancelQueue(j)
================================================================================

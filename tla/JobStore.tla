------------------------------- MODULE JobStore --------------------------------
(***************************************************************************)
(* internal/db: the tables jobs and job_outbox, and the statements the     *)
(* server runs on them.  Every statement is one atomic step; a statement   *)
(* that updates a row waits while the relay's transaction holds its lock.  *)
(*                                                                         *)
(* Of a job row, status and retry_count are kept.  Of job_outbox, the jobs *)
(* that have an unprocessed row: InsertJob adds the first one and          *)
(* ResetRunningJobs adds one only where none is left, so there is never a  *)
(* second.                                                                 *)
(***************************************************************************)
EXTENDS Environment

VARIABLES
    status,      \* jobs.status, "none" before the row exists
    retryCount,  \* jobs.retry_count
    outbox,      \* jobs with an unprocessed job_outbox row
    locked       \* jobs whose rows the relay's open transaction holds

storeVars == <<status, retryCount, outbox, locked>>

Settled == {"completed", "failed", "cancelled"}
Statuses == {"none", "pending", "running", "retrying"} \cup Settled

StoreInit ==
    /\ status = [j \in Jobs |-> "none"]
    /\ retryCount = [j \in Jobs |-> 0]
    /\ outbox = {}
    /\ locked = {}

StoreTypeOK ==
    /\ status \in [Jobs -> Statuses]
    /\ retryCount \in [Jobs -> Nat]
    /\ outbox \subseteq Jobs
    /\ locked \subseteq Jobs
--------------------------------------------------------------------------------
InsertJob(j) ==
    /\ status[j] = "none"
    /\ status' = [status EXCEPT ![j] = "pending"]
    /\ outbox' = outbox \cup {j}
    /\ UNCHANGED <<retryCount, locked>>

UpdateJobState(j, state, count) ==
    /\ j \notin locked
    /\ status' = [status EXCEPT ![j] = state]
    /\ retryCount' = [retryCount EXCEPT ![j] = count]
    /\ UNCHANGED <<outbox, locked>>

CompleteJob(j) ==
    /\ j \notin locked
    /\ status' = [status EXCEPT ![j] = "completed"]
    /\ UNCHANGED <<retryCount, outbox, locked>>

\* ListJobs(db, "running").
RunningJobs == {j \in Jobs : status[j] = "running"}

\* At boot: every running job becomes pending and is given an outbox row.
ResetRunningJobs_NoOutbox ==
    /\ status' = [j \in Jobs |-> IF j \in RunningJobs THEN "pending" ELSE status[j]]
    /\ UNCHANGED <<retryCount, outbox, locked>>
ResetRunningJobs ==
    /\ status' = [j \in Jobs |-> IF j \in RunningJobs THEN "pending" ELSE status[j]]
    /\ outbox' = outbox \cup RunningJobs
    /\ UNCHANGED <<retryCount, locked>>

(***************************************************************************)
(* The relay's transaction: SELECT ... FOR UPDATE locks the outbox rows    *)
(* and, through the join, the job rows; MarkOutboxProcessed takes effect   *)
(* when it commits.                                                        *)
(***************************************************************************)
GetUnprocessedOutbox ==
    /\ outbox # {}
    /\ locked' = outbox
    /\ UNCHANGED <<status, retryCount, outbox>>

CommitOutbox ==
    /\ outbox' = outbox \ locked
    /\ locked' = {}
    /\ UNCHANGED <<status, retryCount>>

Rollback ==
    /\ locked' = {}
    /\ UNCHANGED <<status, retryCount, outbox>>

CancelOutboxEntry(j) ==
    /\ j \notin locked
    /\ outbox' = outbox \ {j}
    /\ UNCHANGED <<status, retryCount, locked>>
================================================================================

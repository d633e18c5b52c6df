------------------------------- MODULE WorkServer ------------------------------
(***************************************************************************)
(* internal/server/server.go: the Work stream handler (one goroutine per   *)
(* connected worker), handleResult, the ownership maps and the reaper; and *)
(* the worker's end of the stream (cmd/worker).                            *)
(*                                                                         *)
(* A handler's step ends where it touches Redis, Postgres or the maps that *)
(* other goroutines read.  An in-memory clearOwnership is taken together   *)
(* with the step it is adjacent to.                                        *)
(***************************************************************************)
EXTENDS RedisQueue, JobStore

VARIABLES
    owner,     \* Server.owner: job -> session, Nil when absent
    lastSeen,  \* Server.lastSeen: job -> "none", "fresh", "stale" (30 s old)
    pc,        \* where the Work handler of each session is
    job,       \* its local job.ID; also the job of the task it sent
    rc,        \* its local job.RetryCount (payload's, later row's)
    inFlight,  \* the sessions whose local inFlight is not nil
    worker,    \* the worker's end: "new", "waiting", "executing", "gone"
    outcome,   \* the TaskResult sent and not yet fully handled
    reaper,    \* the reaper goroutine
    fails,     \* history: executions of each job that ended in failure
    succ       \* history: jobs some execution of which succeeded

memoryVars == <<owner, lastSeen>>
handlerVars == <<pc, job, rc, inFlight>>
workerVars == <<worker, outcome, fails, succ>>
serverVars == <<memoryVars, handlerVars, workerVars, reaper>>

HandlerPcs == {"new", "recv", "consume", "hget", "drop", "own", "running",
               "send", "requeue_db", "requeue_redis", "heartbeat", "getjob",
               "ack", "complete", "retrying", "retry_redis", "failed",
               "fail_redis", "done"}

NoRc == [j \in Jobs |-> 0]
ReaperIdle == [pc |-> "idle", list |-> {}, job |-> Nil, rc |-> NoRc]

ServerInit ==
    /\ owner = [j \in Jobs |-> Nil]
    /\ lastSeen = [j \in Jobs |-> "none"]
    /\ pc = [s \in Sessions |-> "new"]
    /\ job = [s \in Sessions |-> Nil]
    /\ rc = [s \in Sessions |-> 0]
    /\ inFlight = {}
    /\ worker = [s \in Sessions |-> "new"]
    /\ outcome = [s \in Sessions |-> "none"]
    /\ reaper = ReaperIdle
    /\ fails = [j \in Jobs |-> 0]
    /\ succ = {}

ServerTypeOK ==
    /\ owner \in [Jobs -> Sessions \cup {Nil}]
    /\ lastSeen \in [Jobs -> {"none", "fresh", "stale"}]
    /\ pc \in [Sessions -> HandlerPcs]
    /\ job \in [Sessions -> Jobs \cup {Nil}]
    /\ rc \in [Sessions -> Nat]
    /\ inFlight \subseteq Sessions
    /\ worker \in [Sessions -> {"new", "waiting", "executing", "gone"}]
    /\ outcome \in [Sessions -> {"none", "success", "failure"}]
    /\ reaper \in [pc : {"idle", "check", "clear", "update", "retry"},
                   list : SUBSET Jobs, job : Jobs \cup {Nil}, rc : [Jobs -> Nat]]
    /\ fails \in [Jobs -> Nat]
    /\ succ \subseteq Jobs
--------------------------------------------------------------------------------
Goto(s, label) == pc' = [pc EXCEPT ![s] = label]

\* The stream's context is cancelled.
CtxDone(s) == worker[s] = "gone"

\* Work returns: the stream ends, and the worker's Recv with it.
Return(s) ==
    /\ pc' = [pc EXCEPT ![s] = "done"]
    /\ job' = [job EXCEPT ![s] = Nil]
    /\ rc' = [rc EXCEPT ![s] = 0]
    /\ inFlight' = inFlight \ {s}
    /\ worker' = [worker EXCEPT ![s] = "gone"]
    /\ outcome' = [outcome EXCEPT ![s] = "none"]

\* handleResult returns: back to Recv.
ReturnResult(s) ==
    /\ pc' = [pc EXCEPT ![s] = "recv"]
    /\ job' = [job EXCEPT ![s] = Nil]
    /\ rc' = [rc EXCEPT ![s] = 0]
    /\ outcome' = [outcome EXCEPT ![s] = "none"]
    /\ UNCHANGED <<inFlight, worker>>

clearOwnership_KeepsOwner(j) ==
    /\ lastSeen' = [lastSeen EXCEPT ![j] = "none"]
    /\ UNCHANGED owner
clearOwnership(j) ==
    /\ owner' = [owner EXCEPT ![j] = Nil]
    /\ lastSeen' = [lastSeen EXCEPT ![j] = "none"]

\* A Redis call under context.Background() whose error is ignored or logged.
TryRedis(Op) ==
    \/ Op /\ NoFault
    \/ Fault("redis") /\ UNCHANGED redisVars

\* The same under the stream's context: it does nothing once that is done.
TryStreamRedis(s, Op) ==
    \/ ~CtxDone(s) /\ TryRedis(Op)
    \/ CtxDone(s) /\ UNCHANGED redisVars /\ NoFault

\* A Postgres call whose error is ignored or logged.
TryDb(Op) ==
    \/ Op /\ NoFault
    \/ Fault("db") /\ UNCHANGED storeVars
--------------------------------------------------------------------------------
(***************************************************************************)
(* The worker's end.  A worker sends Ready, waits for a task, executes it, *)
(* sends its Result and then Ready again; the stream keeps that order.     *)
(***************************************************************************)
Connect(s) ==
    /\ worker[s] = "new"
    /\ worker' = [worker EXCEPT ![s] = "waiting"]
    /\ Goto(s, "recv")
    /\ UNCHANGED <<redisVars, storeVars, memoryVars, job, rc, inFlight,
                   outcome, fails, succ, reaper>>
    /\ NoFault

\* executeJob ends; the Result and the next Ready are sent.
Finish(s) ==
    /\ worker[s] = "executing"
    /\ worker' = [worker EXCEPT ![s] = "waiting"]
    /\ \/ /\ outcome' = [outcome EXCEPT ![s] = "success"]
          /\ succ' = succ \cup {job[s]}
          /\ UNCHANGED fails
       \/ /\ outcome' = [outcome EXCEPT ![s] = "failure"]
          /\ fails' = [fails EXCEPT ![job[s]] = @ + 1]
          /\ UNCHANGED succ
    /\ UNCHANGED <<redisVars, storeVars, memoryVars, handlerVars, reaper>>
    /\ NoFault

\* The connection breaks, whatever both ends are doing.  A Result that is
\* already sent may still be read.
Disconnect(s) ==
    /\ worker[s] \in {"waiting", "executing"}
    /\ Fault("disconnect")
    /\ worker' = [worker EXCEPT ![s] = "gone"]
    /\ UNCHANGED <<redisVars, storeVars, memoryVars, handlerVars, outcome,
                   fails, succ, reaper>>

\* 30 s without a heartbeat for j.
HeartbeatTimeout(j) ==
    /\ lastSeen[j] = "fresh"
    /\ Fault("stale")
    /\ lastSeen' = [lastSeen EXCEPT ![j] = "stale"]
    /\ UNCHANGED <<redisVars, storeVars, owner, handlerVars, workerVars, reaper>>
--------------------------------------------------------------------------------
(***************************************************************************)
(* Work: Recv.                                                             *)
(***************************************************************************)
RecvReady(s) ==
    /\ pc[s] = "recv"
    /\ worker[s] = "waiting"
    /\ outcome[s] = "none"
    /\ Goto(s, "consume")
    /\ UNCHANGED <<redisVars, storeVars, memoryVars, job, rc, inFlight,
                   workerVars, reaper>>
    /\ NoFault

\* Recv fails.  With a job in flight: clearOwnership, then requeue it.
RecvError(s) ==
    /\ pc[s] = "recv"
    /\ CtxDone(s)
    /\ \/ /\ s \in inFlight
          /\ clearOwnership(job[s])
          /\ Goto(s, "requeue_db")
          /\ outcome' = [outcome EXCEPT ![s] = "none"]
          /\ UNCHANGED <<job, rc, inFlight, worker>>
       \/ /\ s \notin inFlight
          /\ Return(s)
          /\ UNCHANGED memoryVars
    /\ UNCHANGED <<redisVars, storeVars, fails, succ, reaper>>
    /\ NoFault

\* recordHeartbeat: the ownership check, then the store.  (A heartbeat read
\* after the job ended is a heartbeat read while Finish is still to come.)
RecvHeartbeat(s) ==
    /\ pc[s] = "recv"
    /\ worker[s] = "executing"
    /\ owner[job[s]] = s
    /\ Goto(s, "heartbeat")
    /\ UNCHANGED <<redisVars, storeVars, memoryVars, job, rc, inFlight,
                   workerVars, reaper>>
    /\ NoFault

recordHeartbeat(s) ==
    /\ pc[s] = "heartbeat"
    /\ lastSeen' = [lastSeen EXCEPT ![job[s]] = "fresh"]
    /\ Goto(s, "recv")
    /\ UNCHANGED <<redisVars, storeVars, owner, job, rc, inFlight,
                   workerVars, reaper>>
    /\ NoFault

\* inFlight = nil, and handleResult up to the ownership check.
RecvResult(s) ==
    /\ pc[s] = "recv"
    /\ outcome[s] # "none"
    /\ inFlight' = inFlight \ {s}
    /\ \/ /\ owner[job[s]] = s
          /\ Goto(s, "getjob")
          /\ UNCHANGED <<job, rc, outcome>>
       \/ /\ owner[job[s]] # s
          /\ pc' = pc
          /\ job' = [job EXCEPT ![s] = Nil]
          /\ rc' = [rc EXCEPT ![s] = 0]
          /\ outcome' = [outcome EXCEPT ![s] = "none"]
    /\ UNCHANGED <<redisVars, storeVars, memoryVars, worker, fails, succ, reaper>>
    /\ NoFault
--------------------------------------------------------------------------------
(***************************************************************************)
(* Work: Ready.  Consume, ownership, "running", Send.                      *)
(***************************************************************************)
\* A BRPOPLPUSH that is waiting in Redis is not stopped by a cancelled
\* context: it may still pop.
Pop(s) ==
    /\ pc[s] = "consume"
    /\ ConsumePop
    /\ job' = [job EXCEPT ![s] = ready[Len(ready)]]
    /\ Goto(s, "hget")
    /\ UNCHANGED <<storeVars, memoryVars, rc, inFlight, workerVars, reaper>>
    /\ NoFault

\* Consume returns an error at BRPOPLPUSH or at HGET, and Work returns it.
\* What HGET was for stays in processing.
ConsumeError(s) ==
    /\ pc[s] \in {"consume", "hget"}
    /\ \/ CtxDone(s) /\ NoFault
       \/ ~CtxDone(s) /\ Fault("redis")
    /\ Return(s)
    /\ UNCHANGED <<redisVars, storeVars, memoryVars, fails, succ, reaper>>

HGet_NoCheck(s) ==
    /\ pc[s] = "hget"
    /\ ~CtxDone(s)
    /\ rc' = [rc EXCEPT ![s] = payloads[job[s]]]
    /\ Goto(s, "own")
    /\ UNCHANGED <<redisVars, storeVars, memoryVars, job, inFlight,
                   workerVars, reaper>>
    /\ NoFault
HGet(s) ==
    /\ pc[s] = "hget"
    /\ ~CtxDone(s)
    /\ \/ /\ payloads[job[s]] # NoPayload
          /\ rc' = [rc EXCEPT ![s] = payloads[job[s]]]
          /\ Goto(s, "own")
       \/ /\ payloads[job[s]] = NoPayload
          /\ Goto(s, "drop")
          /\ UNCHANGED rc
    /\ UNCHANGED <<redisVars, storeVars, memoryVars, job, inFlight,
                   workerVars, reaper>>
    /\ NoFault

\* LREM of an entry without a payload, error ignored; then Consume again.
Drop(s) ==
    /\ pc[s] = "drop"
    /\ TryStreamRedis(s, ConsumeDrop(job[s]))
    /\ Goto(s, "consume")
    /\ job' = [job EXCEPT ![s] = Nil]
    /\ UNCHANGED <<storeVars, memoryVars, rc, inFlight, workerVars, reaper>>

StoreOwner(s) ==
    /\ pc[s] = "own"
    /\ owner' = [owner EXCEPT ![job[s]] = s]
    /\ lastSeen' = [lastSeen EXCEPT ![job[s]] = "fresh"]
    /\ Goto(s, "running")
    /\ UNCHANGED <<redisVars, storeVars, job, rc, inFlight, workerVars, reaper>>
    /\ NoFault

SetRunning(s) ==
    /\ pc[s] = "running"
    /\ \/ /\ UpdateJobState(job[s], "running", rc[s])
          /\ inFlight' = inFlight \cup {s}
          /\ Goto(s, "send")
          /\ UNCHANGED <<memoryVars, job, rc, worker, outcome>>
          /\ NoFault
       \/ /\ Fault("db")
          /\ clearOwnership(job[s])
          /\ Return(s)
          /\ UNCHANGED storeVars
    /\ UNCHANGED <<redisVars, fails, succ, reaper>>

Send(s) ==
    /\ pc[s] = "send"
    /\ \/ /\ ~CtxDone(s)
          /\ worker' = [worker EXCEPT ![s] = "executing"]
          /\ Goto(s, "recv")
          /\ UNCHANGED memoryVars
       \/ /\ CtxDone(s)
          /\ clearOwnership(job[s])
          /\ Goto(s, "requeue_db")
          /\ UNCHANGED worker
    /\ UNCHANGED <<redisVars, storeVars, job, rc, inFlight, outcome, fails,
                   succ, reaper>>
    /\ NoFault

\* UpdateJobState "pending" of the job in flight; then Retry and return.
RequeueDb_Charged(s) ==
    /\ pc[s] = "requeue_db"
    /\ TryDb(UpdateJobState(job[s], "pending", rc[s] + 1))
    /\ Goto(s, "requeue_redis")
    /\ UNCHANGED <<redisVars, memoryVars, job, rc, inFlight, workerVars, reaper>>
RequeueDb(s) ==
    /\ pc[s] = "requeue_db"
    /\ TryDb(UpdateJobState(job[s], "pending", rc[s]))
    /\ Goto(s, "requeue_redis")
    /\ UNCHANGED <<redisVars, memoryVars, job, rc, inFlight, workerVars, reaper>>

RequeueRedis(s) ==
    /\ pc[s] = "requeue_redis"
    /\ TryRedis(Retry(job[s], rc[s]))
    /\ Return(s)
    /\ UNCHANGED <<storeVars, memoryVars, fails, succ, reaper>>
--------------------------------------------------------------------------------
(***************************************************************************)
(* handleResult, from GetJob on.                                           *)
(***************************************************************************)
RetriesLeft_TooMany(j) == retryCount[j] <= MaxRetries[j]
RetriesLeft_TooFew(j) == retryCount[j] + 1 < MaxRetries[j]
RetriesLeft(j) == retryCount[j] < MaxRetries[j]

\* The branch handleResult takes for the result of session s.
ResultBranch_FailureAcked(s) ==
    IF outcome[s] = "failure" /\ RetriesLeft(job[s]) THEN "retrying" ELSE "ack"
ResultBranch(s) ==
    CASE outcome[s] = "success"                          -> "ack"
      [] outcome[s] = "failure" /\ RetriesLeft(job[s])   -> "retrying"
      [] outcome[s] = "failure" /\ ~RetriesLeft(job[s])  -> "failed"

GetJob(s) ==
    /\ pc[s] = "getjob"
    /\ \/ /\ status[job[s]] \notin Settled
          /\ Goto(s, ResultBranch(s))
          /\ rc' = [rc EXCEPT ![s] = retryCount[job[s]]]
          /\ UNCHANGED <<memoryVars, job, inFlight, worker, outcome>>
          /\ NoFault
       \/ /\ status[job[s]] \in Settled
          /\ clearOwnership(job[s])
          /\ ReturnResult(s)
          /\ NoFault
       \/ /\ Fault("db")
          /\ clearOwnership(job[s])
          /\ ReturnResult(s)
    /\ UNCHANGED <<redisVars, storeVars, fails, succ, reaper>>

AckResult(s) ==
    /\ pc[s] = "ack"
    /\ TryStreamRedis(s, Ack(job[s]))
    /\ Goto(s, "complete")
    /\ UNCHANGED <<storeVars, memoryVars, job, rc, inFlight, workerVars, reaper>>

\* CompleteJob, clearOwnership.
CompleteResult(s) ==
    /\ pc[s] = "complete"
    /\ TryDb(CompleteJob(job[s]))
    /\ clearOwnership(job[s])
    /\ ReturnResult(s)
    /\ UNCHANGED <<redisVars, fails, succ, reaper>>

\* UpdateJobState "retrying" with the count raised, clearOwnership.
MarkRetrying(s) ==
    /\ pc[s] = "retrying"
    /\ TryDb(UpdateJobState(job[s], "retrying", rc[s] + 1))
    /\ clearOwnership(job[s])
    /\ rc' = [rc EXCEPT ![s] = @ + 1]
    /\ Goto(s, "retry_redis")
    /\ outcome' = [outcome EXCEPT ![s] = "none"]
    /\ UNCHANGED <<redisVars, job, inFlight, worker, fails, succ, reaper>>

RetryResult_OldCount(s) ==
    /\ pc[s] = "retry_redis"
    /\ TryStreamRedis(s, Retry(job[s], rc[s] - 1))
    /\ ReturnResult(s)
    /\ UNCHANGED <<storeVars, memoryVars, fails, succ, reaper>>
RetryResult(s) ==
    /\ pc[s] = "retry_redis"
    /\ TryStreamRedis(s, Retry(job[s], rc[s]))
    /\ ReturnResult(s)
    /\ UNCHANGED <<storeVars, memoryVars, fails, succ, reaper>>

MarkFailed(s) ==
    /\ pc[s] = "failed"
    /\ TryDb(UpdateJobState(job[s], "failed", rc[s]))
    /\ clearOwnership(job[s])
    /\ Goto(s, "fail_redis")
    /\ UNCHANGED <<redisVars, job, rc, inFlight, workerVars, reaper>>

FailResult(s) ==
    /\ pc[s] = "fail_redis"
    /\ TryStreamRedis(s, Fail(job[s]))
    /\ ReturnResult(s)
    /\ UNCHANGED <<storeVars, memoryVars, fails, succ, reaper>>
--------------------------------------------------------------------------------
HandlerStep(s) ==
    \/ RecvReady(s) \/ RecvError(s) \/ RecvHeartbeat(s) \/ recordHeartbeat(s)
    \/ RecvResult(s) \/ Pop(s) \/ ConsumeError(s) \/ HGet(s) \/ Drop(s)
    \/ StoreOwner(s) \/ SetRunning(s) \/ Send(s) \/ RequeueDb(s)
    \/ RequeueRedis(s) \/ GetJob(s) \/ AckResult(s) \/ CompleteResult(s)
    \/ MarkRetrying(s) \/ RetryResult(s) \/ MarkFailed(s) \/ FailResult(s)
--------------------------------------------------------------------------------
(***************************************************************************)
(* reaperTick(now): list the running jobs, then for each of them look at   *)
(* lastSeen and owner, and reclaim it when it is stale.  now is read when  *)
(* the tick starts: a job without an entry, or with a young one, at that   *)
(* moment is skipped whatever happens to it later, and is left out here.   *)
(***************************************************************************)
TimedOut(j) == lastSeen[j] = "stale"

ReaperList ==
    LET listed == {j \in RunningJobs : TimedOut(j)}
    IN  /\ reaper.pc = "idle"
        /\ listed # {}
        /\ reaper' = [pc |-> "check", list |-> listed, job |-> Nil,
                      rc |-> [j \in Jobs |-> IF j \in listed THEN retryCount[j] ELSE 0]]
        /\ UNCHANGED <<redisVars, storeVars, memoryVars, handlerVars, workerVars>>
        /\ NoFault

\* The entry is still the old one, and somebody owns the job.
Reclaimable_Unowned(j) == TimedOut(j) /\ owner[j] = Nil
Reclaimable(j) == TimedOut(j) /\ owner[j] # Nil

\* The reaper is done with j; the tick ends when the list is.
ReaperNext(j) ==
    reaper' = IF reaper.list = {j} THEN ReaperIdle
              ELSE [pc |-> "check", list |-> reaper.list \ {j}, job |-> Nil,
                    rc |-> [reaper.rc EXCEPT ![j] = 0]]

ReaperCheck(j) ==
    /\ reaper.pc = "check"
    /\ j \in reaper.list
    /\ \/ ~Reclaimable(j) /\ ReaperNext(j)
       \/ Reclaimable(j) /\ reaper' = [reaper EXCEPT !.pc = "clear", !.job = j]
    /\ UNCHANGED <<redisVars, storeVars, memoryVars, handlerVars, workerVars>>
    /\ NoFault

ReaperClear ==
    /\ reaper.pc = "clear"
    /\ clearOwnership(reaper.job)
    /\ reaper' = [reaper EXCEPT !.pc = "update"]
    /\ UNCHANGED <<redisVars, storeVars, handlerVars, workerVars>>
    /\ NoFault

ReaperUpdate ==
    /\ reaper.pc = "update"
    /\ TryDb(UpdateJobState(reaper.job, "pending", reaper.rc[reaper.job]))
    /\ reaper' = [reaper EXCEPT !.pc = "retry"]
    /\ UNCHANGED <<redisVars, memoryVars, handlerVars, workerVars>>

ReaperRetry ==
    /\ reaper.pc = "retry"
    /\ TryRedis(Retry(reaper.job, reaper.rc[reaper.job]))
    /\ ReaperNext(reaper.job)
    /\ UNCHANGED <<storeVars, memoryVars, handlerVars, workerVars>>

ReaperStep ==
    \/ ReaperList
    \/ \E j \in Jobs : ReaperCheck(j)
    \/ ReaperClear
    \/ ReaperUpdate
    \/ ReaperRetry
================================================================================

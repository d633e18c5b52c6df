------------------------------- MODULE JobProofs -------------------------------
(*****************************************************************************)
(* The proofs of the safety invariants that hold whatever fails.  Retry      *)
(* counts are followed through all the places that hold a copy of them: no   *)
(* step makes one up (CopiesStep), so that what is true of every copy before *)
(* a step is true of every copy after it, except for the one that            *)
(* MarkRetrying raises.                                                      *)
(*****************************************************************************)
EXTENDS JobTypeProofs

\* What a step may do to the local state of stream t, other than end an
\* execution of its job.
LocalEffect(t) ==
    /\ \/ job'[t] = job[t] /\ rc'[t] = rc[t]
       \/ rc'[t] = 0
       \/ job'[t] = job[t] /\ rc'[t] \in {payloads[job[t]], retryCount[job[t]]}
       \/ job'[t] = job[t] /\ rc'[t] = rc[t] + 1 /\ MarkRetrying(t)
    /\ outcome'[t] # "none" => outcome'[t] = outcome[t] /\ job'[t] = job[t]
    /\ pc'[t] \in {"retrying", "failed"} =>
          /\ job'[t] = job[t]
          /\ \/ pc'[t] = pc[t] /\ rc'[t] = rc[t]
             \/ /\ rc'[t] = retryCount[job[t]]
                /\ job[t] \in Jobs
                /\ pc'[t] = "retrying" <=> RetriesLeft(job[t])

\* A stream whose handler did not move has the effect described above.
LEMMA LocalEffectFrame ==
    ASSUME NEW t \in Sessions,
           pc'[t] = pc[t], job'[t] = job[t], rc'[t] = rc[t],
           outcome'[t] = outcome[t] \/ outcome'[t] = "none"
    PROVE  LocalEffect(t)
BY DEF LocalEffect

\* A step of the Work handler changes a count only by copying one of the same
\* job, or by one in MarkRetrying, and takes the branch the row calls for.
LEMMA HandlerLocal ==
    ASSUME Core, NEW s \in Sessions, Handler(s), NEW t \in Sessions
    PROVE  LocalEffect(t)
<1> USE DEF handlerVars, workerVars
<1>a. ServerTypeOK /\ SessionOK(s)
  BY DEF Core, TypeOK
<1>1. CASE RecvReady(s)
  BY <1>a, <1>1 DEF ServerTypeOK, SessionOK, Empty, LocalEffect, RecvReady, Goto
<1>2. CASE RecvError(s)
  BY <1>a, <1>2
     DEF ServerTypeOK, SessionOK, Empty, LocalEffect, RecvError, Goto, Return
<1>3. CASE RecvHeartbeat(s)
  BY <1>a, <1>3
     DEF ServerTypeOK, SessionOK, Empty, LocalEffect, RecvHeartbeat, Goto
<1>4. CASE recordHeartbeat(s)
  BY <1>a, <1>4
     DEF ServerTypeOK, SessionOK, Empty, LocalEffect, recordHeartbeat, Goto
<1>5. CASE RecvResult(s)
  BY <1>a, <1>5
     DEF ServerTypeOK, SessionOK, Empty, LocalEffect, RecvResult, Goto
<1>6. CASE Pop(s)
  BY <1>a, <1>6 DEF ServerTypeOK, SessionOK, Empty, LocalEffect, Pop, Goto
<1>7. CASE ConsumeError(s)
  BY <1>a, <1>7
     DEF ServerTypeOK, SessionOK, Empty, LocalEffect, ConsumeError, Return
<1>8. CASE HGet(s)
  BY <1>a, <1>8 DEF ServerTypeOK, SessionOK, Empty, LocalEffect, HGet, Goto
<1>9. CASE Drop(s)
  <2>1. rc[s] = 0
    BY <1>a, <1>9 DEF SessionOK, Drop
  <2>2. outcome[s] = "none"
    BY <1>a, <1>9 DEF SessionOK, Drop, DispatchPcs
  <2> QED BY <1>a, <1>9, <2>1, <2>2 DEF ServerTypeOK, LocalEffect, Drop, Goto
<1>10. CASE StoreOwner(s)
  BY <1>a, <1>10
     DEF ServerTypeOK, SessionOK, Empty, LocalEffect, StoreOwner, Goto
<1>11. CASE SetRunning(s)
  BY <1>a, <1>11
     DEF ServerTypeOK, SessionOK, Empty, LocalEffect, SetRunning, Goto, Return
<1>12. CASE Send(s)
  BY <1>a, <1>12 DEF ServerTypeOK, SessionOK, Empty, LocalEffect, Send, Goto
<1>13. CASE RequeueDb(s)
  BY <1>a, <1>13
     DEF ServerTypeOK, SessionOK, Empty, LocalEffect, RequeueDb, Goto
<1>14. CASE RequeueRedis(s)
  BY <1>a, <1>14
     DEF ServerTypeOK, SessionOK, Empty, LocalEffect, RequeueRedis, Return
<1>15. CASE GetJob(s)
  <2>1. job[s] \in Jobs /\ outcome[s] \in {"success", "failure"}
    BY <1>a, <1>15 DEF ServerTypeOK, SessionOK, GetJob
  <2>2. /\ ResultBranch(s) = "retrying" => RetriesLeft(job[s])
        /\ ResultBranch(s) = "failed" => ~RetriesLeft(job[s])
    BY <2>1 DEF ResultBranch
  <2> QED BY <1>a, <1>15, <2>1, <2>2
             DEF ServerTypeOK, LocalEffect, GetJob, Goto, ReturnResult
<1>16. CASE AckResult(s)
  BY <1>a, <1>16
     DEF ServerTypeOK, SessionOK, Empty, LocalEffect, AckResult, Goto
<1>17. CASE CompleteResult(s)
  BY <1>a, <1>17
     DEF ServerTypeOK, SessionOK, Empty, LocalEffect, CompleteResult,
         ReturnResult
<1>18. CASE MarkRetrying(s)
  BY <1>a, <1>18
     DEF ServerTypeOK, SessionOK, Empty, LocalEffect, MarkRetrying, Goto
<1>19. CASE RetryResult(s)
  BY <1>a, <1>19
     DEF ServerTypeOK, SessionOK, Empty, LocalEffect, RetryResult, ReturnResult
<1>20. CASE MarkFailed(s)
  BY <1>a, <1>20
     DEF ServerTypeOK, SessionOK, Empty, LocalEffect, MarkFailed, Goto
<1>21. CASE FailResult(s)
  BY <1>a, <1>21
     DEF ServerTypeOK, SessionOK, Empty, LocalEffect, FailResult, ReturnResult
<1> QED BY <1>1, <1>2, <1>3, <1>4, <1>5, <1>6, <1>7, <1>8, <1>9, <1>10, <1>11,
           <1>12, <1>13, <1>14, <1>15, <1>16, <1>17, <1>18, <1>19, <1>20, <1>21
           DEF Handler, HandlerStep

\* So does every step of the system, unless a worker ends an execution.
LEMMA LocalEffectStep ==
    ASSUME Core, [Next]_vars
    PROVE  \/ \E s \in Sessions : Worker(s) /\ Finish(s)
           \/ UNCHANGED <<fails, succ>> /\ \A t \in Sessions : LocalEffect(t)
<1> DEFINE Goal == /\ UNCHANGED <<fails, succ>>
                   /\ \A t \in Sessions : LocalEffect(t)
<1> SUFFICES ASSUME ~ \E s \in Sessions : Worker(s) /\ Finish(s)
             PROVE  Goal
  OBVIOUS
<1> USE DEF sessionVars, handlerVars, workerVars, serverVars
<1>a. ASSUME UNCHANGED <<sessionVars, fails, succ>> PROVE Goal
  BY <1>a, LocalEffectFrame
<1>1. ASSUME NEW j \in Jobs, Submit(j) \/ CancelJob(j)
      PROVE  Goal
  BY <1>1, <1>a DEF Submit, CancelJob
<1>2. ASSUME NEW s \in Sessions, Connect(s)
      PROVE  Goal
  <2>1. \A t \in Sessions : LocalEffect(t)
    BY <1>2 DEF LocalEffect, Connect, Goto, Core, TypeOK, ServerTypeOK
  <2> QED BY <1>2, <2>1 DEF Connect
<1>3. ASSUME NEW s \in Sessions, Handler(s)
      PROVE  Goal
  <2>1. UNCHANGED <<fails, succ>>
    BY <1>3
       DEF Handler, HandlerStep, RecvReady, RecvError, RecvHeartbeat,
           recordHeartbeat, RecvResult, Pop, ConsumeError, HGet, Drop,
           StoreOwner, SetRunning, Send, RequeueDb, RequeueRedis, GetJob,
           AckResult, CompleteResult, MarkRetrying, RetryResult, MarkFailed,
           FailResult
  <2> QED BY <1>3, <2>1, HandlerLocal
<1>4. CASE Relay \/ Promote \/ Boot
  BY <1>4, <1>a DEF Relay, Promote, Boot, BootReset, BootRecover
<1>5. CASE Reaper
  <2>1. UNCHANGED <<handlerVars, workerVars>>
    BY <1>5
       DEF Reaper, ReaperStep, ReaperList, ReaperCheck, ReaperClear,
           ReaperUpdate, ReaperRetry
  <2> QED BY <2>1, <1>a
<1>6. CASE Trouble
  <2>1. UNCHANGED <<handlerVars, outcome, fails, succ>>
    BY <1>6 DEF Trouble, Disconnect, HeartbeatTimeout
  <2> QED BY <2>1, LocalEffectFrame
<1>7. CASE Crash
  <2>1. \A t \in Sessions : LocalEffect(t)
    BY <1>7 DEF Crash, LocalEffect
  <2> QED BY <1>7, <2>1 DEF Crash
<1>8. CASE UNCHANGED vars
  BY <1>8, <1>a DEF vars
<1> HIDE DEF Goal
<1>9. ASSUME NEW s \in Sessions, Worker(s)
      PROVE  Goal
  BY <1>2, <1>9 DEF Worker
<1> QED BY <1>1, <1>3, <1>4, <1>5, <1>6, <1>7, <1>8, <1>9 DEF Next, Up

\* The end of an execution changes no copy of a count.
LEMMA CopiesFinish ==
    ASSUME Core, NEW s \in Sessions, Worker(s), Finish(s), NEW j \in Jobs
    PROVE  Copies(j)' = Copies(j) /\ UNCHANGED <<pc, job, rc>>
BY DEF Finish, Copies, redisVars, storeVars, handlerVars, Worker, serviceVars

\* A payload's RetryCount is a copy of one that was there before.
LEMMA PayloadCopy ==
    ASSUME Core, [Next]_vars, NEW j \in Jobs
    PROVE  payloads'[j] \in Copies(j)
<1>a. payloads \in [Jobs -> Nat \cup {NoPayload}]
  BY DEF Core, TypeOK, QueueTypeOK
<1>b. QueueEffect
  BY QueueStep
<1>1. CASE \/ UNCHANGED redisVars \/ PromoteRead \/ PromoteExec \/ PromoteError
           \/ ConsumePop \/ Recover
  BY <1>1
     DEF Copies, redisVars, PromoteRead, PromoteExec, PromoteError, ConsumePop,
         Recover
<1>2. ASSUME NEW i \in Jobs,
             \/ EnqueueSAdd(i) \/ EnqueueExec(i, 0, relay.added)
             \/ ConsumeDrop(i) \/ Ack(i) \/ Fail(i) \/ Cancel(i) \/ Retry(i, reaper.rc[i])
      PROVE  payloads'[j] \in Copies(j)
  BY <1>2, <1>a
     DEF Copies, EnqueueSAdd, EnqueueExec, ConsumeDrop, Ack, Fail, Cancel,
         Retry, Forget
<1>3. ASSUME NEW s \in Sessions, job[s] \in Jobs, Retry(job[s], rc[s])
      PROVE  payloads'[j] \in Copies(j)
  BY <1>3, <1>a DEF Copies, Retry
<1> QED BY <1>b, <1>1, <1>2, <1>3 DEF QueueEffect

\* The counts that MarkRetrying raises for j in this step.
Raised(j) ==
    {rc[s] + 1 : s \in {t \in Sessions : job[t] = j /\ MarkRetrying(t)}}

\* So is a row's retry_count, unless MarkRetrying raises it.
LEMMA RowCopy ==
    ASSUME Core, [Next]_vars, NEW j \in Jobs
    PROVE  retryCount'[j] \in Copies(j) \cup Raised(j)
<1>a. retryCount \in [Jobs -> Nat]
  BY DEF Core, TypeOK, StoreTypeOK
<1>b. StoreEffect
  BY StoreStep
<1>1. CASE \/ UNCHANGED storeVars \/ GetUnprocessedOutbox \/ CommitOutbox
           \/ Rollback \/ ResetRunningJobs
  BY <1>1
     DEF Copies, storeVars, GetUnprocessedOutbox, CommitOutbox, Rollback,
         ResetRunningJobs
<1>2. ASSUME NEW i \in Jobs,
             \/ InsertJob(i) \/ CancelOutboxEntry(i)
             \/ UpdateJobState(i, "cancelled", cancelRc[i])
             \/ UpdateJobState(i, "pending", reaper.rc[i])
      PROVE  retryCount'[j] \in Copies(j)
  BY <1>2, <1>a DEF Copies, InsertJob, CancelOutboxEntry, UpdateJobState
<1>3. ASSUME NEW s \in Sessions, job[s] \in Jobs,
             \/ UpdateJobState(job[s], "running", rc[s])
             \/ UpdateJobState(job[s], "pending", rc[s])
             \/ CompleteJob(job[s])
             \/ UpdateJobState(job[s], "failed", rc[s])
      PROVE  retryCount'[j] \in Copies(j)
  BY <1>3, <1>a DEF Copies, UpdateJobState, CompleteJob
<1>4. ASSUME NEW s \in Sessions, job[s] \in Jobs,
             MarkRetrying(s), UpdateJobState(job[s], "retrying", rc[s] + 1)
      PROVE  retryCount'[j] \in Copies(j) \cup Raised(j)
  BY <1>4, <1>a DEF Copies, Raised, UpdateJobState
<1> QED BY <1>b, <1>1, <1>2, <1>3, <1>4 DEF StoreEffect

\* So is the count a handler holds.
LEMMA HandlerCopy ==
    ASSUME Core, [Next]_vars, NEW j \in Jobs, NEW t \in Sessions, job'[t] = j
    PROVE  rc'[t] \in Copies(j) \cup Raised(j)
<1>1. ASSUME NEW s \in Sessions, Finish(s)
      PROVE  rc'[t] \in Copies(j)
  BY <1>1 DEF Finish, handlerVars, Copies
<1>2. ASSUME LocalEffect(t)
      PROVE  rc'[t] \in Copies(j) \cup Raised(j)
  BY <1>2 DEF LocalEffect, Copies, Raised
<1> QED BY <1>1, <1>2, LocalEffectStep

--------------------------------------------------------------------------------
\* So is the count CancelJob read.
LEMMA CancelCopy ==
    ASSUME Core, [Next]_vars, NEW j \in Jobs
    PROVE  cancelRc'[j] \in Copies(j)
<1>a. cancelRc \in [Jobs -> Nat]
  BY DEF Core, TypeOK, ServiceTypeOK
<1>b. ASSUME UNCHANGED cancelRc PROVE cancelRc'[j] \in Copies(j)
  BY <1>b DEF Copies
<1>1. ASSUME NEW i \in Jobs, Submit(i)
      PROVE  cancelRc'[j] \in Copies(j)
  BY <1>1, <1>b DEF Submit, SubmitJob, serviceVars
<1>2. ASSUME NEW i \in Jobs, CancelJob(i)
      PROVE  cancelRc'[j] \in Copies(j)
  BY <1>2, <1>a
     DEF Copies, CancelJob, CancelStep, CancelRead, CancelUpdate, CancelOutbox,
         CancelQueue
<1>3. ASSUME NEW s \in Sessions, Worker(s) \/ Handler(s)
      PROVE  cancelRc'[j] \in Copies(j)
  BY <1>3, <1>b DEF Worker, Handler, serviceVars
<1>4. CASE Relay \/ Promote \/ Reaper \/ Trouble \/ Boot
  BY <1>4, <1>b
     DEF Relay, Promote, Reaper, Trouble, Boot, BootReset, BootRecover,
         serviceVars
<1>5. CASE Crash
  BY <1>5 DEF Crash, Copies
<1>6. CASE UNCHANGED vars
  BY <1>6, <1>b DEF vars, serviceVars
<1> QED BY <1>1, <1>2, <1>3, <1>4, <1>5, <1>6 DEF Next, Up

\* So are the counts the reaper listed.
LEMMA ReaperCopy ==
    ASSUME Core, [Next]_vars, NEW j \in Jobs
    PROVE  reaper'.rc[j] \in Copies(j)
<1>a. reaper.rc \in [Jobs -> Nat]
  BY DEF Core, TypeOK, ServerTypeOK
<1>b. ASSUME UNCHANGED reaper PROVE reaper'.rc[j] \in Copies(j)
  BY <1>b DEF Copies
<1>1. ASSUME NEW i \in Jobs, Submit(i) \/ CancelJob(i)
      PROVE  reaper'.rc[j] \in Copies(j)
  BY <1>1, <1>b DEF Submit, CancelJob, serverVars
<1>2. ASSUME NEW s \in Sessions, Worker(s)
      PROVE  reaper'.rc[j] \in Copies(j)
  BY <1>2, <1>b DEF Worker, Connect, Finish
<1>3. ASSUME NEW s \in Sessions, Handler(s)
      PROVE  reaper'.rc[j] \in Copies(j)
  <2>1. UNCHANGED reaper
    BY <1>3
       DEF Handler, HandlerStep, RecvReady, RecvError, RecvHeartbeat,
           recordHeartbeat, RecvResult, Pop, ConsumeError, HGet, Drop,
           StoreOwner, SetRunning, Send, RequeueDb, RequeueRedis, GetJob,
           AckResult, CompleteResult, MarkRetrying, RetryResult, MarkFailed,
           FailResult
  <2> QED BY <2>1, <1>b
<1>4. CASE Reaper
  <2>1. CASE ReaperList
    BY <2>1 DEF ReaperList, Copies
  <2>2. ASSUME NEW i \in Jobs, ReaperNext(i)
        PROVE  reaper'.rc[j] \in Copies(j)
    BY <2>2, <1>a DEF ReaperNext, ReaperIdle, NoRc, Copies
  <2>3. ASSUME NEW i \in Jobs, ReaperCheck(i)
        PROVE  reaper'.rc[j] \in Copies(j)
    <3>1. CASE ReaperNext(i)
      BY <3>1, <2>2
    <3>2. CASE reaper' = [reaper EXCEPT !.pc = "clear", !.job = i]
      BY <3>2 DEF Core, TypeOK, ServerTypeOK, Copies
    <3> QED BY <2>3, <3>1, <3>2 DEF ReaperCheck
  <2>4. CASE ReaperClear \/ ReaperUpdate
    BY <2>4 DEF Core, TypeOK, ServerTypeOK, ReaperClear, ReaperUpdate, Copies
  <2>5. CASE ReaperRetry
    <3>1. reaper.job \in Jobs /\ ReaperNext(reaper.job)
      BY <2>5 DEF ReaperRetry, Core
    <3> QED BY <3>1, <2>2
  <2> QED BY <1>4, <2>1, <2>3, <2>4, <2>5 DEF Reaper, ReaperStep
<1>5. CASE Relay \/ Promote \/ Boot
  BY <1>5, <1>b DEF Relay, Promote, Boot, BootReset, BootRecover, serverVars
<1>6. CASE Trouble
  BY <1>6, <1>b DEF Trouble, Disconnect, HeartbeatTimeout
<1>7. CASE Crash
  BY <1>7 DEF Crash, ReaperIdle, NoRc, Copies
<1>8. CASE UNCHANGED vars
  BY <1>8, <1>b DEF vars, serverVars
<1> QED BY <1>1, <1>2, <1>3, <1>4, <1>5, <1>6, <1>7, <1>8 DEF Next, Up

\* No step makes up a retry count: every copy after it is a copy before it, or
\* one that MarkRetrying raised by one.
LEMMA CopiesStep ==
    ASSUME Core, [Next]_vars, NEW j \in Jobs
    PROVE  Copies(j)' \subseteq Copies(j) \cup Raised(j)
<1> SUFFICES ASSUME NEW n \in Copies(j)'
             PROVE  n \in Copies(j) \cup Raised(j)
  OBVIOUS
<1>1. CASE n \in {0, NoPayload}
  BY <1>1 DEF Copies
<1>2. CASE n \in {retryCount'[j], payloads'[j], cancelRc'[j], reaper'.rc[j]}
  BY <1>2, RowCopy, PayloadCopy, CancelCopy, ReaperCopy
<1>3. CASE \E t \in Sessions : job'[t] = j /\ n = rc'[t]
  BY <1>3, HandlerCopy
<1> QED BY <1>1, <1>2, <1>3 DEF Copies, NoPayload

\* Counts is inductive relative to Core.
LEMMA CountsStep ==
    ASSUME Core, Counts, [Next]_vars
    PROVE  Counts'
<1>a. \A s \in Sessions : rc[s] \in Nat
  BY DEF Core, TypeOK, ServerTypeOK
<1>1. ASSUME NEW j \in Jobs, NEW n \in Copies(j)'
      PROVE  n <= MaxRetries[j]
  <2>1. CASE n \in Copies(j)
    BY <2>1 DEF Counts
  <2>2. ASSUME NEW s \in Sessions, job[s] = j, MarkRetrying(s), n = rc[s] + 1
        PROVE  n <= MaxRetries[j]
    <3>1. rc[s] < MaxRetries[j]
      BY <2>2 DEF Counts, MarkRetrying
    <3> QED BY <2>2, <3>1, <1>a, MaxRetriesAssumption
  <2> QED BY <2>1, <2>2, <1>1, CopiesStep DEF Raised
<1>2. ASSUME NEW s \in Sessions
      PROVE  /\ pc'[s] = "retrying" => rc'[s] < MaxRetries[job'[s]]
             /\ pc'[s] = "failed" => rc'[s] >= MaxRetries[job'[s]]
  <2>1. CASE UNCHANGED <<pc, job, rc>>
    BY <2>1 DEF Counts
  <2>2. CASE LocalEffect(s)
    <3>1. \A j \in Jobs : retryCount[j] \in Nat /\ MaxRetries[j] \in Nat
      BY MaxRetriesAssumption DEF Core, TypeOK, StoreTypeOK
    <3> QED BY <2>2, <3>1 DEF LocalEffect, Counts, RetriesLeft
  <2> QED BY <2>1, <2>2, LocalEffectStep DEF Finish, handlerVars
<1> QED BY <1>1, <1>2 DEF Counts

\* Counts holds when the server is first started.
LEMMA CountsInit == Init => Counts
<1> SUFFICES ASSUME Init PROVE Counts
  OBVIOUS
<1>1. ASSUME NEW j \in Jobs, NEW n \in Copies(j)
      PROVE  n <= MaxRetries[j]
  <2>1. n \in {0, NoPayload}
    BY NilAssumption, <1>1
       DEF Init, QueueInit, StoreInit, ServiceInit, ServerInit, ReaperIdle,
           NoRc, Copies
  <2> QED BY <2>1, MaxRetriesAssumption DEF NoPayload
<1> QED BY <1>1 DEF Counts, Init, ServerInit

\* No retry_count exceeds max_retries, in the row or in the payload, whatever
\* crashes, disconnects, times out, fails or is cancelled, for any number of
\* jobs, workers and failures (handleResult, requeue, reaper, CancelJob).
THEOREM RetryBoundHolds == Spec => []RetryBound
<1>1. Init => Core /\ Counts
  BY CoreInit, CountsInit
<1>2. Core /\ Counts /\ [Next]_vars => (Core /\ Counts)'
  BY CoreStep, CountsStep
<1>3. Core /\ Counts => RetryBound
  BY DEF Counts, Copies, RetryBound
<1> QED BY <1>1, <1>2, <1>3, PTL DEF Spec

\* Results is inductive relative to Core.
LEMMA ResultsStep ==
    ASSUME Core, Results, [Next]_vars
    PROVE  Results'
<1>a. StoreEffect
  BY StoreStep
<1>b. succ \subseteq succ'
  BY LocalEffectStep DEF Finish
<1>1. ASSUME NEW t \in Sessions, outcome'[t] = "success"
      PROVE  job'[t] \in succ'
  <2>1. ASSUME NEW s \in Sessions, Finish(s)
        PROVE  job'[t] \in succ'
    BY <2>1, <1>1 DEF Finish, handlerVars, Core, TypeOK, ServerTypeOK, Results
  <2>2. CASE LocalEffect(t) /\ UNCHANGED succ
    BY <2>2, <1>1 DEF LocalEffect, Results
  <2> QED BY <2>1, <2>2, LocalEffectStep
<1>2. ASSUME NEW j \in Jobs, status'[j] = "completed"
      PROVE  j \in succ'
  <2>1. CASE status[j] = "completed"
    BY <2>1, <1>b DEF Results
  <2>2. CASE \E s \in Sessions : pc[s] = "complete" /\ job[s] = j
    BY <2>2, <1>b DEF Results, Core, SessionOK
  <2>3. \/ status[j] = "completed"
        \/ \E s \in Sessions : pc[s] = "complete" /\ job[s] = j
    BY <1>a, <1>2
       DEF StoreEffect, Core, TypeOK, StoreTypeOK, storeVars,
           GetUnprocessedOutbox, CommitOutbox, Rollback, ResetRunningJobs,
           InsertJob, CancelOutboxEntry, UpdateJobState, CompleteJob
  <2> QED BY <2>1, <2>2, <2>3
<1> QED BY <1>1, <1>2 DEF Results

\* A job is "completed" only if an execution of it succeeded: no result is
\* applied to another job than the one it is about (handleResult, CompleteJob).
THEOREM CompletedHonestlyHolds == Spec => []CompletedHonestly
<1>1. Init => Core /\ Results
  BY CoreInit DEF Init, ServerInit, StoreInit, Results
<1>2. Core /\ Results /\ [Next]_vars => (Core /\ Results)'
  BY CoreStep, ResultsStep
<1>3. Results => CompletedHonestly
  BY DEF Results, CompletedHonestly
<1> QED BY <1>1, <1>2, <1>3, PTL DEF Spec

\* DelayedBacked is inductive relative to Core.
LEMMA DelayedBackedStep ==
    ASSUME Core, DelayedBacked, [Next]_vars
    PROVE  DelayedBacked'
<1>a. QueueEffect /\ QueueTypeOK
  BY QueueStep DEF Core, TypeOK
<1> USE DEF DelayedBacked, QueueTypeOK, NoPayload
<1>1. CASE UNCHANGED redisVars
  BY <1>1 DEF redisVars
<1>2. CASE \/ PromoteRead \/ PromoteExec \/ PromoteError
           \/ ConsumePop \/ Recover
  BY <1>2
     DEF PromoteRead, PromoteExec, PromoteError, ConsumePop, Recover, redisVars
<1>3. ASSUME NEW j \in Jobs,
             \/ EnqueueSAdd(j) \/ EnqueueExec(j, 0, relay.added)
             \/ ConsumeDrop(j) \/ Ack(j) \/ Fail(j) \/ Cancel(j)
      PROVE  DelayedBacked'
  BY <1>3, <1>a
     DEF EnqueueSAdd, EnqueueExec, ConsumeDrop, Ack, Fail, Cancel, Forget
<1>4. ASSUME NEW j \in Jobs, NEW n \in Nat, Retry(j, n)
      PROVE  DelayedBacked'
  BY <1>4, <1>a DEF Retry
<1>5. /\ \A j \in Jobs : reaper.rc[j] \in Nat
      /\ \A s \in Sessions : rc[s] \in Nat
  BY DEF Core, TypeOK, ServerTypeOK
<1> QED BY <1>a, <1>1, <1>2, <1>3, <1>4, <1>5 DEF QueueEffect

\* A job in the delayed set is always in the queued set and has its payload
\* (Retry, Ack, Fail, Cancel, promoteDueJobs).
THEOREM DelayedBackedHolds == Spec => []DelayedBacked
<1>1. Init => Core /\ DelayedBacked
  BY CoreInit DEF Init, QueueInit, DelayedBacked
<1>2. Core /\ DelayedBacked /\ [Next]_vars => (Core /\ DelayedBacked)'
  BY CoreStep, DelayedBackedStep
<1> QED BY <1>1, <1>2, PTL DEF Spec

--------------------------------------------------------------------------------
\* The failures not yet charged to a job are finitely many.
LEMMA UnchargedFinite ==
    ASSUME NEW j
    PROVE  IsFiniteSet(Uncharged(j)) /\ Cardinality(Uncharged(j)) \in Nat
<1>1. IsFiniteSet(Uncharged(j))
  BY FiniteAssumption, FS_Subset DEF Uncharged
<1> QED BY <1>1, FS_CardinalityType

\* Only the end of an execution adds to them.
LEMMA UnchargedStep ==
    ASSUME Core, [Next]_vars, NEW j \in Jobs, \A t \in Sessions : LocalEffect(t)
    PROVE  /\ Uncharged(j)' \subseteq Uncharged(j)
           /\ Cardinality(Uncharged(j)') \in Nat
           /\ Cardinality(Uncharged(j)') <= Cardinality(Uncharged(j))
<1>1. Uncharged(j)' \subseteq Uncharged(j)
  BY DEF Uncharged, LocalEffect
<1> HIDE DEF Uncharged
<1>2. IsFiniteSet(Uncharged(j)')
  BY <1>1, UnchargedFinite, FS_Subset
<1> QED BY <1>1, <1>2, UnchargedFinite, FS_Subset, FS_CardinalityType

\* A failed execution adds one to what is uncharged and one to the history.
LEMMA ChargedFinish ==
    ASSUME Core, Charged, [Next]_vars, NEW s \in Sessions, Worker(s), Finish(s)
    PROVE  Charged'
<1> SUFFICES ASSUME NEW j \in Jobs
             PROVE  /\ \A n \in Copies(j)' :
                          n + Cardinality(Uncharged(j)') <= fails'[j]
                    /\ status'[j] = "failed" => fails'[j] > MaxRetries[j]
  BY DEF Charged
<1>a. fails \in [Jobs -> Nat]
  BY DEF Core, TypeOK, ServerTypeOK
<1>b. Copies(j)' = Copies(j) /\ UNCHANGED <<status, job>>
  BY CopiesFinish DEF Finish, storeVars, handlerVars
<1>c. s \notin Uncharged(j) /\ job[s] \in Jobs
  BY DEF Finish, Uncharged, Core, SessionOK, Empty
<1>d. \A n \in Copies(j) : n \in Int
  BY DEF Copies, NoPayload, Core, TypeOK, QueueTypeOK, StoreTypeOK,
         ServiceTypeOK, ServerTypeOK
<1>e. Cardinality(Uncharged(j)) \in Nat
  BY UnchargedFinite
<1>f. outcome \in [Sessions -> {"none", "success", "failure"}]
  BY DEF Core, TypeOK, ServerTypeOK
<1>1. CASE fails' = fails /\ outcome' = [outcome EXCEPT ![s] = "success"]
  <2>1. Uncharged(j)' = Uncharged(j)
    BY <1>1, <1>b, <1>c, <1>f DEF Uncharged
  <2> QED BY <1>1, <1>b, <2>1 DEF Charged
<1>2. CASE /\ fails' = [fails EXCEPT ![job[s]] = @ + 1]
           /\ outcome' = [outcome EXCEPT ![s] = "failure"]
  <2>1. CASE job[s] = j
    <3>1. Uncharged(j)' = Uncharged(j) \cup {s}
      BY <1>2, <1>b, <1>f, <2>1 DEF Uncharged
    <3>2. Cardinality(Uncharged(j)') = Cardinality(Uncharged(j)) + 1
      BY <1>c, <3>1, UnchargedFinite, FS_AddElement
    <3>3. fails'[j] = fails[j] + 1
      BY <1>2, <1>a, <2>1
    <3>4. /\ \A n \in Copies(j) : n + Cardinality(Uncharged(j)) <= fails[j]
          /\ status[j] = "failed" => fails[j] > MaxRetries[j]
      BY DEF Charged
    <3> HIDE DEF Uncharged, Copies
    <3> QED BY <1>a, <1>b, <1>d, <1>e, <3>2, <3>3, <3>4, MaxRetriesAssumption
  <2>2. CASE job[s] # j
    <3>1. Uncharged(j)' = Uncharged(j)
      BY <1>2, <1>b, <1>f, <2>2 DEF Uncharged
    <3>2. fails'[j] = fails[j]
      BY <1>2, <1>a, <2>2
    <3> QED BY <1>b, <3>1, <3>2 DEF Charged
  <2> QED BY <2>1, <2>2
<1> QED BY <1>1, <1>2 DEF Finish

\* Every other step keeps the counts covered: MarkRetrying takes from what is
\* uncharged the one that it adds to the count, and MarkFailed has one left.
LEMMA ChargedLocal ==
    ASSUME Core, Counts, Charged, [Next]_vars,
           UNCHANGED fails, \A t \in Sessions : LocalEffect(t)
    PROVE  Charged'
<1> SUFFICES ASSUME NEW j \in Jobs
             PROVE  /\ \A n \in Copies(j)' :
                          n + Cardinality(Uncharged(j)') <= fails'[j]
                    /\ status'[j] = "failed" => fails'[j] > MaxRetries[j]
  BY DEF Charged
<1>a. fails[j] \in Nat /\ fails'[j] = fails[j] /\ MaxRetries[j] \in Nat
  BY MaxRetriesAssumption DEF Core, TypeOK, ServerTypeOK
<1>b. \A n \in Copies(j) :
        n \in Int /\ n + Cardinality(Uncharged(j)) <= fails[j]
  BY DEF Charged, Copies, NoPayload, Core, TypeOK, QueueTypeOK, StoreTypeOK,
         ServiceTypeOK, ServerTypeOK
<1>c. /\ Cardinality(Uncharged(j)) \in Nat
      /\ Cardinality(Uncharged(j)') \in Nat
      /\ Cardinality(Uncharged(j)') <= Cardinality(Uncharged(j))
  BY UnchargedFinite, UnchargedStep
<1>d. \A s \in Sessions : job[s] = j => rc[s] \in Copies(j)
  BY DEF Copies
<1>1. ASSUME NEW n \in Copies(j)'
      PROVE  n + Cardinality(Uncharged(j)') <= fails'[j]
  <2>1. CASE n \in Copies(j)
    <3> HIDE DEF Copies
    <3> QED BY <1>a, <1>b, <1>c, <2>1
  <2>2. ASSUME NEW s \in Sessions, job[s] = j, MarkRetrying(s), n = rc[s] + 1
        PROVE  n + Cardinality(Uncharged(j)') <= fails'[j]
    <3>1. s \in Uncharged(j)
      BY <2>2 DEF MarkRetrying, Core, SessionOK, Uncharged
    <3>2. s \notin Uncharged(j)'
      BY <2>2 DEF MarkRetrying, Uncharged, Core, TypeOK, ServerTypeOK
    <3>3. Uncharged(j)' \subseteq Uncharged(j) \ {s}
      BY <3>2, UnchargedStep
    <3>4. /\ IsFiniteSet(Uncharged(j) \ {s})
          /\ Cardinality(Uncharged(j) \ {s}) = Cardinality(Uncharged(j)) - 1
      BY <3>1, UnchargedFinite, FS_RemoveElement
    <3>5. Cardinality(Uncharged(j)') <= Cardinality(Uncharged(j) \ {s})
      BY <3>3, <3>4, FS_Subset
    <3> QED BY <1>a, <1>b, <1>c, <1>d, <2>2, <3>4, <3>5
  <2> QED BY <2>1, <2>2, <1>1, CopiesStep DEF Raised
<1>2. ASSUME status'[j] = "failed"
      PROVE  fails'[j] > MaxRetries[j]
  <2>1. CASE status[j] = "failed"
    BY <2>1, <1>a DEF Charged
  <2>2. ASSUME NEW s \in Sessions, pc[s] = "failed", job[s] = j
        PROVE  fails'[j] > MaxRetries[j]
    <3>1. s \in Uncharged(j)
      BY <2>2 DEF Core, SessionOK, Uncharged
    <3>2. Cardinality(Uncharged(j)) # 0
      BY <3>1, UnchargedFinite, FS_EmptySet
    <3>3. rc[s] >= MaxRetries[j]
      BY <2>2 DEF Counts
    <3> QED BY <1>a, <1>b, <1>c, <1>d, <2>2, <3>2, <3>3
  <2>3. \/ status[j] = "failed"
        \/ \E s \in Sessions : pc[s] = "failed" /\ job[s] = j
    BY <1>2, StoreStep
       DEF StoreEffect, Core, TypeOK, StoreTypeOK, storeVars,
           GetUnprocessedOutbox, CommitOutbox, Rollback, ResetRunningJobs,
           InsertJob, CancelOutboxEntry, UpdateJobState, CompleteJob
  <2> QED BY <2>1, <2>2, <2>3
<1> QED BY <1>1, <1>2

\* Charged holds when the server is first started.
LEMMA ChargedInit == Init => Charged
<1> SUFFICES ASSUME Init, NEW j \in Jobs
             PROVE  /\ \A n \in Copies(j) :
                          n + Cardinality(Uncharged(j)) <= fails[j]
                    /\ status[j] # "failed"
  BY DEF Charged
<1>1. \A n \in Copies(j) : n \in {0, NoPayload}
  BY NilAssumption
     DEF Init, QueueInit, StoreInit, ServiceInit, ServerInit, ReaperIdle, NoRc,
         Copies
<1>2. Uncharged(j) = {}
  BY DEF Init, ServerInit, Uncharged
<1>3. Cardinality(Uncharged(j)) = 0
  BY <1>2, FS_EmptySet
<1> QED BY <1>1, <1>3 DEF Init, ServerInit, StoreInit, NoPayload

\* A job is "failed" only after max_retries + 1 executions of it have failed:
\* no failure is charged twice and no lost worker is charged (handleResult,
\* the requeues of Work, reaperTick, ResetRunningJobs).
THEOREM FailedExhaustedHolds == Spec => []FailedExhausted
<1> DEFINE IInv == Core /\ Counts /\ Charged
<1>1. Init => IInv
  BY CoreInit, CountsInit, ChargedInit
<1>2. IInv /\ [Next]_vars => IInv'
  <2>1. Core /\ Counts /\ Charged /\ [Next]_vars => Charged'
    BY LocalEffectStep, ChargedFinish, ChargedLocal
  <2> QED BY <2>1, CoreStep, CountsStep
<1>3. IInv => FailedExhausted
  BY DEF Charged, FailedExhausted
<1> QED BY <1>1, <1>2, <1>3, PTL DEF Spec

\* The Work handler that lets go of a job no longer owns it.
LEMMA HandlerOwner ==
    ASSUME Core, OwnerHandlesJob, NEW s \in Sessions, Handler(s)
    PROVE  OwnerHandlesJob'
<1> SUFFICES ASSUME NEW j \in Jobs, NEW t \in Sessions, owner'[j] = t
             PROVE  job'[t] = j /\ pc'[t] \in OwnerPcs
  BY DEF OwnerHandlesJob, OwnerPcs
<1>a. ServerTypeOK /\ SessionOK(s)
  BY DEF Core, TypeOK
<1>b. owner[j] = t => job[t] = j /\ pc[t] \in OwnerPcs
  BY DEF OwnerHandlesJob, OwnerPcs
<1>c. Nil # t /\ Nil # j
  BY NilAssumption
<1> USE <1>a, <1>b, <1>c
        DEF ServerTypeOK, OwnerPcs, handlerVars, workerVars, memoryVars
<1>1. CASE RecvReady(s)
  BY <1>1 DEF RecvReady, Goto, SessionOK, Empty
<1>2. CASE RecvError(s)
  BY <1>2 DEF RecvError, Goto, Return, clearOwnership, SessionOK, Empty
<1>3. CASE RecvHeartbeat(s)
  BY <1>3 DEF RecvHeartbeat, Goto
<1>4. CASE recordHeartbeat(s)
  BY <1>4 DEF recordHeartbeat, Goto
<1>5. CASE RecvResult(s)
  BY <1>5 DEF RecvResult, Goto
<1>6. CASE Pop(s)
  BY <1>6 DEF Pop, Goto
<1>7. CASE ConsumeError(s)
  BY <1>7 DEF ConsumeError, Return
<1>8. CASE HGet(s)
  BY <1>8 DEF HGet, Goto
<1>9. CASE Drop(s)
  BY <1>9 DEF Drop, Goto
<1>10. CASE StoreOwner(s)
  BY <1>10 DEF StoreOwner, Goto
<1>11. CASE SetRunning(s)
  BY <1>11 DEF SetRunning, Goto, Return, clearOwnership
<1>12. CASE Send(s)
  BY <1>12 DEF Send, Goto, clearOwnership
<1>13. CASE RequeueDb(s)
  BY <1>13 DEF RequeueDb, Goto
<1>14. CASE RequeueRedis(s)
  BY <1>14 DEF RequeueRedis, Return
<1>15. CASE GetJob(s)
  BY <1>15
     DEF GetJob, Goto, ReturnResult, clearOwnership, ResultBranch, SessionOK
<1>16. CASE AckResult(s)
  BY <1>16 DEF AckResult, Goto
<1>17. CASE CompleteResult(s)
  BY <1>17 DEF CompleteResult, ReturnResult, clearOwnership
<1>18. CASE MarkRetrying(s)
  BY <1>18 DEF MarkRetrying, Goto, clearOwnership
<1>19. CASE RetryResult(s)
  BY <1>19 DEF RetryResult, ReturnResult
<1>20. CASE MarkFailed(s)
  BY <1>20 DEF MarkFailed, Goto, clearOwnership
<1>21. CASE FailResult(s)
  BY <1>21 DEF FailResult, ReturnResult
<1> QED BY <1>1, <1>2, <1>3, <1>4, <1>5, <1>6, <1>7, <1>8, <1>9, <1>10, <1>11,
           <1>12, <1>13, <1>14, <1>15, <1>16, <1>17, <1>18, <1>19, <1>20, <1>21
           DEF Handler, HandlerStep

\* OwnerHandlesJob is inductive relative to Core.
LEMMA OwnerStep ==
    ASSUME Core, OwnerHandlesJob, [Next]_vars
    PROVE  OwnerHandlesJob'
<1>a. ServerTypeOK
  BY DEF Core, TypeOK
<1>b. ASSUME UNCHANGED <<owner, job, pc>>
      PROVE  OwnerHandlesJob'
  BY <1>b DEF OwnerHandlesJob
<1> USE DEF serverVars, memoryVars, handlerVars
<1>1. ASSUME NEW j \in Jobs, Submit(j) \/ CancelJob(j)
      PROVE  OwnerHandlesJob'
  BY <1>1, <1>b DEF Submit, CancelJob
<1>2. ASSUME NEW s \in Sessions, Finish(s)
      PROVE  OwnerHandlesJob'
  BY <1>2, <1>b DEF Finish
<1>3. ASSUME NEW s \in Sessions, Connect(s)
      PROVE  OwnerHandlesJob'
  BY <1>3, <1>a DEF Connect, Goto, ServerTypeOK, OwnerHandlesJob, OwnerPcs
<1>4. ASSUME NEW s \in Sessions, Handler(s)
      PROVE  OwnerHandlesJob'
  BY <1>4, HandlerOwner
<1>5. CASE Relay \/ Promote \/ Boot
  BY <1>5, <1>b DEF Relay, Promote, Boot, BootReset, BootRecover
<1>6. CASE Trouble
  BY <1>6, <1>b DEF Trouble, Disconnect, HeartbeatTimeout
<1>7. CASE Reaper
  <2>1. UNCHANGED <<job, pc>> /\ (UNCHANGED owner \/ clearOwnership(reaper.job))
    BY <1>7
       DEF Reaper, ReaperStep, ReaperList, ReaperCheck, ReaperClear,
           ReaperUpdate, ReaperRetry
  <2> QED BY <2>1, <1>a, <1>b, NilAssumption
             DEF clearOwnership, ServerTypeOK, OwnerHandlesJob
<1>8. CASE Crash
  BY <1>8, NilAssumption DEF Crash, OwnerHandlesJob
<1>9. CASE UNCHANGED vars
  BY <1>9, <1>b DEF vars
<1> QED BY <1>1, <1>2, <1>3, <1>4, <1>5, <1>6, <1>7, <1>8, <1>9
           DEF Next, Up, Worker

\* The owner of a job is always a handler that has the job in hand and will
\* clear the entry: the owner map never outlives a stream (StoreOwner,
\* clearOwnership, Work, handleResult, reaperTick).
THEOREM OwnerHandlesJobHolds == Spec => []OwnerHandlesJob
<1>1. Init => Core /\ OwnerHandlesJob
  BY CoreInit, NilAssumption DEF Init, ServerInit, OwnerHandlesJob
<1>2. Core /\ OwnerHandlesJob /\ [Next]_vars => (Core /\ OwnerHandlesJob)'
  BY CoreStep, OwnerStep
<1> QED BY <1>1, <1>2, PTL DEF Spec
================================================================================

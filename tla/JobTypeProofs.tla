----------------------------- MODULE JobTypeProofs -----------------------------
(*****************************************************************************)
(* The proof that the job system keeps its types, for any set of jobs and    *)
(* streams and any number of failures.  Types alone are not inductive: a     *)
(* handler's next command is typed because its pc says that it has a job in  *)
(* hand.  Core of JobInvariants says so for every pc; here it is proved      *)
(* inductive, component by component: what one step may do to Redis, to      *)
(* Postgres, and to the local state of the goroutines.                       *)
(*****************************************************************************)
EXTENDS JobInvariants, TLAPS, FiniteSetTheorems, SequenceTheorems,
        WellFoundedInduction

\* A non-empty set of naturals contains its Min: the index that RemoveFirst
\* (LREM with count 1) picks exists.
LEMMA SmallestIndex ==
    ASSUME NEW I \in SUBSET Nat, I # {}
    PROVE  Min(I) \in I
<1> DEFINE R == {ss \in Nat \X Nat : ss[1] < ss[2]}
<1>1. IsWellFoundedOn(R, Nat)
  BY NatLessThanWellFounded, Zenon DEF OpToRel
<1>2. PICK x \in I : \A y \in I : ~ (<<y, x>> \in R)
  <2> HIDE DEF R
  <2> QED BY <1>1, WFMin, Zenon
<1>3. \A y \in I : x =< y
  <2> TAKE y \in I
  <2>1. <<y, x>> \notin R
    BY <1>2
  <2>2. ~ (y < x)
    BY <2>1
  <2> QED BY <2>2
<1> QED BY <1>3 DEF Min

\* LREM leaves a list of the same kind of entries.
LEMMA RemoveFirstType ==
    ASSUME NEW S, NEW q \in Seq(S), NEW e
    PROVE  RemoveFirst(q, e) \in Seq(S)
<1>1. CASE \E i \in 1..Len(q) : q[i] = e
  <2> DEFINE I == {i \in 1..Len(q) : q[i] = e}
             m == Min(I)
  <2>1. I # {} /\ I \in SUBSET Nat
    BY <1>1
  <2>2. m \in 1..Len(q)
    <3>1. m \in I
      <4> HIDE DEF I
      <4> QED BY <2>1, SmallestIndex
    <3> QED BY <3>1
  <2>3. RemoveFirst(q, e) = SubSeq(q, 1, m - 1) \o SubSeq(q, m + 1, Len(q))
    BY <1>1, <2>1 DEF RemoveFirst, RemoveAt, SelectInSeq
  <2>4. SubSeq(q, 1, m - 1) \in Seq(S) /\ SubSeq(q, m + 1, Len(q)) \in Seq(S)
    <3> HIDE DEF m
    <3> QED BY <2>2
  <2> QED BY <2>3, <2>4
<1>2. CASE ~ \E i \in 1..Len(q) : q[i] = e
  BY <1>2 DEF RemoveFirst
<1> QED BY <1>1, <1>2

\* The order in which promoteDueJobs pushes the due ids is a list of jobs.
LEMMA SetToSeqsType ==
    ASSUME NEW D \in SUBSET Jobs, NEW order \in SetToSeqs(D)
    PROVE  order \in Seq(Jobs)
<1>1. Cardinality(D) \in Nat
  BY FiniteAssumption, FS_Subset, FS_CardinalityType
<1>2. order \in [1..Cardinality(D) -> D]
  BY DEF SetToSeqs
<1> QED BY <1>1, <1>2

\* Every Redis command that names a job keeps the five keys well typed.
LEMMA QueueOps ==
    ASSUME QueueTypeOK, UNCHANGED due,
           NEW j \in Jobs, NEW n \in Nat, NEW added,
           \/ EnqueueSAdd(j) \/ EnqueueExec(j, n, added)
           \/ ConsumeDrop(j) \/ Ack(j) \/ Fail(j) \/ Cancel(j) \/ Retry(j, n)
    PROVE  QueueTypeOK'
<1> USE RemoveFirstType DEF QueueTypeOK, NoPayload
<1>1. CASE EnqueueSAdd(j)
  BY <1>1 DEF EnqueueSAdd
<1>2. CASE EnqueueExec(j, n, added)
  BY <1>2 DEF EnqueueExec
<1>3. CASE ConsumeDrop(j)
  BY <1>3 DEF ConsumeDrop
<1>4. CASE Ack(j) \/ Fail(j) \/ Cancel(j)
  BY <1>4 DEF Ack, Fail, Cancel, Forget
<1>5. CASE Retry(j, n)
  BY <1>5 DEF Retry
<1> QED BY <1>1, <1>2, <1>3, <1>4, <1>5

\* So does every step of promoteDueJobs.
LEMMA PromoterOps ==
    ASSUME QueueTypeOK, PromoteRead \/ PromoteExec \/ PromoteError
    PROVE  QueueTypeOK'
<1>1. CASE PromoteRead \/ PromoteError
  BY <1>1 DEF PromoteRead, PromoteError, QueueTypeOK, redisVars
<1>2. CASE PromoteExec
  BY <1>2, SetToSeqsType DEF PromoteExec, QueueTypeOK
<1> QED BY <1>1, <1>2

\* Every Postgres statement that names a job keeps the two tables well typed.
LEMMA StoreOps ==
    ASSUME StoreTypeOK,
           NEW j \in Jobs, NEW n \in Nat, NEW state \in Statuses,
           \/ InsertJob(j) \/ UpdateJobState(j, state, n) \/ CompleteJob(j)
           \/ CancelOutboxEntry(j)
    PROVE  StoreTypeOK'
<1> USE DEF StoreTypeOK, Statuses
<1>1. CASE InsertJob(j)
  BY <1>1 DEF InsertJob
<1>2. CASE UpdateJobState(j, state, n)
  BY <1>2 DEF UpdateJobState
<1>3. CASE CompleteJob(j)
  BY <1>3 DEF CompleteJob, Settled
<1>4. CASE CancelOutboxEntry(j)
  BY <1>4 DEF CancelOutboxEntry
<1> QED BY <1>1, <1>2, <1>3, <1>4

\* What one step may do to Redis.
QueueEffect ==
    \/ UNCHANGED redisVars /\ (due' = due \/ due' = {})
    \/ PromoteRead \/ PromoteExec \/ PromoteError
    \/ UNCHANGED due /\ (ConsumePop \/ Recover)
    \/ UNCHANGED due /\ \E j \in Jobs :
          \/ EnqueueSAdd(j) \/ EnqueueExec(j, 0, relay.added) \/ ConsumeDrop(j)
          \/ Ack(j) \/ Fail(j) \/ Cancel(j) \/ Retry(j, reaper.rc[j])
    \/ UNCHANGED due /\ \E s \in Sessions :
          job[s] \in Jobs /\ Retry(job[s], rc[s])

\* A step of the Work handler sends at most one command to Redis, for the job
\* it has in hand and with the count it has read.
LEMMA HandlerQueue ==
    ASSUME Core, NEW s \in Sessions, Handler(s)
    PROVE  QueueEffect
<1> USE DEF QueueEffect, CtxDone, redisVars
<1>a. UNCHANGED due /\ SessionOK(s)
  BY DEF Handler, Core
<1>1. CASE Pop(s)
  BY <1>1, <1>a DEF Pop
<1>2. CASE Drop(s)
  <2>1. job[s] \in Jobs
    BY <1>2, <1>a DEF Drop, SessionOK
  <2> QED BY <1>2, <1>a, <2>1 DEF Drop, TryStreamRedis, TryRedis
<1>3. CASE RequeueRedis(s) \/ RetryResult(s)
  <2>1. job[s] \in Jobs
    BY <1>3, <1>a DEF RequeueRedis, RetryResult, SessionOK
  <2> QED BY <1>3, <1>a, <2>1
             DEF RequeueRedis, RetryResult, TryStreamRedis, TryRedis
<1>4. CASE AckResult(s) \/ FailResult(s)
  <2>1. job[s] \in Jobs
    BY <1>4, <1>a DEF AckResult, FailResult, SessionOK
  <2> QED BY <1>4, <1>a, <2>1
             DEF AckResult, FailResult, TryStreamRedis, TryRedis
<1>5. CASE \/ RecvReady(s) \/ RecvError(s) \/ RecvHeartbeat(s)
           \/ recordHeartbeat(s) \/ RecvResult(s) \/ ConsumeError(s) \/ HGet(s)
           \/ StoreOwner(s) \/ SetRunning(s) \/ Send(s) \/ RequeueDb(s)
           \/ GetJob(s) \/ CompleteResult(s) \/ MarkRetrying(s) \/ MarkFailed(s)
  <2>1. UNCHANGED redisVars
    BY <1>5
       DEF RecvReady, RecvError, RecvHeartbeat, recordHeartbeat, RecvResult,
           ConsumeError, HGet, StoreOwner, SetRunning, Send, RequeueDb, GetJob,
           CompleteResult, MarkRetrying, MarkFailed
  <2> QED BY <1>a, <2>1
<1> QED BY <1>1, <1>2, <1>3, <1>4, <1>5 DEF Handler, HandlerStep

\* Every step of the system sends at most one command to Redis.
LEMMA QueueStep ==
    ASSUME Core, [Next]_vars
    PROVE  QueueEffect
<1> USE DEF QueueEffect, redisVars
<1>1. ASSUME NEW j \in Jobs, Submit(j)
      PROVE  QueueEffect
  BY <1>1 DEF Submit, SubmitJob
<1>2. ASSUME NEW j \in Jobs, CancelJob(j)
      PROVE  QueueEffect
  BY <1>2
     DEF CancelJob, CancelStep, CancelRead, CancelUpdate, CancelOutbox,
         CancelQueue
<1>3. ASSUME NEW s \in Sessions, Worker(s)
      PROVE  QueueEffect
  BY <1>3 DEF Worker, Connect, Finish
<1>4. ASSUME NEW s \in Sessions, Handler(s)
      PROVE  QueueEffect
  BY <1>4, HandlerQueue
<1>5. CASE Relay
  <2>1. relay.pc = "exec" => relay.job \in Jobs
    BY DEF Core
  <2> QED BY <1>5, <2>1
             DEF Relay, RelayStep, RelayBegin, RelaySAdd, RelayExec,
                 RelayCommit, RelayAbort
<1>6. CASE Promote
  BY <1>6 DEF Promote
<1>7. CASE Reaper
  <2>1. reaper.pc = "retry" => reaper.job \in Jobs
    BY DEF Core
  <2> QED BY <1>7, <2>1
             DEF Reaper, ReaperStep, ReaperList, ReaperCheck, ReaperClear,
                 ReaperUpdate, ReaperRetry, TryRedis
<1>8. CASE Trouble
  BY <1>8 DEF Trouble, Disconnect, HeartbeatTimeout
<1>9. CASE Boot
  BY <1>9 DEF Boot, BootReset, BootRecover, queueVars
<1>10. CASE Crash
  BY <1>10 DEF Crash
<1>11. CASE UNCHANGED vars
  BY <1>11 DEF vars, queueVars
<1> QED BY <1>1, <1>2, <1>3, <1>4, <1>5, <1>6, <1>7, <1>8, <1>9, <1>10, <1>11
           DEF Next, Up

\* Hence the Redis keys stay well typed.
LEMMA QueueTypeStep ==
    ASSUME Core, [Next]_vars
    PROVE  QueueTypeOK'
<1>a. QueueTypeOK
  BY DEF Core, TypeOK
<1>b. QueueEffect
  BY QueueStep
<1>1. CASE UNCHANGED redisVars /\ (due' = due \/ due' = {})
  BY <1>1, <1>a DEF QueueTypeOK, redisVars
<1>2. CASE PromoteRead \/ PromoteExec \/ PromoteError
  BY <1>2, <1>a, PromoterOps
<1>3. CASE UNCHANGED due /\ (ConsumePop \/ Recover)
  <2>1. CASE ConsumePop
    <3>1. ready[Len(ready)] \in Jobs /\ SubSeq(ready, 1, Len(ready) - 1) \in Seq(Jobs)
      BY <2>1, <1>a DEF ConsumePop, QueueTypeOK
    <3> QED BY <2>1, <1>3, <1>a, <3>1 DEF ConsumePop, QueueTypeOK
  <2>2. CASE Recover
    BY <2>2, <1>3, <1>a DEF Recover, QueueTypeOK
  <2> QED BY <1>3, <2>1, <2>2
<1>4. ASSUME UNCHANGED due, NEW j \in Jobs,
             \/ EnqueueSAdd(j) \/ EnqueueExec(j, 0, relay.added)
             \/ ConsumeDrop(j) \/ Ack(j) \/ Fail(j) \/ Cancel(j) \/ Retry(j, reaper.rc[j])
      PROVE  QueueTypeOK'
  <2>1. reaper.rc[j] \in Nat
    BY DEF Core, TypeOK, ServerTypeOK
  <2> QED BY <1>4, <1>a, <2>1, QueueOps
<1>5. ASSUME UNCHANGED due, NEW s \in Sessions, job[s] \in Jobs,
             Retry(job[s], rc[s])
      PROVE  QueueTypeOK'
  <2>1. rc[s] \in Nat
    BY DEF Core, TypeOK, ServerTypeOK
  <2> QED BY <1>5, <1>a, <2>1, QueueOps
<1> QED BY <1>b, <1>1, <1>2, <1>3, <1>4, <1>5 DEF QueueEffect

\* What one step may do to Postgres.
StoreEffect ==
    \/ UNCHANGED storeVars
    \/ GetUnprocessedOutbox \/ CommitOutbox \/ Rollback \/ ResetRunningJobs
    \/ \E j \in Jobs :
          \/ InsertJob(j) \/ CancelOutboxEntry(j)
          \/ UpdateJobState(j, "cancelled", cancelRc[j])
          \/ UpdateJobState(j, "pending", reaper.rc[j])
    \/ \E s \in Sessions :
          /\ job[s] \in Jobs
          /\ \/ UpdateJobState(job[s], "running", rc[s])
             \/ UpdateJobState(job[s], "pending", rc[s])
             \/ pc[s] = "complete" /\ CompleteJob(job[s])
             \/ MarkRetrying(s) /\ UpdateJobState(job[s], "retrying", rc[s] + 1)
             \/ pc[s] = "failed" /\ UpdateJobState(job[s], "failed", rc[s])

\* A step of the Work handler runs at most one statement, on the row of the
\* job in hand.
LEMMA HandlerStore ==
    ASSUME Core, NEW s \in Sessions, Handler(s)
    PROVE  StoreEffect
<1> USE DEF StoreEffect
<1>a. SessionOK(s)
  BY DEF Core
<1>1. CASE SetRunning(s)
  BY <1>1, <1>a DEF SetRunning, SessionOK
<1>2. CASE RequeueDb(s)
  BY <1>2, <1>a DEF RequeueDb, TryDb, SessionOK
<1>3. CASE CompleteResult(s)
  BY <1>3, <1>a DEF CompleteResult, TryDb, SessionOK
<1>4. CASE MarkRetrying(s)
  BY <1>4, <1>a DEF MarkRetrying, TryDb, SessionOK
<1>5. CASE MarkFailed(s)
  BY <1>5, <1>a DEF MarkFailed, TryDb, SessionOK
<1>6. CASE \/ RecvReady(s) \/ RecvError(s) \/ RecvHeartbeat(s)
           \/ recordHeartbeat(s) \/ RecvResult(s) \/ Pop(s) \/ ConsumeError(s)
           \/ HGet(s) \/ Drop(s) \/ StoreOwner(s) \/ Send(s) \/ RequeueRedis(s)
           \/ GetJob(s) \/ AckResult(s) \/ RetryResult(s) \/ FailResult(s)
  <2>1. UNCHANGED storeVars
    BY <1>6
       DEF RecvReady, RecvError, RecvHeartbeat, recordHeartbeat, RecvResult,
           Pop, ConsumeError, HGet, Drop, StoreOwner, Send, RequeueRedis,
           GetJob, AckResult, RetryResult, FailResult
  <2> QED BY <2>1
<1> QED BY <1>1, <1>2, <1>3, <1>4, <1>5, <1>6 DEF Handler, HandlerStep

\* Every step of the system runs at most one statement.
LEMMA StoreStep ==
    ASSUME Core, [Next]_vars
    PROVE  StoreEffect
<1> USE DEF StoreEffect
<1>1. ASSUME NEW j \in Jobs, Submit(j)
      PROVE  StoreEffect
  BY <1>1 DEF Submit, SubmitJob
<1>2. ASSUME NEW j \in Jobs, CancelJob(j)
      PROVE  StoreEffect
  BY <1>2
     DEF CancelJob, CancelStep, CancelRead, CancelUpdate, CancelOutbox,
         CancelQueue
<1>3. ASSUME NEW s \in Sessions, Worker(s)
      PROVE  StoreEffect
  BY <1>3 DEF Worker, Connect, Finish
<1>4. ASSUME NEW s \in Sessions, Handler(s)
      PROVE  StoreEffect
  BY <1>4, HandlerStore
<1>5. CASE Relay
  BY <1>5
     DEF Relay, RelayStep, RelayBegin, RelaySAdd, RelayExec, RelayCommit,
         RelayAbort
<1>6. CASE Promote
  BY <1>6 DEF Promote
<1>7. CASE Reaper
  <2>1. reaper.pc = "update" => reaper.job \in Jobs
    BY DEF Core
  <2> QED BY <1>7, <2>1
             DEF Reaper, ReaperStep, ReaperList, ReaperCheck, ReaperClear,
                 ReaperUpdate, ReaperRetry, TryDb
<1>8. CASE Trouble
  BY <1>8 DEF Trouble, Disconnect, HeartbeatTimeout
<1>9. CASE Boot
  BY <1>9 DEF Boot, BootReset, BootRecover
<1>10. CASE Crash
  BY <1>10 DEF Crash, Rollback
<1>11. CASE UNCHANGED vars
  BY <1>11 DEF vars
<1> QED BY <1>1, <1>2, <1>3, <1>4, <1>5, <1>6, <1>7, <1>8, <1>9, <1>10, <1>11
           DEF Next, Up

\* Hence the tables stay well typed.
LEMMA StoreTypeStep ==
    ASSUME Core, [Next]_vars
    PROVE  StoreTypeOK'
<1>a. StoreTypeOK
  BY DEF Core, TypeOK
<1>b. StoreEffect
  BY StoreStep
<1>c. {"running", "pending", "cancelled", "retrying", "failed"}
        \subseteq Statuses
  BY DEF Statuses, Settled
<1>1. CASE UNCHANGED storeVars
  BY <1>1, <1>a DEF storeVars, StoreTypeOK
<1>2. CASE GetUnprocessedOutbox \/ CommitOutbox \/ Rollback \/ ResetRunningJobs
  BY <1>2, <1>a
     DEF StoreTypeOK, GetUnprocessedOutbox, CommitOutbox, Rollback,
         ResetRunningJobs, RunningJobs, Statuses
<1>3. ASSUME NEW j \in Jobs,
             \/ InsertJob(j) \/ CancelOutboxEntry(j)
             \/ UpdateJobState(j, "cancelled", cancelRc[j])
             \/ UpdateJobState(j, "pending", reaper.rc[j])
      PROVE  StoreTypeOK'
  <2>1. cancelRc[j] \in Nat /\ reaper.rc[j] \in Nat
    BY DEF Core, TypeOK, ServerTypeOK, ServiceTypeOK
  <2> QED BY <1>3, <1>a, <1>c, <2>1, StoreOps
<1>4. ASSUME NEW s \in Sessions, job[s] \in Jobs,
             \/ UpdateJobState(job[s], "running", rc[s])
             \/ UpdateJobState(job[s], "pending", rc[s])
             \/ pc[s] = "complete" /\ CompleteJob(job[s])
             \/ MarkRetrying(s) /\ UpdateJobState(job[s], "retrying", rc[s] + 1)
             \/ pc[s] = "failed" /\ UpdateJobState(job[s], "failed", rc[s])
      PROVE  StoreTypeOK'
  <2>1. rc[s] \in Nat /\ rc[s] + 1 \in Nat
    BY DEF Core, TypeOK, ServerTypeOK
  <2> QED BY <1>4, <1>a, <1>c, <2>1, StoreOps
<1> QED BY <1>b, <1>1, <1>2, <1>3, <1>4 DEF StoreEffect

--------------------------------------------------------------------------------
\* The handler's variables, the maps and the reaper stay well typed in a step
\* of the Work handler.
LEMMA HandlerTypeStep ==
    ASSUME Core, NEW s \in Sessions, Handler(s)
    PROVE  ServerTypeOK'
<1> USE DEF ServerTypeOK, HandlerPcs, memoryVars, handlerVars, workerVars,
            serverVars
<1>a. ServerTypeOK /\ SessionOK(s)
  BY DEF Core, TypeOK
<1>1. CASE RecvReady(s)
  BY <1>a, <1>1 DEF RecvReady, Goto
<1>2. CASE RecvError(s)
  BY <1>a, <1>2 DEF RecvError, Goto, Return, clearOwnership
<1>3. CASE RecvHeartbeat(s)
  BY <1>a, <1>3 DEF RecvHeartbeat, Goto
<1>4. CASE recordHeartbeat(s)
  BY <1>a, <1>4 DEF recordHeartbeat, Goto
<1>5. CASE RecvResult(s)
  BY <1>a, <1>5 DEF RecvResult, Goto
<1>6. CASE Pop(s)
  <2>1. ready[Len(ready)] \in Jobs
    BY <1>6 DEF Core, TypeOK, QueueTypeOK, Pop, ConsumePop
  <2> QED BY <1>a, <1>6, <2>1 DEF Pop, Goto
<1>7. CASE ConsumeError(s)
  BY <1>a, <1>7 DEF ConsumeError, Return
<1>8. CASE HGet(s)
  <2>1. payloads[job[s]] # NoPayload => payloads[job[s]] \in Nat
    BY <1>a, <1>8 DEF Core, TypeOK, QueueTypeOK, NoPayload, HGet, SessionOK
  <2> QED BY <1>a, <1>8, <2>1 DEF HGet, Goto
<1>9. CASE Drop(s)
  BY <1>a, <1>9 DEF Drop, Goto
<1>10. CASE StoreOwner(s)
  BY <1>a, <1>10 DEF StoreOwner, Goto
<1>11. CASE SetRunning(s)
  BY <1>a, <1>11 DEF SetRunning, Goto, clearOwnership, Return
<1>12. CASE Send(s)
  BY <1>a, <1>12 DEF Send, Goto, clearOwnership
<1>13. CASE RequeueDb(s)
  BY <1>a, <1>13 DEF RequeueDb, Goto
<1>14. CASE RequeueRedis(s)
  BY <1>a, <1>14 DEF RequeueRedis, Return
<1>15. CASE GetJob(s)
  <2>1. retryCount[job[s]] \in Nat
    BY <1>a, <1>15 DEF Core, TypeOK, StoreTypeOK, GetJob, SessionOK
  <2>2. ResultBranch(s) \in HandlerPcs
    BY <1>a, <1>15 DEF GetJob, SessionOK, ResultBranch
  <2> QED BY <1>a, <1>15, <2>1, <2>2
             DEF GetJob, Goto, clearOwnership, ReturnResult
<1>16. CASE AckResult(s)
  BY <1>a, <1>16 DEF AckResult, Goto
<1>17. CASE CompleteResult(s)
  BY <1>a, <1>17 DEF CompleteResult, clearOwnership, ReturnResult
<1>18. CASE MarkRetrying(s)
  <2>1. rc[s] + 1 \in Nat
    BY <1>a
  <2> QED BY <1>a, <1>18, <2>1 DEF MarkRetrying, clearOwnership, Goto
<1>19. CASE RetryResult(s)
  BY <1>a, <1>19 DEF RetryResult, ReturnResult
<1>20. CASE MarkFailed(s)
  BY <1>a, <1>20 DEF MarkFailed, clearOwnership, Goto
<1>21. CASE FailResult(s)
  BY <1>a, <1>21 DEF FailResult, ReturnResult
<1> QED BY <1>1, <1>2, <1>3, <1>4, <1>5, <1>6, <1>7, <1>8, <1>9, <1>10, <1>11,
           <1>12, <1>13, <1>14, <1>15, <1>16, <1>17, <1>18, <1>19, <1>20, <1>21
           DEF Handler, HandlerStep

\* The Work handler keeps the local state of every stream consistent.
LEMMA HandlerSessionStep ==
    ASSUME Core, NEW s \in Sessions, Handler(s), NEW t \in Sessions
    PROVE  SessionOK(t)'
<1> USE DEF SessionOK, Empty, DispatchPcs, RequeuePcs, ResultPcs, HandlerPcs,
            CtxDone, memoryVars, handlerVars, workerVars, serverVars
<1>a. ServerTypeOK /\ SessionOK(s) /\ SessionOK(t)
  BY DEF Core, TypeOK
<1>1. CASE RecvReady(s)
  BY <1>a, <1>1 DEF ServerTypeOK, RecvReady, Goto
<1>2. CASE RecvError(s)
  BY <1>a, <1>2 DEF ServerTypeOK, RecvError, Goto, Return, clearOwnership
<1>3. CASE RecvHeartbeat(s)
  BY <1>a, <1>3 DEF ServerTypeOK, RecvHeartbeat, Goto
<1>4. CASE recordHeartbeat(s)
  BY <1>a, <1>4 DEF ServerTypeOK, recordHeartbeat, Goto
<1>5. CASE RecvResult(s)
  BY <1>a, <1>5 DEF ServerTypeOK, RecvResult, Goto
<1>6. CASE Pop(s)
  <2>1. ready[Len(ready)] \in Jobs
    BY <1>6 DEF Core, TypeOK, QueueTypeOK, Pop, ConsumePop
  <2> QED BY <1>a, <1>6, <2>1 DEF ServerTypeOK, Pop, Goto
<1>7. CASE ConsumeError(s)
  BY <1>a, <1>7 DEF ServerTypeOK, ConsumeError, Return
<1>8. CASE HGet(s)
  BY <1>a, <1>8 DEF ServerTypeOK, HGet, Goto
<1>9. CASE Drop(s)
  BY <1>a, <1>9 DEF ServerTypeOK, Drop, Goto
<1>10. CASE StoreOwner(s)
  BY <1>a, <1>10 DEF ServerTypeOK, StoreOwner, Goto
<1>11. CASE SetRunning(s)
  BY <1>a, <1>11 DEF ServerTypeOK, SetRunning, Goto, clearOwnership, Return
<1>12. CASE Send(s)
  BY <1>a, <1>12 DEF ServerTypeOK, Send, Goto, clearOwnership
<1>13. CASE RequeueDb(s)
  BY <1>a, <1>13 DEF ServerTypeOK, RequeueDb, Goto
<1>14. CASE RequeueRedis(s)
  BY <1>a, <1>14 DEF ServerTypeOK, RequeueRedis, Return
<1>15. CASE GetJob(s)
  BY <1>a, <1>15
     DEF ServerTypeOK, GetJob, Goto, ResultBranch, clearOwnership, ReturnResult
<1>16. CASE AckResult(s)
  BY <1>a, <1>16 DEF ServerTypeOK, AckResult, Goto
<1>17. CASE CompleteResult(s)
  BY <1>a, <1>17 DEF ServerTypeOK, CompleteResult, clearOwnership, ReturnResult
<1>18. CASE MarkRetrying(s)
  BY <1>a, <1>18 DEF ServerTypeOK, MarkRetrying, clearOwnership, Goto
<1>19. CASE RetryResult(s)
  BY <1>a, <1>19 DEF ServerTypeOK, RetryResult, ReturnResult
<1>20. CASE MarkFailed(s)
  BY <1>a, <1>20 DEF ServerTypeOK, MarkFailed, clearOwnership, Goto
<1>21. CASE FailResult(s)
  BY <1>a, <1>21 DEF ServerTypeOK, FailResult, ReturnResult
<1> QED BY <1>1, <1>2, <1>3, <1>4, <1>5, <1>6, <1>7, <1>8, <1>9, <1>10, <1>11,
           <1>12, <1>13, <1>14, <1>15, <1>16, <1>17, <1>18, <1>19, <1>20, <1>21
           DEF Handler, HandlerStep

--------------------------------------------------------------------------------
\* The job that the reaper and the relay are working on is one.
ReaperOK == reaper.pc \in {"clear", "update", "retry"} => reaper.job \in Jobs
RelayOK == relay.pc = "exec" => relay.job \in Jobs
\* The local state of the streams.
sessionVars == <<handlerVars, worker, outcome>>

\* A step that leaves the local state of the streams alone keeps it consistent.
LEMMA SessionFrame ==
    ASSUME Core, UNCHANGED sessionVars, NEW t \in Sessions
    PROVE  SessionOK(t)'
BY DEF Core, SessionOK, Empty, sessionVars, handlerVars

\* A worker that connects or finishes keeps the server's state consistent.
LEMMA WorkerStep ==
    ASSUME Core, NEW s \in Sessions, Worker(s)
    PROVE  ServerTypeOK' /\ ReaperOK' /\ \A t \in Sessions : SessionOK(t)'
<1> USE DEF handlerVars, workerVars, memoryVars
<1>a. ServerTypeOK /\ SessionOK(s) /\ ReaperOK /\ UNCHANGED reaper
  BY DEF Core, TypeOK, ReaperOK, Worker, Connect, Finish
<1>b. ReaperOK'
  BY <1>a DEF ReaperOK
<1>1. CASE Connect(s)
  <2>1. ServerTypeOK'
    BY <1>1, <1>a DEF Connect, Goto, ServerTypeOK, HandlerPcs
  <2>2. ASSUME NEW t \in Sessions PROVE SessionOK(t)'
    <3>1. SessionOK(t)
      BY DEF Core
    <3> QED BY <1>1, <1>a, <3>1
               DEF Connect, Goto, ServerTypeOK, SessionOK, Empty, DispatchPcs,
                   RequeuePcs, ResultPcs
  <2> QED BY <1>b, <2>1, <2>2
<1>2. CASE Finish(s)
  <2>1. job[s] \in Jobs
    BY <1>2, <1>a DEF Finish, SessionOK, Empty
  <2>2. ServerTypeOK'
    BY <1>2, <1>a, <2>1 DEF Finish, ServerTypeOK
  <2>3. ASSUME NEW t \in Sessions PROVE SessionOK(t)'
    <3>1. SessionOK(t)
      BY DEF Core
    <3> QED BY <1>2, <1>a, <3>1
               DEF Finish, ServerTypeOK, SessionOK, Empty, DispatchPcs,
                   RequeuePcs, ResultPcs
  <2> QED BY <1>b, <2>2, <2>3
<1> QED BY <1>1, <1>2 DEF Worker

\* So does a broken stream, and a heartbeat that is 30 s old.
LEMMA TroubleStep ==
    ASSUME Core, Trouble
    PROVE  ServerTypeOK' /\ ReaperOK' /\ \A t \in Sessions : SessionOK(t)'
<1> USE DEF handlerVars, workerVars, memoryVars
<1>a. ServerTypeOK /\ ReaperOK /\ UNCHANGED reaper
  BY DEF Core, TypeOK, ReaperOK, Trouble, Disconnect, HeartbeatTimeout
<1>b. ReaperOK'
  BY <1>a DEF ReaperOK
<1>1. ASSUME NEW s \in Sessions, Disconnect(s)
      PROVE  ServerTypeOK' /\ \A t \in Sessions : SessionOK(t)'
  <2>1. ServerTypeOK'
    BY <1>1, <1>a DEF Disconnect, ServerTypeOK
  <2>2. ASSUME NEW t \in Sessions PROVE SessionOK(t)'
    <3>1. SessionOK(t)
      BY DEF Core
    <3> QED BY <1>1, <1>a, <3>1 DEF Disconnect, ServerTypeOK, SessionOK, Empty
  <2> QED BY <2>1, <2>2
<1>2. ASSUME NEW j \in Jobs, HeartbeatTimeout(j)
      PROVE  ServerTypeOK' /\ \A t \in Sessions : SessionOK(t)'
  <2>1. ServerTypeOK'
    BY <1>2, <1>a DEF HeartbeatTimeout, ServerTypeOK
  <2> QED BY <1>2, <2>1, SessionFrame DEF HeartbeatTimeout, sessionVars
<1> QED BY <1>b, <1>1, <1>2 DEF Trouble

\* The reaper keeps the maps and its own state well typed.
LEMMA ReaperTypeStep ==
    ASSUME Core, Reaper
    PROVE  ServerTypeOK' /\ ReaperOK'
<1> USE DEF handlerVars, workerVars, memoryVars, ServerTypeOK, ReaperOK
<1>a. ServerTypeOK /\ ReaperOK
  BY DEF Core, TypeOK
<1>1. CASE ReaperList
  <2>1. retryCount \in [Jobs -> Nat]
    BY DEF Core, TypeOK, StoreTypeOK
  <2> QED BY <1>1, <1>a, <2>1 DEF ReaperList, RunningJobs
<1>2. ASSUME NEW j \in Jobs, ReaperNext(j)
      PROVE  reaper' \in [pc : {"idle", "check", "clear", "update", "retry"},
                   list : SUBSET Jobs, job : Jobs \cup {Nil}, rc : [Jobs -> Nat]]
             /\ ReaperOK'
  BY <1>2, <1>a DEF ReaperNext, ReaperIdle, NoRc
<1>3. ASSUME NEW j \in Jobs, ReaperCheck(j)
      PROVE  ServerTypeOK' /\ ReaperOK'
  <2>1. CASE ReaperNext(j)
    BY <1>2, <1>3, <1>a, <2>1 DEF ReaperCheck
  <2>2. CASE reaper' = [reaper EXCEPT !.pc = "clear", !.job = j]
    BY <1>3, <1>a, <2>2 DEF ReaperCheck
  <2> QED BY <1>3, <2>1, <2>2 DEF ReaperCheck
<1>4. CASE ReaperClear
  BY <1>4, <1>a DEF ReaperClear, clearOwnership
<1>5. CASE ReaperUpdate
  BY <1>5, <1>a DEF ReaperUpdate
<1>6. CASE ReaperRetry
  <2>1. reaper.job \in Jobs /\ ReaperNext(reaper.job)
    BY <1>6, <1>a DEF ReaperRetry
  <2> QED BY <1>6, <1>a, <1>2, <2>1 DEF ReaperRetry
<1> QED BY <1>1, <1>3, <1>4, <1>5, <1>6 DEF Reaper, ReaperStep

\* The relay keeps its own state well typed.
LEMMA RelayTypeStep ==
    ASSUME Core, Relay
    PROVE  RelayTypeOK' /\ RelayOK'
<1> USE DEF RelayTypeOK, RelayOK, RelayIdle
<1>a. RelayTypeOK /\ outbox \subseteq Jobs
  BY DEF Core, TypeOK, StoreTypeOK
<1>1. CASE RelayBegin
  BY <1>1, <1>a DEF RelayBegin
<1>2. ASSUME NEW j \in Jobs, RelaySAdd(j) PROVE RelayTypeOK' /\ RelayOK'
  <2> DEFINE b == j \notin queued
  <2>1. b \in BOOLEAN
    OBVIOUS
  <2>2. relay' = [relay EXCEPT !.pc = "exec", !.job = j, !.added = b]
    BY <1>2, Zenon DEF RelaySAdd
  <2> HIDE DEF b
  <2> QED BY <1>a, <2>1, <2>2
<1>3. CASE RelayExec
  BY <1>3, <1>a DEF RelayExec
<1>4. CASE RelayCommit \/ RelayAbort
  <2>1. relay' = RelayIdle
    BY <1>4, Zenon DEF RelayCommit, RelayAbort
  <2> QED BY <2>1
<1> QED BY <1>1, <1>2, <1>3, <1>4 DEF Relay, RelayStep

\* CancelJob keeps its own state well typed.
LEMMA CancelTypeStep ==
    ASSUME Core, NEW j \in Jobs, CancelJob(j)
    PROVE  ServiceTypeOK'
<1> USE DEF ServiceTypeOK
<1>a. ServiceTypeOK /\ retryCount[j] \in Nat
  BY DEF Core, TypeOK, StoreTypeOK
<1>1. CASE CancelRead(j)
  BY <1>1, <1>a DEF CancelRead
<1>2. CASE CancelUpdate(j)
  BY <1>2, <1>a DEF CancelUpdate
<1>3. CASE CancelOutbox(j)
  BY <1>3, <1>a DEF CancelOutbox
<1>4. CASE CancelQueue(j)
  BY <1>4, <1>a DEF CancelQueue
<1> QED BY <1>1, <1>2, <1>3, <1>4 DEF CancelJob, CancelStep

\* What a crash leaves of the goroutines' state is consistent.
LEMMA CrashStep ==
    ASSUME Core, Crash
    PROVE  /\ RelayTypeOK' /\ ServiceTypeOK' /\ ServerTypeOK'
           /\ \A t \in Sessions : SessionOK(t)'
           /\ RelayOK' /\ ReaperOK'
<1>a. ServerTypeOK /\ \A t \in Sessions : SessionOK(t)
  BY DEF Core, TypeOK
<1>1. RelayTypeOK' /\ RelayOK'
  BY DEF Crash, RelayTypeOK, RelayOK, RelayIdle
<1>2. ServiceTypeOK'
  BY DEF Crash, ServiceTypeOK
<1>3. ServerTypeOK' /\ ReaperOK'
  BY <1>a DEF Crash, ServerTypeOK, HandlerPcs, ReaperIdle, NoRc, ReaperOK
<1>4. ASSUME NEW t \in Sessions PROVE SessionOK(t)'
  BY <1>a DEF Crash, SessionOK, Empty, DispatchPcs, RequeuePcs, ResultPcs
<1> QED BY <1>1, <1>2, <1>3, <1>4

\* At most one failure is injected.
FaultsEffect == NoFault \/ \E k \in Failures : Fault(k)

\* A step of the Work handler injects at most one failure.
LEMMA HandlerFaults ==
    ASSUME NEW s \in Sessions, Handler(s)
    PROVE  FaultsEffect
<1> USE DEF FaultsEffect, Failures
<1>1. CASE \/ RecvReady(s) \/ RecvError(s) \/ RecvHeartbeat(s)
           \/ recordHeartbeat(s) \/ RecvResult(s) \/ Pop(s) \/ HGet(s)
           \/ StoreOwner(s) \/ Send(s)
  BY <1>1
     DEF RecvReady, RecvError, RecvHeartbeat, recordHeartbeat, RecvResult, Pop,
         HGet, StoreOwner, Send
<1>2. CASE \/ ConsumeError(s) \/ Drop(s) \/ RequeueRedis(s) \/ AckResult(s)
           \/ RetryResult(s) \/ FailResult(s)
  BY <1>2
     DEF ConsumeError, Drop, RequeueRedis, AckResult, RetryResult, FailResult,
         TryStreamRedis, TryRedis
<1>3. CASE \/ SetRunning(s) \/ RequeueDb(s) \/ GetJob(s) \/ CompleteResult(s)
           \/ MarkRetrying(s) \/ MarkFailed(s)
  BY <1>3
     DEF SetRunning, RequeueDb, GetJob, CompleteResult, MarkRetrying,
         MarkFailed, TryDb
<1> QED BY <1>1, <1>2, <1>3 DEF Handler, HandlerStep

\* The failures injected stay within their bound.
LEMMA FaultsStep ==
    ASSUME Core, [Next]_vars
    PROVE  faults' \in 0..MaxFaults
<1>a. faults \in 0..MaxFaults
  BY DEF Core, TypeOK
<1>b. FaultsEffect
  <2> USE DEF FaultsEffect, Failures
  <2>1. ASSUME NEW j \in Jobs, Submit(j) \/ CancelJob(j)
        PROVE  FaultsEffect
    BY <2>1
       DEF Submit, SubmitJob, CancelJob, CancelStep, CancelRead, CancelUpdate,
           CancelOutbox, CancelQueue
  <2>2. ASSUME NEW s \in Sessions, Worker(s)
        PROVE  FaultsEffect
    BY <2>2 DEF Worker, Connect, Finish
  <2>3. ASSUME NEW s \in Sessions, Handler(s)
        PROVE  FaultsEffect
    BY <2>3, HandlerFaults
  <2>4. CASE Relay
    BY <2>4
       DEF Relay, RelayStep, RelayBegin, RelaySAdd, RelayExec, RelayCommit,
           RelayAbort
  <2>5. CASE Reaper
    BY <2>5
       DEF Reaper, ReaperStep, ReaperList, ReaperCheck, ReaperClear,
           ReaperUpdate, ReaperRetry, TryDb, TryRedis
  <2>6. CASE Promote \/ Trouble \/ Boot \/ Crash
    BY <2>6
       DEF Promote, Trouble, Disconnect, HeartbeatTimeout, Boot, BootReset,
           BootRecover, Crash
  <2>7. CASE UNCHANGED vars
    BY <2>7 DEF vars, NoFault
  <2> QED BY <2>1, <2>2, <2>3, <2>4, <2>5, <2>6, <2>7 DEF Next, Up
<1> QED BY <1>a, <1>b, FaultAssumption DEF FaultsEffect, NoFault, Fault

\* What Core says of the goroutines' local state.
LocalOK ==
    /\ RelayTypeOK /\ RelayOK
    /\ ServiceTypeOK
    /\ ServerTypeOK /\ ReaperOK
    /\ \A s \in Sessions : SessionOK(s)

\* What a step leaves alone stays consistent.
LEMMA LocalFrame ==
    ASSUME Core
    PROVE  /\ UNCHANGED relayVars => RelayTypeOK' /\ RelayOK'
           /\ UNCHANGED serviceVars => ServiceTypeOK'
           /\ UNCHANGED serverVars =>
                 ServerTypeOK' /\ ReaperOK' /\ \A s \in Sessions : SessionOK(s)'
<1>1. UNCHANGED relayVars => RelayTypeOK' /\ RelayOK'
  BY DEF Core, TypeOK, RelayTypeOK, RelayOK, relayVars
<1>2. UNCHANGED serviceVars => ServiceTypeOK'
  BY DEF Core, TypeOK, ServiceTypeOK, serviceVars
<1>3. UNCHANGED serverVars => ServerTypeOK' /\ ReaperOK'
  BY DEF Core, TypeOK, ServerTypeOK, ReaperOK, serverVars, memoryVars,
         handlerVars, workerVars
<1>4. UNCHANGED serverVars => \A s \in Sessions : SessionOK(s)'
  BY SessionFrame DEF serverVars, sessionVars, workerVars
<1> QED BY <1>1, <1>2, <1>3, <1>4

\* Every step keeps the local state of all goroutines consistent.
LEMMA LocalStep ==
    ASSUME Core, [Next]_vars
    PROVE  LocalOK'
<1> USE LocalFrame DEF LocalOK
<1>1. ASSUME NEW j \in Jobs, Submit(j)
      PROVE  LocalOK'
  BY <1>1 DEF Submit, SubmitJob
<1>2. ASSUME NEW j \in Jobs, CancelJob(j)
      PROVE  LocalOK'
  BY <1>2, CancelTypeStep DEF CancelJob
<1>3. ASSUME NEW s \in Sessions, Worker(s)
      PROVE  LocalOK'
  BY <1>3, WorkerStep DEF Worker
<1>4. ASSUME NEW s \in Sessions, Handler(s)
      PROVE  LocalOK'
  <2>1. UNCHANGED <<relayVars, serviceVars>>
    BY <1>4 DEF Handler
  <2>2. UNCHANGED reaper
    BY <1>4
       DEF Handler, HandlerStep, RecvReady, RecvError, RecvHeartbeat,
           recordHeartbeat, RecvResult, Pop, ConsumeError, HGet, Drop,
           StoreOwner, SetRunning, Send, RequeueDb, RequeueRedis, GetJob,
           AckResult, CompleteResult, MarkRetrying, RetryResult, MarkFailed,
           FailResult, workerVars
  <2>3. ReaperOK'
    BY <2>2 DEF Core, ReaperOK
  <2> QED BY <1>4, <2>1, <2>3, HandlerTypeStep, HandlerSessionStep
<1>5. CASE Relay
  BY <1>5, RelayTypeStep DEF Relay
<1>6. CASE Promote
  BY <1>6 DEF Promote
<1>7. CASE Reaper
  <2>1. UNCHANGED <<relayVars, serviceVars, sessionVars>>
    BY <1>7
       DEF Reaper, ReaperStep, ReaperList, ReaperCheck, ReaperClear,
           ReaperUpdate, ReaperRetry, sessionVars, workerVars
  <2> QED BY <1>7, <2>1, ReaperTypeStep, SessionFrame
<1>8. CASE Trouble
  BY <1>8, TroubleStep DEF Trouble
<1>9. CASE Boot
  BY <1>9 DEF Boot, BootReset, BootRecover
<1>10. CASE Crash
  BY <1>10, CrashStep
<1>11. CASE UNCHANGED vars
  BY <1>11 DEF vars
<1> QED BY <1>1, <1>2, <1>3, <1>4, <1>5, <1>6, <1>7, <1>8, <1>9, <1>10, <1>11
           DEF Next, Up

\* Core holds when the server is first started.
LEMMA CoreInit == Init => Core
<1> SUFFICES ASSUME Init PROVE Core
  OBVIOUS
<1> USE DEF Init
<1>1. faults \in 0..MaxFaults /\ server \in {"up", "down", "reset"}
  BY FaultAssumption
<1>2. QueueTypeOK /\ StoreTypeOK
  BY DEF QueueInit, QueueTypeOK, StoreInit, StoreTypeOK, Statuses
<1>3. RelayTypeOK /\ RelayOK
  BY DEF RelayInit, RelayTypeOK, RelayIdle, RelayOK
<1>4. ServiceTypeOK
  BY DEF ServiceInit, ServiceTypeOK
<1>5. ServerTypeOK /\ ReaperOK
  BY DEF ServerInit, ServerTypeOK, HandlerPcs, ReaperIdle, NoRc, ReaperOK
<1>6. \A s \in Sessions : SessionOK(s)
  BY DEF ServerInit, SessionOK, Empty, DispatchPcs, RequeuePcs, ResultPcs
<1> QED BY <1>1, <1>2, <1>3, <1>4, <1>5, <1>6
           DEF Core, TypeOK, RelayOK, ReaperOK

\* Core is inductive by itself.
LEMMA CoreStep ==
    ASSUME Core, [Next]_vars
    PROVE  Core'
<1>1. server' \in {"up", "down", "reset"}
  BY DEF Core, TypeOK, Next, Up, Boot, BootReset, BootRecover, Crash, vars
<1> QED BY <1>1, FaultsStep, QueueTypeStep, StoreTypeStep, LocalStep
           DEF Core, TypeOK, LocalOK, RelayOK, ReaperOK

\* Every variable of the job system keeps its type: no handler, reaper or relay
\* step is ever taken with a job id, a count or a state that is not one.
THEOREM TypeCorrect == Spec => []TypeOK
<1>1. Spec => []Core
  BY CoreInit, CoreStep, PTL DEF Spec
<1>2. Core => TypeOK
  BY DEF Core
<1> QED BY <1>1, <1>2, PTL
================================================================================

------------------------------ MODULE RetryProofs ------------------------------
(*****************************************************************************)
(* When nothing fails a job that is given up has failed exactly as often as  *)
(* its limit says, whoever cancels what.  FailedExhausted of JobProofs is    *)
(* one half: no failure is charged twice.  The other half is that every      *)
(* failure is charged before the next execution begins.  An execution is     *)
(* given the count in the payload, while handleResult reads the one in the   *)
(* row, which a CancelJob may have set back: so both are followed            *)
(* (HandlerCounts), and a row that was set back is a settled one, which      *)
(* handleResult drops.                                                       *)
(*****************************************************************************)
EXTENDS ContractProofs
--------------------------------------------------------------------------------
(*****************************************************************************)
(* The steps that are left when nothing fails.                               *)
(*****************************************************************************)
\* The environments of this module: nothing fails.
Unfailing == FaultKinds = {}

\* Then no step is a failure.
LEMMA NothingFails ==
    ASSUME Unfailing
    PROVE  \A k : ~Fault(k)
BY DEF Unfailing, Fault

\* The Work handler of a stream that is up never gives the job back.
LEMMA ConnectedHandler ==
    ASSUME Unfailing, Core, Connected, NEW s \in Sessions, Handler(s)
    PROVE  Connected'
<1> SUFFICES ASSUME NEW t \in Sessions
             PROVE  /\ worker'[t] # "gone"
                    /\ pc'[t] \notin {"requeue_db", "requeue_redis", "done"}
  BY DEF Connected
<1> DEFINE Goal == /\ worker'[t] # "gone"
                   /\ pc'[t] \notin {"requeue_db", "requeue_redis", "done"}
<1>a. /\ SessionOK(s) /\ ~CtxDone(s) /\ \A k : ~Fault(k)
      /\ worker \in [Sessions -> {"new", "waiting", "executing", "gone"}]
      /\ pc \in [Sessions -> HandlerPcs]
      /\ outcome \in [Sessions -> {"none", "success", "failure"}]
  BY NothingFails DEF Core, TypeOK, ServerTypeOK, Connected, CtxDone
<1>b. /\ worker[t] # "gone" /\ pc[t] \notin {"requeue_db", "requeue_redis", "done"}
      /\ pc[s] \notin {"requeue_db", "requeue_redis", "done"}
  BY DEF Connected
<1>c. ASSUME NEW label, label \notin {"requeue_db", "requeue_redis", "done"},
             Goto(s, label), UNCHANGED worker
      PROVE  Goal
  BY <1>a, <1>b, <1>c DEF Goto
<1>1. CASE RecvReady(s) \/ RecvHeartbeat(s) \/ recordHeartbeat(s) \/ Pop(s)
           \/ HGet(s) \/ Drop(s) \/ StoreOwner(s)
  BY <1>1, <1>c DEF RecvReady, RecvHeartbeat, recordHeartbeat, Pop, HGet, Drop,
                    StoreOwner, workerVars
<1>2. CASE RecvError(s) \/ ConsumeError(s) \/ RequeueDb(s) \/ RequeueRedis(s)
  BY <1>a, <1>b, <1>2 DEF RecvError, ConsumeError, RequeueDb, RequeueRedis
<1>3. CASE RecvResult(s)
  BY <1>b, <1>3, <1>c DEF RecvResult
<1>4. CASE SetRunning(s)
  BY <1>a, <1>4, <1>c DEF SetRunning
<1>5. CASE Send(s)
  BY <1>a, <1>b, <1>5 DEF Send, Goto
<1>6. CASE GetJob(s)
  <2>1. outcome[s] \in {"success", "failure"}
    BY <1>a, <1>6 DEF GetJob, SessionOK
  <2>2. ResultBranch(s) \in {"ack", "retrying", "failed"}
    BY <2>1 DEF ResultBranch
  <2>3. UNCHANGED worker /\ (Goto(s, ResultBranch(s)) \/ Goto(s, "recv"))
    BY <1>6 DEF GetJob, ReturnResult, Goto
  <2> QED BY <1>c, <2>2, <2>3
<1>7. CASE AckResult(s) \/ MarkRetrying(s) \/ MarkFailed(s)
  BY <1>7, <1>c DEF AckResult, MarkRetrying, MarkFailed, workerVars
<1>8. CASE CompleteResult(s) \/ RetryResult(s) \/ FailResult(s)
  <2>1. UNCHANGED worker /\ Goto(s, "recv")
    BY <1>8 DEF CompleteResult, RetryResult, FailResult, ReturnResult, Goto
  <2> QED BY <1>c, <2>1
<1> QED BY <1>1, <1>2, <1>3, <1>4, <1>5, <1>6, <1>7, <1>8 DEF Handler, HandlerStep

\* The steps that are left when nothing fails.
CalmNext ==
    \/ \E j \in Jobs : Submit(j) \/ CancelJob(j)
    \/ \E s \in Sessions : Worker(s) \/ Handler(s)
    \/ Relay \/ Promote
    \/ UNCHANGED vars

\* The reaper finds nothing, and the server goes on.
LEMMA CalmSteps ==
    ASSUME Unfailing, Calm, [Next]_vars
    PROVE  CalmNext /\ UNCHANGED server
<1>a. \A k : ~Fault(k)
  BY NothingFails
<1>1. ~Boot /\ ~Crash /\ ~Trouble
  BY <1>a DEF Calm, Boot, BootReset, BootRecover, Crash, Trouble, Disconnect,
              HeartbeatTimeout
<1>2. ~Reaper
  BY DEF Calm, Reaper, ReaperStep, ReaperList, ReaperCheck, ReaperClear, ReaperUpdate,
         ReaperRetry, RunningJobs, TimedOut
<1> QED BY <1>1, <1>2 DEF Next, Up, CalmNext, vars

\* So it is again.
LEMMA CalmStep ==
    ASSUME Unfailing, Core, Calm, Connected, [Next]_vars
    PROVE  Calm' /\ Connected'
<1>a. CalmNext /\ UNCHANGED server
  BY CalmSteps
<1>1. ASSUME NEW s \in Sessions, Handler(s)
      PROVE  Calm' /\ Connected'
  <2>1. UNCHANGED reaper
    BY <1>1
       DEF Handler, HandlerStep, RecvReady, RecvError, RecvHeartbeat,
           recordHeartbeat, RecvResult, Pop, ConsumeError, HGet, Drop,
           StoreOwner, SetRunning, Send, RequeueDb, RequeueRedis, GetJob,
           AckResult, CompleteResult, MarkRetrying, RetryResult, MarkFailed, FailResult
  <2> QED BY <1>a, <1>1, <2>1, HandlerLastSeen, ConnectedHandler DEF Calm
<1>2. ASSUME NEW s \in Sessions, Worker(s)
      PROVE  Calm' /\ Connected'
  <2>1. UNCHANGED <<reaper, lastSeen>>
    BY <1>2 DEF Worker, Connect, Finish, memoryVars
  <2>2. Connected'
    BY <1>2 DEF Worker, Connect, Finish, Goto, handlerVars, Connected, Core, TypeOK,
                ServerTypeOK
  <2> QED BY <1>a, <2>1, <2>2 DEF Calm
<1>3. ASSUME \/ \E j \in Jobs : Submit(j) \/ CancelJob(j)
             \/ Relay \/ Promote \/ UNCHANGED vars
      PROVE  Calm' /\ Connected'
  <2>1. UNCHANGED <<reaper, lastSeen, worker, pc>>
    BY <1>3 DEF Submit, CancelJob, Relay, Promote, vars, serverVars, memoryVars,
                handlerVars, workerVars
  <2> QED BY <1>a, <2>1 DEF Calm, Connected
<1> QED BY <1>a, <1>1, <1>2, <1>3 DEF CalmNext

\* The relay's transaction sees what it has locked.
LEMMA LockingStep ==
    ASSUME Unfailing, Core, Calm, Locking, [Next]_vars
    PROVE  Locking'
<1>a. CalmNext /\ \A k : ~Fault(k)
  BY CalmSteps, NothingFails
<1>b. /\ outbox \subseteq Jobs /\ status \in [Jobs -> Statuses]
      /\ relay \in [pc : {"idle", "next", "exec"}, todo : SUBSET Jobs,
                    job : Jobs \cup {Nil}, added : BOOLEAN]
  BY DEF Core, TypeOK, StoreTypeOK, RelayTypeOK
<1>1. ASSUME NEW s \in Sessions, Handler(s)
      PROVE  Locking'
  <2>1. UNCHANGED <<outbox, locked, relay>>
    BY <1>1, HandlerScopeStep DEF HandlerScope, Handler, relayVars
  <2>2. \A j \in Jobs : status'[j] = "none" => status[j] = "none"
    BY <1>1, HandlerRow, <1>b
  <2> QED BY <1>b, <2>1, <2>2 DEF Locking
<1>2. ASSUME NEW j \in Jobs, Submit(j)
      PROVE  Locking'
  BY <1>b, <1>2 DEF Submit, SubmitJob, InsertJob, relayVars, Locking
<1>3. ASSUME NEW j \in Jobs, CancelJob(j)
      PROVE  Locking'
  <2>1. UNCHANGED relay
    BY <1>3 DEF CancelJob, relayVars
  <2>2. CASE UNCHANGED storeVars
    BY <2>1, <2>2 DEF storeVars, Locking
  <2>3. CASE UpdateJobState(j, "cancelled", cancelRc[j])
    BY <1>b, <2>1, <2>3 DEF UpdateJobState, Locking
  <2>4. CASE CancelOutboxEntry(j)
    BY <1>b, <2>1, <2>4 DEF CancelOutboxEntry, Locking
  <2> QED BY <1>3, <2>2, <2>3, <2>4
       DEF CancelJob, CancelStep, CancelRead, CancelUpdate, CancelOutbox, CancelQueue
<1>4. CASE \/ \E s \in Sessions : Worker(s)
           \/ Promote \/ UNCHANGED vars
  <2>1. UNCHANGED <<storeVars, relay>>
    BY <1>4 DEF Worker, Connect, Finish, Promote, vars, relayVars
  <2> QED BY <2>1 DEF Locking, storeVars
<1>5. CASE Relay
  <2>1. CASE RelayBegin
    BY <1>b, <2>1 DEF RelayBegin, GetUnprocessedOutbox, RelayIdle, Locking
  <2>2. ASSUME NEW j \in Jobs, RelaySAdd(j)
        PROVE  Locking'
    BY <1>b, <2>2 DEF RelaySAdd, Locking, storeVars
  <2>3. CASE RelayExec
    BY <1>b, <2>3 DEF RelayExec, Locking, storeVars
  <2>4. CASE RelayCommit
    BY <1>b, <2>4 DEF RelayCommit, CommitOutbox, RelayIdle, Locking
  <2> QED BY <1>a, <1>5, <2>1, <2>2, <2>3, <2>4 DEF Relay, RelayStep, RelayAbort
<1> QED BY <1>a, <1>1, <1>2, <1>3, <1>4, <1>5 DEF CalmNext
--------------------------------------------------------------------------------
(*****************************************************************************)
(* One entry, or one handler, of every job that was relayed.                 *)
(*****************************************************************************)
\* What both invariants need of the types.
Typed ==
    /\ ready \in Seq(Jobs) /\ delayed \subseteq Jobs /\ due \subseteq Jobs
    /\ payloads \in [Jobs -> Nat \cup {NoPayload}]
    /\ status \in [Jobs -> Statuses] /\ retryCount \in [Jobs -> Nat]
    /\ outbox \subseteq Jobs /\ locked \subseteq Jobs
    /\ job \in [Sessions -> Jobs \cup {Nil}] /\ rc \in [Sessions -> Nat]
    /\ pc \in [Sessions -> HandlerPcs]
    /\ outcome \in [Sessions -> {"none", "success", "failure"}]
    /\ fails \in [Jobs -> Nat] /\ MaxRetries \in [Jobs -> Nat]
    /\ Nil \notin Jobs /\ Afloat \subseteq Jobs

\* They follow from TypeOK.
LEMMA TypedCore == Core => Typed
BY MaxRetriesAssumption, NilAssumption
   DEF Core, TypeOK, QueueTypeOK, StoreTypeOK, ServerTypeOK, Typed, Afloat, ToSet

\* A step of the Work handler other than Pop and Retry makes nothing that could
\* be given to a worker.
LEMMA AfloatHandler ==
    ASSUME Unfailing, Core, Connected, NEW s \in Sessions, Handler(s)
    PROVE  \/ Pop(s)
           \/ RetryResult(s) /\ Retry(job[s], rc[s])
           \/ /\ UNCHANGED ready /\ delayed' \subseteq delayed
              /\ job'[s] \in {job[s], Nil}
              /\ \/ UNCHANGED payloads
                 \/ job[s] \in Jobs /\ payloads' = [payloads EXCEPT ![job[s]] = NoPayload]
<1>a. /\ SessionOK(s) /\ ~CtxDone(s) /\ job \in [Sessions -> Jobs \cup {Nil}]
      /\ pc[s] \notin {"requeue_db", "requeue_redis"}
      /\ \A k : ~Fault(k)
  BY NothingFails DEF Core, TypeOK, ServerTypeOK, Connected, CtxDone
<1>1. CASE RetryResult(s)
  BY <1>a, <1>1 DEF RetryResult, TryStreamRedis, TryRedis
<1>2. CASE AckResult(s) \/ FailResult(s)
  <2>1. job[s] \in Jobs /\ job'[s] \in {job[s], Nil}
    BY <1>a, <1>2 DEF AckResult, FailResult, SessionOK, ReturnResult
  <2>2. Ack(job[s]) \/ Fail(job[s])
    BY <1>a, <1>2 DEF AckResult, FailResult, TryStreamRedis, TryRedis
  <2> QED BY <2>1, <2>2 DEF Ack, Fail, Forget
<1>3. CASE Drop(s)
  BY <1>a, <1>3 DEF Drop, TryStreamRedis, TryRedis, ConsumeDrop, redisVars
<1>4. CASE ~(Pop(s) \/ RetryResult(s) \/ AckResult(s) \/ FailResult(s) \/ Drop(s))
  <2>1. UNCHANGED redisVars
    BY <1>a, <1>4
       DEF Handler, HandlerStep, RecvReady, RecvError, RecvHeartbeat,
           recordHeartbeat, RecvResult, ConsumeError, HGet, StoreOwner,
           SetRunning, Send, RequeueDb, RequeueRedis, GetJob, CompleteResult,
           MarkRetrying, MarkFailed
  <2>2. job'[s] \in {job[s], Nil}
    BY <1>a, <1>4
       DEF Handler, HandlerStep, RecvReady, RecvError, RecvHeartbeat,
           recordHeartbeat, RecvResult, ConsumeError, HGet, StoreOwner,
           SetRunning, Send, RequeueDb, RequeueRedis, GetJob, CompleteResult,
           MarkRetrying, MarkFailed, Return, ReturnResult
  <2> QED BY <2>1, <2>2 DEF redisVars
<1> QED BY <1>1, <1>2, <1>3, <1>4

\* The Work handler takes an entry for a job in hand, and a job in hand for an
\* entry.
LEMMA OneChanceHandler ==
    ASSUME Unfailing, Core, Connected, OneChance, NEW s \in Sessions, Handler(s)
    PROVE  OneChance'
<1>a. Typed
  BY TypedCore
<1>b. /\ UNCHANGED <<fails, outbox, locked, relay, due>>
      /\ \A t \in Sessions : t # s => job'[t] = job[t]
      /\ \A j \in Jobs : status'[j] = "none" => status[j] = "none"
  <2>1. HandlerScope(s) /\ UNCHANGED <<relay, due>>
    BY HandlerScopeStep DEF Handler, relayVars
  <2>2. \A j \in Jobs : status'[j] = "none" => status[j] = "none"
    BY <1>a, HandlerRow DEF Typed
  <2>3. UNCHANGED fails
    BY DEF Handler, HandlerStep, RecvReady, RecvError, RecvHeartbeat,
           recordHeartbeat, RecvResult, Pop, ConsumeError, HGet, Drop,
           StoreOwner, SetRunning, Send, RequeueDb, RequeueRedis, GetJob,
           AckResult, CompleteResult, MarkRetrying, RetryResult, MarkFailed,
           FailResult, workerVars
  <2> QED BY <2>1, <2>2, <2>3 DEF HandlerScope
<1>c. \A j \in Jobs : Unrelayed(j)' <=> Unrelayed(j)
  BY <1>b DEF Unrelayed
<1>1. CASE Pop(s)
  <2> DEFINE e == ready[Len(ready)]
  <2>1. /\ e \in ToSet(ready) /\ IsInjective(ready')
        /\ ToSet(ready') = ToSet(ready) \ {e}
    BY <1>a, <1>1, PopDistinct DEF Pop, ConsumePop, OneChance, Typed
  <2>2. job' = [job EXCEPT ![s] = e] /\ UNCHANGED delayed
    BY <1>1 DEF Pop, ConsumePop
  <2> HIDE DEF e
  <2>3. Afloat' = Afloat \ {e} /\ e \in Afloat
    BY <1>b, <2>1, <2>2 DEF Afloat, OneChance
  <2> QED BY <1>a, <1>b, <1>c, <2>1, <2>2, <2>3 DEF OneChance, Typed
<1>2. CASE RetryResult(s) /\ Retry(job[s], rc[s])
  <2> DEFINE j == job[s]
  <2>1. /\ job' = [job EXCEPT ![s] = Nil]
        /\ delayed' = delayed \cup {j} /\ UNCHANGED ready
    BY <1>2 DEF RetryResult, ReturnResult, Retry
  <2>2. j \in Jobs
    BY <1>2 DEF RetryResult, Core, SessionOK
  <2>3. j \notin Afloat /\ status[j] # "none" /\ ~Unrelayed(j)
    BY <2>2 DEF OneChance
  <2> HIDE DEF j
  <2>4. Afloat' = Afloat \cup {j} /\ \A t \in Sessions : t # s => job[t] # j
    BY <1>a, <1>b, <2>1, <2>2 DEF Afloat, OneChance, j, Typed
  <2> QED BY <1>a, <1>b, <1>c, <2>1, <2>2, <2>3, <2>4 DEF OneChance, Typed, Afloat
<1>3. CASE UNCHANGED ready /\ delayed' \subseteq delayed /\ job'[s] \in {job[s], Nil}
  <2>1. Afloat' \subseteq Afloat
    BY <1>b, <1>3 DEF Afloat
  <2>2. \A t \in Sessions : job'[t] \in {job[t], Nil}
    BY <1>b, <1>3
  <2>3. IsInjective(ready') /\ ToSet(ready') \cap (delayed \cup due)' = {}
    BY <1>b, <1>3 DEF OneChance
  <2>4. \A j \in Jobs : (status[j] = "none" \/ Unrelayed(j))' =>
            fails'[j] = 0 /\ j \notin Afloat' /\ \A t \in Sessions : job'[t] # j
    BY <1>a, <1>b, <1>c, <2>1, <2>2 DEF OneChance, Typed
  <2>5. \A j \in Afloat' : \A t \in Sessions : job'[t] # j
    BY <1>a, <2>1, <2>2 DEF OneChance, Typed
  <2>6. \A t, u \in Sessions : job'[t] = job'[u] /\ job'[t] # Nil => t = u
    BY <2>2 DEF OneChance
  <2> QED BY <2>3, <2>4, <2>5, <2>6 DEF OneChance
<1> QED BY <1>1, <1>2, <1>3, AfloatHandler

\* Nobody else makes an entry but the relay, of an outbox row, and the promoter,
\* of an entry.
LEMMA OneChanceStep ==
    ASSUME Unfailing, Core, Calm, Connected, Locking, OneChance, [Next]_vars
    PROVE  OneChance'
<1>a. Typed /\ CalmNext /\ \A k : ~Fault(k)
  BY TypedCore, CalmSteps, NothingFails
<1>1. ASSUME NEW j \in Jobs, Submit(j)
      PROVE  OneChance'
  <2>1. /\ status[j] = "none" /\ status' = [status EXCEPT ![j] = "pending"]
        /\ outbox' = outbox \cup {j}
        /\ UNCHANGED <<ready, delayed, due, locked, relay, job, fails>>
    BY <1>1 DEF Submit, SubmitJob, InsertJob, redisVars, relayVars, serverVars,
                handlerVars, workerVars
  <2>2. UNCHANGED Afloat
    BY <2>1 DEF Afloat
  <2>3. \A k \in Jobs : Unrelayed(k)' => k = j \/ Unrelayed(k)
    BY <2>1 DEF Unrelayed
  <2> QED BY <1>a, <2>1, <2>2, <2>3 DEF OneChance, Typed
<1>2. ASSUME NEW j \in Jobs, CancelJob(j)
      PROVE  OneChance'
  <2>1. UNCHANGED <<due, relay, job, fails>>
    BY <1>2 DEF CancelJob, relayVars, serverVars, handlerVars, workerVars
  <2>2. /\ \A k \in Jobs : status'[k] = "none" => status[k] = "none"
        /\ outbox' \subseteq outbox /\ UNCHANGED locked
    BY <1>a, <1>2
       DEF Typed, CancelJob, CancelStep, CancelRead, CancelUpdate, UpdateJobState,
           CancelOutbox, CancelOutboxEntry, CancelQueue, storeVars
  <2>3. /\ IsInjective(ready') /\ ToSet(ready') \subseteq ToSet(ready)
        /\ delayed' \subseteq delayed
    <3>1. CASE Cancel(j)
      BY <1>a, <3>1, RemoveFirstDistinct DEF Cancel, Forget, OneChance, Typed
    <3>2. CASE UNCHANGED redisVars
      BY <3>2 DEF redisVars, OneChance
    <3> QED BY <1>2, <3>1, <3>2
         DEF CancelJob, CancelStep, CancelRead, CancelUpdate, CancelOutbox, CancelQueue
  <2>4. /\ Afloat' \subseteq Afloat
        /\ \A k \in Jobs : Unrelayed(k)' => Unrelayed(k)
    BY <2>1, <2>2, <2>3 DEF Afloat, Unrelayed
  <2> QED BY <1>a, <2>1, <2>2, <2>3, <2>4 DEF OneChance, Typed
<1>3. ASSUME NEW s \in Sessions, Worker(s)
      PROVE  OneChance'
  <2>1. UNCHANGED <<ready, delayed, due, status, outbox, locked, relay, job>>
    BY <1>3 DEF Worker, Connect, Finish, redisVars, storeVars, relayVars, handlerVars
  <2>2. \A j \in Jobs : fails'[j] = fails[j] \/ job[s] = j
    BY <1>a, <1>3 DEF Worker, Connect, Finish, Typed
  <2>3. UNCHANGED Afloat /\ \A j \in Jobs : Unrelayed(j)' <=> Unrelayed(j)
    BY <2>1 DEF Afloat, Unrelayed
  <2> QED BY <2>1, <2>2, <2>3 DEF OneChance
<1>4. CASE Relay
  <2>a. UNCHANGED <<due, job, fails, status>>
    BY <1>4 DEF Relay, RelayStep, RelayBegin, GetUnprocessedOutbox, RelaySAdd,
                RelayExec, RelayCommit, CommitOutbox, RelayAbort, Rollback, storeVars,
                serverVars, handlerVars, workerVars
  <2>b. relay \in [pc : {"idle", "next", "exec"}, todo : SUBSET Jobs,
                   job : Jobs \cup {Nil}, added : BOOLEAN]
    BY DEF Core, TypeOK, RelayTypeOK
  <2>1. CASE UNCHANGED <<ready, delayed>>
              /\ \A j \in Jobs : Unrelayed(j)' => Unrelayed(j)
    <3>1. UNCHANGED Afloat
      BY <2>a, <2>1 DEF Afloat
    <3> QED BY <1>a, <2>a, <2>1, <3>1 DEF OneChance, Typed
  <2>2. CASE RelayBegin \/ RelayCommit \/ \E j \in Jobs : RelaySAdd(j)
    <3>1. UNCHANGED <<ready, delayed>>
      BY <2>2 DEF RelayBegin, RelayCommit, RelaySAdd, EnqueueSAdd, redisVars
    <3>2. \A j \in Jobs : Unrelayed(j)' => Unrelayed(j)
      BY <2>b, <2>2
         DEF RelayBegin, GetUnprocessedOutbox, RelayCommit, CommitOutbox, RelaySAdd,
             RelayIdle, Locking, Unrelayed, storeVars
    <3> QED BY <2>1, <3>1, <3>2
  <2>3. CASE RelayExec
    <3>1. PICK j \in relay.todo : j = relay.job
      BY <2>3 DEF RelayExec, Locking
    <3>2. j \in Jobs /\ Unrelayed(j) /\ status[j] # "none" /\ j \in locked
      BY <1>a, <3>1 DEF Locking, Unrelayed, Typed
    <3>3. /\ relay'.todo = relay.todo \ {j}
          /\ ready' = ready \/ ready' = <<j>> \o ready
          /\ UNCHANGED <<delayed, outbox, locked>>
      BY <2>3, <3>1 DEF RelayExec, EnqueueExec, storeVars
    <3>4. ~Unrelayed(j)' /\ \A k \in Jobs : Unrelayed(k)' => Unrelayed(k)
      BY <3>2, <3>3 DEF Unrelayed
    <3>5. j \notin Afloat /\ \A s \in Sessions : job[s] # j
      BY <3>2 DEF OneChance
    <3>6. IsInjective(ready') /\ ToSet(ready') \subseteq ToSet(ready) \cup {j}
      <4>1. IsInjective(ready) /\ ready \in Seq(Jobs) /\ j \notin ToSet(ready)
        BY <1>a, <3>5 DEF OneChance, Typed, Afloat
      <4>2. /\ ToSet(<<j>> \o ready) = ToSet(ready) \cup {j}
            /\ IsInjective(<<j>> \o ready)
        BY <3>2, <4>1, PushDistinct
      <4> QED BY <3>3, <4>1, <4>2
    <3>7. Afloat' \subseteq Afloat \cup {j}
      BY <2>a, <3>3, <3>6 DEF Afloat
    <3>8. ToSet(ready') \cap (delayed \cup due)' = {}
      BY <2>a, <3>3, <3>5, <3>6 DEF OneChance, Afloat
    <3> QED BY <1>a, <2>a, <3>2, <3>4, <3>5, <3>6, <3>7, <3>8 DEF OneChance, Typed
  <2> QED BY <1>a, <1>4, <2>2, <2>3 DEF Relay, RelayStep, RelayAbort
<1>5. CASE Promote
  <2>1. UNCHANGED <<status, outbox, locked, relay, job, fails>>
    BY <1>5 DEF Promote, storeVars, relayVars, serverVars, handlerVars, workerVars
  <2>2. \A j \in Jobs : Unrelayed(j)' <=> Unrelayed(j)
    BY <2>1 DEF Unrelayed
  <2>3. CASE PromoteRead
    <3>1. UNCHANGED <<ready, delayed>> /\ due' \subseteq delayed
      BY <2>3 DEF PromoteRead, redisVars
    <3>2. Afloat' \subseteq Afloat
      BY <3>1 DEF Afloat
    <3> QED BY <1>a, <2>1, <2>2, <3>1, <3>2 DEF OneChance, Typed
  <2>4. CASE PromoteExec
    <3>1. PICK order \in SetToSeqs(due) : ready' = order \o ready
      BY <2>4 DEF PromoteExec
    <3>2. due \in SUBSET Jobs
      BY <1>a DEF Typed
    <3>3. order \in Seq(Jobs) /\ ToSet(order) = due /\ IsInjective(order)
      BY <3>2, OrderComplete, OrderDistinct, SetToSeqsType
    <3>4. ToSet(ready') = due \cup ToSet(ready) /\ IsInjective(ready')
      BY <1>a, <3>1, <3>3, ConcatDistinct DEF OneChance, Typed
    <3>5. delayed' = delayed \ due /\ due' = {}
      BY <2>4 DEF PromoteExec
    <3>6. Afloat' = Afloat
      BY <3>4, <3>5 DEF Afloat
    <3> QED BY <1>a, <2>1, <2>2, <3>4, <3>5, <3>6 DEF OneChance, Typed
  <2> QED BY <1>a, <1>5, <2>3, <2>4 DEF Promote
<1>6. CASE UNCHANGED vars
  <2>1. UNCHANGED <<ready, delayed, due, status, outbox, locked, relay, job, fails>>
    BY <1>6 DEF vars, queueVars, redisVars, storeVars, relayVars, serverVars,
                handlerVars, workerVars
  <2>2. UNCHANGED Afloat /\ \A j \in Jobs : Unrelayed(j)' <=> Unrelayed(j)
    BY <2>1 DEF Afloat, Unrelayed
  <2> QED BY <2>1, <2>2 DEF OneChance
<1> QED BY <1>a, <1>1, <1>2, <1>3, <1>4, <1>5, <1>6, OneChanceHandler DEF CalmNext
--------------------------------------------------------------------------------
(*****************************************************************************)
(* Every failure is counted before the next execution.                       *)
(*****************************************************************************)
\* The handler's own job, from one place in the code to the next.
LEMMA HandlerCountsStep ==
    ASSUME Unfailing, Core, Connected, OneChance, AllCounted,
           NEW s \in Sessions, Handler(s), ~Pop(s), job'[s] # Nil
    PROVE  job'[s] = job[s] /\ job[s] \in Jobs /\ HandlerCounts(s, job[s])'
<1> DEFINE j == job[s]
<1>a. /\ Typed /\ SessionOK(s) /\ ~CtxDone(s) /\ \A k : ~Fault(k)
      /\ pc[s] \notin {"requeue_db", "requeue_redis"}
  BY TypedCore, NothingFails DEF Core, Connected, CtxDone
<1>b. j # Nil => HandlerCounts(s, j)
  BY DEF AllCounted
<1>c. UNCHANGED fails
  BY DEF Handler, HandlerStep, RecvReady, RecvError, RecvHeartbeat,
         recordHeartbeat, RecvResult, Pop, ConsumeError, HGet, Drop,
         StoreOwner, SetRunning, Send, RequeueDb, RequeueRedis, GetJob,
         AckResult, CompleteResult, MarkRetrying, RetryResult, MarkFailed,
         FailResult, workerVars
<1>1. CASE \/ RecvError(s) \/ ConsumeError(s) \/ Drop(s) \/ RequeueDb(s)
           \/ RequeueRedis(s) \/ CompleteResult(s) \/ RetryResult(s) \/ FailResult(s)
  BY <1>a, <1>1 DEF RecvError, ConsumeError, Drop, RequeueDb, RequeueRedis,
                    CompleteResult, RetryResult, FailResult, ReturnResult, Typed
<1>2. CASE RecvReady(s)
  BY <1>a, <1>2 DEF RecvReady, SessionOK, Empty
<1>3. CASE \/ RecvHeartbeat(s) \/ recordHeartbeat(s) \/ RecvResult(s)
           \/ StoreOwner(s) \/ Send(s)
  <2>1. UNCHANGED <<status, retryCount, payloads>>
    BY <1>3 DEF RecvHeartbeat, recordHeartbeat, RecvResult, StoreOwner, Send,
                redisVars, storeVars
  <2>2. CASE RecvHeartbeat(s) \/ recordHeartbeat(s)
    <3>1. /\ job'[s] = j /\ rc'[s] = rc[s] /\ outcome'[s] = outcome[s]
          /\ pc[s] \in {"recv", "heartbeat"} /\ pc'[s] \in {"recv", "heartbeat"}
      BY <1>a, <2>2 DEF RecvHeartbeat, recordHeartbeat, Goto, workerVars, Typed
    <3> QED BY <1>a, <1>b, <1>c, <2>1, <3>1 DEF HandlerCounts, Failure, Typed
  <2>3. CASE RecvResult(s)
    <3>1. /\ job'[s] = j /\ rc'[s] = rc[s] /\ outcome'[s] = outcome[s]
          /\ pc[s] = "recv" /\ pc'[s] = "getjob"
      BY <1>a, <2>3 DEF RecvResult, Goto, Typed
    <3> QED BY <1>a, <1>b, <1>c, <2>1, <3>1 DEF HandlerCounts, Failure, Typed
  <2>4. CASE StoreOwner(s)
    <3>1. /\ job'[s] = j /\ rc'[s] = rc[s] /\ outcome'[s] = outcome[s]
          /\ pc[s] = "own" /\ pc'[s] = "running"
      BY <1>a, <2>4 DEF StoreOwner, Goto, workerVars, Typed
    <3> QED BY <1>a, <1>b, <1>c, <2>1, <3>1 DEF HandlerCounts, Failure, Typed
  <2>5. CASE Send(s)
    <3>1. /\ job'[s] = j /\ rc'[s] = rc[s] /\ outcome'[s] = outcome[s]
          /\ pc[s] = "send" /\ pc'[s] = "recv"
      BY <1>a, <2>5 DEF Send, Goto, Typed
    <3> QED BY <1>a, <1>b, <1>c, <2>1, <3>1 DEF HandlerCounts, Failure, Typed
  <2> QED BY <1>3, <2>2, <2>3, <2>4, <2>5
<1>4. CASE HGet(s)
  <2>1. /\ j \in Jobs /\ job'[s] = j /\ outcome'[s] = outcome[s] /\ PayloadCounts(j)
        /\ outcome[s] = "none"
    <3>1. pc[s] = "hget" /\ UNCHANGED <<job, outcome>>
      BY <1>4 DEF HGet, workerVars
    <3>2. j \in Jobs /\ outcome[s] = "none"
      BY <1>a, <3>1 DEF SessionOK, DispatchPcs
    <3> QED BY <1>a, <1>b, <3>1, <3>2 DEF Typed, HandlerCounts
  <2>2. \/ pc'[s] = "drop"
        \/ payloads[j] # NoPayload /\ rc'[s] = payloads[j] /\ pc'[s] = "own"
    BY <1>a, <1>4 DEF HGet, Goto, Typed
  <2> QED BY <1>a, <1>c, <2>1, <2>2 DEF HandlerCounts, PayloadCounts, Failure, Typed
<1>5. CASE SetRunning(s)
  <2>1. /\ j \in Jobs /\ job'[s] = j /\ outcome'[s] = outcome[s] /\ rc'[s] = rc[s]
        /\ pc[s] = "running" /\ pc'[s] = "send" /\ retryCount'[j] = rc[s]
    BY <1>a, <1>5 DEF SetRunning, UpdateJobState, Goto, SessionOK, Typed
  <2> QED BY <1>a, <1>b, <1>c, <2>1 DEF HandlerCounts, Failure, Typed
<1>6. CASE GetJob(s)
  <2>1. /\ j \in Jobs /\ job'[s] = j /\ outcome'[s] = outcome[s] /\ pc[s] = "getjob"
        /\ status[j] \notin Settled /\ rc'[s] = retryCount[j]
        /\ Goto(s, ResultBranch(s)) /\ outcome[s] # "none"
    BY <1>a, <1>6 DEF GetJob, ReturnResult, SessionOK, Typed
  <2>2. pc'[s] \in {"ack", "retrying", "failed"}
    BY <1>a, <2>1 DEF ResultBranch, Goto, Typed
  <2> QED BY <1>a, <1>b, <1>c, <2>1, <2>2 DEF HandlerCounts, Failure, Typed
<1>7. CASE AckResult(s) \/ MarkFailed(s)
  <2>1. /\ j \in Jobs /\ job'[s] = j /\ outcome'[s] = outcome[s] /\ rc'[s] = rc[s]
        /\ pc[s] \in {"ack", "failed"} /\ pc'[s] \in {"complete", "fail_redis"}
    BY <1>a, <1>7 DEF AckResult, MarkFailed, Goto, workerVars, SessionOK, Typed
  <2> QED BY <1>a, <1>b, <1>c, <2>1 DEF HandlerCounts, Failure, Typed
<1>8. CASE MarkRetrying(s)
  <2>1. /\ j \in Jobs /\ job'[s] = j /\ outcome'[s] = "none" /\ rc'[s] = rc[s] + 1
        /\ pc[s] = "retrying" /\ pc'[s] = "retry_redis"
        /\ outcome[s] = "failure"
    BY <1>a, <1>8 DEF MarkRetrying, Goto, SessionOK, Typed
  <2> QED BY <1>a, <1>b, <1>c, <2>1 DEF HandlerCounts, Failure, Typed
<1> QED BY <1>1, <1>2, <1>3, <1>4, <1>5, <1>6, <1>7, <1>8 DEF Handler, HandlerStep

\* A step of the Work handler counts every failure.
LEMMA AllCountedHandler ==
    ASSUME Unfailing, Core, Connected, OneChance, AllCounted,
           NEW s \in Sessions, Handler(s)
    PROVE  AllCounted'
<1>a. Typed /\ SessionOK(s)
  BY TypedCore DEF Core
<1>b. HandlerScope(s) /\ UNCHANGED <<due, fails>>
  BY HandlerScopeStep
     DEF Handler, HandlerStep, RecvReady, RecvError, RecvHeartbeat,
         recordHeartbeat, RecvResult, Pop, ConsumeError, HGet, Drop,
         StoreOwner, SetRunning, Send, RequeueDb, RequeueRedis, GetJob,
         AckResult, CompleteResult, MarkRetrying, RetryResult, MarkFailed,
         FailResult, workerVars
<1>c. \A t \in Sessions : t # s => outcome'[t] = outcome[t]
  BY <1>a
     DEF Typed, Handler, HandlerStep, RecvReady, RecvError, RecvHeartbeat,
         recordHeartbeat, RecvResult, Pop, ConsumeError, HGet, Drop,
         StoreOwner, SetRunning, Send, RequeueDb, RequeueRedis, GetJob,
         AckResult, CompleteResult, MarkRetrying, RetryResult, MarkFailed,
         FailResult, workerVars, Return, ReturnResult
<1>1. ASSUME NEW t \in Sessions, t # s, job'[t] # Nil
      PROVE  HandlerCounts(t, job[t])'
  <2>1. PICK j \in Jobs : job[t] = j /\ job'[t] = j /\ job[s] # j
    BY <1>a, <1>b, <1>1 DEF HandlerScope, OneChance, Typed
  <2>2. /\ pc'[t] = pc[t] /\ rc'[t] = rc[t] /\ status'[j] = status[j]
        /\ retryCount'[j] = retryCount[j] /\ payloads'[j] = payloads[j]
    BY <1>b, <1>1, <2>1 DEF HandlerScope
  <2>3. HandlerCounts(t, j)
    BY <1>a, <2>1 DEF AllCounted, Typed
  <2>4. HandlerCounts(t, j)'
    BY <1>b, <1>c, <1>1, <2>2, <2>3 DEF HandlerCounts, PayloadCounts, Failure
  <2> QED BY <2>1, <2>4
<1>2. job'[s] # Nil => HandlerCounts(s, job[s])'
  <2>1. CASE Pop(s)
    <3>1. /\ ready[Len(ready)] \in ToSet(ready) /\ job'[s] = ready[Len(ready)]
          /\ pc'[s] = "hget" /\ UNCHANGED payloads
      BY <1>a, <2>1, PopDistinct DEF Pop, ConsumePop, Goto, OneChance, Typed
    <3>2. PICK j \in Afloat : job'[s] = j
      BY <3>1 DEF Afloat
    <3>3. PayloadCounts(j)'
      BY <1>b, <3>1, <3>2 DEF AllCounted, PayloadCounts
    <3> QED BY <3>1, <3>2, <3>3 DEF HandlerCounts
  <2>2. CASE ~Pop(s)
    <3> SUFFICES ASSUME job'[s] # Nil PROVE HandlerCounts(s, job[s])'
      OBVIOUS
    <3>1. PICK j \in Jobs : job[s] = j
      BY <2>2, HandlerCountsStep
    <3> QED BY <2>2, <3>1, HandlerCountsStep
  <2> QED BY <2>1, <2>2
<1>3. \A j \in Afloat' : PayloadCounts(j)'
  <2>1. CASE Pop(s)
    <3> DEFINE e == ready[Len(ready)]
    <3>1. ToSet(ready') = ToSet(ready) \ {e}
      BY <1>a, <2>1, PopDistinct DEF Pop, ConsumePop, OneChance, Typed
    <3>2. UNCHANGED <<delayed, payloads>>
      BY <2>1 DEF Pop, ConsumePop
    <3> HIDE DEF e
    <3>3. Afloat' \subseteq Afloat
      BY <1>b, <3>1, <3>2 DEF Afloat
    <3> QED BY <1>b, <3>2, <3>3 DEF AllCounted, PayloadCounts
  <2>2. CASE RetryResult(s) /\ Retry(job[s], rc[s])
    <3>1. PICK j \in Jobs : job[s] = j
      BY <1>a, <2>2 DEF RetryResult, SessionOK
    <3>2. fails[j] <= rc[s]
      <4>1. pc[s] = "retry_redis" /\ outcome[s] = "none"
        BY <1>a, <2>2 DEF RetryResult, SessionOK
      <4>2. HandlerCounts(s, j)
        BY <1>a, <3>1 DEF AllCounted, Typed
      <4>3. rc[s] \in Nat /\ Failure(s) = 0
        BY <1>a, <4>1 DEF Failure, Typed
      <4> QED BY <4>1, <4>2, <4>3 DEF HandlerCounts
    <3>3. Afloat' \subseteq Afloat \cup {j} /\ payloads' = [payloads EXCEPT ![j] = rc[s]]
      BY <1>b, <2>2, <3>1 DEF Retry, Afloat
    <3> QED BY <1>a, <1>b, <3>2, <3>3 DEF AllCounted, PayloadCounts, Typed
  <2>3. CASE /\ UNCHANGED ready /\ delayed' \subseteq delayed
             /\ \/ UNCHANGED payloads
                \/ job[s] \in Jobs /\ payloads' = [payloads EXCEPT ![job[s]] = NoPayload]
    <3>1. Afloat' \subseteq Afloat
      BY <1>b, <2>3 DEF Afloat
    <3>2. \A j \in Jobs : payloads'[j] \in {payloads[j], NoPayload}
      BY <1>a, <2>3 DEF Typed
    <3> QED BY <1>a, <1>b, <3>1, <3>2 DEF AllCounted, PayloadCounts, Typed
  <2> QED BY <2>1, <2>2, <2>3, AfloatHandler
<1>4. \A j \in Jobs : fails'[j] <= MaxRetries[j] + 1
  BY <1>b DEF AllCounted
<1> QED BY <1>1, <1>2, <1>3, <1>4 DEF AllCounted

\* The execution that ends with failure was given the count of those before it.
LEMMA AllCountedWorker ==
    ASSUME Core, Counts, OneChance, AllCounted, NEW s \in Sessions, Worker(s)
    PROVE  AllCounted'
<1>a. Typed /\ SessionOK(s)
  BY TypedCore DEF Core
<1>b. UNCHANGED <<ready, delayed, due, payloads, status, retryCount, job, rc>>
  BY DEF Worker, Connect, Finish, redisVars, storeVars, handlerVars
<1>c. UNCHANGED Afloat
  BY <1>b DEF Afloat
<1>1. CASE Connect(s)
  <2>1. pc[s] = "new" /\ pc' = [pc EXCEPT ![s] = "recv"] /\ UNCHANGED <<outcome, fails>>
    BY <1>a, <1>1 DEF Connect, Goto, SessionOK
  <2>2. job[s] = Nil
    BY <1>a, <2>1 DEF SessionOK, Empty
  <2>3. \A t \in Sessions : job[t] # Nil => pc'[t] = pc[t]
    BY <1>a, <2>1, <2>2 DEF Typed
  <2>4. ASSUME NEW t \in Sessions, job'[t] # Nil
        PROVE  HandlerCounts(t, job[t])'
    <3>1. HandlerCounts(t, job[t]) /\ job'[t] = job[t] /\ pc'[t] = pc[t]
      BY <1>b, <2>3, <2>4 DEF AllCounted
    <3> QED BY <1>b, <2>1, <3>1 DEF HandlerCounts, PayloadCounts, Failure
  <2>5. \A j \in Afloat' : PayloadCounts(j)'
    BY <1>b, <1>c, <2>1 DEF AllCounted, PayloadCounts
  <2>6. \A j \in Jobs : fails'[j] <= MaxRetries[j] + 1
    BY <2>1 DEF AllCounted
  <2> QED BY <2>4, <2>5, <2>6 DEF AllCounted
<1>2. CASE Finish(s)
  <2>1. PICK j \in Jobs : job[s] = j
    BY <1>a, <1>2 DEF Finish, SessionOK
  <2>2. /\ outcome[s] = "none" /\ pc[s] \in {"recv", "heartbeat"} /\ UNCHANGED pc
    BY <1>a, <1>2 DEF Finish, SessionOK, handlerVars
  <2>3. fails[j] <= rc[s] /\ rc[s] <= MaxRetries[j]
    <3>1. HandlerCounts(s, j)
      BY <1>a, <2>1 DEF AllCounted, Typed
    <3>2. rc[s] \in Nat /\ Failure(s) = 0
      BY <1>a, <2>2 DEF Failure, Typed
    <3>3. rc[s] \in Copies(j)
      BY <2>1 DEF Copies
    <3> QED BY <2>2, <3>1, <3>2, <3>3 DEF HandlerCounts, Counts
  <2>4. \/ fails' = [fails EXCEPT ![j] = @ + 1] /\ outcome' = [outcome EXCEPT ![s] = "failure"]
        \/ UNCHANGED fails /\ outcome' = [outcome EXCEPT ![s] = "success"]
    BY <1>2, <2>1 DEF Finish
  <2>5. /\ j \notin Afloat
        /\ \A t \in Sessions : t # s => job[t] # j /\ outcome'[t] = outcome[t]
        /\ \A k \in Jobs : k # j => fails'[k] = fails[k]
        /\ fails'[j] <= rc[s] + Failure(s)' /\ fails'[j] <= MaxRetries[j] + 1
    BY <1>a, <2>1, <2>3, <2>4 DEF OneChance, Typed, Failure
  <2>6. ASSUME NEW t \in Sessions, job[t] # Nil
        PROVE  HandlerCounts(t, job[t])'
    <3>1. HandlerCounts(t, job[t]) /\ job[t] \in Jobs
      BY <1>a, <2>6 DEF AllCounted, Typed
    <3>2. CASE t = s
      BY <1>b, <2>1, <2>2, <2>5, <3>1, <3>2 DEF HandlerCounts
    <3>3. CASE t # s
      BY <1>b, <2>2, <2>5, <3>1, <3>3 DEF HandlerCounts, PayloadCounts, Failure
    <3> QED BY <3>2, <3>3
  <2>7. \A k \in Afloat' : PayloadCounts(k)'
    BY <1>a, <1>b, <1>c, <2>5 DEF AllCounted, PayloadCounts, Typed
  <2>8. \A k \in Jobs : fails'[k] <= MaxRetries[k] + 1
    BY <2>5 DEF AllCounted
  <2> QED BY <1>b, <2>6, <2>7, <2>8 DEF AllCounted
<1> QED BY <1>1, <1>2 DEF Worker

\* A step that changes neither a handler nor a count of failures; it may settle a
\* job, delete its payload, or give a payload to a job that has not failed yet.
Harmless ==
    /\ UNCHANGED <<job, rc, pc, outcome, fails>>
    /\ \A j \in Jobs :
          /\ \/ payloads'[j] \in {payloads[j], NoPayload}
             \/ payloads'[j] = 0 /\ fails[j] = 0
          /\ j \in Afloat' => j \in Afloat \/ (payloads'[j] = 0 /\ fails[j] = 0)
          /\ status[j] \in Settled => status'[j] \in Settled
          /\ status'[j] \in Settled \/ retryCount'[j] = retryCount[j]

\* Such a step leaves every failure counted.
LEMMA AllCountedOther ==
    ASSUME Core, AllCounted, Harmless, Afloat' \subseteq Jobs
    PROVE  AllCounted'
<1>a. Typed
  BY TypedCore
<1>1. ASSUME NEW j \in Jobs, PayloadCounts(j)
      PROVE  PayloadCounts(j)'
  BY <1>a, <1>1 DEF Harmless, PayloadCounts, Typed
<1>2. \A j \in Afloat' : PayloadCounts(j)'
  <2> SUFFICES ASSUME NEW j \in Afloat'
               PROVE  PayloadCounts(j)'
    OBVIOUS
  <2>a. j \in Jobs /\ (j \in Afloat \/ (payloads'[j] = 0 /\ fails'[j] = 0))
    BY DEF Harmless
  <2>1. CASE j \in Afloat
    BY <1>1, <2>a, <2>1 DEF AllCounted
  <2>2. CASE payloads'[j] = 0 /\ fails'[j] = 0
    BY <2>2 DEF PayloadCounts
  <2> QED BY <2>a, <2>1, <2>2
<1>3. ASSUME NEW s \in Sessions, job'[s] # Nil
      PROVE  HandlerCounts(s, job[s])'
  <2>1. PICK j \in Jobs : job[s] = j /\ job'[s] = j
    BY <1>a, <1>3 DEF Typed, Harmless
  <2>2. HandlerCounts(s, j)
    BY <1>a, <2>1 DEF AllCounted, Typed
  <2>3. HandlerCounts(s, j)'
    BY <1>1, <2>2 DEF Harmless, HandlerCounts, Failure
  <2> QED BY <2>1, <2>3
<1>4. \A j \in Jobs : fails'[j] <= MaxRetries[j] + 1
  BY DEF Harmless, AllCounted
<1> QED BY <1>2, <1>3, <1>4 DEF AllCounted

\* Every step counts every failure.
LEMMA AllCountedStep ==
    ASSUME Unfailing, Core, Counts, Calm, Connected, Locking, OneChance, AllCounted,
           [Next]_vars
    PROVE  AllCounted'
<1>a. Typed /\ CalmNext /\ \A k : ~Fault(k)
  BY TypedCore, CalmSteps, NothingFails
<1>b. Afloat' \subseteq Jobs
  <2>1. Core'
    BY CoreStep
  <2> QED BY <2>1 DEF Core, TypeOK, QueueTypeOK, Afloat, ToSet
<1>1. ASSUME NEW j \in Jobs, Submit(j)
      PROVE  AllCounted'
  <2>1. /\ status[j] = "none" /\ status' = [status EXCEPT ![j] = "pending"]
        /\ UNCHANGED <<ready, delayed, due, payloads, retryCount>>
        /\ UNCHANGED <<job, rc, pc, outcome, fails>>
    BY <1>1 DEF Submit, SubmitJob, InsertJob, redisVars, serverVars, handlerVars,
                workerVars
  <2>2. UNCHANGED Afloat
    BY <2>1 DEF Afloat
  <2>3. \A k \in Jobs : status[k] \in Settled => status'[k] \in Settled
    BY <1>a, <2>1 DEF Typed, Settled
  <2>h. Harmless
    BY <2>1, <2>2, <2>3 DEF Harmless
  <2> QED BY <1>b, <2>h, AllCountedOther
<1>2. ASSUME NEW j \in Jobs, CancelJob(j)
      PROVE  AllCounted'
  <2>1. UNCHANGED <<due, job, rc, pc, outcome, fails>>
    BY <1>2 DEF CancelJob, serverVars, handlerVars, workerVars
  <2>2. \A k \in Jobs : /\ status[k] \in Settled => status'[k] \in Settled
                        /\ status'[k] \in Settled \/ retryCount'[k] = retryCount[k]
    <3>1. CASE UNCHANGED <<status, retryCount>>
      BY <3>1
    <3>2. CASE UpdateJobState(j, "cancelled", cancelRc[j])
      BY <1>a, <3>2 DEF UpdateJobState, Typed, Settled
    <3> QED BY <1>2, <3>1, <3>2
         DEF CancelJob, CancelStep, CancelRead, CancelUpdate, CancelOutbox,
             CancelOutboxEntry, CancelQueue, storeVars
  <2>3. /\ ToSet(ready') \subseteq ToSet(ready) /\ delayed' \subseteq delayed
        /\ \A k \in Jobs : payloads'[k] \in {payloads[k], NoPayload}
    <3>1. CASE Cancel(j)
      BY <1>a, <3>1, RemoveFirstDistinct DEF Cancel, Forget, OneChance, Typed
    <3>2. CASE UNCHANGED redisVars
      BY <3>2 DEF redisVars
    <3> QED BY <1>2, <3>1, <3>2
         DEF CancelJob, CancelStep, CancelRead, CancelUpdate, CancelOutbox, CancelQueue
  <2>4. Afloat' \subseteq Afloat
    BY <2>1, <2>3 DEF Afloat
  <2>h. Harmless
    BY <2>1, <2>2, <2>3, <2>4 DEF Harmless
  <2> QED BY <1>b, <2>h, AllCountedOther
<1>3. CASE Relay
  <2>1. UNCHANGED <<due, status, retryCount, job, rc, pc, outcome, fails>>
    BY <1>3 DEF Relay, RelayStep, RelayBegin, GetUnprocessedOutbox, RelaySAdd,
                RelayExec, RelayCommit, CommitOutbox, RelayAbort, Rollback, storeVars,
                serverVars, handlerVars, workerVars
  <2>2. CASE RelayBegin \/ RelayCommit \/ \E j \in Jobs : RelaySAdd(j)
    <3>1. UNCHANGED <<ready, delayed, payloads>>
      BY <2>2 DEF RelayBegin, RelayCommit, RelaySAdd, EnqueueSAdd, redisVars
    <3>2. UNCHANGED Afloat
      BY <2>1, <3>1 DEF Afloat
    <3>h. Harmless
      BY <2>1, <3>1, <3>2 DEF Harmless
    <3> QED BY <1>b, <3>h, AllCountedOther
  <2>3. CASE RelayExec
    <3>1. PICK j \in relay.todo : j = relay.job
      BY <2>3 DEF RelayExec, Locking
    <3>2. j \in Jobs /\ Unrelayed(j)
      BY <1>a, <3>1 DEF Locking, Unrelayed, Typed
    <3>3. fails[j] = 0 /\ j \notin Afloat
      BY <3>2 DEF OneChance
    <3>4. /\ ready' = ready \/ ready' = <<j>> \o ready
          /\ payloads' = [payloads EXCEPT ![j] = 0] /\ UNCHANGED delayed
      BY <2>3, <3>1 DEF RelayExec, EnqueueExec
    <3>5. ToSet(ready') \subseteq ToSet(ready) \cup {j}
      <4>1. IsInjective(ready) /\ ready \in Seq(Jobs) /\ j \notin ToSet(ready)
        BY <1>a, <3>3 DEF OneChance, Typed, Afloat
      <4>2. ToSet(<<j>> \o ready) = ToSet(ready) \cup {j}
        BY <3>2, <4>1, PushDistinct
      <4> QED BY <3>4, <4>2
    <3>6. Afloat' \subseteq Afloat \cup {j}
      BY <2>1, <3>4, <3>5 DEF Afloat
    <3>7. \A k \in Jobs : payloads'[k] = IF k = j THEN 0 ELSE payloads[k]
      BY <1>a, <3>2, <3>4 DEF Typed
    <3>h. Harmless
      BY <2>1, <3>3, <3>6, <3>7 DEF Harmless
    <3> QED BY <1>b, <3>h, AllCountedOther
  <2> QED BY <1>a, <1>3, <2>2, <2>3 DEF Relay, RelayStep, RelayAbort
<1>4. CASE Promote
  <2>1. UNCHANGED <<status, retryCount, payloads, job, rc, pc, outcome, fails>>
    BY <1>4 DEF Promote, PromoteRead, PromoteExec, PromoteError, redisVars, storeVars,
                serverVars, handlerVars, workerVars
  <2>2. Afloat' \subseteq Afloat
    <3>1. CASE PromoteRead
      BY <3>1 DEF PromoteRead, redisVars, Afloat
    <3>2. CASE PromoteExec
      <4>1. PICK order \in SetToSeqs(due) : ready' = order \o ready
        BY <3>2 DEF PromoteExec
      <4>2. due \in SUBSET Jobs
        BY <1>a DEF Typed
      <4>3. order \in Seq(Jobs) /\ ToSet(order) = due /\ IsInjective(order)
        BY <4>2, OrderComplete, OrderDistinct, SetToSeqsType
      <4>4. ToSet(ready') = due \cup ToSet(ready)
        BY <1>a, <4>1, <4>3, ConcatDistinct DEF OneChance, Typed
      <4>5. delayed' \subseteq delayed /\ due' = {}
        BY <3>2 DEF PromoteExec
      <4> QED BY <4>4, <4>5 DEF Afloat
    <3> QED BY <1>a, <1>4, <3>1, <3>2 DEF Promote
  <2>h. Harmless
    BY <2>1, <2>2 DEF Harmless
  <2> QED BY <1>b, <2>h, AllCountedOther
<1>5. CASE UNCHANGED vars
  <2>1. UNCHANGED <<ready, delayed, due, payloads, status, retryCount, job, rc, pc,
                    outcome, fails>>
    BY <1>5 DEF vars, queueVars, redisVars, storeVars, serverVars, handlerVars, workerVars
  <2>2. UNCHANGED Afloat
    BY <2>1 DEF Afloat
  <2>h. Harmless
    BY <2>1, <2>2 DEF Harmless
  <2> QED BY <1>b, <2>h, AllCountedOther
<1> QED BY <1>a, <1>1, <1>2, <1>3, <1>4, <1>5, AllCountedHandler, AllCountedWorker
     DEF CalmNext

\* The inductive invariant of this module: what the failures of each job cover
\* (Counts, Charged), and what counts them.
Counted ==
    /\ Core /\ Counts /\ Charged
    /\ Calm /\ Connected /\ Locking /\ OneChance /\ AllCounted

\* It holds of a server that has just started with an empty database.
LEMMA CountedInit == Init => Counted
<1> SUFFICES ASSUME Init PROVE Counted
  OBVIOUS
<1>a. Core /\ Counts /\ Charged /\ Typed
  BY CoreInit, CountsInit, ChargedInit, TypedCore
<1>b. /\ ready = <<>> /\ delayed = {} /\ due = {} /\ outbox = {} /\ locked = {}
      /\ fails = [j \in Jobs |-> 0] /\ job = [s \in Sessions |-> Nil]
  BY DEF Init, QueueInit, StoreInit, ServerInit
<1>1. Afloat = {} /\ IsInjective(ready) /\ ToSet(ready) = {}
  BY <1>b DEF Afloat, IsInjective, ToSet
<1>2. Calm /\ Connected
  BY DEF Init, ServerInit, ReaperIdle, Calm, Connected
<1>3. Locking
  BY <1>b DEF Init, RelayInit, RelayIdle, Locking
<1>4. OneChance
  BY <1>a, <1>b, <1>1 DEF OneChance, Typed
<1>5. AllCounted
  BY <1>a, <1>b, <1>1 DEF AllCounted, Typed
<1> QED BY <1>a, <1>2, <1>3, <1>4, <1>5 DEF Counted

\* And after every step.
LEMMA CountedStep ==
    ASSUME Unfailing, Counted, [Next]_vars
    PROVE  Counted'
<1>1. Charged'
  BY LocalEffectStep, ChargedFinish, ChargedLocal DEF Counted
<1> QED BY <1>1, CoreStep, CountsStep, CalmStep, LockingStep, OneChanceStep,
           AllCountedStep DEF Counted

\* When nothing fails, a job that handleResult gives up has failed exactly
\* max_retries + 1 times, whatever clients cancel meanwhile: a CancelJob that
\* writes back an older retry_count, between MarkRetrying and the next result,
\* buys no execution.
THEOREM ExactRetriesHolds ==
    ASSUME Unfailing
    PROVE  Spec => []ExactRetries
<1>1. Counted => ExactRetries
  BY TypedCore DEF Counted, Charged, AllCounted, ExactRetries, Typed
<1> QED BY <1>1, CountedInit, CountedStep, PTL DEF Spec
================================================================================

----------------------------- MODULE ContractProofs ----------------------------
(*****************************************************************************)
(* The proof that the job system implements JobContract when streams break   *)
(* and nothing else fails.  The rows move as the contract says only because  *)
(* every copy of a job's state agrees with its row: Orderly of JobInvariants *)
(* says so for the relay, the lists, and each place in the handler's code,   *)
(* and here it is proved inductive, program by program.                      *)
(*****************************************************************************)
EXTENDS EntryProofs, JobProofs

\* The environment of these theorems: streams break, nothing else fails, and
\* nobody cancels.
LostStreams == FaultKinds \subseteq {"disconnect"} /\ Cancellable = {}

\* No other failure happens in it, and it is one of the environments in which
\* a job has one entry.
LEMMA OnlyDisconnect ==
    ASSUME LostStreams
    PROVE  /\ Steady
           /\ ~Fault("db") /\ ~Fault("redis") /\ ~Fault("crash") /\ ~Fault("stale")
BY DEF LostStreams, Steady, Fault

\* What a step of the Work handler of s leaves alone: the local state of every
\* other handler, and the row, the payload and the owner of every other job.
HandlerScope(s) ==
    /\ \A t \in Sessions : t # s => /\ pc'[t] = pc[t]
                                    /\ job'[t] = job[t]
                                    /\ rc'[t] = rc[t]
    /\ \A j \in Jobs : j # job[s] => /\ status'[j] = status[j]
                                     /\ retryCount'[j] = retryCount[j]
                                     /\ payloads'[j] = payloads[j]
                                     /\ owner'[j] = owner[j]
    /\ UNCHANGED <<outbox, locked>>

\* A Work handler keeps to its scope.
LEMMA HandlerScopeStep ==
    ASSUME Core, NEW s \in Sessions, Handler(s)
    PROVE  HandlerScope(s)
<1>a. ServerTypeOK /\ StoreTypeOK /\ QueueTypeOK
  BY DEF Core, TypeOK
<1> USE <1>a DEF ServerTypeOK, StoreTypeOK, QueueTypeOK, HandlerScope, handlerVars,
                 workerVars, memoryVars, redisVars, storeVars, Goto, Return,
                 ReturnResult, clearOwnership
<1>1. CASE \/ RecvReady(s) \/ RecvError(s) \/ RecvHeartbeat(s)
           \/ recordHeartbeat(s) \/ RecvResult(s)
  BY <1>1 DEF RecvReady, RecvError, RecvHeartbeat, recordHeartbeat, RecvResult
<1>2. CASE Pop(s) \/ ConsumeError(s) \/ HGet(s) \/ StoreOwner(s) \/ Send(s)
  BY <1>2 DEF Pop, ConsumePop, ConsumeError, HGet, StoreOwner, Send
<1>3. CASE SetRunning(s) \/ RequeueDb(s)
  BY <1>3 DEF SetRunning, RequeueDb, TryDb, UpdateJobState
<1>4. CASE Drop(s) \/ RequeueRedis(s) \/ AckResult(s)
  BY <1>4
     DEF Drop, RequeueRedis, AckResult, TryRedis, TryStreamRedis, ConsumeDrop,
         Retry, Ack, Forget
<1>5. CASE GetJob(s) \/ CompleteResult(s)
  BY <1>5 DEF GetJob, CompleteResult, TryDb, CompleteJob
<1>6. CASE MarkRetrying(s) \/ MarkFailed(s)
  BY <1>6 DEF MarkRetrying, MarkFailed, TryDb, UpdateJobState
<1>7. CASE RetryResult(s) \/ FailResult(s)
  BY <1>7
     DEF RetryResult, FailResult, TryRedis, TryStreamRedis, Retry, Fail, Forget
<1> QED BY <1>1, <1>2, <1>3, <1>4, <1>5, <1>6, <1>7 DEF Handler, HandlerStep

\* What the handler does to the entries: it pops one, it moves its own to the
\* delayed set, or it adds nothing anywhere.
LEMMA HandlerEntries ==
    ASSUME Core, NEW s \in Sessions, Handler(s)
    PROVE  \/ Pop(s)
           \/ /\ pc[s] \in {"requeue_redis", "retry_redis"}
              /\ Retry(job[s], rc[s])
              /\ job'[s] = Nil
              /\ UNCHANGED storeVars
           \/ /\ UNCHANGED ready
              /\ delayed' \subseteq delayed
              /\ queued' \subseteq queued
              /\ \E j : processing' \in {processing, RemoveFirst(processing, j)}
              /\ job'[s] \in {job[s], Nil}
<1>a. ServerTypeOK /\ SessionOK(s)
  BY DEF Core, TypeOK
<1> USE <1>a DEF ServerTypeOK, handlerVars, redisVars, storeVars, Goto, Return,
                 ReturnResult
<1>1. CASE \/ RecvReady(s) \/ RecvError(s) \/ RecvHeartbeat(s)
           \/ recordHeartbeat(s) \/ RecvResult(s)
  BY <1>1 DEF RecvReady, RecvError, RecvHeartbeat, recordHeartbeat, RecvResult
<1>2. CASE Pop(s) \/ ConsumeError(s) \/ HGet(s) \/ StoreOwner(s) \/ Send(s)
  BY <1>2 DEF ConsumeError, HGet, StoreOwner, Send
<1>3. CASE SetRunning(s) \/ RequeueDb(s)
  BY <1>3 DEF SetRunning, RequeueDb
<1>4. CASE Drop(s) \/ RequeueRedis(s) \/ AckResult(s)
  <2>1. job[s] \in Jobs
    BY <1>4 DEF Drop, RequeueRedis, AckResult, SessionOK
  <2> QED BY <1>4, <2>1
     DEF Drop, RequeueRedis, AckResult, TryRedis, TryStreamRedis, ConsumeDrop,
         Ack, Forget
<1>5. CASE GetJob(s) \/ CompleteResult(s)
  BY <1>5 DEF GetJob, CompleteResult
<1>6. CASE MarkRetrying(s) \/ MarkFailed(s)
  BY <1>6 DEF MarkRetrying, MarkFailed
<1>7. CASE RetryResult(s) \/ FailResult(s)
  <2>1. job[s] \in Jobs
    BY <1>7 DEF RetryResult, FailResult, SessionOK
  <2> QED BY <1>7, <2>1
     DEF RetryResult, FailResult, TryRedis, TryStreamRedis, Fail, Forget
<1> QED BY <1>1, <1>2, <1>3, <1>4, <1>5, <1>6, <1>7 DEF Handler, HandlerStep

\* The row, the count and the owner of the job in hand fit the place the
\* handler goes to: one case per part of Work and handleResult.
LEMMA StageStep ==
    ASSUME LostStreams, Core, Counts, Token, Orderly,
           NEW s \in Sessions, Handler(s), job'[s] # Nil
    PROVE  StageOf(s, job[s])'
<1>a. ServerTypeOK /\ StoreTypeOK /\ QueueTypeOK /\ SessionOK(s) /\ Nil \notin Jobs
  BY NilAssumption DEF Core, TypeOK
<1>b. ~Fault("db") /\ ~Fault("redis")
  BY OnlyDisconnect
<1>c. job[s] # Nil => StageOf(s, job[s]) /\ job[s] \in Jobs
  BY <1>a DEF Orderly, InHand, ServerTypeOK
<1>d. job'[s] \in Jobs
  BY HandlerTypeStep DEF ServerTypeOK
<1> USE DEF ServerTypeOK, StoreTypeOK, QueueTypeOK, handlerVars, workerVars,
            memoryVars, storeVars, redisVars, OwnerPcs
<1>1. CASE RecvReady(s) \/ RecvHeartbeat(s) \/ recordHeartbeat(s)
  <2>1. job'[s] = job[s] /\ UNCHANGED <<status, retryCount, payloads, rc, owner>>
    BY <1>1 DEF RecvReady, RecvHeartbeat, recordHeartbeat
  <2>2. RecvReady(s) => job[s] = Nil
    BY <1>a DEF RecvReady, SessionOK, Empty
  <2> QED BY <1>a, <1>c, <1>1, <2>1, <2>2
       DEF RecvHeartbeat, recordHeartbeat, Goto, StageOf, Open, Waiting
<1>2. CASE RecvError(s)
  BY <1>a, <1>c, <1>d, <1>2
     DEF RecvError, clearOwnership, Goto, Return, StageOf, Open, Waiting
<1>3. CASE RecvResult(s)
  BY <1>a, <1>c, <1>d, <1>3 DEF RecvResult, Goto, StageOf, Open, Waiting
<1>4. CASE Pop(s)
  <2>1. job'[s] \in ToSet(ready) /\ pc'[s] = "hget"
    BY <1>a, <1>4, PopDistinct
       DEF Pop, ConsumePop, Goto, Token, SingleEntry
  <2>2. Open(job'[s]) /\ payloads[job'[s]] = retryCount[job'[s]]
    BY <2>1 DEF Orderly, InWaiting
  <2>3. UNCHANGED <<status, retryCount, payloads>>
    BY <1>4 DEF Pop, ConsumePop
  <2> QED BY <2>1, <2>2, <2>3 DEF StageOf, Open, Waiting
<1>5. CASE ConsumeError(s) \/ Drop(s) \/ RequeueRedis(s)
  BY <1>a, <1>5 DEF ConsumeError, Drop, RequeueRedis, Return
<1>6. CASE HGet(s)
  <2>1. payloads[job[s]] = retryCount[job[s]] /\ job[s] \in Jobs
    BY <1>a, <1>c, <1>6 DEF HGet, StageOf, SessionOK
  <2> QED BY <1>a, <1>c, <1>6, <2>1 DEF HGet, StageOf, Open, Waiting, Goto, NoPayload
<1>7. CASE StoreOwner(s)
  BY <1>a, <1>c, <1>d, <1>7 DEF StoreOwner, StageOf, Open, Waiting, Goto
<1>8. CASE SetRunning(s)
  BY <1>a, <1>b, <1>c, <1>d, <1>8
     DEF SetRunning, UpdateJobState, StageOf, Open, Waiting, Goto
<1>9. CASE Send(s)
  BY <1>a, <1>c, <1>d, <1>9 DEF Send, clearOwnership, StageOf, Open, Waiting, Goto
<1>10. CASE RequeueDb(s)
  BY <1>a, <1>b, <1>c, <1>d, <1>10
     DEF RequeueDb, TryDb, UpdateJobState, StageOf, Open, Waiting, Goto
<1>11. CASE GetJob(s)
  <2>1. status[job[s]] = "running" /\ job[s] \in Jobs
    BY <1>a, <1>c, <1>11 DEF GetJob, StageOf, SessionOK
  <2>2. Goto(s, ResultBranch(s)) /\ rc' = [rc EXCEPT ![s] = retryCount[job[s]]]
    BY <1>b, <1>11, <2>1 DEF GetJob, Settled
  <2>3. outcome[s] \in {"success", "failure"}
    BY <1>a, <1>11 DEF GetJob, SessionOK
  <2>4. ResultBranch(s) \in {"ack", "retrying", "failed"}
    BY <2>3 DEF ResultBranch
  <2>5. UNCHANGED <<status, retryCount, payloads, owner, job>>
    BY <1>b, <1>11, <2>1 DEF GetJob, Settled
  <2> QED BY <1>a, <1>c, <1>11, <2>1, <2>2, <2>4, <2>5 DEF GetJob, StageOf, Open, Waiting, Goto
<1>12. CASE AckResult(s)
  <2>1. job'[s] = job[s] /\ UNCHANGED <<status, retryCount, rc, owner>>
    BY <1>12 DEF AckResult
  <2> QED BY <1>a, <1>c, <1>12, <2>1 DEF AckResult, StageOf, Open, Waiting, Goto
<1>13. CASE CompleteResult(s) \/ RetryResult(s) \/ FailResult(s)
  BY <1>a, <1>13 DEF CompleteResult, RetryResult, FailResult, ReturnResult
<1>14. CASE MarkRetrying(s)
  BY <1>a, <1>b, <1>c, <1>d, <1>14
     DEF MarkRetrying, TryDb, UpdateJobState, StageOf, Open, Waiting, Goto
<1>15. CASE MarkFailed(s)
  BY <1>a, <1>b, <1>c, <1>d, <1>15
     DEF MarkFailed, TryDb, UpdateJobState, StageOf, Open, Waiting, Goto
<1> QED BY <1>1, <1>2, <1>3, <1>4, <1>5, <1>6, <1>7, <1>8, <1>9, <1>10,
           <1>11, <1>12, <1>13, <1>14, <1>15 DEF Handler, HandlerStep

--------------------------------------------------------------------------------
(*****************************************************************************)
(* Orderly, program by program.                                              *)
(*****************************************************************************)
\* The three parts of Orderly that a step can disturb.
Agreed == Fresh /\ InWaiting /\ InHand

\* A step of the Work handler keeps them.
LEMMA AgreedHandler ==
    ASSUME LostStreams, Core, Counts, Token, Orderly,
           NEW s \in Sessions, Handler(s)
    PROVE  Agreed'
<1>a. /\ ready \in Seq(Jobs) /\ processing \in Seq(Jobs)
      /\ delayed \subseteq Jobs /\ queued \subseteq Jobs
      /\ job \in [Sessions -> Jobs \cup {Nil}] /\ Nil \notin Jobs
      /\ IsInjective(ready) /\ IsInjective(processing)
  BY NilAssumption
     DEF Core, TypeOK, QueueTypeOK, ServerTypeOK, Token, SingleEntry
<1>b. HandlerScope(s) /\ UNCHANGED relay
  BY HandlerScopeStep DEF Handler, relayVars
<1>c. Agreed
  BY DEF Orderly, Agreed
<1>d. job'[s] # Nil => StageOf(s, job[s])'
  BY StageStep
<1>e. \A j \in Jobs : status'[j] = "none" => status[j] = "none"
  BY HandlerRow DEF Core, TypeOK, StoreTypeOK
<1>1. CASE Pop(s)
  <2> DEFINE e == ready[Len(ready)]
  <2>1. /\ e \in ToSet(ready) /\ e \in Jobs
        /\ ToSet(ready') = ToSet(ready) \ {e}
        /\ ToSet(processing') = ToSet(processing) \cup {e}
        /\ UNCHANGED <<delayed, queued>>
    <3>1. e \in Jobs /\ ready # <<>>
      BY <1>a, <1>1 DEF Pop, ConsumePop
    <3>2. e \in ToSet(ready) /\ ToSet(SubSeq(ready, 1, Len(ready) - 1)) = ToSet(ready) \ {e}
      BY <1>a, <3>1, PopDistinct
    <3>3. ToSet(<<e>> \o processing) = ToSet(processing) \cup {e}
      BY <1>a, <3>1, PushDistinct
    <3> QED BY <1>1, <3>1, <3>2, <3>3 DEF Pop, ConsumePop
  <2>2. job'[s] = e /\ job[s] = Nil
    BY <1>a, <1>1 DEF Pop, Core, SessionOK, Empty
  <2>3. e \notin delayed
    BY <2>1 DEF Token, SingleEntry
  <2>4. \A t \in Sessions : job[t] # e
    BY <1>c, <2>1 DEF Agreed, InWaiting
  <2> HIDE DEF e
  <2>5. Fresh'
    BY <1>a, <1>b, <1>c, <1>e, <2>1, <2>2
       DEF HandlerScope, Agreed, Fresh, Unrelayed, Entered
  <2>6. InWaiting'
    <3> SUFFICES ASSUME NEW j \in (ToSet(ready) \ {e}) \cup delayed
                 PROVE  /\ Open(j)' /\ payloads'[j] = retryCount'[j]
                        /\ \A t \in Sessions : job'[t] # j
      BY <2>1 DEF InWaiting
    <3>1. j \in Jobs /\ j # e
      BY <1>a, <2>3 DEF ToSet
    <3>2. /\ Open(j) /\ payloads[j] = retryCount[j]
          /\ \A t \in Sessions : job[t] # j
      BY <1>c DEF Agreed, InWaiting
    <3> QED BY <1>a, <1>b, <2>2, <3>1, <3>2 DEF HandlerScope, Open, Waiting
  <2>7. InHand'
    BY <1>a, <1>b, <1>c, <1>d, <2>2, <2>4
       DEF HandlerScope, Agreed, InHand, StageOf, Open, Waiting
  <2> QED BY <2>5, <2>6, <2>7 DEF Agreed
<1>2. CASE ~Pop(s)
  <2>1. job'[s] \in {job[s], Nil}
    BY <1>2, HandlerEntries
  <2>2. InHand'
    BY <1>a, <1>b, <1>c, <1>d, <2>1
       DEF HandlerScope, Agreed, InHand, StageOf, Open, Waiting
  <2>3. CASE /\ pc[s] \in {"requeue_redis", "retry_redis"}
             /\ Retry(job[s], rc[s])
             /\ job'[s] = Nil
             /\ UNCHANGED storeVars
    <3>1. job[s] \in Jobs
      BY <2>3 DEF Core, SessionOK
    <3>2. /\ ready' = ready /\ delayed' = delayed \cup {job[s]}
          /\ queued' = queued \cup {job[s]}
          /\ ToSet(processing') = ToSet(processing) \ {job[s]}
          /\ payloads' = [payloads EXCEPT ![job[s]] = rc[s]]
      BY <1>a, <2>3, RemoveFirstDistinct DEF Retry
    <3>3. Open(job[s]) /\ rc[s] = retryCount[job[s]] /\ UNCHANGED <<status, retryCount>>
      BY <1>a, <1>c, <2>3, <3>1 DEF Agreed, InHand, StageOf, storeVars
    <3>4. payloads'[job[s]] = retryCount'[job[s]] /\ Open(job[s])
      BY <3>1, <3>2, <3>3 DEF Core, TypeOK, QueueTypeOK
    <3>5. \A t \in Sessions : job'[t] # job[s]
      BY <1>a, <1>b, <1>c, <2>3, <3>1 DEF HandlerScope, Agreed, InHand
    <3>6. Fresh'
      BY <1>a, <1>b, <1>c, <1>e, <2>3, <3>1, <3>2
         DEF HandlerScope, Agreed, Fresh, Unrelayed, Entered
    <3>7. InWaiting'
      <4> SUFFICES ASSUME NEW j \in ToSet(ready) \cup delayed \cup {job[s]}
                   PROVE  /\ Open(j)' /\ payloads'[j] = retryCount'[j]
                          /\ \A t \in Sessions : job'[t] # j
        BY <3>2 DEF InWaiting
      <4>1. CASE j = job[s]
        BY <4>1, <3>3, <3>4, <3>5 DEF Open, Waiting
      <4>2. CASE j # job[s]
        <5>1. j \in Jobs
          BY <1>a, <4>2 DEF ToSet
        <5> QED BY <4>2, <5>1, <1>a, <1>b, <1>c, <2>3
             DEF HandlerScope, Agreed, InWaiting, Open, Waiting
      <4> QED BY <4>1, <4>2
    <3> QED BY <2>2, <3>6, <3>7 DEF Agreed
  <2>4. CASE /\ UNCHANGED ready
             /\ delayed' \subseteq delayed
             /\ queued' \subseteq queued
             /\ \E j : processing' \in {processing, RemoveFirst(processing, j)}
    <3>1. ToSet(processing') \subseteq ToSet(processing)
      BY <1>a, <2>4, RemoveFirstDistinct
    <3>2. Fresh'
      BY <1>a, <1>b, <1>c, <1>e, <2>1, <2>4, <3>1
         DEF HandlerScope, Agreed, Fresh, Unrelayed, Entered
    <3>3. InWaiting'
      <4> SUFFICES ASSUME NEW j \in ToSet(ready) \cup delayed
                   PROVE  /\ Open(j)' /\ payloads'[j] = retryCount'[j]
                          /\ \A t \in Sessions : job'[t] # j
        BY <2>4 DEF InWaiting
      <4>1. j \in Jobs
        BY <1>a DEF ToSet
      <4>2. j # job[s] /\ Open(j) /\ payloads[j] = retryCount[j]
            /\ \A t \in Sessions : job[t] # j
        BY <1>c DEF Agreed, InWaiting
      <4> QED BY <1>a, <1>b, <2>1, <4>1, <4>2 DEF HandlerScope, Open, Waiting
    <3> QED BY <2>2, <3>2, <3>3 DEF Agreed
  <2> QED BY <1>2, <2>3, <2>4, HandlerEntries
<1> QED BY <1>1, <1>2

\* A step that touches none of the copies, and moves no handler that has a job.
LEMMA AgreedFrame ==
    ASSUME Agreed, UNCHANGED <<redisVars, storeVars, relay, owner, job, rc>>,
           \A t \in Sessions : job[t] # Nil => pc'[t] = pc[t]
    PROVE  Agreed'
<1> USE DEF Agreed, redisVars, storeVars
<1>1. Fresh'
  BY DEF Fresh, Unrelayed, Entered
<1>2. InWaiting'
  BY DEF InWaiting, Open, Waiting
<1>3. InHand'
  BY DEF InHand, StageOf, Open, Waiting
<1> QED BY <1>1, <1>2, <1>3

\* SubmitJob: the new row is in the outbox and nowhere else.
LEMMA AgreedSubmit ==
    ASSUME Core, Orderly, NEW j \in Jobs, Submit(j)
    PROVE  Agreed'
<1>a. /\ status \in [Jobs -> Statuses] /\ Nil \notin Jobs
      /\ job \in [Sessions -> Jobs \cup {Nil}]
  BY NilAssumption DEF Core, TypeOK, StoreTypeOK, ServerTypeOK
<1>b. Agreed
  BY DEF Orderly, Agreed
<1>1. /\ status[j] = "none" /\ status' = [status EXCEPT ![j] = "pending"]
      /\ outbox' = outbox \cup {j}
      /\ UNCHANGED <<retryCount, locked, relay, ready, processing, delayed,
                     payloads, queued, owner, pc, job, rc>>
  BY DEF Submit, SubmitJob, InsertJob, redisVars, relayVars, serverVars,
         memoryVars, handlerVars
<1>2. j \notin Entered /\ retryCount[j] = 0 /\ \A t \in Sessions : job[t] # j
  BY <1>b, <1>1 DEF Agreed, Fresh
<1>3. Fresh'
  BY <1>a, <1>b, <1>1 DEF Agreed, Fresh, Unrelayed, Entered
<1>4. InWaiting'
  BY <1>a, <1>b, <1>1, <1>2 DEF Agreed, InWaiting, Open, Waiting, Entered
<1>5. InHand'
  BY <1>a, <1>b, <1>1, <1>2 DEF Agreed, InHand, StageOf, Open, Waiting
<1> QED BY <1>3, <1>4, <1>5 DEF Agreed

\* The relay: what it pushes was not relayed before and has no entry.
LEMMA OrderlyRelay ==
    ASSUME LostStreams, Core, Relayed, Orderly, Relay, UNCHANGED server
    PROVE  Orderly'
<1>a. /\ relay \in [pc : {"idle", "next", "exec"}, todo : SUBSET Jobs,
                    job : Jobs \cup {Nil}, added : BOOLEAN]
      /\ ready \in Seq(Jobs) /\ payloads \in [Jobs -> Nat \cup {NoPayload}]
      /\ Nil \notin Jobs /\ job \in [Sessions -> Jobs \cup {Nil}]
      /\ outbox \subseteq Jobs /\ delayed \subseteq Jobs
  BY NilAssumption
     DEF Core, TypeOK, RelayTypeOK, QueueTypeOK, StoreTypeOK, ServerTypeOK
<1>b. UNCHANGED <<owner, pc, job, rc>>
  BY DEF Relay, serverVars, memoryVars, handlerVars
<1>c. Agreed /\ server = "up"
  BY DEF Orderly, Agreed
<1>1. CASE RelayBegin
  <2>1. /\ relay.pc = "idle" /\ locked = {} /\ relay'.pc = "next"
        /\ relay'.todo = outbox
        /\ UNCHANGED <<status, retryCount, outbox, redisVars>>
    BY <1>1 DEF RelayBegin, GetUnprocessedOutbox, RelayIdle, Relayed
  <2>2. \A j \in Jobs : Unrelayed(j)' => Unrelayed(j)
    BY <2>1 DEF Unrelayed
  <2>3. Fresh'
    BY <1>b, <1>c, <2>1, <2>2 DEF Agreed, Fresh, Entered, redisVars
  <2>4. InWaiting' /\ InHand'
    BY <1>b, <1>c, <2>1 DEF Agreed, InWaiting, InHand, StageOf, Open, Waiting, redisVars
  <2> QED BY <1>c, <2>1, <2>3, <2>4 DEF Orderly
<1>2. ASSUME NEW j \in Jobs, RelaySAdd(j)
      PROVE  Orderly'
  <2>1. /\ relay.pc = "next" /\ j \in relay.todo
        /\ relay'.pc = "exec" /\ relay'.job = j /\ relay'.todo = relay.todo
        /\ relay'.added = (j \notin queued)
        /\ queued' = queued \cup {j}
        /\ UNCHANGED <<status, retryCount, outbox, locked, ready, processing,
                       delayed, payloads>>
    BY <1>a, <1>2 DEF RelaySAdd, EnqueueSAdd, storeVars
  <2>2. Unrelayed(j)
    BY <2>1 DEF Relayed, Unrelayed
  <2>3. j \notin queued
    BY <1>c, <2>1, <2>2 DEF Agreed, Fresh
  <2>4. Fresh'
    BY <1>b, <1>c, <2>1 DEF Agreed, Fresh, Unrelayed, Entered
  <2>5. InWaiting' /\ InHand'
    BY <1>b, <1>c, <2>1 DEF Agreed, InWaiting, InHand, StageOf, Open, Waiting
  <2> QED BY <1>c, <2>1, <2>3, <2>4, <2>5 DEF Orderly
<1>3. CASE RelayExec
  <2> DEFINE j == relay.job
  <2>1. /\ relay.pc = "exec" /\ j \in relay.todo /\ j \in Jobs /\ relay.added
    BY <1>a, <1>3 DEF RelayExec, Relayed, Orderly
  <2>2. /\ ready' = <<j>> \o ready /\ payloads' = [payloads EXCEPT ![j] = 0]
        /\ relay'.pc = "next" /\ relay'.todo = relay.todo \ {j}
        /\ UNCHANGED <<status, retryCount, outbox, locked, processing,
                       delayed, queued>>
    BY <1>3, <2>1 DEF RelayExec, EnqueueExec, storeVars
  <2>3. ToSet(ready') = ToSet(ready) \cup {j}
    BY <1>a, <2>1, <2>2, PushDistinct
  <2>4. j \in locked /\ j \in outbox /\ status[j] # "none" /\ Unrelayed(j)
    BY <2>1 DEF Relayed, Unrelayed
  <2>5. /\ status[j] = "pending" /\ retryCount[j] = 0 /\ j \notin Entered
        /\ \A t \in Sessions : job[t] # j
    BY <1>c, <2>1, <2>4 DEF Agreed, Fresh
  <2> HIDE DEF j
  <2>6. Fresh'
    <3> SUFFICES ASSUME NEW k \in Jobs, status[k] = "none" \/ Unrelayed(k)'
                 PROVE  /\ status[k] \in {"none", "pending"} /\ retryCount[k] = 0
                        /\ k \notin Entered' /\ k \notin queued'
                        /\ \A t \in Sessions : job[t] # k
      BY <1>b, <2>2 DEF Fresh
    <3>1. k # j /\ (status[k] = "none" \/ Unrelayed(k))
      BY <2>2, <2>4 DEF Unrelayed
    <3> QED BY <1>c, <2>1, <2>2, <2>3, <3>1 DEF Agreed, Fresh, Entered, j
  <2>7. InWaiting'
    <3> SUFFICES ASSUME NEW k \in ToSet(ready) \cup delayed \cup {j}
                 PROVE  /\ Open(k) /\ payloads'[k] = retryCount[k]
                        /\ \A t \in Sessions : job[t] # k
      BY <1>b, <2>2, <2>3 DEF InWaiting, Open, Waiting
    <3>1. CASE k = j
      BY <1>a, <2>1, <2>2, <2>5, <3>1 DEF Open, Waiting, j
    <3>2. CASE k # j
      <4>1. k \in Jobs
        BY <1>a, <3>2 DEF ToSet
      <4> QED BY <1>a, <1>c, <2>2, <3>2, <4>1 DEF Agreed, InWaiting
    <3> QED BY <3>1, <3>2
  <2>8. InHand'
    BY <1>a, <1>b, <1>c, <2>2, <2>5 DEF Agreed, InHand, StageOf, Open, Waiting
  <2> QED BY <1>c, <2>2, <2>6, <2>7, <2>8 DEF Orderly
<1>4. CASE RelayCommit
  <2>0. relay' = RelayIdle
    BY <1>4, Zenon DEF RelayCommit
  <2>1. /\ relay.pc = "next" /\ relay.todo = {}
        /\ relay'.pc = "idle"
        /\ outbox' = outbox \ locked /\ locked' = {}
        /\ UNCHANGED <<status, retryCount, redisVars>>
    BY <1>4, <2>0 DEF RelayCommit, CommitOutbox, RelayIdle
  <2>2. \A j \in Jobs : Unrelayed(j)' => Unrelayed(j)
    BY <2>1 DEF Unrelayed
  <2>3. Fresh'
    BY <1>b, <1>c, <2>1, <2>2 DEF Agreed, Fresh, Entered, redisVars
  <2>4. InWaiting' /\ InHand'
    BY <1>b, <1>c, <2>1 DEF Agreed, InWaiting, InHand, StageOf, Open, Waiting, redisVars
  <2> QED BY <1>c, <2>1, <2>3, <2>4 DEF Orderly
<1>5. ~RelayAbort
  BY OnlyDisconnect DEF RelayAbort
<1> QED BY <1>1, <1>2, <1>3, <1>4, <1>5 DEF Relay, RelayStep

\* The promoter moves entries of waiting jobs from one place to the other.
LEMMA AgreedPromote ==
    ASSUME Core, Token, Agreed, Promote
    PROVE  Agreed'
<1>a. /\ ready \in Seq(Jobs) /\ delayed \subseteq Jobs /\ due \subseteq delayed
      /\ due \in SUBSET Jobs
  BY DEF Core, TypeOK, QueueTypeOK, Token, SingleEntry
<1>b. UNCHANGED <<status, retryCount, outbox, locked, relay, owner, pc, job, rc>>
  BY DEF Promote, storeVars, relayVars, serverVars, memoryVars, handlerVars
<1>1. CASE UNCHANGED redisVars
  BY <1>b, <1>1, AgreedFrame DEF storeVars
<1>2. CASE PromoteExec
  <2>1. PICK order \in SetToSeqs(due) : ready' = order \o ready
    BY <1>2 DEF PromoteExec
  <2>2. order \in Seq(Jobs) /\ ToSet(order) \subseteq due
    BY <1>a, OrderDistinct, SetToSeqsType
  <2>3. ToSet(ready') = ToSet(order) \cup ToSet(ready)
    BY <1>a, <2>1, <2>2, ConcatDistinct
  <2>4. delayed' = delayed \ due /\ UNCHANGED <<processing, payloads, queued>>
    BY <1>2 DEF PromoteExec
  <2>5. ToSet(ready') \cup delayed' \subseteq ToSet(ready) \cup delayed
    BY <1>a, <2>2, <2>3, <2>4
  <2>6. Fresh'
    BY <1>b, <2>4, <2>5 DEF Agreed, Fresh, Unrelayed, Entered
  <2>7. InWaiting' /\ InHand'
    BY <1>b, <2>4, <2>5 DEF Agreed, InWaiting, InHand, StageOf, Open, Waiting
  <2> QED BY <2>6, <2>7 DEF Agreed
<1> QED BY <1>1, <1>2 DEF Promote, PromoteRead, PromoteError

--------------------------------------------------------------------------------
(*****************************************************************************)
(* The invariant of these theorems, and the theorems.                        *)
(*****************************************************************************)
\* Orderly is inductive relative to the other invariants.
LEMMA OrderlyStep ==
    ASSUME LostStreams, Core, Counts, Undisturbed, Token, Kept, Orderly, [Next]_vars
    PROVE  Orderly'
<1>a. SteadyNext
  BY OnlyDisconnect, SteadySteps
<1>b. Agreed /\ server = "up"
  BY DEF Orderly, Agreed
<1> DEFINE Rest == server' = "up" /\ relay' = relay
<1>c. Rest /\ Agreed' => Orderly'
  BY DEF Orderly, Agreed
<1>1. ASSUME NEW j \in Jobs, Submit(j), UNCHANGED server
      PROVE  Orderly'
  BY <1>b, <1>c, <1>1, AgreedSubmit DEF Submit, relayVars
<1>2. ASSUME NEW s \in Sessions, Handler(s), UNCHANGED server
      PROVE  Orderly'
  BY <1>b, <1>c, <1>2, AgreedHandler DEF Handler, relayVars
<1>3. ASSUME NEW s \in Sessions, Worker(s) \/ Disconnect(s),
             UNCHANGED <<server, relayVars>>
      PROVE  Orderly'
  <2>1. worker[s] = "new" => job[s] = Nil
    BY DEF Core, SessionOK, Empty
  <2>2. \A t \in Sessions : job[t] # Nil => pc'[t] = pc[t]
    BY <1>3, <2>1
       DEF Worker, Connect, Finish, Disconnect, handlerVars, Goto, Core, TypeOK,
           ServerTypeOK
  <2>3. UNCHANGED <<redisVars, storeVars, relay, owner, job, rc>>
    BY <1>3 DEF Worker, Connect, Finish, Disconnect, memoryVars, handlerVars, relayVars
  <2> QED BY <1>b, <1>c, <1>3, <2>2, <2>3, AgreedFrame DEF relayVars
<1>4. CASE Relay /\ UNCHANGED server
  BY <1>4, OrderlyRelay DEF Kept
<1>5. CASE Promote /\ UNCHANGED server
  BY <1>b, <1>c, <1>5, AgreedPromote DEF Promote, relayVars
<1>6. ~Boot
  BY <1>b DEF Boot, BootReset, BootRecover
<1>7. ~Crash
  BY OnlyDisconnect DEF Crash
<1>8. CASE UNCHANGED vars
  <2>1. UNCHANGED <<redisVars, storeVars, relay, owner, job, rc, pc, server>>
    BY <1>8 DEF vars, queueVars, relayVars, serverVars, memoryVars, handlerVars
  <2> QED BY <1>b, <1>c, <2>1, AgreedFrame
<1> QED BY <1>a, <1>1, <1>2, <1>3, <1>4, <1>5, <1>6, <1>7, <1>8 DEF SteadyNext

\* The invariant of these theorems.
Tidy == Core /\ Counts /\ Undisturbed /\ Token /\ Kept /\ Orderly

\* It holds from the beginning.
LEMMA TidyInit == Init => Tidy
<1> SUFFICES ASSUME Init PROVE Tidy
  OBVIOUS
<1>1. Core /\ Undisturbed /\ Token
  BY TokenInit
<1>2. Counts
  BY CountsInit
<1>3. Kept
  BY DEF Init, ServerInit, StoreInit, RelayInit, RelayIdle, Kept, Worked,
         Working, Holds, Relayed, Accounted, Waiting
<1>4. Orderly
  <2>1. /\ ready = <<>> /\ processing = <<>> /\ delayed = {} /\ queued = {}
        /\ outbox = {} /\ relay.pc = "idle" /\ server = "up"
        /\ \A s \in Sessions : job[s] = Nil
        /\ \A j \in Jobs : status[j] = "none" /\ retryCount[j] = 0
    BY DEF Init, QueueInit, ServerInit, StoreInit, RelayInit, RelayIdle
  <2>2. ToSet(ready) = {} /\ ToSet(processing) = {}
    BY <2>1 DEF ToSet
  <2> QED BY <2>1, <2>2, NilAssumption
       DEF Orderly, Fresh, InWaiting, InHand, Entered
<1> QED BY <1>1, <1>2, <1>3, <1>4 DEF Tidy

\* Every step keeps it.
LEMMA TidyStep ==
    ASSUME LostStreams, Tidy, [Next]_vars
    PROVE  Tidy'
BY OnlyDisconnect, CoreStep, CountsStep, UndisturbedStep, TokenStep, KeptStep,
   OrderlyStep DEF Tidy

\* Nothing cancels a job.
Uncancelled == \A j \in Jobs : status[j] # "cancelled"

\* The steps of a Work handler that write the row, as the contract has them.
LEMMA HandlerContract ==
    ASSUME LostStreams, Tidy, Uncancelled, NEW s \in Sessions, Handler(s)
    PROVE  Contract!ContractNext \/ UNCHANGED <<status, retryCount>>
<1>a. StoreTypeOK /\ SessionOK(s) /\ Nil \notin Jobs /\ rc[s] \in Nat
      /\ MaxRetries \in [Jobs -> Nat]
  BY NilAssumption, MaxRetriesAssumption DEF Tidy, Core, TypeOK, ServerTypeOK
<1>b. ~Fault("db")
  BY OnlyDisconnect
<1>c. job[s] \in Jobs => StageOf(s, job[s])
  BY <1>a DEF Tidy, Orderly, InHand
<1> USE <1>a, <1>b DEF StoreTypeOK, storeVars, Contract!ContractNext, Contract!Move
<1>1. CASE SetRunning(s)
  <2>1. /\ job[s] \in Jobs /\ Waiting(job[s]) /\ rc[s] = retryCount[job[s]]
        /\ UpdateJobState(job[s], "running", rc[s])
    BY <1>c, <1>1 DEF SetRunning, SessionOK, StageOf, Open, Uncancelled
  <2>2. Contract!Dispatched(job[s])
    BY <2>1 DEF UpdateJobState, Waiting, Contract!Dispatched
  <2> QED BY <2>1, <2>2
<1>2. CASE RequeueDb(s)
  <2>1. /\ job[s] \in Jobs /\ status[job[s]] = "running" /\ rc[s] = retryCount[job[s]]
        /\ UpdateJobState(job[s], "pending", rc[s])
    BY <1>c, <1>2 DEF RequeueDb, TryDb, SessionOK, StageOf
  <2>2. Contract!Interrupted(job[s])
    BY <2>1 DEF UpdateJobState, Contract!Interrupted
  <2> QED BY <2>1, <2>2
<1>3. CASE CompleteResult(s)
  <2>1. /\ job[s] \in Jobs /\ status[job[s]] = "running" /\ CompleteJob(job[s])
    BY <1>c, <1>3 DEF CompleteResult, TryDb, SessionOK, StageOf
  <2>2. Contract!Completed(job[s])
    BY <2>1 DEF CompleteJob, Contract!Completed
  <2> QED BY <2>1, <2>2
<1>4. CASE MarkRetrying(s)
  <2>1. /\ job[s] \in Jobs /\ status[job[s]] = "running" /\ rc[s] = retryCount[job[s]]
        /\ UpdateJobState(job[s], "retrying", rc[s] + 1)
    BY <1>c, <1>4 DEF MarkRetrying, TryDb, SessionOK, StageOf
  <2>2. rc[s] < MaxRetries[job[s]]
    BY <1>4 DEF MarkRetrying, Tidy, Counts
  <2>3. Contract!Retried(job[s])
    BY <2>1, <2>2 DEF UpdateJobState, Contract!Retried
  <2> QED BY <2>1, <2>3
<1>5. CASE MarkFailed(s)
  <2>1. /\ job[s] \in Jobs /\ status[job[s]] = "running" /\ rc[s] = retryCount[job[s]]
        /\ UpdateJobState(job[s], "failed", rc[s])
    BY <1>c, <1>5 DEF MarkFailed, TryDb, SessionOK, StageOf
  <2>2. rc[s] >= MaxRetries[job[s]] /\ retryCount[job[s]] <= MaxRetries[job[s]]
    BY <1>5, <2>1 DEF MarkFailed, Tidy, Counts, Copies
  <2>3. Contract!GivenUp(job[s])
    BY <2>1, <2>2 DEF UpdateJobState, Contract!GivenUp
  <2> QED BY <2>1, <2>3
<1>6. CASE ~(\/ SetRunning(s) \/ RequeueDb(s) \/ CompleteResult(s)
             \/ MarkRetrying(s) \/ MarkFailed(s))
  BY <1>6
     DEF Handler, HandlerStep, RecvReady, RecvError, RecvHeartbeat,
         recordHeartbeat, RecvResult, Pop, ConsumeError, HGet, Drop,
         StoreOwner, Send, RequeueRedis, GetJob, AckResult, RetryResult, FailResult
<1> QED BY <1>1, <1>2, <1>3, <1>4, <1>5, <1>6

\* So does every step of the system.
LEMMA ContractStep ==
    ASSUME LostStreams, Tidy, Uncancelled, [Next]_vars
    PROVE  Contract!ContractNext \/ UNCHANGED <<status, retryCount>>
<1>1. SteadyNext
  BY OnlyDisconnect, SteadySteps DEF Tidy
<1>2. ASSUME NEW j \in Jobs, Submit(j)
      PROVE  Contract!ContractNext
  <2>1. Contract!Submitted(j)
    BY <1>2 DEF Submit, SubmitJob, InsertJob, Contract!Submitted, Contract!Move
  <2> QED BY <2>1 DEF Contract!ContractNext
<1>3. ASSUME NEW s \in Sessions, Worker(s) \/ Disconnect(s)
      PROVE  UNCHANGED <<status, retryCount>>
  BY <1>3 DEF Worker, Connect, Finish, Disconnect, storeVars
<1>4. Relay => UNCHANGED <<status, retryCount>>
  BY DEF Relay, RelayStep, RelayBegin, GetUnprocessedOutbox, RelaySAdd,
         RelayExec, RelayCommit, CommitOutbox, RelayAbort, Rollback, storeVars
<1>5. Promote => UNCHANGED <<status, retryCount>>
  BY DEF Promote, storeVars
<1>6. ~Boot /\ ~Crash
  BY OnlyDisconnect DEF Tidy, Orderly, Boot, BootReset, BootRecover, Crash
<1>7. UNCHANGED vars => UNCHANGED <<status, retryCount>>
  BY DEF vars, storeVars
<1> QED BY <1>1, <1>2, <1>3, <1>4, <1>5, <1>6, <1>7, HandlerContract
     DEF SteadyNext

\* The contract does not cancel.
LEMMA UncancelledStep ==
    ASSUME LostStreams, Tidy, Uncancelled, [Next]_vars
    PROVE  Uncancelled'
<1>1. status \in [Jobs -> Statuses]
  BY DEF Tidy, Core, TypeOK, StoreTypeOK
<1>2. UNCHANGED status \/ \E j \in Jobs : \E to \in Statuses \ {"cancelled"} :
                              status' = [status EXCEPT ![j] = to]
  BY ContractStep
     DEF Contract!ContractNext, Contract!Submitted, Contract!Dispatched,
         Contract!Interrupted, Contract!Completed, Contract!Retried,
         Contract!GivenUp, Contract!Move, Statuses, Settled
<1> QED BY <1>1, <1>2 DEF Uncancelled

\* When streams break and nothing else fails, the row of every job moves as the
\* contract of JobContract.tla allows, whatever the interleaving of submissions,
\* relay, promoter, handlers and workers: settled rows never change, failures
\* are charged one by one up to max_retries, and a job whose worker is lost goes
\* back to pending without being charged (UpdateJobState and CompleteJob as
\* Work and handleResult call them).
THEOREM ContractImplemented ==
    ASSUME LostStreams
    PROVE  Spec => ImplementsContract
<1>1. Init => Tidy /\ Uncancelled /\ Contract!ContractInit
  BY TidyInit DEF Init, StoreInit, Contract!ContractInit, Uncancelled
<1>2. Tidy /\ Uncancelled /\ [Next]_vars => Tidy' /\ Uncancelled'
  BY TidyStep, UncancelledStep
<1>3. Tidy /\ Uncancelled /\ [Next]_vars
        => [Contract!ContractNext]_(Contract!contractVars)
  BY ContractStep DEF Contract!contractVars
<1> QED BY <1>1, <1>2, <1>3, PTL
       DEF Spec, ImplementsContract, Contract!ContractSpec
================================================================================

------------------------------ MODULE RedisQueue -------------------------------
(***************************************************************************)
(* internal/queue/redis.go: the five Redis keys of a queue and the         *)
(* commands the code sends to them.  Each operator is ONE command or one   *)
(* MULTI/EXEC transaction, so one atomic step; where a Go method sends     *)
(* several, the caller takes them one by one.                              *)
(*                                                                         *)
(* A list is a sequence whose first element is its left end.  Of a payload *)
(* only RetryCount is kept: the other fields never change.  The scores of  *)
(* the delayed set are left out: which members are due is a free choice.   *)
(***************************************************************************)
EXTENDS Environment, SequencesExt

VARIABLES
    ready,       \* list  <queue>:ready      waiting job ids
    processing,  \* list  <queue>:processing popped, not acknowledged
    delayed,     \* zset  <queue>:delayed    waiting for their retry time
    payloads,    \* hash  <queue>:payloads   job id -> Job.RetryCount
    queued,      \* set   <queue>:queued     duplicate suppression
    due          \* promoteDueJobs: ids ZRangeByScore returned, not yet moved

redisVars == <<ready, processing, delayed, payloads, queued>>
queueVars == <<redisVars, due>>

NoPayload == -1

QueueInit ==
    /\ ready = <<>>
    /\ processing = <<>>
    /\ delayed = {}
    /\ payloads = [j \in Jobs |-> NoPayload]
    /\ queued = {}
    /\ due = {}

QueueTypeOK ==
    /\ ready \in Seq(Jobs)
    /\ processing \in Seq(Jobs)
    /\ delayed \subseteq Jobs
    /\ payloads \in [Jobs -> Nat \cup {NoPayload}]
    /\ queued \subseteq Jobs
    /\ due \subseteq Jobs
--------------------------------------------------------------------------------
(***************************************************************************)
(* Enqueue: SADD, then a transaction that stores the payload and, only if  *)
(* SADD added the id, pushes it.  The relay is its only caller.            *)
(***************************************************************************)
EnqueueSAdd(j) ==
    /\ queued' = queued \cup {j}
    /\ UNCHANGED <<ready, processing, delayed, payloads>>

EnqueueExec_Inverted(j, count, added) ==
    /\ payloads' = [payloads EXCEPT ![j] = count]
    /\ ready' = IF added THEN ready ELSE <<j>> \o ready
    /\ UNCHANGED <<processing, delayed, queued>>
EnqueueExec_AlwaysPush(j, count, added) ==
    /\ payloads' = [payloads EXCEPT ![j] = count]
    /\ ready' = <<j>> \o ready
    /\ UNCHANGED <<processing, delayed, queued>>
EnqueueExec(j, count, added) ==
    /\ payloads' = [payloads EXCEPT ![j] = count]
    /\ ready' = IF added THEN <<j>> \o ready ELSE ready
    /\ UNCHANGED <<processing, delayed, queued>>

(***************************************************************************)
(* Consume: BRPOPLPUSH takes the right end of ready and pushes it to the   *)
(* left of processing; then HGET; an entry without a payload is removed.   *)
(***************************************************************************)
ConsumePop ==
    /\ ready # <<>>
    /\ processing' = <<ready[Len(ready)]>> \o processing
    /\ ready' = SubSeq(ready, 1, Len(ready) - 1)
    /\ UNCHANGED <<delayed, payloads, queued>>

ConsumeDrop(j) ==
    /\ processing' = RemoveFirst(processing, j)
    /\ UNCHANGED <<ready, delayed, payloads, queued>>

\* What Ack, Fail and Cancel share: forget j outside the two lists.
Forget_KeepsQueued(j) ==
    /\ payloads' = [payloads EXCEPT ![j] = NoPayload]
    /\ delayed' = delayed \ {j}
    /\ UNCHANGED queued
Forget_KeepsDelayed(j) ==
    /\ queued' = queued \ {j}
    /\ payloads' = [payloads EXCEPT ![j] = NoPayload]
    /\ UNCHANGED delayed
Forget(j) ==
    /\ queued' = queued \ {j}
    /\ payloads' = [payloads EXCEPT ![j] = NoPayload]
    /\ delayed' = delayed \ {j}

Ack(j) ==
    /\ processing' = RemoveFirst(processing, j)
    /\ Forget(j)
    /\ UNCHANGED ready

Fail(j) ==
    /\ processing' = RemoveFirst(processing, j)
    /\ Forget(j)
    /\ UNCHANGED ready

Cancel(j) ==
    /\ ready' = RemoveFirst(ready, j)
    /\ processing' = RemoveFirst(processing, j)
    /\ Forget(j)

Retry(j, count) ==
    /\ payloads' = [payloads EXCEPT ![j] = count]
    /\ processing' = RemoveFirst(processing, j)
    /\ queued' = queued \cup {j}
    /\ delayed' = delayed \cup {j}
    /\ UNCHANGED ready

\* Recover, at boot: LRANGE processing; DEL processing; RPUSH each to ready.
Recover_KeepsProcessing ==
    /\ ready' = ready \o processing
    /\ UNCHANGED <<processing, delayed, payloads, queued>>
Recover ==
    /\ ready' = ready \o processing
    /\ processing' = <<>>
    /\ UNCHANGED <<delayed, payloads, queued>>
--------------------------------------------------------------------------------
(***************************************************************************)
(* promoteDueJobs, called by the ticker goroutine of Start: read the due   *)
(* ids, then move each of them in one transaction.  The LPUSH does not     *)
(* depend on what ZREM removed.                                            *)
(***************************************************************************)
PromoteRead ==
    /\ due = {}
    /\ \E ids \in (SUBSET delayed) \ {{}} : due' = ids
    /\ UNCHANGED redisVars

PromoteExec ==
    /\ due # {}
    /\ delayed' = delayed \ due
    /\ \E order \in SetToSeqs(due) : ready' = order \o ready
    /\ due' = {}
    /\ UNCHANGED <<processing, payloads, queued>>

\* The transaction fails: this tick moves nothing.
PromoteError ==
    /\ due # {}
    /\ due' = {}
    /\ UNCHANGED redisVars
--------------------------------------------------------------------------------
\* How many entries of j the lists and the delayed set hold together.
Entries(j) ==
    LET In(list) == Cardinality({i \in DOMAIN list : list[i] = j})
    IN In(ready) + In(processing) + (IF j \in delayed THEN 1 ELSE 0)

\* j is in one of the two lists or in the delayed set.
InRedis(j) ==
    Contains(ready, j) \/ Contains(processing, j) \/ j \in delayed
================================================================================

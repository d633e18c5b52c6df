------------------------------ MODULE OutboxRelay ------------------------------
(***************************************************************************)
(* internal/outbox/relay.go: one transaction per tick that enqueues every  *)
(* unprocessed outbox row in Redis and marks it processed.  Marks are      *)
(* invisible until the commit; the Redis commands are not undone by a      *)
(* rollback.  The job relayed is built without a RetryCount, so it is 0.   *)
(***************************************************************************)
EXTENDS RedisQueue, JobStore

VARIABLE relay

relayVars == <<relay>>

RelayIdle == [pc |-> "idle", todo |-> {}, job |-> Nil, added |-> FALSE]

RelayInit == relay = RelayIdle

RelayTypeOK ==
    relay \in [pc : {"idle", "next", "exec"}, todo : SUBSET Jobs,
               job : Jobs \cup {Nil}, added : BOOLEAN]
--------------------------------------------------------------------------------
RelayBegin ==
    /\ relay.pc = "idle"
    /\ GetUnprocessedOutbox
    /\ relay' = [RelayIdle EXCEPT !.pc = "next", !.todo = outbox]
    /\ UNCHANGED redisVars
    /\ NoFault

\* Enqueue, first half.
RelaySAdd(j) ==
    /\ relay.pc = "next"
    /\ j \in relay.todo
    /\ EnqueueSAdd(j)
    /\ relay' = [relay EXCEPT !.pc = "exec", !.job = j, !.added = j \notin queued]
    /\ UNCHANGED storeVars
    /\ NoFault

\* Enqueue, second half, and MarkOutboxProcessed inside the transaction.
RelayExec ==
    /\ relay.pc = "exec"
    /\ EnqueueExec(relay.job, 0, relay.added)
    /\ relay' = [pc |-> "next", todo |-> relay.todo \ {relay.job},
                 job |-> Nil, added |-> FALSE]
    /\ UNCHANGED storeVars
    /\ NoFault

RelayCommit ==
    /\ relay.pc = "next"
    /\ relay.todo = {}
    /\ CommitOutbox
    /\ relay' = RelayIdle
    /\ UNCHANGED redisVars
    /\ NoFault

\* SAdd, Exec, the mark or the commit fails: the transaction is rolled back.
RelayAbort ==
    /\ relay.pc \in {"next", "exec"}
    /\ \/ relay.pc = "next" /\ Fault("db")
       \/ (relay.pc = "exec" \/ relay.todo # {}) /\ Fault("redis")
    /\ Rollback
    /\ relay' = RelayIdle
    /\ UNCHANGED redisVars

RelayStep ==
    \/ RelayBegin
    \/ \E j \in Jobs : RelaySAdd(j)
    \/ RelayExec
    \/ RelayCommit
    \/ RelayAbort
================================================================================

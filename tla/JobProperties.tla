----------------------------- MODULE JobProperties -----------------------------
(***************************************************************************)
(* What the job system of JobSystem.tla is meant to guarantee.             *)
(***************************************************************************)
EXTENDS JobSystem

(***************************************************************************)
(* Whatever fails, and however clients cancel.                             *)
(***************************************************************************)
\* No retry_count exceeds max_retries: not the job row's, not the payload's
\* that the next worker is given (handleResult, the requeues and the reaper
\* copy the count from one to the other).
RetryBound ==
    \A j \in Jobs : /\ retryCount[j] <= MaxRetries[j]
                    /\ payloads[j] <= MaxRetries[j]

\* A job is marked "failed" only after at least max_retries + 1 executions of
\* it have failed: neither a crash, nor a late result, nor a second worker on
\* the same job makes handleResult charge one failure twice.
FailedExhausted ==
    \A j \in Jobs : status[j] = "failed" => fails[j] > MaxRetries[j]

\* A job is marked "completed" only if some execution of it succeeded, through
\* every path on which sessions, jobs and results are re-used.
CompletedHonestly ==
    \A j \in Jobs : status[j] = "completed" => j \in succ

\* Where the Work handler is while it owns a job.
OwnerPcs == {"running", "send", "recv", "heartbeat", "getjob",
             "ack", "complete", "retrying", "failed"}

\* The owner map never outlives the handler: a job's owner is a session whose
\* handler has that job in hand and is on a path that will clear the entry.
OwnerHandlesJob ==
    \A j \in Jobs, s \in Sessions :
        owner[j] = s => job[s] = j /\ pc[s] \in OwnerPcs

\* A job that waits in the delayed set has the payload that the worker will
\* need and is in the queued set that suppresses duplicates of it.
DelayedBacked ==
    \A j \in delayed : j \in queued /\ payloads[j] # NoPayload
--------------------------------------------------------------------------------
(***************************************************************************)
(* Without silent workers (no 30 s gaps between heartbeats).               *)
(***************************************************************************)
\* Two connected workers never execute the same job at the same time.
Exclusive ==
    \A s, t \in Sessions :
        worker[s] = "executing" /\ worker[t] = "executing" /\ job[s] = job[t]
            => s = t

\* Redis never holds two entries of a job: the outbox row that
\* ResetRunningJobs writes and the entry that Recover moves back do not both
\* become work.
OneEntry == \A j \in Jobs : Entries(j) <= 1

\* A record is left from which a job can be brought to a worker: its outbox row
\* or an entry in Redis.  An entry in the processing list that no handler has in
\* hand counts; only the Recover of the next restart moves it.
Held(j) == j \in outbox \/ InRedis(j)

Waiting(j) == status[j] \in {"pending", "retrying"}

\* README: jobs survive server and worker failures without being lost.
NothingLost == \A j \in Jobs : Waiting(j) => Held(j)

\* A job is lost in one way only: its id is in the queued set and nowhere
\* else, which is what an Enqueue cut short after its SADD leaves behind.
LostOnlyTorn == \A j \in Jobs : Waiting(j) => Held(j) \/ j \in queued

\* The row of a job moves only as the contract of JobContract.tla allows:
\* settled rows never change, failures are charged one by one, a lost worker
\* is not charged.
Contract == INSTANCE JobContract WITH state <- status, charged <- retryCount
ImplementsContract == Contract!ContractSpec

\* Faults do not make a job fail for ever: however the count of the row and the
\* count of the payload drift apart when a fault falls between their updates,
\* each fault adds at most one failed execution that is not charged and one
\* more budget of max_retries + 1.
AttemptsBounded ==
    \A j \in Jobs :
        fails[j] <= (MaxRetries[j] + 1) + faults * (MaxRetries[j] + 2)

\* A disconnect puts back only a job that is the session's own: when Recv
\* fails with a job in flight, nobody else has become the owner of the job.
RequeueOnlyOwn ==
    [][\A s \in Sessions : pc[s] = "recv" /\ pc'[s] = "requeue_db"
            => owner[job[s]] \in {s, Nil}]_vars
--------------------------------------------------------------------------------
(***************************************************************************)
(* Without failures.                                                       *)
(***************************************************************************)
\* A job that is given up failed exactly max_retries + 1 times, also when a
\* CancelJob that read an older retry_count writes it back in between.
ExactRetries ==
    \A j \in Jobs : status[j] = "failed" => fails[j] = MaxRetries[j] + 1

\* Every submitted job is settled in the end.
Settles ==
    \A j \in Jobs : status[j] = "pending" ~> status[j] \in Settled

\* In the end Redis holds nothing of any job, however its cancellation raced
\* with the relay, the promoter, its worker's result and its retry.
QueueDrains ==
    <>[](\A j \in Jobs : ~InRedis(j) /\ payloads[j] = NoPayload /\ j \notin queued)
--------------------------------------------------------------------------------
(***************************************************************************)
(* Recovery, from silent workers and at a restart.                         *)
(***************************************************************************)
\* A worker that hangs loses its job, and the job is not forgotten with it: an
\* owner without heartbeats for 30 s is heard from again, or the job is settled
\* or scheduled for another worker.
StaleReclaimed ==
    \A j \in Jobs :
        (lastSeen[j] = "stale" /\ owner[j] # Nil)
            ~> (lastSeen[j] = "fresh" \/ j \in delayed \/ status[j] \in Settled)

\* README: interrupted jobs are recovered when the server restarts.  Whatever
\* failed before (a handler popped the job for a worker that had left, a retry
\* was not scheduled, a result was not written), a job that is not settled when
\* the server stops is settled after the restart, if nothing fails from then on
\* and a worker connects.  The exception is the id that an interrupted Enqueue
\* left in the queued set.
RestartSettles ==
    \A j \in Jobs :
        (/\ server = "down" /\ faults = MaxFaults
         /\ \E s \in Sessions : worker[s] = "new"
         /\ status[j] \notin Settled \cup {"none"}
         /\ j \in queued => InRedis(j))
            ~> status[j] \in Settled
================================================================================

----------------------------- MODULE JobInvariants -----------------------------
(***************************************************************************)
(* The inductive invariants behind the theorems about jobs: what ties the  *)
(* local state of each handler together (Core), what is true of every copy *)
(* of a retry count (Counts, Charged), of the results (Results), of the    *)
(* one entry of a job in Redis, of every copy of a job's state when only   *)
(* streams break (Orderly), and of every failure when nothing fails        *)
(* (AllCounted).                                                           *)
(***************************************************************************)
EXTENDS JobProperties

\* A handler that has no job in hand.
Empty(s) == job[s] = Nil /\ rc[s] = 0 /\ outcome[s] = "none" /\ s \notin inFlight

\* Where Work is between Consume and Send, and where handleResult is.
DispatchPcs == {"hget", "drop", "own", "running"}
RequeuePcs == {"requeue_db", "requeue_redis"}
ResultPcs == {"getjob", "ack", "complete", "retrying", "failed", "fail_redis"}

SessionOK(s) ==
    /\ worker[s] = "new" => pc[s] = "new"
    /\ pc[s] \in {"new", "consume", "done"} => Empty(s)
    /\ pc[s] = "recv" =>
          \/ s \in inFlight /\ job[s] \in Jobs
          \/ Empty(s) /\ worker[s] # "executing"
    /\ pc[s] \notin {"new", "consume", "done", "recv"} => job[s] \in Jobs
    /\ worker[s] = "executing" =>
          /\ pc[s] \in {"recv", "heartbeat"}
          /\ s \in inFlight
          /\ outcome[s] = "none"
    /\ pc[s] \in {"recv", "heartbeat"} /\ s \in inFlight /\ worker[s] = "waiting" =>
          outcome[s] # "none"
    /\ pc[s] \in {"heartbeat", "send"} => s \in inFlight
    /\ pc[s] \in DispatchPcs \cup ResultPcs \cup {"retry_redis"} => s \notin inFlight
    /\ pc[s] \in DispatchPcs \cup RequeuePcs \cup {"send", "retry_redis"} =>
          outcome[s] = "none"
    /\ pc[s] \in {"hget", "drop"} => rc[s] = 0
    /\ pc[s] = "getjob" => outcome[s] # "none"
    /\ pc[s] \in {"ack", "complete"} => outcome[s] = "success"
    /\ pc[s] \in {"retrying", "failed", "fail_redis"} => outcome[s] = "failure"

Core ==
    /\ TypeOK
    /\ \A s \in Sessions : SessionOK(s)
    /\ relay.pc = "exec" => relay.job \in Jobs
    /\ reaper.pc \in {"clear", "update", "retry"} => reaper.job \in Jobs

\* The copies of the retry count of j: in its row, in its payload, in the
\* CancelJob, the reaper tick and the handlers that have j in hand.
Copies(j) ==
    {0, NoPayload, retryCount[j], payloads[j], cancelRc[j], reaper.rc[j]}
        \cup {rc[s] : s \in {t \in Sessions : job[t] = j}}

\* Every copy of a job's retry count is within its limit, and handleResult
\* takes the branch that the count it read calls for.
Counts ==
    /\ \A j \in Jobs : \A n \in Copies(j) : n <= MaxRetries[j]
    /\ \A s \in Sessions :
          /\ pc[s] = "retrying" => rc[s] < MaxRetries[job[s]]
          /\ pc[s] = "failed" => rc[s] >= MaxRetries[job[s]]

\* The sessions whose failed execution of j is not charged to it yet.
Uncharged(j) == {s \in Sessions : job[s] = j /\ outcome[s] = "failure"}

\* Every copy, together with the failures still to be charged, is covered by
\* executions of j that failed.
Charged ==
    \A j \in Jobs :
        /\ \A n \in Copies(j) : n + Cardinality(Uncharged(j)) <= fails[j]
        /\ status[j] = "failed" => fails[j] > MaxRetries[j]

\* A result of success stands for an execution that succeeded.
Results ==
    /\ \A s \in Sessions : outcome[s] = "success" => job[s] \in succ
    /\ \A j \in Jobs : status[j] = "completed" => j \in succ
--------------------------------------------------------------------------------
(***************************************************************************)
(* Without silent workers and without CancelJob: what makes the entry of a *)
(* job in Redis a token that only one handler can hold.                    *)
(***************************************************************************)
Entered == ToSet(ready) \cup ToSet(processing) \cup delayed

\* The handlers whose job has its entry in processing because of them.
Holds(s) == job[s] # Nil /\ pc[s] # "complete"

\* The reaper has nothing to do, and no CancelJob is on its way.
Undisturbed ==
    /\ reaper.pc = "idle"
    /\ \A j \in Jobs : lastSeen[j] # "stale" /\ cancelPc[j] = "idle"

\* No job has two entries, and only the relay that has just added a job to the
\* queued set will push it.
SingleEntry ==
    /\ IsInjective(ready)
    /\ IsInjective(processing)
    /\ ToSet(ready) \cap ToSet(processing) = {}
    /\ delayed \cap (ToSet(ready) \cup ToSet(processing)) = {}
    /\ Entered \subseteq queued
    /\ due \subseteq delayed
    /\ relay.pc = "exec" /\ relay.added => relay.job \in queued \ Entered

\* A handler that has popped an entry is the only one that has it.
SingleHolder ==
    /\ \A s \in Sessions : Holds(s) => job[s] \in ToSet(processing)
    /\ \A s, t \in Sessions : Holds(s) /\ Holds(t) /\ job[s] = job[t] => s = t

\* Before Recover has moved the entries back, no goroutine is running.
Quiet ==
    server # "up" =>
        relay.pc = "idle" /\ due = {} /\ \A s \in Sessions : job[s] = Nil

\* The holders that have made themselves the owner, and those whose job is in
\* execution or has ended and is not written back.
Past(s) == Holds(s) /\ pc[s] \notin {"hget", "drop", "own"}
Working(s) ==
    Holds(s) /\ pc[s] \in {"send", "recv", "heartbeat", "getjob", "ack",
                           "failed", "retrying", "fail_redis"}

\* Nobody else becomes the owner of a job in hand.
OwnHold == \A s \in Sessions : Past(s) => owner[job[s]] \in {s, Nil}

\* The row of a job in execution is not waiting.
Worked ==
    \A s \in Sessions :
        Working(s) => status[job[s]] \notin {"none", "pending", "retrying"}

\* What the relay's transaction will mark as processed has been added.
Relayed ==
    /\ locked \subseteq outbox
    /\ \A j \in outbox : status[j] # "none"
    /\ relay.pc = "idle" => locked = {}
    /\ relay.todo \subseteq locked
    /\ \A j \in locked \ relay.todo : Waiting(j) => j \in queued
    /\ relay.pc = "exec" =>
          relay.job \in relay.todo /\ (Waiting(relay.job) => relay.job \in queued)

Accounted == \A j \in Jobs : Waiting(j) => j \in outbox \cup queued

\* While neither the server nor Redis fails: the queued set holds no id without
\* an entry but the one that the relay is about to push, every entry has its
\* payload, and Consume never finds one missing.
Backed ==
    /\ server = "up"
    /\ \A j \in queued : \/ j \in Entered
                         \/ relay.pc = "exec" /\ relay.job = j /\ relay.added
    /\ \A j \in Entered : payloads[j] # NoPayload
    /\ \A s \in Sessions : pc[s] # "drop"
--------------------------------------------------------------------------------
(***************************************************************************)
(* When only streams break, and without CancelJob: every copy of a job's   *)
(* state agrees with its row.                                              *)
(***************************************************************************)
\* The job has an outbox row that the relay has not pushed yet.
Unrelayed(j) == j \in outbox /\ (j \in locked => j \in relay.todo)

\* A job that is not relayed yet is nowhere but in its row.
Fresh ==
    \A j \in Jobs : status[j] = "none" \/ Unrelayed(j) =>
        /\ status[j] \in {"none", "pending"}
        /\ retryCount[j] = 0
        /\ j \notin Entered
        /\ j \in queued => relay.pc = "exec" /\ relay.job = j
        /\ \A s \in Sessions : job[s] # j

\* A job on its way to a worker waits, and is with no worker.  (It stays on its
\* way when CancelWorkflowRunAtomic has cancelled it: Redis is not told.)
Open(j) == Waiting(j) \/ status[j] = "cancelled"

InWaiting ==
    \A j \in ToSet(ready) \cup delayed :
        /\ Open(j)
        /\ payloads[j] = retryCount[j]
        /\ \A s \in Sessions : job[s] # j

\* A job in the hands of a handler is with no other, and the row, the count and
\* the owner are what the place in the handler's code calls for.
StageOf(s, j) ==
    /\ pc[s] # "drop"
    /\ pc[s] \in {"hget", "own", "running", "requeue_redis", "retry_redis"} =>
          Open(j)
    /\ pc[s] \in {"send", "recv", "heartbeat", "getjob", "ack", "complete",
                  "retrying", "failed", "requeue_db"} => status[j] = "running"
    /\ pc[s] = "hget" => payloads[j] = retryCount[j]
    /\ pc[s] # "hget" => rc[s] = retryCount[j]
    /\ pc[s] \in OwnerPcs => owner[j] = s

InHand ==
    /\ \A s \in Sessions : job[s] # Nil => StageOf(s, job[s])
    /\ \A s, t \in Sessions : job[s] = job[t] /\ job[s] # Nil => s = t

Orderly ==
    /\ server = "up"
    /\ relay.pc = "exec" => relay.added
    /\ Fresh
    /\ InWaiting
    /\ InHand
--------------------------------------------------------------------------------
(***************************************************************************)
(* When nothing fails, whoever cancels: the outbox row of a job becomes    *)
(* one entry, one handler's job, one entry again.  A CancelJob may end     *)
(* this, and begins nothing.                                               *)
(***************************************************************************)
\* No stream is lost, the server stays up and the reaper has nothing to do.
Connected ==
    \A s \in Sessions :
        worker[s] # "gone" /\ pc[s] \notin {"requeue_db", "requeue_redis", "done"}

Calm ==
    /\ server = "up"
    /\ reaper.pc = "idle"
    /\ \A j \in Jobs : lastSeen[j] # "stale"

\* What the relay has locked is what its transaction has read.
Locking ==
    /\ \A j \in outbox : status[j] # "none"
    /\ locked \subseteq outbox
    /\ relay.pc = "idle" => locked = {}
    /\ relay.todo \subseteq locked
    /\ relay.pc = "exec" => relay.job \in relay.todo

\* What a worker may still be given: also what Cancel has removed between the
\* two statements of promoteDueJobs.
Afloat == ToSet(ready) \cup delayed \cup due

OneChance ==
    /\ IsInjective(ready)
    /\ ToSet(ready) \cap (delayed \cup due) = {}
    /\ \A j \in Jobs : status[j] = "none" \/ Unrelayed(j) =>
          fails[j] = 0 /\ j \notin Afloat /\ \A s \in Sessions : job[s] # j
    /\ \A j \in Afloat : \A s \in Sessions : job[s] # j
    /\ \A s, t \in Sessions : job[s] = job[t] /\ job[s] # Nil => s = t

\* The next execution of j is given the count of all failures before it, or
\* there is none.
PayloadCounts(j) == payloads[j] = NoPayload \/ fails[j] <= payloads[j]

\* The failure that is in the hands of s.
Failure(s) == IF outcome[s] = "failure" THEN 1 ELSE 0

\* handleResult reads the count in the row: while the job is not settled that is
\* the one that the handler wrote with "running".
HandlerCounts(s, j) ==
    /\ pc[s] = "hget" => PayloadCounts(j)
    /\ pc[s] \notin {"hget", "drop"} => fails[j] <= rc[s] + Failure(s)
    /\ pc[s] \in {"send", "recv", "heartbeat", "getjob"} =>
          status[j] \in Settled \/ retryCount[j] = rc[s]

AllCounted ==
    /\ \A j \in Afloat : PayloadCounts(j)
    /\ \A s \in Sessions : job[s] # Nil => HandlerCounts(s, job[s])
    /\ \A j \in Jobs : fails[j] <= MaxRetries[j] + 1
================================================================================

# Orqestra: a TLA+ verification project

Orqestra is a job orchestrator: clients submit shell commands over HTTP, a
server stores them in Postgres, moves them to a Redis queue through an outbox,
hands them to workers over a gRPC stream, retries them when they fail, and runs
workflows (DAGs of steps) on top of that.  This directory models the life of a
job through all of these parts, workflow runs on top of them, the treatment of
workflow files and the scheduler, checks the models with TLC and proves with
TLAPS, for every size of the system, each safety property that the passing runs
check, but one (`AttemptsBounded`).

To run something: `tlc -config failures.cfg MCJobSystem`,
`tlc -config workflow_run.cfg MCWorkflowSystem`, `tlapm RunProofs.tla`.
`PROJECT.json` lists all runs, what each definition models, the mutants that
show that each property can fail, the findings, the hazards and the theorems.

## 1. Inventory

| Part | State | Operations | Correct when |
|---|---|---|---|
| Redis queue (`internal/queue`) | lists `ready`, `processing`; sorted set `delayed`; hash `payloads`; set `queued` | Enqueue, Consume, Ack, Retry, Fail, Cancel, Recover, promoter | a job has at most one entry; what waits has its payload; nothing is left of a settled job |
| Job store (`internal/db/jobs.go`, `outbox.go`) | tables `jobs`, `job_outbox` and their row locks | InsertJob, UpdateJobState, CompleteJob, ResetRunningJobs, the relay's transaction | a settled row stays so; a waiting job is held somewhere |
| Outbox relay (`internal/outbox`) | one open transaction | every 2 s: lock the unprocessed rows, Enqueue each, mark, commit or roll back | every outbox row becomes one entry |
| Worker stream server (`internal/server`) | maps `owner`, `lastSeen`; per stream `inFlight` and a job | Work (ready, heartbeat, result), handleResult, requeue on disconnect, reaper | one worker per job; failures counted exactly; only the owner settles a job; a silent worker loses its job |
| Worker (`cmd/worker`) | the task it executes | ready, execute, heartbeat, result | one task at a time |
| Job service (`internal/service/job_service.go`, `internal/api`) | none of its own | SubmitJob; CancelJob: one read, three writes | a cancelled job is not run, and leaves nothing behind |
| Server process (`cmd/server`) | up or down | boot: ResetRunningJobs, Recover, start; shutdown | a crash at any point loses no job and duplicates none |
| Workflow definitions (`internal/workflow`) | the registry | Normalize, Validate, UnblockedSteps | exactly the runnable files are accepted |
| Workflow runs (`internal/service/workflow_service.go`, `internal/db/workflows.go`) | table `workflow_runs`, the run and step of a job | TriggerWorkflow, Advance, FailWorkflowRun, CancelWorkflowRunAtomic | a step starts after its dependencies and gets their output; no step is forgotten; a run completes with its last step; every run ends |
| Scheduler (`internal/scheduler`) | cron entries | trigger unless a run is active | no scheduled run starts beside an active one |
| API keys, CLI, configuration, logging, cleanup, protocol | - | lookups, input and output | not modelled |

Nothing but Postgres row locks and Redis transactions synchronises these parts.
The relay (every 2 s), the promoter (every second), the reaper (every 10 s), one goroutine
per Work stream and one per HTTP request read and write the same rows, keys and
maps, and a logical operation such as "this job has failed, retry it" is a
sequence of independent Postgres and Redis calls.  What is hard is therefore:

- *interleavings* of a result, a cancellation, the reaper and a disconnect that
  concern the same job (`server.go` 36-47, 107-165, 223-252);
- *crashes* between the two halves of Enqueue, between Redis and Postgres, and
  the two independent recoveries at boot (`redis.go` 112, `jobs.go` 47);
- *partial failure*: the relay's rollback undoes the marks but not the Redis
  commands; Redis errors in `handleResult` are ignored or logged;
- *stale data*: the retry count travels row → payload → handler → row, and
  CancelJob and the reaper write back the count they read earlier;
- *Advance* is a sequence of statements that the handlers of two steps run at
  the same time, once per result and never again (`workflow_service.go` 67-120);
- *cancelled contexts*: some calls run under the stream's context and do
  nothing after a disconnect, others run under `context.Background()`.

The hazards, each with its line and the properties aimed at it, are in
`PROJECT.json`.

## 2. Modules

```
Environment --+-- RedisQueue --+-- OutboxRelay --+
              +-- JobStore  ---+-- JobService  --+-- JobSystem -- JobProperties --+-- MCJobSystem
                   |           +-- WorkServer  --+    JobContract --^             |
                   +---+-- WorkflowService ---------------------------------------+-- WorkflowSystem -- MCWorkflowSystem
Workflow --------------+
    +-- WorkflowFile                                  Scheduler

JobProperties -- JobInvariants -- JobTypeProofs -- JobProofs -- EntryProofs -- ContractProofs -- RetryProofs --+
WorkflowSystem, JobInvariants -- WorkflowInvariants -- WorkflowProofs (on ContractProofs) ---------------------+-- RunProofs
WorkflowFile -- WorkflowFileProofs
```

- **Environment**: jobs, Work streams (`Sessions`), `max_retries`, and a budget
  of failures.  `FaultKinds` says which failures may happen ("crash",
  "disconnect", "stale" heartbeat, "redis" error, "db" error) and `MaxFaults`
  how many; every action that fails takes one from it.  A worker never
  reconnects under the same id (its pid and start time are in it), so a Session
  is used once.
- **RedisQueue**: the five keys.  One operator per command or MULTI/EXEC.
  Lists are sequences; of a payload only `RetryCount` is kept; when a delayed
  job becomes due is a free choice, so every length of backoff is covered.
- **JobStore**: status and retry count of each row, the jobs with an
  unprocessed outbox row, and the rows the relay's transaction has locked.  A
  statement on a locked row waits.
- **OutboxRelay**: `RelayBegin` (SELECT ... FOR UPDATE), per row `RelaySAdd` and
  `RelayExec` (the two halves of Enqueue), `RelayCommit`, `RelayAbort`.  As in
  the code, the payload that is relayed has no retry count.
- **JobService**: `SubmitJob`, and CancelJob as `CancelRead`, `CancelUpdate`,
  `CancelOutbox`, `CancelQueue`.
- **WorkServer**: a program counter per stream handler.  A step ends where the
  code touches Redis, Postgres or a map that another goroutine reads; the
  in-memory `clearOwnership` is joined to the step next to it.  The worker's
  end is `Connect`, `Finish` (with either outcome), `Disconnect`.  The reaper
  is a goroutine with its own counter that keeps the list and the retry counts
  it read at the start of its tick.  `fails` and `succ` are history variables:
  what the executions really did.
- **JobSystem**: everything together, plus `Crash` (memory, streams and the open
  transaction are gone; Postgres and Redis stay), `BootReset`, `BootRecover`.
- **JobContract**: the abstract specification.  Seen through its row, a job is
  pending, dispatched, run again after a failure until `max_retries` is used
  up, put back without charge when its worker is lost, and final once settled.
- **JobProperties**: the properties, grouped by what they assume of the
  environment.  **MCJobSystem** gives them to TLC.
- **Workflow**: `Normalize`, `UnblockedSteps` as operators.  A step ID is a
  number i that stands for `step-i`, the name Normalize makes up, because a
  file may contain such a name itself and the clash has to be caught.  A
  `DependsOn` that is nil differs from one that is empty.
- **WorkflowFile**: one file from Validate (with its depth-first search as a
  state machine: colours, a stack of calls, a position in every dependency
  list) to the end of a run of it in which nothing fails.

- **WorkflowService**: one run of one workflow.  The job of a step is the step's
  position, because the schema lets a step of a run have one job only.
  TriggerWorkflow is `CreateWorkflowRun` and one `TriggerSubmit` per root;
  Advance has a program counter per Work handler and a step per statement
  (`AdvanceWorkflowRun`, `CompleteWorkflowRun`, `GetCompletedStepIndices`,
  `GetSubmittedStepIndices`, and per unblocked step one `AdvanceOutput`, which
  reads the output of its dependency, and one `AdvanceSubmit`, which inserts it);
  `CancelWorkflowRunAtomic` is one transaction that waits for rows the relay
  has locked.  Of the output that is handed to the next step, `chained` keeps
  whether there was one.  `Interventions` says what people may do: cancel the
  run, remove the file before a restart.
- **WorkflowSystem**: WorkflowService composed with the unchanged JobSystem.
  `WorkHandler` is a step of JobSystem's handler that also starts the call which
  handleResult makes (`CallAfter`), and a handler takes its next step only when
  that call has returned.  `Engine` is a step of the call.  A crash ends all
  calls; the boot loads the files after Recover.
- **Scheduler**: the ticks of one cron entry and the requests that trigger the
  same workflow, with the check and the two halves of TriggerWorkflow as
  separate steps.  A run is only active or not.  A run whose first steps were
  not submitted ends only when it is cancelled, and until then every tick skips.

- **JobInvariants**, **WorkflowInvariants**: the inductive invariants of
  section 4, apart from the proofs so that TLC can check them.
- **JobTypeProofs** to **RunProofs**, **WorkflowFileProofs**: lemmas and
  theorems, see section 4.

The definitions named `X_Something` right before a definition `X` are wrong
versions of it, each with a plausible slip.  They are used nowhere; each one,
put in the place of `X`, makes TLC report the property that `PROJECT.json`
pairs it with.

## 3. Runs

The runs have two or three Work streams and `max_retries = 1`: enough for a
job to be retried, to be handed to a second worker, and to exhaust its retries.
Two jobs are used where jobs can affect each other: they share the relay's
transaction, the lists and the streams.  Safety runs use the symmetry of jobs
and of sessions; liveness runs do not.  Deadlock is not checked, because the
system may stop: when all jobs are settled, or when all streams are used up.  In the workflow
runs `max_retries` is 1 for one step (`RetriedJobs`) and 0 for the others.

| Run | Instance | Shows |
|---|---|---|
| `no_failures` | 2 jobs, 2 streams, one job cancellable, no faults, `FairSpec` | `ExactRetries`: a job given up failed exactly `max_retries + 1` times. `Settles`: every submitted job is settled. `QueueDrains`: in the end Redis holds nothing of any job, however a cancellation raced with the relay, the promoter, a result and a retry. |
| `lost_streams` | 2 jobs, 3 streams, any 2 disconnects | `ImplementsContract`: the rows move as JobContract allows, with streams that break anywhere and jobs handed to a second worker. `NothingLost`: a job whose row is waiting has its outbox row or an entry in Redis (an entry in the processing list that no handler has in hand counts: such a job waits for the next restart, which is what `recovery` is about). |
| `failures` | 2 jobs, 2 streams, any 2 crashes, disconnects, Redis or Postgres errors | `Exclusive`: no job is executed by two connected workers at once. `OneEntry`: Redis has at most one entry of a job, also when ResetRunningJobs and Recover both put it back. `LostOnlyTorn`: a waiting job is held by the outbox or by Redis; the only exception is an id that an interrupted Enqueue left in the queued set. `AttemptsBounded`: a job that ResetRunningJobs puts back in the outbox starts again with a payload whose count is 0, and row and payload are raised in two steps; still, each fault adds at most `max_retries + 2` failed executions. The bound is reached with one fault; with two faults it is reached with three streams. |
| `recovery` | 1 job, 3 streams, any 2 crashes, disconnects, Redis or Postgres errors, `FairSpec` | `RestartSettles`: "interrupted jobs are recovered when the server restarts" (README). Whatever a broken stream, an error or the crash itself left behind (an entry in processing that no handler has, a row that is "running" for nobody, a retry that was never scheduled), the job is settled after the restart, if the server stays up and a worker is there; the exception is again the id of an interrupted Enqueue. Two faults, because the damage is one and the restart another. |
| `silent_worker` | 1 job, 2 streams, one heartbeat timeout, `HungSpec` | `StaleReclaimed`: a worker that hangs, be it for ever, loses its job, and the job is settled or scheduled for another worker. |
| `all_failures` | a chain of 2 steps, the first one cancellable and retried, 2 streams, one fault of any kind, the file possibly gone after a restart | `TypeOK`, `WorkflowTypeOK`, `RetryBound`, `FailedExhausted`, `CompletedHonestly`, `OwnerHandlesJob`, `DelayedBacked`: what survives everything (one fault is enough because the theorems below cover every instance of JobSystem). `StepsInOrder`: a step is submitted only after an execution of every dependency succeeded. `FailedForAReason`: a run is failed only if a step used up its retries or the definition was gone. `OrphanFailed`: when the server was restarted without the workflow's file, an Advance that returns without an error leaves the run ended. |
| `workflow_run` | a diamond of 4 steps, one of them retried, 2 streams, the run may be cancelled, no faults, `WFairSpec` | `UnblockedSubmitted`: when the Advances have returned no step of a running run is unblocked and not submitted, however the Advances of the two branches interleaved. `StepsInOrder`. `CompletedWhenDone`: a run is completed only when every step was executed with success. `OutputChained`: a step with exactly one dependency was submitted with its output. `RunEnds`: the run ends. `EndedRunSettles`: after the end, also after a cancellation that left entries in Redis, all submitted steps get settled. The diamond is the smallest workflow with a fan-out, two concurrent Advances, a join that both may try to submit, and steps with one and with two dependencies. |
| `workflow_files` | every file with at most 3 steps, each with at most 2 dependencies: 178,809 files | `ValidateExact`: Validate accepts exactly the files with unique IDs whose steps can be ordered (compared with the existence of a ranking). `NormalizeOnce`: Normalize is idempotent, which is what makes its later calls on a shared slice free of writes. `RunsToTheEnd`: the run of an accepted file completes with its last step. Three steps with two dependencies contain self-loops, cycles of length 2 and 3, diamonds' shared steps, repeated dependencies and made-up names that clash. |

The remaining runs are disagreements between the code and what its comments,
tests or README say; TLC finds a shortest behaviour for each.

| Run | Property violated | Behaviour |
|---|---|---|
| `late_writes` | `LateWritesRejected` (server.go: "Reject if already settled (cancel/reaper/duplicate result race)"; server_test: "Worker A wakes up late and submits its stale result — must be rejected") | The shortest: the run is cancelled after a handler became the owner of a step and before it writes "running", which overwrites "cancelled". The checks of handleResult and the writes they protect are separate statements, so every late write of the list below breaks it as well. |
| `recounted_step` | `CompletedWhenDone` (workflow_service_test: `TestAdvance_CompletesRunOnLastStep`; relay_test: "relay should not re-enqueue already-processed entry") | The Enqueue of a later row of the relay's batch fails, the rollback unmarks the earlier rows, and a step of them that has been completed meanwhile is enqueued and run again. Its second result advances the run a second time: `current_step` reaches `total_steps` while a step was never executed, and the run is completed. |
| `lost_advance` | `UnblockedSubmitted` (README: "downstream steps run once all their dependencies complete") | The worker disconnects after it sent its result. The step is completed and counted, but InsertWorkflowStep runs under the stream's context and fails; nothing calls Advance again. |
| `cron_overlap` | `CronSkips` (README: "Cron-triggered runs will not start if a previous run of the same workflow is still active") | A request creates a run after the tick has checked and before it triggers. |

Where these properties do hold they are checked or proved, so that the
disagreement is confined: `CompletedWhenDone` and `UnblockedSubmitted` in
`workflow_run` and as theorems; of `LateWritesRejected`, the part about rows as
`ImplementsContract` in `lost_streams`, and the part about owners as the theorem
`RequeueOnlyOwnHolds`, which leaves the silent worker and CancelJob.
`CronSkips` has no such form: nothing in the code would make it hold.

Other behaviour of the same kind was seen with TLC while these models were
written, and has no run of its own.  Late writes, which `LateWritesRejected`
forbids too:

- CancelJob falls between Consume and the "running" update, or between GetJob
  and CompleteJob: both overwrite "cancelled";
- a late result passes the ownership check; then the reaper reclaims the job,
  which it had listed before, and a second worker becomes the owner.  The first
  handler writes the row and clears the second one's ownership;
- the reaper cannot reset the handler's inFlight: when the stream of the silent
  worker breaks later, the handler takes the job from its new owner;
- the last failure of a job is handled while the reaper reclaims it: "failed" is
  overwritten with "pending", the reaper's Retry schedules the job, and the
  handler's Fail removes it from Redis;
- a run is cancelled while the result of its last step is handled:
  CompleteWorkflowRun has no condition on the status.

Jobs and steps that get stuck or go wrong:

- the server stops between the SADD and the transaction of Enqueue: the next
  relay tick finds the id in the queued set, stores the payload, does not push
  and marks the row processed.  This is the exception in `LostOnlyTorn` and
  `RestartSettles`, the one way in which a restart loses a job;
- a stream's context is cancelled while BRPOPLPUSH waits: the pop still happens,
  HGET fails, and the job stays in the processing list until a restart;
- a worker disconnects after it reported a failure: the row is marked retrying,
  but Retry runs under the stream's context and does nothing until a restart;
- `CompletedWhenDone` also fails with one crash (a duplicate delivery after the
  restart) or one Postgres error at CompleteJob followed by a crash;
- `OutputChained` fails when a completed step is executed again (as in
  `recounted_step`) between Advance's read of the completed steps and its read
  of the output, or when a late CancelJob overwrites the "completed";
- cancelling a single step with CancelJob leaves its run running for ever;
- a heartbeat that passed the ownership check stores its lastSeen entry after
  clearOwnership removed it.  The entry stays until the job has an owner again;
  it does no harm, because reaperTick asks for an owner too.

### Fairness

`Fairness` in JobSystem: weak fairness of the relay, the promoter and the
reaper (tickers of `time.NewTicker` that run for the life of the process), of
every stream handler (a goroutine is scheduled; its Redis and Postgres calls
return), of every connected worker (commands end, which
`Settles` and `QueueDrains` need), of a CancelJob that has begun (the handler
runs to its end) and of the restart.  Nobody has to submit or cancel, no failure
has to happen.  The promoter's fairness stands for the clock: a delayed job is
due some day.  `HungSpec` drops the assumption that commands
end, and demands no heartbeat of anybody: without that, `StaleReclaimed` would
hold because the silent worker is heard from again.
`WFairness` in WorkflowSystem is the same for the composed steps, with weak
fairness of each Advance under way and of a TriggerWorkflow that has begun.
Nobody has to trigger or to cancel a run.
WorkflowFile's `FairSpec` is weak fairness of its next-state relation: Validate
is a loop that runs to its end, jobs end, and a registered workflow is triggered.

## 4. Proofs

Every theorem is for all values of the constants: any finite sets of jobs and
sessions, any `max_retries`, any number of failures, any valid workflow.  Some
need an environment in which certain things do not happen.  Such a hypothesis is
a definition about `FaultKinds` and `Cancellable`, and is an ASSUME of the
theorem:

| Hypothesis | Says | Why it cannot be dropped |
|---|---|---|
| none | any failure, any CancelJob | |
| `Steady` | no heartbeat timeouts, no CancelJob | the reaper gives a job to a second worker while the first one still executes it; a CancelJob whose Postgres statement or Redis transaction fails removes an entry that is in use |
| `Intact` | Steady, neither crashes nor Redis errors | an Enqueue that is cut short between its SADD and its transaction loses the job |
| `LostStreams` | nothing but broken streams, no CancelJob | a Postgres error leaves a row behind what Redis holds; for runs, `recounted_step` |
| `Unfailing` | no failures, any CancelJob | the result of an execution that failed can be lost with its stream, so that the job fails once more than is counted |
| `Faultless` | no failures, no CancelJob | `lost_advance`; a step cancelled by itself |

| Theorem | Hypothesis | Statement |
|---|---|---|
| `TypeCorrect` (JobTypeProofs) | none | `Spec => []TypeOK` |
| `RetryBoundHolds` (JobProofs) | none | no retry count of a row or a payload exceeds `max_retries` |
| `FailedExhaustedHolds` | none | a job marked failed has failed at least `max_retries + 1` times |
| `CompletedHonestlyHolds` | none | a job marked completed has an execution that succeeded |
| `OwnerHandlesJobHolds` | none | the owner of a job is a handler that has the job in hand and will clear the entry |
| `DelayedBackedHolds` | none | a delayed job has its payload and its entry in the queued set |
| `ExclusiveHolds` (EntryProofs) | Steady | no two connected workers execute the same job |
| `OneEntryHolds` | Steady | Redis has at most one entry of a job |
| `RequeueOnlyOwnHolds` | Steady | a handler puts back only a job that nobody else owns (an action property): crashes, disconnects, Redis and Postgres errors do not break it, which leaves the silent worker and CancelJob |
| `LostOnlyTornHolds` | Steady | a waiting job is held somewhere, but for an id that an interrupted Enqueue left in the queued set |
| `NothingLostHolds` | Intact | a waiting job has its outbox row or an entry in Redis |
| `ContractImplemented` (ContractProofs) | LostStreams | JobSystem implements JobContract |
| `ExactRetriesHolds` (RetryProofs) | Unfailing | a job marked failed has failed exactly `max_retries + 1` times |
| `StepsAreSafeJobs` (WorkflowProofs) | none | what JobProofs shows of jobs, of the steps of a run |
| `WorkflowTypeCorrect` | none | `WSpec => []WorkflowTypeOK` |
| `StepsInOrderHolds` | none | a step is submitted only after an execution of each of its dependencies succeeded |
| `FailedForAReasonHolds` | none | a run is failed only if a step used up its retries or the definition was gone |
| `OrphanFailedHolds` | none | an Advance that returns without an error, after a restart without the workflow's file, leaves the run ended (an action property) |
| `StepsHeldOnce` (RunProofs) | Steady | Exclusive, OneEntry and LostOnlyTorn of the steps of a run |
| `StepsNotLost` | Intact | NothingLost of the steps of a run |
| `OutputChainedHolds` | LostStreams | a step with one dependency is submitted with its output |
| `CompletedWhenDoneHolds` | LostStreams | a run is completed only when every step of it has succeeded |
| `UnblockedSubmittedHolds` | Faultless | when all Advances have returned, no step of a running run is unblocked and not submitted |
| `FileTypeCorrect` (WorkflowFileProofs) | none | `FairSpec => []TypeOK` of WorkflowFile |
| `ValidateExactHolds` | none | Validate accepts exactly the files with unique IDs whose steps can be ordered |
| `NormalizeOnceHolds` | none | Normalize changes nothing after Validate |

Beside these, the constants have the assumptions of the modules that declare
them: `max_retries` is a function into the naturals (the schema has a CHECK),
`Jobs` and `Sessions` are finite, `Nil` is neither, the fault kinds are known,
`Cancellable` is a set of jobs; and `FlowAssumption` says of the workflow of a
run what LoadFromDir guarantees of a registered one: it is normalized and its
IDs are unique.  (That its steps can be ordered is not needed for safety.)

None of the properties is inductive.  The strengthenings were checked with TLC
on small instances of their environment before they were proved.

**Jobs, whatever happens** (JobTypeProofs, JobProofs)

- `Core` is TypeOK together with `SessionOK`: a handler's program counter
  determines whether it has a job, whether inFlight is set, what its result can
  be, and whether its worker can be executing.  It is needed even for types:
  `fails[job[s]]` and `payloads[job[s]]` make sense only because a worker that
  executes, and a handler that has popped, has a job and not `Nil`.  `CoreStep`
  splits by what a step touches: `QueueTypeStep`, `StoreTypeStep`, then the
  handlers, the workers, the reaper, the relay, the cancellations and the crash.
- `Counts`: the retry count exists in five kinds of copies (row, payload,
  handler, CancelJob, reaper).  `CopiesStep` shows that every step only copies
  an existing count, resets it to 0, or raises it in `MarkRetrying`, where the
  handler has read a count below the limit.  RetryBound follows.
- `Charged`: each copy of the count of job j plus the number of failures of j
  that are reported and not yet charged (`Uncharged(j)`) is at most the number
  of executions of j that failed.  `MarkRetrying` takes a session out of
  `Uncharged` in the step in which it raises the count, so no failure is
  charged twice, by whatever mixture of stale counts, second workers and
  reclaimed jobs.  FailedExhausted follows, because `MarkFailed` is reached
  only with a count at the limit and one failure still uncharged.
- `Results`: a result "success" stands for an execution of the job that the
  handler has in hand.  CompletedHonestly follows.
- OwnerHandlesJob and DelayedBacked are inductive relative to `Core`.

**The entry of a job as a token** (EntryProofs)

- `Token` (SingleEntry, SingleHolder, Quiet): ready, processing and delayed are
  disjoint and have no repetitions; whatever is in them is in the queued set,
  so that Enqueue pushes only what is not there; and a handler that has a job
  in hand has its entry in processing, and is the only one.  A crash ends all
  handlers before Recover moves their entries back.  Exclusive and OneEntry
  follow; with `OwnHold` (nobody else becomes the owner of a job in hand) also
  RequeueOnlyOwn.
- `Kept` (Worked, Relayed, Accounted): a waiting job is in the outbox or in the
  queued set, because what the relay's transaction will mark has been added,
  and because the row of a job in execution is not a waiting one.
- `Backed`: without crashes and Redis errors the queued set has no id without an
  entry, but the one the relay is about to push.  NothingLost follows.

**The rows** (ContractProofs)

- `Orderly` says that the row, the payload, the handler and the owner of a job
  agree at each place in the handler's code: a job that is not relayed yet is
  nowhere but in its row (`Fresh`), one in ready or delayed waits (`InWaiting`),
  and for one in hand the program counter says its status (`InHand`).  With it
  every step maps to a step of JobContract or leaves its variables unchanged.

**The number of failures** (RetryProofs)

- `AllCounted` is the converse of `Charged`: the next execution of a job is given
  the count of all its failures so far.  It has to follow two counts, since the
  execution is given the one in the payload, and handleResult reads the one in
  the row, which a CancelJob may have set back; that row is then a settled one,
  and handleResult drops the result (`HandlerCounts`).  `OneChance` is what is
  left of the token when CancelJob may remove entries that are in use and
  promoteDueJobs may push what was removed: at most one entry or one handler of
  a job that was relayed, and none before.  `Calm`, `Connected` and `Locking`
  exclude the steps that only a failure begins.

**A run** (WorkflowProofs, RunProofs)

- Every step of WorkflowSystem is a step of JobSystem, or does to the jobs what
  `EngineEffect` says: it inserts a row that was not there, or cancels waiting
  rows.  Each invariant of JobSystem is shown to survive that as well.
- `RowsExist`: every id that Redis or a program has in hand has a row.
  `SubmitsUnlocked`: what an Advance has read as completed has succeeded, by
  CompletedHonestly.  `FailsForAReason`: handleResult comes to FailWorkflowRun
  only with a job that used up its retries.  `OrphanCalls`: no Advance spans a
  restart, so that without the file none is past the question for it.
- While streams break at most, a row that is completed stays so (`RowEffect`), so
  that what an Advance has read remains true (`ReadsHold`), and each step is
  completed, and thus counted, once: `CountedOnce` says that `current_step` and
  the handlers about to raise it are together at most the completed steps.
  `LastCounted`: only who raised it to `total_steps` completes the run.
  `OutputsRead`: an Advance that is about to insert a step with one dependency
  has found the output of it.
- `NoneForgotten`: for each unblocked step some Advance will submit it or has
  still to read what is completed.  Of two Advances that unblock a join
  together, the later one to read sees both.

**A file of any size** (WorkflowFileProofs)

- Both directions of ValidateExact are invariants of the search instead of an
  induction over paths.  `Finished`: the black steps can be ordered, namely by
  the time at which dfs finished them; when dfs(p) returns, p gets the next
  number, because all that it has looked at is black (`Looked`).  `Descending`:
  any order of all steps descends along the stack of calls; so when dfs meets a
  gray step, which is on the stack (`GrayOnStack`), there is none.

Only model-checked: liveness (`Settles`, `QueueDrains`, `StaleReclaimed`,
`RestartSettles`, `RunEnds`, `EndedRunSettles`, `RunsToTheEnd`), which is beyond
this prover, and `AttemptsBounded`, whose induction would have to say for each
place in the code how far row and payload may have drifted apart.

## 5. What is not modelled

- Several runs at once: WorkflowSystem has one run and no jobs beside its steps;
  runs share nothing but the queue, and jobs that share it are in JobSystem.
- A workflow file that is changed, rather than removed, between two starts of
  the server while a run of it is active, and one that is removed and comes back
  at a later start.
- A job row that CancelWorkflowRunAtomic does not see because it became pending
  after its statement began and before it got the locks it waits for: the same
  row is left alone when the transaction is a little earlier.
- Time: ages are "fresh" or "stale", backoff and promotion times are free.
- A context that is cancelled in the middle of a single Redis or Postgres call
  whose effect still takes place, except for the waiting BRPOPLPUSH.
- What cron makes of a schedule: ticks come when they like.
- Several CancelJob requests for one job at the same moment: they are taken one
  at a time.
- Graceful shutdown (`cmd/server/main.go` 115-125, where handlers go on after the
  relay, the promoter and the reaper have stopped) is a crash: GracefulStop waits for streams whose workers do
  not leave, so the process is ended by its supervisor.
- Contents: commands, what an output says, YAML, JSON, HTTP, API keys.
- CleanupProcessedOutbox, which deletes rows nothing reads.

## 6. Plan

All parts of the plan are modelled, and every safety property of the passing
runs but `AttemptsBounded` is a theorem.  What could still be proved:

1. weaker hypotheses: `ImplementsContract` with CancelJob, for a contract in
   which "cancelled" may be overwritten by "running" and "completed";
   `CompletedWhenDone` with Postgres errors;
2. `ExactRetries` of the steps of a run;
3. `Scheduler`: two scheduled runs overlap only through a request;
4. `AttemptsBounded`.

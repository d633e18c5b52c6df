------------------------------- MODULE RunProofs -------------------------------
(*****************************************************************************)
(* More theorems about a workflow run: its steps as jobs under the failures  *)
(* of EntryProofs; and, while streams break at most, what Advance does with  *)
(* what it reads.  Completed steps stay completed there (RowEffect), so that *)
(* an answer that has grown old meanwhile is still true, and what remains to *)
(* be shown is that it is read late enough.                                  *)
(*****************************************************************************)
EXTENDS WorkflowProofs, RetryProofs
--------------------------------------------------------------------------------
(*****************************************************************************)
(* The steps of a run as jobs, without silent workers.                       *)
(*****************************************************************************)
\* The engine gives a row its outbox row with it, and takes the outbox rows
\* away of the rows that it cancels.
LEMMA KeptEngine ==
    ASSUME Core, Kept, EngineEffect
    PROVE  Kept'
<1>a. /\ UNCHANGED <<queued, relay, locked, pc, job>>
      /\ status \in [Jobs -> Statuses] /\ StepJobs \subseteq Jobs
      /\ job \in [Sessions -> Jobs \cup {Nil}] /\ locked \subseteq Jobs
      /\ relay.todo \subseteq Jobs /\ relay.pc = "exec" => relay.job \in Jobs
  BY FlowAssumption
     DEF EngineEffect, InsertJob, storeVars, queueVars, redisVars, relayVars, serverVars,
         handlerVars, Core, TypeOK, StoreTypeOK, ServerTypeOK, RelayTypeOK, StepJobs
<1> DEFINE Writes ==
             /\ locked \subseteq outbox' /\ (\A j \in outbox' : status'[j] # "none")
             /\ \A j \in Jobs :
                   /\ status[j] \notin {"none", "pending", "retrying"} =>
                         status'[j] = status[j]
                   /\ Waiting(j)' => \/ Waiting(j) /\ (j \in outbox => j \in outbox')
                                     \/ status[j] = "none" /\ j \in outbox'
<1>b. Writes
  <2> USE DEF Kept, Relayed, Waiting
  <2>1. CASE UNCHANGED storeVars
    BY <1>a, <2>1 DEF storeVars
  <2>2. ASSUME NEW p \in StepJobs, InsertJob(p)
        PROVE  Writes
    BY <1>a, <2>2 DEF InsertJob
  <2>3. ASSUME NEW cancelled \in SUBSET {j \in Jobs : Waiting(j)},
               cancelled \cap locked = {},
               status' = [j \in Jobs |-> IF j \in cancelled THEN "cancelled"
                                                            ELSE status[j]],
               outbox' = outbox \ cancelled
        PROVE  Writes
    BY <1>a, <2>3 DEF Core, TypeOK, StoreTypeOK
  <2> QED BY <2>1, <2>2, <2>3 DEF EngineEffect
<1>1. Worked'
  BY <1>a, <1>b DEF Kept, Worked, Working, Holds
<1>2. Relayed'
  BY <1>a, <1>b DEF Kept, Relayed
<1>3. Accounted'
  BY <1>a, <1>b DEF Kept, Accounted
<1> QED BY <1>1, <1>2, <1>3 DEF Kept

\* So the steps of a run keep what EntryProofs shows of jobs.
LEMMA StepsKept ==
    ASSUME Steady
    PROVE  WSpec => [](JobsSafe /\ Undisturbed /\ Token /\ Kept)
<1>1. WInit => Undisturbed /\ Token /\ Kept
  BY TokenInit, KeptInit DEF WInit
<1>2. ASSUME JobsSafe, Undisturbed, Token, Kept, [WNext]_allVars
      PROVE  Undisturbed' /\ Token' /\ Kept'
  <2>1. CASE JobMoves
    BY <1>2, <2>1, UndisturbedStep, TokenStep, KeptStep DEF JobsSafe, JobMoves
  <2>2. CASE EngineEffect
    <3>1. UNCHANGED <<ready, processing, delayed, queued, due, relay, cancelPc,
                      lastSeen, pc, job, reaper, server>>
      BY <2>2 DEF EngineEffect, queueVars, redisVars, relayVars, serviceVars, serverVars,
                  memoryVars, handlerVars
    <3>2. Undisturbed' /\ Token'
      BY <1>2, <3>1 DEF Undisturbed, Token, SingleEntry, SingleHolder, Quiet, Entered,
                        Holds
    <3> QED BY <1>2, <2>2, <3>2, KeptEngine DEF JobsSafe
  <2> QED BY <1>2, <2>1, <2>2, WStep
<1> QED BY <1>1, <1>2, JobsSafeInvariant, PTL DEF WSpec

\* Without silent workers two connected workers never execute the same step of a
\* run at the same time, Redis never holds two entries of a step, and a step is
\* lost in no way but an Enqueue that was cut short: whatever else fails, and
\* also when the run is cancelled under way (CancelWorkflowRunAtomic leaves
\* Redis alone, and removes outbox rows).
THEOREM StepsHeldOnce ==
    ASSUME Steady
    PROVE  WSpec => [](Exclusive /\ OneEntry /\ LostOnlyTorn)
<1>1. JobsSafe /\ Token /\ Kept => Exclusive /\ OneEntry /\ LostOnlyTorn
  BY TokenHeldOnce, KeptTorn DEF JobsSafe
<1> QED BY <1>1, StepsKept, PTL

\* README: no job is lost.  While neither the server nor Redis fails, and no
\* worker falls silent, this holds of the steps of a run, also when streams
\* break, statements fail and the run is cancelled: a step whose row is waiting
\* has its outbox row or an entry in Redis.
THEOREM StepsNotLost ==
    ASSUME Intact
    PROVE  WSpec => []NothingLost
<1>1. WInit => Backed
  BY BackedInit DEF WInit
<1>2. ASSUME JobsSafe, Undisturbed, Token, Backed, [WNext]_allVars
      PROVE  Backed'
  <2>1. CASE JobMoves
    BY <1>2, <2>1, BackedStep DEF JobsSafe, JobMoves
  <2>2. CASE EngineEffect
    BY <1>2, <2>2
       DEF EngineEffect, queueVars, redisVars, relayVars, serverVars, handlerVars,
           Backed, Entered
  <2> QED BY <1>2, <2>1, <2>2, WStep
<1>3. WSpec => [](JobsSafe /\ Undisturbed /\ Token /\ Kept)
  BY StepsKept DEF Intact
<1> QED BY <1>1, <1>2, <1>3, BackedHeld, PTL DEF WSpec
--------------------------------------------------------------------------------
(*****************************************************************************)
(* While streams break at most: rows that are completed stay so.             *)
(*****************************************************************************)
\* CancelWorkflowRunAtomic leaves Redis, the relay and the handlers alone.
LEMMA TidyCancel ==
    ASSUME JobsSafe, Tidy, EngineEffect,
           NEW cancelled \in SUBSET {j \in Jobs : Waiting(j)},
           cancelled \cap locked = {},
           status' = [j \in Jobs |-> IF j \in cancelled THEN "cancelled" ELSE status[j]],
           outbox' = outbox \ cancelled,
           UNCHANGED <<retryCount, locked>>
    PROVE  Tidy'
<1>a. /\ UNCHANGED <<ready, processing, delayed, payloads, queued, due, relay, cancelPc,
                     owner, lastSeen, pc, job, rc, reaper, server>>
      /\ outbox \subseteq Jobs /\ status \in [Jobs -> Statuses]
      /\ ready \in Seq(Jobs) /\ delayed \subseteq Jobs /\ locked \subseteq Jobs
      /\ job \in [Sessions -> Jobs \cup {Nil}] /\ relay.todo \subseteq Jobs
      /\ relay.pc = "exec" => relay.job \in Jobs
  BY DEF EngineEffect, queueVars, redisVars, relayVars, serviceVars, serverVars,
         memoryVars, handlerVars, Tidy, Core, TypeOK, QueueTypeOK, StoreTypeOK,
         ServerTypeOK, RelayTypeOK
<1>b. \A j \in Jobs : /\ Waiting(j)' => Waiting(j) /\ j \notin cancelled
                      /\ Open(j) => Open(j)'
                      /\ status'[j] = "none" => status[j] = "none"
                      /\ status[j] = "running" => status'[j] = "running"
  BY <1>a DEF Waiting, Open
<1>1. Core' /\ Counts'
  BY JobsSafeEngine DEF JobsSafe
<1>2. Undisturbed' /\ Token'
  BY <1>a DEF Tidy, Undisturbed, Token, SingleEntry, SingleHolder, Quiet, Entered, Holds
<1>3. Kept'
  BY KeptEngine DEF Tidy
<1>4. Orderly'
  <2>1. Fresh'
    <3> SUFFICES ASSUME NEW j \in Jobs, status'[j] = "none" \/ Unrelayed(j)'
                 PROVE  /\ status'[j] \in {"none", "pending"}
                        /\ retryCount[j] = 0
                        /\ j \notin Entered
                        /\ j \in queued => relay.pc = "exec" /\ relay.job = j
                        /\ \A s \in Sessions : job[s] # j
      BY <1>a DEF Fresh, Entered
    <3>1. j \notin cancelled
      BY DEF Unrelayed
    <3>2. status[j] = "none" \/ Unrelayed(j)
      BY <1>a, <1>b DEF Unrelayed
    <3> QED BY <3>1, <3>2 DEF Tidy, Orderly, Fresh
  <2>2. InWaiting'
    <3>1. ToSet(ready) \cup delayed \subseteq Jobs
      BY <1>a DEF ToSet
    <3> QED BY <1>a, <1>b, <3>1 DEF Tidy, Orderly, InWaiting
  <2>3. InHand'
    <3>1. \A s \in Sessions : job[s] # Nil => StageOf(s, job[s])'
      BY <1>a, <1>b DEF Tidy, Orderly, InHand, StageOf
    <3> QED BY <1>a, <3>1 DEF Tidy, Orderly, InHand
  <2> QED BY <1>a, <2>1, <2>2, <2>3 DEF Tidy, Orderly
<1> QED BY <1>1, <1>2, <1>3, <1>4 DEF Tidy

\* A step of the engine is a step of the job system, as far as that sees it, or
\* the cancellation of the run.
LEMMA TidyRunStep ==
    ASSUME LostStreams, JobsSafe, Tidy, [WNext]_allVars
    PROVE  Tidy'
<1>1. CASE JobMoves
  BY <1>1, TidyStep DEF JobMoves
<1>2. CASE EngineEffect
  <2>a. NoFault /\ server = "up"
    BY <1>2, OnlyDisconnect DEF EngineEffect, Tidy, Orderly
  <2>1. CASE UNCHANGED storeVars
    <3>1. UNCHANGED vars
      BY <1>2, <2>a, <2>1 DEF EngineEffect, vars, NoFault
    <3> QED BY <3>1, TidyStep
  <2>2. ASSUME NEW p \in StepJobs, InsertJob(p)
        PROVE  Tidy'
    <3>1. Up(Submit(p)) /\ p \in Jobs
      BY <1>2, <2>a, <2>2, FlowAssumption
         DEF EngineEffect, Up, Submit, SubmitJob, queueVars, StepJobs
    <3> QED BY <3>1, TidyStep DEF Next
  <2>3. ASSUME NEW cancelled \in SUBSET {j \in Jobs : Waiting(j)},
               cancelled \cap locked = {},
               status' = [j \in Jobs |-> IF j \in cancelled THEN "cancelled"
                                                            ELSE status[j]],
               outbox' = outbox \ cancelled,
               UNCHANGED <<retryCount, locked>>
        PROVE  Tidy'
    BY <1>2, <2>3, TidyCancel
  <2> QED BY <1>2, <2>1, <2>2, <2>3 DEF EngineEffect
<1> QED BY <1>1, <1>2, WStep

\* Completed rows stay so, and a row becomes completed only by the handler that
\* has the job in hand, at the end of handleResult, from "running".
RowEffect ==
    \A j \in Jobs :
        /\ status[j] = "completed" => status'[j] = "completed"
        /\ status[j] # "completed" /\ status'[j] = "completed" =>
              \E s \in Sessions : Handler(s) /\ pc[s] = "complete" /\ job[s] = j

\* The only statements that write rows are those of the handlers, of
\* InsertWorkflowStep and of CancelWorkflowRunAtomic.
LEMMA RowEffectStep ==
    ASSUME LostStreams, Tidy, JobMoves \/ EngineEffect
    PROVE  RowEffect
<1>a. status \in [Jobs -> Statuses] /\ Core /\ Undisturbed
  BY DEF Tidy, Core, TypeOK, StoreTypeOK
<1>1. CASE UNCHANGED status
  BY <1>1 DEF RowEffect
<1>2. CASE EngineEffect
  BY <1>a, <1>2 DEF EngineEffect, InsertJob, RowEffect, Waiting, storeVars
<1>3. ASSUME NEW s \in Sessions, Handler(s)
      PROVE  RowEffect
  <2>a. SessionOK(s) /\ Nil \notin Jobs /\ ~Fault("db")
    BY <1>a, OnlyDisconnect, NilAssumption DEF Core
  <2>b. job[s] \in Jobs => StageOf(s, job[s])
    BY <2>a DEF Tidy, Orderly, InHand
  <2>1. CASE pc[s] = "complete"
    <3>1. job[s] \in Jobs
      BY <2>a, <2>1 DEF SessionOK
    <3>2. \A j \in Jobs : j # job[s] => status'[j] = status[j]
      BY <1>3, <1>a, HandlerScopeStep DEF HandlerScope
    <3> QED BY <1>a, <1>3, <2>1, <2>b, <3>1, <3>2 DEF RowEffect, StageOf
  <2>2. CASE pc[s] # "complete"
    <3>1. \A j \in Jobs : j # job[s] => status'[j] = status[j]
      BY <1>3, <1>a, HandlerScopeStep DEF HandlerScope
    <3>2. job[s] \in Jobs => \/ status'[job[s]] = status[job[s]]
                             \/ /\ status[job[s]] # "completed"
                                /\ status'[job[s]] # "completed"
      <4>1. CASE SetRunning(s)
        BY <1>a, <2>a, <2>b, <4>1 DEF SetRunning, UpdateJobState, StageOf, Open, Waiting
      <4>2. CASE RequeueDb(s)
        BY <1>a, <2>a, <2>b, <4>2 DEF RequeueDb, TryDb, UpdateJobState, StageOf
      <4>3. CASE MarkRetrying(s)
        BY <1>a, <2>a, <2>b, <4>3 DEF MarkRetrying, TryDb, UpdateJobState, StageOf
      <4>4. CASE MarkFailed(s)
        BY <1>a, <2>a, <2>b, <4>4 DEF MarkFailed, TryDb, UpdateJobState, StageOf
      <4>5. CASE ~(\/ SetRunning(s) \/ RequeueDb(s) \/ MarkRetrying(s) \/ MarkFailed(s))
        BY <1>3, <2>2, <4>5
           DEF Handler, HandlerStep, RecvReady, RecvError, RecvHeartbeat,
               recordHeartbeat, RecvResult, Pop, ConsumeError, HGet, Drop,
               StoreOwner, Send, RequeueRedis, GetJob, AckResult, CompleteResult,
               RetryResult, FailResult, storeVars
      <4> QED BY <4>1, <4>2, <4>3, <4>4, <4>5
    <3> QED BY <3>1, <3>2 DEF RowEffect
  <2> QED BY <2>1, <2>2
<1>4. CASE JobMoves
  <2>1. SteadyNext
    BY <1>a, <1>4, OnlyDisconnect, SteadySteps DEF JobMoves
  <2>2. ASSUME NEW j \in Jobs, Submit(j) PROVE RowEffect
    BY <1>a, <2>2 DEF Submit, SubmitJob, InsertJob, RowEffect
  <2>3. ASSUME NEW s \in Sessions, Worker(s) \/ Disconnect(s)
        PROVE  UNCHANGED status
    BY <2>3 DEF Worker, Connect, Finish, Disconnect, storeVars
  <2>4. Relay \/ Promote => UNCHANGED status
    BY DEF Relay, RelayStep, RelayBegin, GetUnprocessedOutbox, RelaySAdd,
           RelayExec, RelayCommit, CommitOutbox, RelayAbort, Rollback, Promote,
           storeVars
  <2>5. ~Boot /\ ~Crash
    BY OnlyDisconnect DEF Tidy, Orderly, Boot, BootReset, BootRecover, Crash
  <2>6. UNCHANGED vars => UNCHANGED status
    BY DEF vars, storeVars
  <2> QED BY <1>1, <1>3, <2>1, <2>2, <2>3, <2>4, <2>5, <2>6 DEF SteadyNext
<1> QED BY <1>2, <1>4

\* Completed steps stay so under every step of the server with a run.
LEMMA CompletedStays ==
    ASSUME LostStreams, Tidy, [WNext]_allVars
    PROVE  /\ CompletedSteps \subseteq CompletedSteps'
           /\ IDsOf(CompletedSteps) \subseteq IDsOf(CompletedSteps)'
<1>1. RowEffect /\ StepJobs \subseteq Jobs
  BY WStep, RowEffectStep, FlowAssumption DEF StepJobs
<1>2. CompletedSteps \subseteq CompletedSteps'
  BY <1>1 DEF RowEffect, CompletedSteps
<1> QED BY <1>2 DEF IDsOf

\* What an Advance has read stays so, and what it reads is so.
LEMMA ReadsHoldStep ==
    ASSUME LostStreams, Tidy, WorkflowTypeOK, ReadsHold, [WNext]_allVars
    PROVE  ReadsHold'
<1> DEFINE Done == IDsOf(CompletedSteps)
           Fine(c) == /\ \A p \in c.todo : ToSet(Deps(wf, p)) \subseteq Done'
                      /\ c.completedIDs \subseteq Done'
<1>a. adv \in [Sessions -> Calls] /\ Done \subseteq Done'
  BY CompletedStays DEF WorkflowTypeOK, Calls
<1> HIDE DEF Done
<1>c. \A s \in Sessions : Fine(adv[s])
  BY <1>a DEF ReadsHold, Done
<1>d. Fine(NoCall)
  BY DEF NoCall
<1>e. ASSUME \A p \in trigger' : ToSet(Deps(wf, p)) = {},
             \A s \in Sessions : Fine(adv'[s])
      PROVE  ReadsHold'
  BY <1>e DEF ReadsHold, Done
<1>f. \A p \in trigger : ToSet(Deps(wf, p)) = {}
  BY DEF ReadsHold
<1> HIDE DEF Fine
<1>g. ASSUME trigger' \subseteq trigger,
             NEW s \in Sessions, NEW c, Fine(c), adv' = [adv EXCEPT ![s] = c]
      PROVE  ReadsHold'
  BY <1>a, <1>c, <1>e, <1>f, <1>g
<1>h. ASSUME NEW s \in Sessions, NEW label, Call(s, label), UNCHANGED trigger
      PROVE  ReadsHold'
  <2> DEFINE c == [adv[s] EXCEPT !.pc = label]
  <2>1. c.todo = adv[s].todo /\ c.completedIDs = adv[s].completedIDs
    BY <1>a DEF Calls
  <2>2. Fine(c)
    BY <1>c, <2>1 DEF Fine
  <2>3. adv' = [adv EXCEPT ![s] = c]
    BY <1>a, <1>h DEF Call
  <2> HIDE DEF c
  <2> QED BY <1>g, <1>h, <2>2, <2>3
<1>i. ASSUME NEW s \in Sessions, Returns(s), UNCHANGED trigger
      PROVE  ReadsHold'
  BY <1>d, <1>g, <1>i DEF Returns
<1>1. CASE UNCHANGED <<trigger, adv>>
  BY <1>c, <1>e, <1>f, <1>1
<1>2. ASSUME NEW s \in Sessions, WorkHandler(s)
      PROVE  ReadsHold'
  BY <1>h, <1>2 DEF WorkHandler
<1>3. ASSUME NEW s \in Sessions, Engine(s)
      PROVE  ReadsHold'
  <2>1. CASE AdvanceWorkflowRun(s) \/ CompleteWorkflowRun(s) \/ FailWorkflowRun(s)
    <3>1. UNCHANGED trigger /\ (Returns(s) \/ \E label : Call(s, label))
      BY <2>1 DEF AdvanceWorkflowRun, CompleteWorkflowRun, FailWorkflowRun, DbError
    <3> QED BY <1>h, <1>i, <3>1
  <2>2. CASE GetCompletedStepIndices(s)
    <3> DEFINE c == [adv[s] EXCEPT !.pc = "submitted", !.completedIDs = Done]
    <3>2. Returns(s) \/ adv' = [adv EXCEPT ![s].pc = "submitted",
                                           ![s].completedIDs = Done]
      BY <2>2 DEF GetCompletedStepIndices, DbError, Done, IDsOf, CompletedSteps
    <3>3. Returns(s) \/ adv' = [adv EXCEPT ![s] = c]
      BY <1>a, <3>2
    <3>4. c.todo = adv[s].todo /\ c.completedIDs = Done
      BY <1>a DEF Calls
    <3>5. Fine(c)
      BY <1>a, <1>c, <3>4 DEF Fine
    <3> HIDE DEF c
    <3> QED BY <1>g, <1>i, <2>2, <3>3, <3>5 DEF GetCompletedStepIndices
  <2>3. CASE GetSubmittedStepIndices(s)
    <3> DEFINE S == {p \in StepJobs : status[p] # "none"}
               R == UnblockedSteps(wf, adv[s].completedIDs, S)
               c == SubmitLoop(R)
    <3>1. /\ R \in SUBSET StepJobs
          /\ \A p \in R : ToSet(Deps(wf, p)) \subseteq adv[s].completedIDs
      BY DEF UnblockedSteps, StepJobs
    <3>2. Returns(s) \/ adv' = [adv EXCEPT ![s] = c]
      BY <2>3 DEF GetSubmittedStepIndices, DbError
    <3> HIDE DEF R
    <3>3. c.todo = R /\ c.completedIDs = {}
      BY <3>1, SubmitLoopState
    <3>4. Fine(c)
      BY <1>c, <3>1, <3>3 DEF Fine
    <3> HIDE DEF c
    <3> QED BY <1>g, <1>i, <2>3, <3>2, <3>4 DEF GetSubmittedStepIndices
  <2>4. ASSUME NEW p \in StepJobs, AdvanceSubmit(s, p, CtxDone(s))
        PROVE  ReadsHold'
    <3> DEFINE c == SubmitLoop(adv[s].todo \ {p})
    <3>1. adv' = [adv EXCEPT ![s] = c]
      BY <2>4 DEF AdvanceSubmit
    <3>2. c.todo \subseteq adv[s].todo /\ c.completedIDs = {}
      <4>1. adv[s].todo \ {p} \in SUBSET StepJobs
        BY <1>a DEF Calls
      <4> QED BY <4>1, SubmitLoopState
    <3>3. Fine(c)
      BY <1>c, <3>2 DEF Fine
    <3> HIDE DEF c
    <3> QED BY <1>g, <2>4, <3>1, <3>3 DEF AdvanceSubmit
  <2>5. ASSUME NEW p \in StepJobs, AdvanceOutput(s, p)
        PROVE  ReadsHold'
    <3>1. PICK c \in Calls : /\ adv' = [adv EXCEPT ![s] = c]
                             /\ c.todo = adv[s].todo
                             /\ c.completedIDs = adv[s].completedIDs
      BY <1>a, <2>5, OutputState
    <3>2. Fine(c)
      BY <1>c, <3>1 DEF Fine
    <3> QED BY <1>g, <2>5, <3>1, <3>2 DEF AdvanceOutput
  <2> QED BY <1>3, <2>1, <2>2, <2>3, <2>4, <2>5 DEF Engine, Advance
<1>4. CASE Trigger
  <2>1. CASE CreateWorkflowRun
    <3>1. \A p \in trigger' : ToSet(Deps(wf, p)) = {}
      BY <2>1 DEF CreateWorkflowRun, UnblockedSteps
    <3> QED BY <1>c, <1>e, <2>1, <3>1 DEF CreateWorkflowRun
  <2>2. ASSUME NEW p \in StepJobs, TriggerSubmit(p)
        PROVE  ReadsHold'
    BY <1>c, <1>e, <1>f, <2>2 DEF TriggerSubmit
  <2> QED BY <1>4, <2>1, <2>2 DEF Trigger, TriggerWorkflow
<1>5. CASE CancelRun \/ JobStep \/ WBoot
  BY <1>1, <1>5 DEF CancelRun, CancelWorkflowRunAtomic, JobStep, WBoot, workflowVars
<1>6. CASE WCrash
  BY <1>d, <1>e, <1>6 DEF WCrash
<1>7. CASE UNCHANGED allVars
  BY <1>1, <1>7 DEF allVars, workflowVars
<1> QED BY <1>2, <1>3, <1>4, <1>5, <1>6, <1>7 DEF WNext, Up

\* A list of one dependency.
LEMMA DependsOnOne ==
    ASSUME NEW p \in StepJobs, Len(Deps(wf, p)) = 1
    PROVE  /\ Deps(wf, p)[1] \in ToSet(Deps(wf, p))
           /\ Deps(wf, p) = <<Deps(wf, p)[1]>>
<1>1. wf[p].DependsOn \in {NoList} \cup Seq(Nat)
  <2> DEFINE X == [ID : Nat, DependsOn : {NoList} \cup Seq(Nat)]
  <2>1. wf \in Seq(X) /\ p \in DOMAIN wf
    BY FlowAssumption DEF StepJobs, Positions
  <2>2. wf[p] \in X
    <3> HIDE DEF X
    <3> QED BY <2>1
  <2> QED BY <2>2
<1> DEFINE d == Deps(wf, p)
<1>2. d \in Seq(Nat) /\ Len(d) = 1
  BY <1>1 DEF Deps
<1> HIDE DEF d
<1>3. d[1] \in ToSet(d)
  BY <1>2 DEF ToSet
<1>4. d = <<d[1]>>
  <2>1. DOMAIN d = 1..1 /\ DOMAIN <<d[1]>> = 1..1
    BY <1>2
  <2> QED BY <1>2, <2>1
<1> QED BY <1>2, <1>3, <1>4 DEF d

\* The output that a step with one dependency waits for is there.
LEMMA OutputThere ==
    ASSUME ReadsHold, NEW s \in Sessions, NEW p \in StepJobs, p \in adv[s].todo,
           Len(Deps(wf, p)) = 1
    PROVE  previousOutputFor(p)
<1>1. PICK q \in CompletedSteps : wf[q].ID = Deps(wf, p)[1]
  BY DependsOnOne DEF ReadsHold, IDsOf
<1> QED BY <1>1, DependsOnOne DEF previousOutputFor, GetJobOutputByWorkflowStep, CompletedSteps

\* A call comes to submitStep through previousOutputFor alone.
LEMMA SubmitAfterOutput ==
    ASSUME WorkflowTypeOK, [WNext]_allVars, NEW t \in Sessions, adv'[t].pc = "submit"
    PROVE  adv'[t] = adv[t] \/ \E p \in StepJobs : AdvanceOutput(t, p)
<1>a. /\ adv \in [Sessions -> Calls]
      /\ currentStep \in Nat /\ Len(wf) \in Nat
  BY FlowAssumption DEF WorkflowTypeOK, Calls
<1> SUFFICES ASSUME adv'[t] # adv[t], \A p \in StepJobs : ~AdvanceOutput(t, p)
             PROVE  FALSE
  OBVIOUS
<1>b. ASSUME NEW s \in Sessions, NEW c, adv' = [adv EXCEPT ![s] = c]
      PROVE  s = t /\ c.pc = "submit"
  BY <1>a, <1>b
<1>c. \A s \in Sessions : ~Returns(s)
  <2>1. NoCall.pc # "submit"
    BY DEF NoCall
  <2> QED BY <1>b, <2>1 DEF Returns
<1>d. ASSUME NEW s \in Sessions, NEW label, Call(s, label)
      PROVE  label = "submit"
  BY <1>a, <1>d DEF Call, Calls
<1>1. ASSUME NEW s \in Sessions, WorkHandler(s)
      PROVE  FALSE
  BY <1>d, <1>1 DEF WorkHandler, CallAfter
<1>2. ASSUME NEW s \in Sessions, Engine(s)
      PROVE  FALSE
  <2>1. CASE AdvanceWorkflowRun(s)
    <3> DEFINE label == CASE currentStep' >= Len(wf)                -> "finish"
                          [] currentStep' < Len(wf) /\ registered   -> "completed"
                          [] currentStep' < Len(wf) /\ ~registered  -> "fail"
    <3>1. currentStep' = currentStep + 1 /\ Call(s, label)
      BY <1>c, <2>1 DEF AdvanceWorkflowRun, DbError
    <3>2. label # "submit"
      BY <1>a, <3>1
    <3> HIDE DEF label
    <3> QED BY <1>d, <3>1, <3>2
  <2>2. CASE CompleteWorkflowRun(s) \/ FailWorkflowRun(s)
    BY <1>c, <2>2 DEF CompleteWorkflowRun, FailWorkflowRun, DbError
  <2>3. CASE GetCompletedStepIndices(s)
    BY <1>a, <1>c, <2>3 DEF GetCompletedStepIndices, DbError, Calls
  <2>4. CASE GetSubmittedStepIndices(s)
    <3> DEFINE S == {p \in StepJobs : status[p] # "none"}
               R == UnblockedSteps(wf, adv[s].completedIDs, S)
    <3>1. adv' = [adv EXCEPT ![s] = SubmitLoop(R)] /\ R \in SUBSET StepJobs
      BY <1>c, <2>4 DEF GetSubmittedStepIndices, DbError, UnblockedSteps, StepJobs
    <3> HIDE DEF R
    <3> QED BY <1>b, <3>1, SubmitLoopState
  <2>5. ASSUME NEW p \in StepJobs, AdvanceSubmit(s, p, CtxDone(s))
        PROVE  FALSE
    <3>1. adv' = [adv EXCEPT ![s] = SubmitLoop(adv[s].todo \ {p})]
      BY <2>5 DEF AdvanceSubmit
    <3>2. adv[s].todo \ {p} \in SUBSET StepJobs
      BY <1>a DEF Calls
    <3> QED BY <1>b, <3>1, <3>2, SubmitLoopState
  <2>6. ASSUME NEW p \in StepJobs, AdvanceOutput(s, p)
        PROVE  FALSE
    <3>1. PICK c \in Calls : adv' = [adv EXCEPT ![s] = c]
      BY <1>a, <2>6, OutputState
    <3> QED BY <1>b, <2>6, <3>1
  <2> QED BY <1>2, <2>1, <2>2, <2>3, <2>4, <2>5, <2>6 DEF Engine, Advance
<1>3. ~Trigger /\ ~CancelRun /\ ~WBoot
  BY DEF Trigger, TriggerWorkflow, CreateWorkflowRun, TriggerSubmit, CancelRun,
         CancelWorkflowRunAtomic, WBoot, workflowVars
<1>4. ~WCrash
  BY DEF WCrash, NoCall
<1>5. ~JobStep /\ ~UNCHANGED allVars
  BY DEF JobStep, allVars, workflowVars
<1> QED BY <1>1, <1>2, <1>3, <1>4, <1>5 DEF WNext, Up

\* What previousOutputFor has read is an output, and submitStep uses it for the
\* step that it was read for.
LEMMA OutputsReadStep ==
    ASSUME LostStreams, WorkflowTypeOK, ReadsHold, OutputsRead, [WNext]_allVars
    PROVE  OutputsRead'
<1>a. adv \in [Sessions -> Calls] /\ StepJobs \subseteq Nat /\ ~Fault("db")
  BY FlowAssumption, OnlyDisconnect DEF WorkflowTypeOK, Calls, StepJobs, Positions
<1> SUFFICES ASSUME NEW t \in Sessions, NEW p \in StepJobs,
                    adv'[t].pc = "submit", First(adv'[t].todo, p),
                    Len(Deps(wf, p)) = 1
             PROVE  adv'[t].previous
  BY DEF OutputsRead, First
<1>1. CASE adv'[t] = adv[t]
  BY <1>1 DEF OutputsRead
<1>2. ASSUME NEW q \in StepJobs, AdvanceOutput(t, q)
      PROVE  adv'[t].previous
  <2>1. PICK c \in Calls : /\ adv' = [adv EXCEPT ![t] = c]
                           /\ c.todo = adv[t].todo
                           /\ c.previous = previousOutputFor(q)
    BY <1>a, <1>2, OutputState
  <2>2. adv'[t] = c
    BY <1>a, <2>1
  <2>3. p = q /\ p \in adv[t].todo
    <3>1. First(adv[t].todo, q)
      BY <1>2 DEF AdvanceOutput
    <3>2. First(adv[t].todo, p)
      BY <2>1, <2>2
    <3>3. p <= q /\ q <= p /\ p \in adv[t].todo
      BY <3>1, <3>2 DEF First
    <3> QED BY <1>a, <3>3
  <2>4. previousOutputFor(p)
    BY <2>3, OutputThere
  <2> QED BY <2>1, <2>2, <2>3, <2>4
<1> QED BY <1>1, <1>2, SubmitAfterOutput

\* A step with one dependency is submitted with the output that was read.
LEMMA OutputChainedStep ==
    ASSUME Core, RowsExist, ReadsHold, OutputsRead, OutputChained, [WNext]_allVars
    PROVE  OutputChained'
<1> SUFFICES ASSUME NEW p \in StepJobs, HasRow(p)', Len(Deps(wf, p)) = 1
             PROVE  p \in chained'
  BY DEF OutputChained, HasRow
<1>a. chained \subseteq chained'
  BY DEF WNext, Up, JobStep, WorkHandler, Engine, Advance, AdvanceWorkflowRun,
         CompleteWorkflowRun, GetCompletedStepIndices, GetSubmittedStepIndices,
         AdvanceOutput, AdvanceSubmit, FailWorkflowRun, Trigger, TriggerWorkflow,
         CreateWorkflowRun, TriggerSubmit, CancelRun, CancelWorkflowRunAtomic,
         WBoot, WCrash, allVars, workflowVars, submitStep
<1>1. CASE HasRow(p)
  BY <1>1, <1>a DEF OutputChained, HasRow
<1>2. CASE ~HasRow(p)
  <2>1. p \notin trigger
    BY DependsOnOne DEF ReadsHold
  <2>2. ASSUME NEW s \in Sessions, First(adv[s].todo, p), adv[s].pc = "submit",
               submitStep(p, adv[s].previous)
        PROVE  p \in chained'
    <3>1. adv[s].previous
      BY <2>2 DEF OutputsRead
    <3> QED BY <1>2, <2>2, <3>1 DEF submitStep, HasRow
  <2> QED BY <1>2, <2>1, <2>2, NewRow DEF AdvanceSubmit
<1> QED BY <1>1, <1>2
--------------------------------------------------------------------------------
(*****************************************************************************)
(* Each step is counted once.                                                *)
(*****************************************************************************)
\* Nothing of the run exists before CreateWorkflowRun.
LEMMA BeforeRunStep ==
    ASSUME Core, RowsExist, BeforeRun, [WNext]_allVars
    PROVE  BeforeRun'
<1> SUFFICES ASSUME runStatus' = "none"
             PROVE  /\ trigger' = {}
                    /\ adv' = [s \in Sessions |-> NoCall]
                    /\ \A p \in StepJobs : ~HasRow(p)'
  BY DEF BeforeRun
<1>a. runStatus = "none"
  BY DEF WNext, Up, JobStep, WorkHandler, Engine, Advance, AdvanceWorkflowRun,
         CompleteWorkflowRun, GetCompletedStepIndices, GetSubmittedStepIndices,
         AdvanceOutput, AdvanceSubmit, FailWorkflowRun, DbError, Trigger,
         TriggerWorkflow, CreateWorkflowRun, TriggerSubmit, CancelRun, CancelWorkflowRunAtomic,
         WBoot, WCrash, allVars, workflowVars, runVars
<1>b. /\ trigger = {}
      /\ adv = [s \in Sessions |-> NoCall]
      /\ \A p \in StepJobs : ~HasRow(p)
      /\ StepJobs \subseteq Jobs
  BY <1>a, FlowAssumption DEF BeforeRun, StepJobs
<1>1. \A p \in StepJobs : ~HasRow(p)'
  BY <1>b, NewRow DEF NoCall, First
<1>2. ASSUME NEW s \in Sessions, WorkHandler(s)
      PROVE  UNCHANGED <<trigger, adv>>
  <2>1. job[s] \notin StepJobs
    BY <1>b, NilAssumption DEF RowsExist, HandlerRows
  <2>2. CallAfter(s) = "idle"
    BY <2>1 DEF CallAfter
  <2>3. adv' = [adv EXCEPT ![s].pc = "idle"] /\ UNCHANGED trigger
    BY <1>2, <2>2 DEF WorkHandler, Call
  <2>4. [NoCall EXCEPT !.pc = "idle"] = NoCall
    BY DEF NoCall
  <2>5. [adv EXCEPT ![s].pc = "idle"] = adv
    <3> HIDE DEF NoCall
    <3> QED BY <1>b, <2>4
  <2> QED BY <2>3, <2>5
<1>3. \A s \in Sessions : ~Engine(s)
  BY <1>b
     DEF Engine, Advance, AdvanceWorkflowRun, CompleteWorkflowRun,
         GetCompletedStepIndices, GetSubmittedStepIndices, AdvanceOutput,
         AdvanceSubmit, FailWorkflowRun, NoCall
<1>4. ~Trigger
  BY <1>b DEF Trigger, TriggerWorkflow, CreateWorkflowRun, TriggerSubmit, First
<1>5. ~CancelRun
  BY <1>a DEF CancelRun, CancelWorkflowRunAtomic
<1>6. JobStep \/ WBoot \/ UNCHANGED allVars => UNCHANGED <<trigger, adv>>
  BY DEF JobStep, WBoot, allVars, workflowVars
<1>7. WCrash => trigger' = {} /\ adv' = [s \in Sessions |-> NoCall]
  BY DEF WCrash
<1> QED BY <1>b, <1>1, <1>2, <1>3, <1>4, <1>5, <1>6, <1>7 DEF WNext, Up

\* The sets that are counted are finite.
LEMMA CountsFinite ==
    /\ IsFiniteSet(Counting) /\ Cardinality(Counting) \in Nat
    /\ IsFiniteSet(CompletedSteps) /\ Cardinality(CompletedSteps) \in Nat
    /\ IsFiniteSet(StepJobs) /\ Cardinality(StepJobs) = Len(wf)
<1>1. IsFiniteSet(Counting)
  BY FiniteAssumption, FS_Subset DEF Counting
<1>2. StepJobs = 1..Len(wf) /\ Len(wf) \in Nat
  BY FlowAssumption DEF StepJobs, Positions
<1>3. IsFiniteSet(StepJobs) /\ Cardinality(StepJobs) = Len(wf)
  <2> DEFINE n == Len(wf)
  <2>1. n \in Nat /\ 1 \in Int /\ n \in Int
    BY <1>2
  <2> HIDE DEF n
  <2>2. IsFiniteSet(1..n) /\ Cardinality(1..n) = IF 1 > n THEN 0 ELSE n - 1 + 1
    BY ONLY <2>1, FS_Interval
  <2>3. IsFiniteSet(1..n) /\ Cardinality(1..n) = n
    BY <2>1, <2>2
  <2> QED BY <1>2, <2>3 DEF n
<1>4. IsFiniteSet(CompletedSteps)
  BY <1>3, FS_Subset DEF CompletedSteps
<1> QED BY <1>1, <1>3, <1>4, FS_CardinalityType

\* When the count has reached the number of steps, all are completed.
LEMMA AllCompleted ==
    ASSUME CountedOnce, currentStep \in Nat, currentStep >= Len(wf)
    PROVE  CompletedSteps = StepJobs
<1>1. CompletedSteps \in SUBSET StepJobs
  BY DEF CompletedSteps
<1>2. Cardinality(CompletedSteps) <= Cardinality(StepJobs)
  BY <1>1, CountsFinite, FS_Subset
<1>3. Cardinality(CompletedSteps) = Cardinality(StepJobs)
  BY <1>2, CountsFinite, FlowAssumption DEF CountedOnce
<1> QED BY <1>1, <1>3, CountsFinite, FS_Subset

\* handleResult completes a row that is "running" before it calls Advance.
LEMMA CompletesBeforeCount ==
    ASSUME LostStreams, Tidy, NEW s \in Sessions, WorkHandler(s), CallAfter(s) = "count"
    PROVE  job[s] \in StepJobs \ CompletedSteps /\ job[s] \in CompletedSteps'
<1>1. job[s] \in StepJobs /\ pc[s] = "complete" /\ Handler(s)
  BY DEF CallAfter, WorkHandler
<1>2. CompleteResult(s)
  BY <1>1
     DEF Handler, HandlerStep, RecvReady, RecvError, RecvHeartbeat,
         recordHeartbeat, RecvResult, Pop, ConsumeError, HGet, Drop,
         StoreOwner, SetRunning, Send, RequeueDb, RequeueRedis, GetJob,
         AckResult, MarkRetrying, RetryResult, MarkFailed, FailResult
<1>3. job[s] \in Jobs /\ status \in [Jobs -> Statuses]
  BY <1>1, FlowAssumption DEF StepJobs, Tidy, Core, TypeOK, StoreTypeOK
<1>4. status[job[s]] = "running"
  BY <1>1, <1>3, NilAssumption DEF Tidy, Orderly, InHand, StageOf
<1>5. status'[job[s]] = "completed"
  BY <1>2, <1>3, OnlyDisconnect DEF CompleteResult, TryDb, CompleteJob
<1> QED BY <1>1, <1>4, <1>5 DEF CompletedSteps

\* Who counts: a handler begins when it has completed a step, and ends when it
\* has raised current_step.
LEMMA CountingStep ==
    ASSUME WorkflowTypeOK, [WNext]_allVars
    PROVE  \/ /\ Counting' \subseteq Counting
              /\ currentStep' \in {0, currentStep}
           \/ \E s \in Sessions : /\ WorkHandler(s) /\ CallAfter(s) = "count"
                                  /\ s \notin Counting /\ Counting' = Counting \cup {s}
                                  /\ UNCHANGED currentStep
           \/ \E s \in Sessions : /\ s \in Counting /\ Counting' = Counting \ {s}
                                  /\ currentStep' = currentStep + 1
<1>a. adv \in [Sessions -> Calls] /\ currentStep \in Nat /\ Len(wf) \in Nat
  BY FlowAssumption DEF WorkflowTypeOK, Calls
<1> DEFINE Fewer == Counting' \subseteq Counting /\ currentStep' \in {0, currentStep}
           Begins(s) == /\ WorkHandler(s) /\ CallAfter(s) = "count"
                        /\ s \notin Counting /\ Counting' = Counting \cup {s}
                        /\ UNCHANGED currentStep
           Ends(s) == /\ s \in Counting /\ Counting' = Counting \ {s}
                      /\ currentStep' = currentStep + 1
<1>b. ASSUME NEW s \in Sessions, NEW c, c.pc # "count",
             adv' = [adv EXCEPT ![s] = c]
      PROVE  Counting' = Counting \ {s}
  BY <1>a, <1>b DEF Counting
<1>c. ASSUME NEW s \in Sessions, NEW label, label # "count", Call(s, label)
      PROVE  Counting' = Counting \ {s}
  BY <1>a, <1>c DEF Counting, Call, Calls
<1>d. ASSUME NEW s \in Sessions, Returns(s)
      PROVE  Counting' = Counting \ {s}
  <2>1. NoCall.pc # "count"
    BY DEF NoCall
  <2> QED BY <1>b, <1>d, <2>1 DEF Returns
<1>1. UNCHANGED <<adv, currentStep>> => Fewer
  BY DEF Counting
<1>2. ASSUME NEW s \in Sessions, WorkHandler(s)
      PROVE  Fewer \/ Begins(s)
  <2>1. UNCHANGED currentStep /\ s \notin Counting
    BY <1>2 DEF WorkHandler, runVars, Counting
  <2>2. CASE CallAfter(s) = "count"
    <3>1. adv' = [adv EXCEPT ![s].pc = "count"]
      BY <1>2, <2>2 DEF WorkHandler, Call
    <3>2. Counting' = Counting \cup {s}
      BY <1>a, <3>1 DEF Counting, Calls
    <3> QED BY <1>2, <2>1, <2>2, <3>2
  <2>3. CASE CallAfter(s) # "count"
    BY <1>c, <1>2, <2>1, <2>3 DEF WorkHandler
  <2> QED BY <2>2, <2>3
<1>3. ASSUME NEW s \in Sessions, Engine(s)
      PROVE  Fewer \/ Ends(s)
  <2>1. CASE AdvanceWorkflowRun(s)
    <3> DEFINE label == CASE currentStep' >= Len(wf)                -> "finish"
                          [] currentStep' < Len(wf) /\ registered   -> "completed"
                          [] currentStep' < Len(wf) /\ ~registered  -> "fail"
    <3>1. currentStep' \in Nat => label # "count"
      BY <1>a
    <3>2. \/ currentStep' = currentStep + 1 /\ Call(s, label)
          \/ Returns(s) /\ UNCHANGED currentStep
      BY <2>1 DEF AdvanceWorkflowRun, DbError, runVars
    <3> HIDE DEF label
    <3>3. s \in Counting
      BY <2>1 DEF AdvanceWorkflowRun, Counting
    <3> QED BY <1>a, <1>c, <1>d, <3>1, <3>2, <3>3
  <2>2. CASE CompleteWorkflowRun(s) \/ FailWorkflowRun(s)
    <3>1. Returns(s) /\ UNCHANGED currentStep
      BY <2>2 DEF CompleteWorkflowRun, FailWorkflowRun, DbError, runVars
    <3> QED BY <1>d, <3>1
  <2>3. CASE GetCompletedStepIndices(s)
    <3>1. UNCHANGED currentStep
      BY <2>3 DEF GetCompletedStepIndices, DbError, runVars
    <3>2. CASE Returns(s)
      BY <1>d, <3>1, <3>2
    <3>3. CASE ~Returns(s)
      <4>1. PICK C : adv' = [adv EXCEPT ![s].pc = "submitted", ![s].completedIDs = C]
        BY <2>3, <3>3 DEF GetCompletedStepIndices, DbError
      <4>2. Counting' \subseteq Counting
        BY <1>a, <4>1 DEF Counting, Calls
      <4> QED BY <3>1, <4>2
    <3> QED BY <3>2, <3>3
  <2>4. CASE GetSubmittedStepIndices(s)
    <3> DEFINE S == {p \in StepJobs : status[p] # "none"}
               R == UnblockedSteps(wf, adv[s].completedIDs, S)
               c == SubmitLoop(R)
    <3>1. UNCHANGED currentStep /\ (Returns(s) \/ adv' = [adv EXCEPT ![s] = c])
      BY <2>4 DEF GetSubmittedStepIndices, DbError, runVars
    <3>2. c.pc # "count"
      <4>1. R \in SUBSET StepJobs
        BY DEF UnblockedSteps, StepJobs
      <4> HIDE DEF R
      <4> QED BY <4>1, SubmitLoopState
    <3> HIDE DEF c
    <3> QED BY <1>b, <1>d, <3>1, <3>2
  <2>5. ASSUME NEW p \in StepJobs, AdvanceSubmit(s, p, CtxDone(s))
        PROVE  Fewer
    <3> DEFINE c == SubmitLoop(adv[s].todo \ {p})
    <3>1. adv' = [adv EXCEPT ![s] = c] /\ UNCHANGED currentStep
      BY <2>5 DEF AdvanceSubmit, runVars
    <3>2. c.pc # "count"
      <4>1. adv[s].todo \ {p} \in SUBSET StepJobs
        BY <1>a DEF Calls
      <4> QED BY <4>1, SubmitLoopState
    <3> HIDE DEF c
    <3> QED BY <1>b, <3>1, <3>2
  <2>6. ASSUME NEW p \in StepJobs, AdvanceOutput(s, p)
        PROVE  Fewer
    <3>1. PICK c \in Calls : adv' = [adv EXCEPT ![s] = c] /\ c.pc = "submit"
      BY <1>a, <2>6, OutputState
    <3>2. UNCHANGED currentStep
      BY <2>6 DEF AdvanceOutput, runVars
    <3> QED BY <1>b, <3>1, <3>2
  <2> HIDE DEF Fewer, Ends
  <2> QED BY <1>3, <2>1, <2>2, <2>3, <2>4, <2>5, <2>6 DEF Engine, Advance
<1>4. ASSUME Trigger PROVE Fewer
  BY <1>4 DEF Trigger, TriggerWorkflow, CreateWorkflowRun, TriggerSubmit, runVars,
              Counting
<1>5. ASSUME CancelRun \/ JobStep \/ WBoot PROVE Fewer
  BY <1>1, <1>5 DEF CancelRun, CancelWorkflowRunAtomic, JobStep, WBoot, workflowVars,
                    runVars
<1>6. ASSUME WCrash PROVE Fewer
  <2>1. UNCHANGED currentStep /\ \A s \in Sessions : adv'[s].pc # "count"
    BY <1>6 DEF WCrash, runVars, NoCall
  <2> QED BY <2>1 DEF Counting
<1>7. ASSUME UNCHANGED allVars PROVE Fewer
  BY <1>1, <1>7 DEF allVars, workflowVars, runVars
<1> HIDE DEF Fewer, Begins, Ends
<1>8. Fewer \/ \E s \in Sessions : Begins(s) \/ Ends(s)
  BY <1>2, <1>3, <1>4, <1>5, <1>6, <1>7 DEF WNext, Up
<1> QED BY <1>8 DEF Fewer, Begins, Ends

\* A step is completed before it is counted, and counted once.
LEMMA CountedOnceStep ==
    ASSUME LostStreams, Tidy, WorkflowTypeOK, CountedOnce, [WNext]_allVars
    PROVE  CountedOnce'
<1>a. /\ IsFiniteSet(Counting) /\ Cardinality(Counting) \in Nat
      /\ IsFiniteSet(CompletedSteps) /\ Cardinality(CompletedSteps) \in Nat
      /\ currentStep \in Nat
  BY CountsFinite DEF WorkflowTypeOK
<1>b. /\ IsFiniteSet(CompletedSteps') /\ Cardinality(CompletedSteps') \in Nat
      /\ CompletedSteps \subseteq CompletedSteps'
  <2>1. IsFiniteSet(CompletedSteps')
    BY CountsFinite, FS_Subset DEF CompletedSteps
  <2> QED BY <2>1, CompletedStays, FS_CardinalityType
<1>c. Cardinality(CompletedSteps) <= Cardinality(CompletedSteps')
  BY <1>b, FS_Subset
<1> DEFINE n == Cardinality(CompletedSteps)
           m == Cardinality(CompletedSteps')
           k == Cardinality(Counting)
<1>d. n \in Nat /\ m \in Nat /\ k \in Nat /\ n <= m /\ currentStep + k <= n
  BY <1>a, <1>b, <1>c DEF CountedOnce
<1>1. ASSUME Counting' \subseteq Counting, currentStep' \in {0, currentStep}
      PROVE  CountedOnce'
  <2>1. Cardinality(Counting') <= k /\ Cardinality(Counting') \in Nat
    BY <1>a, <1>1, FS_Subset, FS_CardinalityType
  <2> HIDE DEF n, m, k
  <2>2. currentStep' + Cardinality(Counting') <= m
    BY <1>a, <1>d, <1>1, <2>1
  <2> QED BY <2>2 DEF CountedOnce, m
<1>2. ASSUME NEW s \in Sessions, WorkHandler(s), CallAfter(s) = "count",
             s \notin Counting, Counting' = Counting \cup {s}, UNCHANGED currentStep
      PROVE  CountedOnce'
  <2>1. Cardinality(Counting') = k + 1
    BY <1>a, <1>2, FS_AddElement
  <2>2. m >= n + 1
    <3> DEFINE D == CompletedSteps \cup {job[s]}
    <3>1. D \in SUBSET CompletedSteps' /\ job[s] \notin CompletedSteps
      BY <1>b, <1>2, CompletesBeforeCount
    <3>2. Cardinality(D) = n + 1
      BY <1>a, <3>1, FS_AddElement
    <3>3. Cardinality(D) <= m
      <4> HIDE DEF D
      <4> QED BY <1>b, <3>1, FS_Subset
    <3> HIDE DEF n, m
    <3> QED BY <1>d, <3>2, <3>3
  <2> HIDE DEF n, m, k
  <2>3. currentStep' + Cardinality(Counting') <= m
    BY <1>a, <1>d, <1>2, <2>1, <2>2
  <2> QED BY <2>3 DEF CountedOnce, m
<1>3. ASSUME NEW s \in Sessions, s \in Counting, Counting' = Counting \ {s},
             currentStep' = currentStep + 1
      PROVE  CountedOnce'
  <2>1. Cardinality(Counting') = k - 1
    BY <1>a, <1>3, FS_RemoveElement
  <2> HIDE DEF n, m, k
  <2>2. currentStep' + Cardinality(Counting') <= m
    BY <1>a, <1>d, <1>3, <2>1
  <2> QED BY <2>2 DEF CountedOnce, m
<1> QED BY <1>1, <1>2, <1>3, CountingStep

\* An Advance goes on to CompleteWorkflowRun only from the last count.
LEMMA LastCountedStep ==
    ASSUME WorkflowTypeOK, BeforeRun, LastCounted, [WNext]_allVars
    PROVE  LastCounted'
<1>a. adv \in [Sessions -> Calls] /\ currentStep \in Nat /\ Len(wf) \in Nat
  BY FlowAssumption DEF WorkflowTypeOK, Calls
<1>b. ASSUME currentStep' >= currentStep, currentStep' \in Nat,
             currentStep >= Len(wf)
      PROVE  LastCounted'
  BY <1>a, <1>b DEF LastCounted
<1>c. ASSUME currentStep < Len(wf)
      PROVE  runStatus # "completed" /\ \A s \in Sessions : adv[s].pc # "finish"
  BY <1>a, <1>c DEF LastCounted
<1>d. ASSUME runStatus' # "completed", \A s \in Sessions : adv'[s].pc # "finish"
      PROVE  LastCounted'
  BY <1>d DEF LastCounted
<1>e. ASSUME runStatus' = "completed" => runStatus = "completed",
             \A s \in Sessions : adv'[s].pc = "finish" => adv[s].pc = "finish",
             currentStep' >= currentStep, currentStep' \in Nat
      PROVE  LastCounted'
  BY <1>a, <1>b, <1>c, <1>d, <1>e
<1>f. ASSUME NEW s \in Sessions, NEW c, c.pc # "finish",
             adv' = [adv EXCEPT ![s] = c]
      PROVE  \A t \in Sessions : adv'[t].pc = "finish" => adv[t].pc = "finish"
  BY <1>a, <1>f
<1>g. ASSUME NEW s \in Sessions, Returns(s)
      PROVE  \A t \in Sessions : adv'[t].pc = "finish" => adv[t].pc = "finish"
  <2>1. NoCall.pc # "finish"
    BY DEF NoCall
  <2> QED BY <1>f, <1>g, <2>1 DEF Returns
<1>h. ASSUME NEW s \in Sessions, NEW label, label # "finish", Call(s, label)
      PROVE  \A t \in Sessions : adv'[t].pc = "finish" => adv[t].pc = "finish"
  BY <1>a, <1>h DEF Call, Calls
<1>1. CASE UNCHANGED <<runStatus, currentStep, adv>>
  BY <1>1 DEF LastCounted
<1>2. ASSUME NEW s \in Sessions, WorkHandler(s)
      PROVE  LastCounted'
  <2>1. CallAfter(s) # "finish"
    BY DEF CallAfter
  <2> QED BY <1>a, <1>e, <1>h, <1>2, <2>1 DEF WorkHandler, runVars
<1>3. ASSUME NEW s \in Sessions, Engine(s)
      PROVE  LastCounted'
  <2>1. CASE AdvanceWorkflowRun(s)
    <3> DEFINE label == CASE currentStep' >= Len(wf)                -> "finish"
                          [] currentStep' < Len(wf) /\ registered   -> "completed"
                          [] currentStep' < Len(wf) /\ ~registered  -> "fail"
    <3>1. currentStep' \in Nat /\ currentStep' < Len(wf) => label # "finish"
      BY <1>a
    <3>2. \/ /\ currentStep' = currentStep + 1 /\ Call(s, label)
             /\ UNCHANGED runStatus
          \/ Returns(s) /\ UNCHANGED <<runStatus, currentStep>>
      BY <2>1 DEF AdvanceWorkflowRun, DbError, runVars
    <3> HIDE DEF label
    <3>3. CASE Returns(s) /\ UNCHANGED <<runStatus, currentStep>>
      BY <1>a, <1>e, <1>g, <3>3
    <3>4. CASE /\ currentStep' = currentStep + 1 /\ Call(s, label)
               /\ UNCHANGED runStatus
      <4>1. CASE currentStep' >= Len(wf)
        BY <4>1 DEF LastCounted
      <4>2. CASE ~(currentStep' >= Len(wf))
        BY <1>a, <1>e, <1>h, <3>1, <3>4, <4>2
      <4> QED BY <4>1, <4>2
    <3> QED BY <3>2, <3>3, <3>4
  <2>2. CASE CompleteWorkflowRun(s)
    <3>1. UNCHANGED currentStep /\ currentStep >= Len(wf)
      BY <2>2 DEF CompleteWorkflowRun, DbError, runVars, LastCounted
    <3> QED BY <1>a, <1>b, <3>1
  <2>3. CASE FailWorkflowRun(s)
    <3>1. /\ Returns(s) /\ UNCHANGED currentStep
          /\ runStatus' = "failed" \/ UNCHANGED runStatus
      BY <2>3 DEF FailWorkflowRun, DbError, runVars
    <3> QED BY <1>a, <1>e, <1>g, <3>1
  <2>4. CASE GetCompletedStepIndices(s)
    <3>1. UNCHANGED <<runStatus, currentStep>>
      BY <2>4 DEF GetCompletedStepIndices, DbError, runVars
    <3>2. CASE Returns(s)
      BY <1>a, <1>e, <1>g, <3>1, <3>2
    <3>3. CASE ~Returns(s)
      <4>1. PICK C : adv' = [adv EXCEPT ![s].pc = "submitted", ![s].completedIDs = C]
        BY <2>4, <3>3 DEF GetCompletedStepIndices, DbError
      <4>2. \A t \in Sessions : adv'[t].pc = "finish" => adv[t].pc = "finish"
        BY <1>a, <4>1 DEF Calls
      <4> QED BY <1>a, <1>e, <3>1, <4>2
    <3> QED BY <3>2, <3>3
  <2>5. CASE GetSubmittedStepIndices(s)
    <3> DEFINE S == {p \in StepJobs : status[p] # "none"}
               R == UnblockedSteps(wf, adv[s].completedIDs, S)
               c == SubmitLoop(R)
    <3>1. /\ UNCHANGED <<runStatus, currentStep>>
          /\ Returns(s) \/ adv' = [adv EXCEPT ![s] = c]
      BY <2>5 DEF GetSubmittedStepIndices, DbError, runVars
    <3>2. c.pc # "finish"
      <4>1. R \in SUBSET StepJobs
        BY DEF UnblockedSteps, StepJobs
      <4> HIDE DEF R
      <4> QED BY <4>1, SubmitLoopState
    <3> HIDE DEF c
    <3> QED BY <1>a, <1>e, <1>f, <1>g, <3>1, <3>2
  <2>6. ASSUME NEW p \in StepJobs, AdvanceSubmit(s, p, CtxDone(s))
        PROVE  LastCounted'
    <3> DEFINE c == SubmitLoop(adv[s].todo \ {p})
    <3>1. adv' = [adv EXCEPT ![s] = c] /\ UNCHANGED <<runStatus, currentStep>>
      BY <2>6 DEF AdvanceSubmit, runVars
    <3>2. c.pc # "finish"
      <4>1. adv[s].todo \ {p} \in SUBSET StepJobs
        BY <1>a DEF Calls
      <4> QED BY <4>1, SubmitLoopState
    <3> HIDE DEF c
    <3> QED BY <1>a, <1>e, <1>f, <3>1, <3>2
  <2>7. ASSUME NEW p \in StepJobs, AdvanceOutput(s, p)
        PROVE  LastCounted'
    <3>1. PICK c \in Calls : adv' = [adv EXCEPT ![s] = c] /\ c.pc = "submit"
      BY <1>a, <2>7, OutputState
    <3>2. UNCHANGED <<runStatus, currentStep>>
      BY <2>7 DEF AdvanceOutput, runVars
    <3> QED BY <1>a, <1>e, <1>f, <3>1, <3>2
  <2> QED BY <1>3, <2>1, <2>2, <2>3, <2>4, <2>5, <2>6, <2>7 DEF Engine, Advance
<1>4. CASE Trigger
  <2>1. CASE CreateWorkflowRun
    <3>1. UNCHANGED adv /\ runStatus' = "running" /\ \A s \in Sessions : adv[s].pc # "finish"
      BY <2>1 DEF CreateWorkflowRun, BeforeRun, NoCall
    <3> QED BY <1>d, <3>1
  <2>2. ASSUME NEW p \in StepJobs, TriggerSubmit(p)
        PROVE  LastCounted'
    BY <1>1, <2>2 DEF TriggerSubmit, runVars
  <2> QED BY <1>4, <2>1, <2>2 DEF Trigger, TriggerWorkflow
<1>5. CASE CancelRun
  <2>1. UNCHANGED <<currentStep, adv>> /\ runStatus' = "cancelled"
    BY <1>5 DEF CancelRun, CancelWorkflowRunAtomic
  <2> QED BY <1>a, <1>e, <2>1
<1>6. CASE JobStep \/ WBoot
  BY <1>1, <1>6 DEF JobStep, WBoot, workflowVars, runVars
<1>7. CASE WCrash
  <2>1. UNCHANGED <<runStatus, currentStep>> /\ \A s \in Sessions : adv'[s].pc # "finish"
    BY <1>7 DEF WCrash, runVars, NoCall
  <2> QED BY <1>a, <1>e, <2>1
<1>8. CASE UNCHANGED allVars
  BY <1>1, <1>8 DEF allVars, workflowVars, runVars
<1> QED BY <1>2, <1>3, <1>4, <1>5, <1>6, <1>7, <1>8 DEF WNext, Up
--------------------------------------------------------------------------------
\* The invariant of the next theorems.
RunTidy ==
    /\ RunSafe
    /\ Tidy
    /\ ReadsHold
    /\ OutputsRead
    /\ OutputChained
    /\ BeforeRun
    /\ CountedOnce
    /\ LastCounted

\* It is inductive while streams break and nothing else fails.
LEMMA RunTidyInvariant ==
    ASSUME LostStreams
    PROVE  WSpec => []RunTidy
<1>1. WInit => /\ Tidy /\ ReadsHold /\ OutputsRead /\ OutputChained /\ BeforeRun
              /\ CountedOnce /\ LastCounted
  <2> SUFFICES ASSUME Init, WorkflowInit
               PROVE  /\ Tidy /\ ReadsHold /\ OutputsRead /\ OutputChained
                      /\ BeforeRun /\ CountedOnce /\ LastCounted
    BY DEF WInit
  <2>1. \A p \in StepJobs : status[p] = "none"
    BY FlowAssumption DEF Init, StoreInit, StepJobs
  <2>2. Tidy
    BY TidyInit
  <2>3. ReadsHold /\ BeforeRun
    BY <2>1 DEF WorkflowInit, NoCall, ReadsHold, BeforeRun, HasRow
  <2>4. OutputsRead /\ OutputChained
    BY <2>1 DEF WorkflowInit, NoCall, OutputsRead, OutputChained
  <2>5. CountedOnce
    <3>1. Counting = {} /\ CompletedSteps = {} /\ currentStep = 0
      BY <2>1 DEF WorkflowInit, NoCall, Counting, CompletedSteps
    <3> QED BY <3>1, FS_EmptySet DEF CountedOnce
  <2>6. LastCounted
    BY DEF WorkflowInit, NoCall, LastCounted
  <2> QED BY <2>2, <2>3, <2>4, <2>5, <2>6
<1>2. ASSUME RunTidy, [WNext]_allVars
      PROVE  /\ Tidy' /\ ReadsHold' /\ OutputsRead' /\ OutputChained'
             /\ BeforeRun' /\ CountedOnce' /\ LastCounted'
  <2>1. /\ JobsSafe /\ RowsExist /\ WorkflowTypeOK /\ Tidy /\ ReadsHold
        /\ OutputsRead /\ OutputChained /\ BeforeRun /\ CountedOnce /\ LastCounted /\ Core
    BY <1>2 DEF RunTidy, RunSafe, JobsSafe
  <2>2. Tidy' /\ ReadsHold' /\ OutputsRead' /\ OutputChained'
    BY <1>2, <2>1, TidyRunStep, ReadsHoldStep, OutputsReadStep, OutputChainedStep
  <2>3. BeforeRun' /\ CountedOnce' /\ LastCounted'
    BY <1>2, <2>1, BeforeRunStep, CountedOnceStep, LastCountedStep
  <2> QED BY <2>2, <2>3
<1> QED BY <1>1, <1>2, RunSafeInvariant, PTL DEF WSpec, RunTidy

\* README: when a step has exactly one dependency, that dependency's stdout is
\* injected.  When streams break and nothing else fails, every step with one
\* dependency is submitted with an output, however Advances interleave and also
\* after a cancellation of the run: the dependency that Advance has seen
\* completed is still so when previousOutputFor reads its output.
THEOREM OutputChainedHolds ==
    ASSUME LostStreams
    PROVE  WSpec => []OutputChained
<1> QED BY RunTidyInvariant, PTL DEF RunTidy

\* When streams break and nothing else fails, a run is completed only when an
\* execution of every one of its steps has succeeded: no step is counted twice
\* by the handlers that raise current_step, also when the run is cancelled
\* meanwhile (AdvanceWorkflowRun, CompleteWorkflowRun).
THEOREM CompletedWhenDoneHolds ==
    ASSUME LostStreams
    PROVE  WSpec => []CompletedWhenDone
<1>1. RunTidy => CompletedWhenDone
  <2> SUFFICES ASSUME RunTidy, runStatus = "completed"
               PROVE  StepJobs \subseteq succ
    BY DEF CompletedWhenDone
  <2>1. CompletedSteps = StepJobs
    BY AllCompleted DEF RunTidy, RunSafe, LastCounted, WorkflowTypeOK
  <2> QED BY <2>1, FlowAssumption
       DEF RunTidy, RunSafe, JobsSafe, Results, CompletedSteps, StepJobs
<1> QED BY <1>1, RunTidyInvariant, PTL
--------------------------------------------------------------------------------
(*****************************************************************************)
(* When nothing fails: no unblocked step is forgotten.                       *)
(*****************************************************************************)
\* The environments of the next theorem: nothing fails and nobody cancels a
\* step by itself.
Faultless == FaultKinds = {} /\ Cancellable = {}

\* They are among those in which only streams break.
LEMMA NoFailure ==
    ASSUME Faultless
    PROVE  LostStreams /\ Unfailing /\ \A k : ~Fault(k)
BY DEF Faultless, LostStreams, Unfailing, Fault

\* When nothing fails no stream is lost, and the server does not restart.
LEMMA UndamagedStep ==
    ASSUME Faultless, Core, Orderly, Undamaged, [WNext]_allVars
    PROVE  Undamaged'
<1>a. server = "up" /\ \A k : ~Fault(k)
  BY NoFailure DEF Orderly
<1>b. /\ worker \in [Sessions -> {"new", "waiting", "executing", "gone"}]
      /\ pc \in [Sessions -> HandlerPcs]
  BY DEF Core, TypeOK, ServerTypeOK
<1>c. ~WBoot /\ ~WCrash /\ ~Trouble
  BY <1>a DEF WBoot, BootReset, BootRecover, WCrash, Crash, Trouble, Disconnect,
              HeartbeatTimeout
<1>1. registered'
  BY <1>c DEF Undamaged, WNext, Up, JobStep, WorkHandler, Engine, Advance,
              AdvanceWorkflowRun, CompleteWorkflowRun, GetCompletedStepIndices,
              GetSubmittedStepIndices, AdvanceOutput, AdvanceSubmit,
              FailWorkflowRun, Trigger, TriggerWorkflow, CreateWorkflowRun, TriggerSubmit, CancelRun,
              CancelWorkflowRunAtomic, allVars, workflowVars
<1>2. CASE UNCHANGED <<worker, pc>>
  BY <1>1, <1>2 DEF Undamaged, Connected
<1>3. ASSUME NEW s \in Sessions, WorkHandler(s)
      PROVE  Undamaged'
  BY <1>1, <1>3, NoFailure, ConnectedHandler DEF Undamaged, WorkHandler
<1>4. ASSUME NEW s \in Sessions, Worker(s)
      PROVE  Undamaged'
  BY <1>b, <1>1, <1>4 DEF Undamaged, Connected, Worker, Connect, Finish, Goto, handlerVars
<1>5. CASE \/ \E j \in Jobs : CancelJob(j)
           \/ Relay \/ Promote \/ Reaper
  <2>1. UNCHANGED <<worker, pc>>
    BY <1>5 DEF CancelJob, Relay, Promote, Reaper, ReaperStep, ReaperList,
                ReaperCheck, ReaperClear, ReaperUpdate, ReaperRetry, serverVars,
                handlerVars, workerVars
  <2> QED BY <1>2, <2>1
<1>6. CASE \/ \E s \in Sessions : Engine(s)
           \/ Trigger \/ CancelRun \/ UNCHANGED allVars
  <2>1. UNCHANGED <<worker, pc>>
    BY <1>6 DEF Engine, Trigger, CancelRun, besidesStore, allVars, vars, serverVars,
                handlerVars, workerVars
  <2> QED BY <1>2, <2>1
<1> QED BY <1>c, <1>3, <1>4, <1>5, <1>6 DEF WNext, Up, JobStep

\* Whenever a step is completed, the handler that completed it calls Advance.
LEMMA NewlyCompleted ==
    ASSUME LostStreams, Tidy, [WNext]_allVars,
           NEW p \in StepJobs, p \notin CompletedSteps, p \in CompletedSteps'
    PROVE  \E s \in Sessions : WorkHandler(s) /\ CallAfter(s) = "count"
<1>a. /\ RowEffect /\ p \in Jobs /\ pc \in [Sessions -> HandlerPcs]
      /\ \A s \in Sessions : SessionOK(s)
      /\ server = "up" /\ ~Fault("crash")
  BY WStep, RowEffectStep, FlowAssumption, OnlyDisconnect
     DEF StepJobs, Tidy, Core, TypeOK, ServerTypeOK, Orderly
<1>1. PICK s \in Sessions : Handler(s) /\ pc[s] = "complete" /\ job[s] = p
  BY <1>a DEF RowEffect, CompletedSteps
<1>2. pc'[s] = "recv"
  BY <1>a, <1>1
     DEF Handler, HandlerStep, RecvReady, RecvError, RecvHeartbeat,
         recordHeartbeat, RecvResult, Pop, ConsumeError, HGet, Drop,
         StoreOwner, SetRunning, Send, RequeueDb, RequeueRedis, GetJob,
         AckResult, MarkRetrying, RetryResult, MarkFailed, FailResult,
         CompleteResult, ReturnResult
<1>3. CallAfter(s) = "count"
  BY <1>1 DEF CallAfter
<1>4. ASSUME NEW t \in Sessions, WorkHandler(t)
      PROVE  WorkHandler(s)
  <2>1. t # s => pc'[s] = pc[s]
    BY <1>a, <1>4, HandlerScopeStep DEF WorkHandler, HandlerScope, Tidy
  <2> QED BY <1>1, <1>2, <1>4, <2>1
<1>5. ASSUME NEW t \in Sessions, Worker(t)
      PROVE  pc'[s] = pc[s]
  BY <1>a, <1>1, <1>5 DEF Worker, Connect, Finish, Goto, handlerVars, SessionOK
<1>6. ASSUME \/ \E j \in Jobs : CancelJob(j)
             \/ Relay \/ Promote \/ Reaper \/ Trouble
      PROVE  UNCHANGED pc
  BY <1>6 DEF CancelJob, Relay, Promote, Reaper, ReaperStep, ReaperList,
              ReaperCheck, ReaperClear, ReaperUpdate, ReaperRetry, Trouble,
              Disconnect, HeartbeatTimeout, serverVars, handlerVars
<1>7. ASSUME \/ \E t \in Sessions : Engine(t)
             \/ Trigger \/ CancelRun \/ UNCHANGED allVars
      PROVE  UNCHANGED pc
  BY <1>7 DEF Engine, Trigger, CancelRun, besidesStore, allVars, vars, serverVars,
              handlerVars
<1>8. ~WBoot /\ ~WCrash
  BY <1>a DEF WBoot, BootReset, BootRecover, WCrash, Crash
<1>9. WorkHandler(s)
  BY <1>1, <1>2, <1>4, <1>5, <1>6, <1>7, <1>8 DEF WNext, Up, JobStep
<1> QED BY <1>3, <1>9

\* The handler that counts the last step finds every step completed.
LEMMA LastToCount ==
    ASSUME CountedOnce, NEW s \in Counting, currentStep \in Nat,
           currentStep + 1 >= Len(wf)
    PROVE  CompletedSteps = StepJobs
<1> DEFINE k == Cardinality(Counting)
           n == Cardinality(CompletedSteps)
<1>1. CompletedSteps \in SUBSET StepJobs
  BY DEF CompletedSteps
<1>2. n <= Cardinality(StepJobs)
  BY <1>1, CountsFinite, FS_Subset
<1>3. k # 0
  BY CountsFinite, FS_EmptySet
<1>4. n \in Nat /\ k \in Nat /\ n <= Len(wf) /\ Len(wf) \in Nat
  BY <1>2, CountsFinite, FlowAssumption
<1>5. currentStep + k <= n
  BY DEF CountedOnce
<1> HIDE DEF n, k
<1>6. n = Len(wf)
  BY <1>3, <1>4, <1>5
<1>7. Cardinality(CompletedSteps) = Cardinality(StepJobs)
  BY <1>6, CountsFinite DEF n
<1> QED BY <1>1, <1>7, CountsFinite, FS_Subset

\* Rows stay.
LEMMA RowsStay ==
    ASSUME Core, RowsExist, [WNext]_allVars, NEW j \in Jobs, HasRow(j)
    PROVE  HasRow(j)'
<1>1. CASE JobMoves
  BY <1>1, RowsMoves DEF SameRows
<1>2. CASE EngineEffect
  <2>1. status \in [Jobs -> Statuses] /\ StepJobs \subseteq Jobs
    BY FlowAssumption DEF Core, TypeOK, StoreTypeOK, StepJobs
  <2> QED BY <1>2, <2>1 DEF EngineEffect, InsertJob, HasRow, storeVars
<1> QED BY <1>1, <1>2, WStep

\* The Advances do not miss a step that one of them unblocks: the one that
\* reads last sees what both have completed.
LEMMA NoneForgottenStep ==
    ASSUME Faultless, JobsSafe, RowsExist, Tidy, WorkflowTypeOK, BeforeRun, CountedOnce,
           Undamaged, NoneForgotten, [WNext]_allVars
    PROVE  NoneForgotten'
<1> SUFFICES ASSUME runStatus' = "running", NEW p \in StepJobs, Unblocked(p)'
             PROVE  p \in trigger' \/ \E s \in Sessions : WillSubmit(s, p)'
  BY DEF NoneForgotten
<1> DEFINE Goal == p \in trigger' \/ \E s \in Sessions : WillSubmit(s, p)'
<1>a. /\ LostStreams /\ (\A k : ~Fault(k)) /\ server = "up"
      /\ adv \in [Sessions -> Calls] /\ currentStep \in Nat /\ Len(wf) \in Nat
      /\ status \in [Jobs -> Statuses] /\ p \in Jobs /\ p \in Positions(wf)
      /\ \A s \in Sessions : ~CtxDone(s)
  BY NoFailure, FlowAssumption
     DEF Tidy, Orderly, WorkflowTypeOK, Calls, JobsSafe, Core, TypeOK, StoreTypeOK,
         StepJobs, Undamaged, Connected, CtxDone
<1>b. ~HasRow(p) /\ ~HasRow(p)'
  BY <1>a, RowsStay DEF Unblocked, JobsSafe
<1>c. ASSUME NEW q \in StepJobs, NEW previous, submitStep(q, previous)
      PROVE  p # q
  BY <1>a, <1>b, <1>c DEF submitStep, InsertWorkflowStep, InsertJob, HasRow
<1>1. CASE CompletedSteps' # CompletedSteps
  <2>1. PICK q \in StepJobs : q \notin CompletedSteps /\ q \in CompletedSteps'
    BY <1>a, <1>1, CompletedStays DEF CompletedSteps
  <2>2. PICK s \in Sessions : WorkHandler(s) /\ CallAfter(s) = "count"
    BY <1>a, <2>1, NewlyCompleted
  <2>3. adv'[s].pc = "count"
    BY <1>a, <2>2 DEF WorkHandler, Call, Calls
  <2> QED BY <2>3 DEF WillSubmit
<1>2. CASE CompletedSteps' = CompletedSteps
  <2>a. /\ Unblocked(p) /\ CompletedSteps # StepJobs
        /\ ToSet(Deps(wf, p)) \subseteq IDsOf(CompletedSteps)
    BY <1>b, <1>2 DEF Unblocked, IDsOf, CompletedSteps, HasRow
  <2>b. ASSUME NEW s \in Sessions, WillSubmit(s, p), adv'[s] = adv[s]
        PROVE  Goal
    BY <2>b DEF WillSubmit
  <2>c. ASSUME runStatus = "running", UNCHANGED <<trigger, adv>>
        PROVE  Goal
    BY <2>a, <2>b, <2>c DEF NoneForgotten
  <2>1. CASE runStatus # "running"
    <3>1. CreateWorkflowRun
      BY <1>a, <2>1
         DEF WNext, Up, JobStep, WorkHandler, Engine, Advance, AdvanceWorkflowRun,
             CompleteWorkflowRun, GetCompletedStepIndices, GetSubmittedStepIndices,
             AdvanceOutput, AdvanceSubmit, FailWorkflowRun, DbError, Trigger,
             TriggerWorkflow, TriggerSubmit, CancelRun, CancelWorkflowRunAtomic, WBoot, WCrash,
             allVars, workflowVars, runVars
    <3>2. CompletedSteps = {}
      BY <3>1 DEF CreateWorkflowRun, BeforeRun, CompletedSteps, HasRow
    <3>3. ToSet(Deps(wf, p)) = {}
      BY <2>a, <3>2 DEF IDsOf
    <3> QED BY <1>a, <3>1, <3>3 DEF CreateWorkflowRun, UnblockedSteps
  <2>2. CASE runStatus = "running"
    <3>a. ASSUME UNCHANGED trigger, NEW t \in Sessions, ~WillSubmit(t, p),
                 \A s \in Sessions \ {t} : adv'[s] = adv[s]
          PROVE  Goal
      BY <2>a, <2>b, <2>2, <3>a DEF NoneForgotten
    <3>b. ASSUME UNCHANGED trigger, NEW t \in Sessions, WillSubmit(t, p)',
                 \A s \in Sessions \ {t} : adv'[s] = adv[s]
          PROVE  Goal
      BY <3>b
    <3>1. ASSUME NEW t \in Sessions, WorkHandler(t)
          PROVE  Goal
      <4>1. /\ UNCHANGED trigger /\ ~WillSubmit(t, p)
            /\ \A s \in Sessions \ {t} : adv'[s] = adv[s]
        BY <1>a, <3>1 DEF WorkHandler, Call, WillSubmit
      <4> QED BY <3>a, <4>1
    <3>2. ASSUME NEW t \in Sessions, Engine(t)
          PROVE  Goal
      <4>a. UNCHANGED trigger /\ \A s \in Sessions \ {t} : adv'[s] = adv[s]
        BY <1>a, <3>2
           DEF Engine, Advance, AdvanceWorkflowRun, CompleteWorkflowRun,
               GetCompletedStepIndices, GetSubmittedStepIndices, AdvanceOutput,
               AdvanceSubmit, FailWorkflowRun, DbError, Call, Returns
      <4>1. CASE AdvanceWorkflowRun(t)
        <5>1. t \in Counting /\ registered
          BY <4>1 DEF AdvanceWorkflowRun, Counting, Undamaged
        <5>2. currentStep + 1 < Len(wf)
          BY <1>a, <2>a, <5>1, LastToCount
        <5>3. Call(t, "completed")
          BY <1>a, <2>2, <4>1, <5>1, <5>2 DEF AdvanceWorkflowRun, DbError
        <5>4. WillSubmit(t, p)'
          BY <1>a, <5>3 DEF Call, Calls, WillSubmit
        <5> QED BY <3>b, <4>a, <5>4
      <4>2. CASE CompleteWorkflowRun(t) \/ FailWorkflowRun(t)
        BY <1>a, <4>2 DEF CompleteWorkflowRun, FailWorkflowRun, DbError
      <4>3. CASE GetCompletedStepIndices(t)
        <5>1. adv' = [adv EXCEPT ![t].pc = "submitted",
                                 ![t].completedIDs = IDsOf(CompletedSteps)]
          BY <1>a, <4>3 DEF GetCompletedStepIndices, DbError, IDsOf, CompletedSteps
        <5>2. adv'[t].pc = "submitted" /\ adv'[t].completedIDs = IDsOf(CompletedSteps)
          BY <1>a, <5>1 DEF Calls
        <5>3. WillSubmit(t, p)'
          BY <2>a, <5>2 DEF WillSubmit
        <5> QED BY <3>b, <4>a, <5>3
      <4>4. CASE GetSubmittedStepIndices(t)
        <5> DEFINE R == UnblockedSteps(wf, adv[t].completedIDs,
                                       {q \in StepJobs : status[q] # "none"})
        <5>1. adv' = [adv EXCEPT ![t] = SubmitLoop(R)] /\ R \in SUBSET StepJobs
          BY <1>a, <4>4 DEF GetSubmittedStepIndices, DbError, UnblockedSteps, StepJobs
        <5>2. CASE ~WillSubmit(t, p)
          BY <3>a, <4>a, <5>2
        <5>3. CASE WillSubmit(t, p)
          <6>1. p \in R
            BY <1>a, <1>b, <4>4, <5>3
               DEF WillSubmit, GetSubmittedStepIndices, UnblockedSteps, HasRow
          <6> HIDE DEF R
          <6>2. adv'[t].pc = "output" /\ adv'[t].todo = R
            BY <1>a, <5>1, <6>1, SubmitLoopState
          <6>3. WillSubmit(t, p)'
            BY <6>1, <6>2 DEF WillSubmit
          <6> QED BY <3>b, <4>a, <6>3
        <5> QED BY <5>2, <5>3
      <4>5. ASSUME NEW q \in StepJobs, AdvanceSubmit(t, q, CtxDone(t))
            PROVE  Goal
        <5> DEFINE rest == adv[t].todo \ {q}
        <5>1. /\ adv[t].pc = "submit" /\ rest \in SUBSET StepJobs
              /\ adv' = [adv EXCEPT ![t] = SubmitLoop(rest)]
          BY <1>a, <4>5 DEF AdvanceSubmit, Calls
        <5>2. CASE ~WillSubmit(t, p)
          BY <3>a, <4>a, <5>2
        <5>3. CASE WillSubmit(t, p)
          <6>1. p # q
            BY <1>a, <1>c, <4>5 DEF AdvanceSubmit
          <6>2. p \in rest
            BY <5>1, <5>3, <6>1 DEF WillSubmit
          <6> HIDE DEF rest
          <6>3. adv'[t].pc = "output" /\ adv'[t].todo = rest
            BY <1>a, <5>1, <6>2, SubmitLoopState
          <6>4. WillSubmit(t, p)'
            BY <6>2, <6>3 DEF WillSubmit
          <6> QED BY <3>b, <4>a, <6>4
        <5> QED BY <5>2, <5>3
      <4>6. ASSUME NEW q \in StepJobs, AdvanceOutput(t, q)
            PROVE  Goal
        <5>1. /\ adv[t].pc = "output"
              /\ adv'[t].pc = "submit" /\ adv'[t].todo = adv[t].todo
          BY <1>a, <4>6, OutputState
        <5>2. CASE ~WillSubmit(t, p)
          BY <3>a, <4>a, <5>2
        <5>3. CASE WillSubmit(t, p)
          <6>1. WillSubmit(t, p)'
            BY <5>1, <5>3 DEF WillSubmit
          <6> QED BY <3>b, <4>a, <6>1
        <5> QED BY <5>2, <5>3
      <4> QED BY <3>2, <4>1, <4>2, <4>3, <4>4, <4>5, <4>6 DEF Engine, Advance
    <3>3. CASE Trigger
      <4>1. PICK q \in StepJobs : TriggerSubmit(q)
        BY <2>2, <3>3 DEF Trigger, TriggerWorkflow, CreateWorkflowRun
      <4>2. p # q /\ trigger' = trigger \ {q} /\ UNCHANGED adv
        BY <1>a, <1>c, <4>1 DEF TriggerSubmit
      <4> QED BY <2>a, <2>b, <2>2, <4>2 DEF NoneForgotten
    <3>4. ~CancelRun /\ ~WBoot /\ ~WCrash
      BY <1>a DEF CancelRun, CancelWorkflowRunAtomic, WBoot, BootReset, BootRecover,
                  WCrash, Crash
    <3>5. CASE JobStep \/ UNCHANGED allVars
      BY <2>c, <2>2, <3>5 DEF JobStep, allVars, workflowVars
    <3> QED BY <3>1, <3>2, <3>3, <3>4, <3>5 DEF WNext, Up
  <2> QED BY <2>1, <2>2
<1> QED BY <1>1, <1>2

\* README: downstream steps run once all their dependencies complete.  When
\* nothing fails and no step is cancelled by itself, a running run has no step
\* left that is unblocked and not submitted whenever no call of TriggerWorkflow
\* or Advance is in progress: two Advances that overlap do not both leave a
\* step to the other.
THEOREM UnblockedSubmittedHolds ==
    ASSUME Faultless
    PROVE  WSpec => []UnblockedSubmitted
<1>1. WInit => Undamaged /\ NoneForgotten
  BY DEF WInit, Init, ServerInit, WorkflowInit, Undamaged, Connected, NoneForgotten
<1>2. ASSUME RunTidy, Undamaged, NoneForgotten, [WNext]_allVars
      PROVE  Undamaged' /\ NoneForgotten'
  <2>1. /\ JobsSafe /\ RowsExist /\ Tidy /\ WorkflowTypeOK /\ BeforeRun /\ CountedOnce
        /\ Core /\ Orderly
    BY <1>2 DEF RunTidy, RunSafe, Tidy
  <2> QED BY <1>2, <2>1, UndamagedStep, NoneForgottenStep
<1>3. NoneForgotten => UnblockedSubmitted
  <2> DEFINE S == {p \in StepJobs : status[p] # "none"}
  <2> SUFFICES ASSUME NoneForgotten, runStatus = "running", trigger = {},
                      \A s \in Sessions : adv[s].pc = "idle",
                      NEW p \in UnblockedSteps(wf, IDsOf(CompletedSteps), S)
               PROVE  FALSE
    BY DEF UnblockedSubmitted, IDsOf, CompletedSteps
  <2>1. p \in StepJobs /\ Unblocked(p)
    BY DEF UnblockedSteps, StepJobs, Unblocked, HasRow
  <2>2. \A s \in Sessions : ~WillSubmit(s, p)
    BY DEF WillSubmit
  <2> QED BY <2>1, <2>2 DEF NoneForgotten
<1>4. WSpec => []RunTidy
  BY NoFailure, RunTidyInvariant
<1> QED BY <1>1, <1>2, <1>3, <1>4, PTL DEF WSpec
================================================================================

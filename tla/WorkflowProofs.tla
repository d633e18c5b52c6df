----------------------------- MODULE WorkflowProofs ----------------------------
(*****************************************************************************)
(* Theorems about a workflow run on top of the job system.  A step of the    *)
(* whole is a step of the job system, or a statement of the engine, which    *)
(* does little to the job system (EngineEffect); so the invariants of        *)
(* JobProofs carry over, and those of WorkflowInvariants are added to them.  *)
(*****************************************************************************)
EXTENDS WorkflowInvariants, ContractProofs

--------------------------------------------------------------------------------
(*****************************************************************************)
(* The job system under a run.                                               *)
(*****************************************************************************)
\* The steps of the job system that a run has: all but SubmitJob.
JobMoves ==
    /\ [Next]_vars
    /\ \/ \E j \in Jobs : CancelJob(j)
       \/ \E s \in Sessions : Worker(s) \/ Handler(s)
       \/ Relay \/ Promote \/ Reaper \/ Trouble \/ Boot \/ Crash
       \/ UNCHANGED vars

\* What the engine may do to the job system: at most one statement, which
\* inserts a job or cancels waiting ones, and at most one failure.
EngineEffect ==
    /\ UNCHANGED <<queueVars, relayVars, serviceVars, serverVars, server>>
    /\ NoFault \/ Fault("db")
    /\ \/ UNCHANGED storeVars
       \/ \E p \in StepJobs : InsertJob(p)
       \/ \E cancelled \in SUBSET {j \in Jobs : Waiting(j)} :
             /\ cancelled \cap locked = {}
             /\ status' = [j \in Jobs |-> IF j \in cancelled THEN "cancelled"
                                                             ELSE status[j]]
             /\ outbox' = outbox \ cancelled
             /\ UNCHANGED <<retryCount, locked>>

\* Every statement of Advance is an effect of that kind.
LEMMA AdvanceEffect ==
    ASSUME NEW s \in Sessions, Engine(s), UNCHANGED server
    PROVE  EngineEffect
<1> USE DEF EngineEffect, besidesStore
<1>1. CASE \/ AdvanceWorkflowRun(s) \/ CompleteWorkflowRun(s)
           \/ GetCompletedStepIndices(s) \/ GetSubmittedStepIndices(s)
           \/ FailWorkflowRun(s) \/ \E p \in StepJobs : AdvanceOutput(s, p)
  <2>1. UNCHANGED storeVars /\ (NoFault \/ Fault("db"))
    BY <1>1
       DEF AdvanceWorkflowRun, CompleteWorkflowRun, GetCompletedStepIndices,
           GetSubmittedStepIndices, AdvanceOutput, FailWorkflowRun, DbError
  <2> QED BY <2>1 DEF Engine
<1>2. ASSUME NEW p \in StepJobs, AdvanceSubmit(s, p, CtxDone(s))
      PROVE  EngineEffect
  <2>1. /\ UNCHANGED storeVars \/ InsertJob(p)
        /\ NoFault \/ Fault("db")
    BY <1>2 DEF AdvanceSubmit, submitStep, InsertWorkflowStep
  <2> QED BY <2>1 DEF Engine
<1> QED BY <1>1, <1>2 DEF Engine, Advance

\* Every step of the server with a run is one of the job system's steps or an
\* effect of the engine.
LEMMA WStep ==
    ASSUME [WNext]_allVars
    PROVE  JobMoves \/ EngineEffect
<1>1. CASE Up(JobStep)
  BY <1>1 DEF JobStep, JobMoves, Next, Up
<1>2. ASSUME NEW s \in Sessions, Up(WorkHandler(s))
      PROVE  JobMoves
  BY <1>2 DEF WorkHandler, JobMoves, Next, Up
<1>3. ASSUME NEW s \in Sessions, Up(Engine(s))
      PROVE  EngineEffect
  BY <1>3, AdvanceEffect DEF Up
<1>4. CASE Up(Trigger)
  <2>1. /\ UNCHANGED storeVars \/ \E p \in StepJobs : InsertJob(p)
        /\ NoFault \/ Fault("db")
    BY <1>4
       DEF Up, Trigger, TriggerWorkflow, CreateWorkflowRun, TriggerSubmit,
           submitStep, InsertWorkflowStep
  <2> QED BY <1>4, <2>1 DEF Up, Trigger, EngineEffect, besidesStore
<1>5. CASE Up(CancelRun)
  <2> DEFINE cancelled == {p \in StepJobs : status[p] \in {"pending", "retrying"}}
  <2>1. cancelled \in SUBSET {j \in Jobs : Waiting(j)}
    BY FlowAssumption DEF StepJobs, Waiting
  <2>2. /\ NoFault
        /\ cancelled \cap locked = {}
        /\ status' = [j \in Jobs |-> IF j \in cancelled THEN "cancelled"
                                                        ELSE status[j]]
        /\ outbox' = outbox \ cancelled
        /\ UNCHANGED <<retryCount, locked>>
    BY <1>5 DEF Up, CancelRun, CancelWorkflowRunAtomic
  <2> HIDE DEF cancelled
  <2> QED BY <1>5, <2>1, <2>2 DEF Up, CancelRun, EngineEffect, besidesStore
<1>6. CASE WBoot \/ WCrash
  BY <1>6 DEF WBoot, WCrash, JobMoves, Next, Boot
<1>7. CASE UNCHANGED allVars
  BY <1>7 DEF allVars, JobMoves
<1> QED BY <1>1, <1>2, <1>3, <1>4, <1>5, <1>6, <1>7 DEF WNext

\* The invariants of the job system survive its own steps ...
LEMMA JobsSafeStep ==
    ASSUME JobsSafe, [Next]_vars
    PROVE  JobsSafe'
<1>1. Charged'
  BY LocalEffectStep, ChargedFinish, ChargedLocal DEF JobsSafe
<1> QED BY <1>1, CoreStep, CountsStep, ResultsStep, OwnerStep, DelayedBackedStep
       DEF JobsSafe

\* ... and what the engine does.
LEMMA JobsSafeEngine ==
    ASSUME JobsSafe, EngineEffect
    PROVE  JobsSafe'
<1>a. /\ UNCHANGED <<queueVars, relayVars, serviceVars, serverVars, server>>
      /\ UNCHANGED retryCount
      /\ Core /\ StoreTypeOK /\ StepJobs \subseteq Jobs
  BY FlowAssumption
     DEF JobsSafe, Core, TypeOK, EngineEffect, storeVars, InsertJob, StepJobs
<1>b. UNCHANGED <<redisVars, due, payloads, delayed, queued, cancelRc, reaper, rc, job, pc,
                  outcome, fails, succ, owner>>
  BY <1>a DEF queueVars, redisVars, serviceVars, serverVars, memoryVars,
              handlerVars, workerVars
<1>1. StoreTypeOK'
  BY <1>a
     DEF EngineEffect, InsertJob, StoreTypeOK, storeVars, Statuses, Settled
<1>2. Core'
  <2>1. faults' \in 0..MaxFaults
    BY <1>a, FaultAssumption DEF EngineEffect, NoFault, Fault, Core, TypeOK
  <2>2. QueueTypeOK'
    BY <1>a, <1>b DEF Core, TypeOK, QueueTypeOK, redisVars
  <2>3. /\ RelayTypeOK' /\ RelayOK' /\ ServiceTypeOK' /\ ServerTypeOK' /\ ReaperOK'
        /\ \A s \in Sessions : SessionOK(s)'
    BY <1>a, LocalFrame
  <2> QED BY <1>a, <1>1, <2>1, <2>2, <2>3
       DEF Core, TypeOK, RelayOK, ReaperOK
<1>3. \A j \in Jobs : status'[j] \in {"failed", "completed"} => status'[j] = status[j]
  BY <1>a DEF EngineEffect, InsertJob, StoreTypeOK, storeVars
<1>4. \A j \in Jobs : Copies(j)' = Copies(j) /\ Uncharged(j)' = Uncharged(j)
  BY <1>a, <1>b DEF Copies, Uncharged
<1>5. Counts'
  BY <1>b, <1>4 DEF JobsSafe, Counts
<1>6. Charged'
  BY <1>b, <1>3, <1>4 DEF JobsSafe, Charged
<1>7. Results' /\ OwnerHandlesJob' /\ DelayedBacked'
  BY <1>b, <1>3 DEF JobsSafe, Results, OwnerHandlesJob, DelayedBacked
<1> QED BY <1>2, <1>5, <1>6, <1>7 DEF JobsSafe

\* So they hold in every state of the server with a run.
LEMMA JobsSafeInvariant == WSpec => []JobsSafe
<1>1. WInit => JobsSafe
  <2> SUFFICES ASSUME Init PROVE JobsSafe
    BY DEF WInit
  <2>1. Core /\ Counts /\ Charged
    BY CoreInit, CountsInit, ChargedInit
  <2>2. Results /\ OwnerHandlesJob /\ DelayedBacked
    BY NilAssumption
       DEF Init, QueueInit, ServerInit, StoreInit, Results, OwnerHandlesJob,
           DelayedBacked
  <2> QED BY <2>1, <2>2 DEF JobsSafe
<1>2. JobsSafe /\ [WNext]_allVars => JobsSafe'
  BY WStep, JobsSafeStep, JobsSafeEngine DEF JobMoves
<1> QED BY <1>1, <1>2, PTL DEF WSpec

\* What JobProofs shows of jobs submitted by themselves holds of the steps of a
\* workflow run, whatever fails and whoever cancels a step or the run: retry
\* counts stay within max_retries, a step is "failed" only after its last retry
\* and "completed" only if it succeeded, the owner of a step is a handler that
\* has it in hand, and a delayed step has its payload (TriggerWorkflow, Advance,
\* CancelWorkflowRunAtomic beside Work, handleResult, reaperTick and CancelJob).
THEOREM StepsAreSafeJobs ==
    WSpec => [](/\ TypeOK
                /\ RetryBound
                /\ FailedExhausted
                /\ CompletedHonestly
                /\ OwnerHandlesJob
                /\ DelayedBacked)
<1>1. JobsSafe => /\ TypeOK /\ RetryBound /\ FailedExhausted
                  /\ CompletedHonestly /\ OwnerHandlesJob /\ DelayedBacked
  BY DEF JobsSafe, Core, Counts, Copies, Charged, Results, RetryBound,
         FailedExhausted, CompletedHonestly
<1> QED BY <1>1, JobsSafeInvariant, PTL

--------------------------------------------------------------------------------
(*****************************************************************************)
(* The engine's own state.                                                   *)
(*****************************************************************************)
\* The states of an Advance.
Calls ==
    [pc : {"idle", "count", "finish", "completed", "submitted", "output",
           "submit", "fail"},
     completedIDs : SUBSET {wf[p].ID : p \in StepJobs},
     todo : SUBSET StepJobs,
     previous : BOOLEAN]

\* The loop over the unblocked steps ends when none is left, and otherwise
\* begins with the output of the next one.
LEMMA SubmitLoopState ==
    ASSUME NEW todo \in SUBSET StepJobs
    PROVE  /\ SubmitLoop(todo) \in Calls
           /\ SubmitLoop(todo).todo = todo
           /\ SubmitLoop(todo).completedIDs = {}
           /\ SubmitLoop(todo).pc = IF todo = {} THEN "idle" ELSE "output"
BY DEF SubmitLoop, NoCall, Calls

\* previousOutputFor leaves everything but its own call alone.
LEMMA OutputState ==
    ASSUME adv \in [Sessions -> Calls], NEW s \in Sessions, NEW p \in StepJobs,
           AdvanceOutput(s, p)
    PROVE  /\ UNCHANGED <<storeVars, registered, runVars, trigger, chained>>
           /\ adv[s].pc = "output" /\ First(adv[s].todo, p)
           /\ \E c \in Calls :
                 /\ adv' = [adv EXCEPT ![s] = c]
                 /\ c.pc = "submit" /\ c.todo = adv[s].todo
                 /\ c.completedIDs = adv[s].completedIDs
                 /\ c.previous = previousOutputFor(p) \/ Fault("db")
<1>1. PICK found \in BOOLEAN :
          /\ adv' = [adv EXCEPT ![s].pc = "submit", ![s].previous = found]
          /\ found = previousOutputFor(p) \/ Fault("db")
  BY DEF AdvanceOutput
<1> DEFINE c == [adv[s] EXCEPT !.pc = "submit", !.previous = found]
<1>2. adv[s] \in Calls
  OBVIOUS
<1>3. /\ c \in Calls /\ c.pc = "submit" /\ c.previous = found
      /\ c.todo = adv[s].todo /\ c.completedIDs = adv[s].completedIDs
  BY <1>2 DEF Calls
<1>4. adv' = [adv EXCEPT ![s] = c]
  BY <1>1
<1> HIDE DEF c
<1>5. c.previous = previousOutputFor(p) \/ Fault("db")
  BY <1>1, <1>3
<1>6. /\ UNCHANGED <<storeVars, registered, runVars, trigger, chained>>
      /\ adv[s].pc = "output" /\ First(adv[s].todo, p)
  BY DEF AdvanceOutput
<1> QED BY <1>3, <1>4, <1>5, <1>6

\* The engine's own variables keep their types.
LEMMA WorkflowTypeStep ==
    ASSUME WorkflowTypeOK, [WNext]_allVars
    PROVE  WorkflowTypeOK'
<1>a. /\ adv \in [Sessions -> Calls]
      /\ trigger \subseteq StepJobs /\ chained \subseteq StepJobs
      /\ runStatus \in {"none", "running", "completed", "failed", "cancelled"}
      /\ currentStep \in Nat /\ registered \in BOOLEAN
      /\ Len(wf) \in Nat
  BY FlowAssumption DEF WorkflowTypeOK, Calls
<1>b. NoCall \in Calls
  BY DEF NoCall, Calls
<1>c. \A s \in Sessions : Returns(s) => adv' \in [Sessions -> Calls]
  BY <1>a, <1>b DEF Returns
<1>d. ASSUME NEW s \in Sessions,
             NEW label \in {"idle", "count", "finish", "completed", "fail"},
             Call(s, label)
      PROVE  adv' \in [Sessions -> Calls]
  BY <1>a, <1>d DEF Call, Calls
<1>e. ASSUME adv' \in [Sessions -> Calls], trigger' \subseteq StepJobs,
             chained' \subseteq StepJobs,
             runStatus' \in {"none", "running", "completed", "failed", "cancelled"},
             currentStep' \in Nat, registered' \in BOOLEAN
      PROVE  WorkflowTypeOK'
  BY <1>e DEF WorkflowTypeOK, Calls
<1>1. CASE UNCHANGED workflowVars
  BY <1>a, <1>e, <1>1 DEF workflowVars, runVars
<1>2. ASSUME NEW s \in Sessions, WorkHandler(s)
      PROVE  WorkflowTypeOK'
  <2>1. CallAfter(s) \in {"idle", "count", "fail"}
    BY DEF CallAfter
  <2> QED BY <1>a, <1>d, <1>e, <1>2, <2>1 DEF WorkHandler, runVars
<1>3. ASSUME NEW s \in Sessions, Engine(s)
      PROVE  WorkflowTypeOK'
  <2>1. CASE AdvanceWorkflowRun(s)
    <3> DEFINE label == CASE currentStep' >= Len(wf)                -> "finish"
                          [] currentStep' < Len(wf) /\ registered   -> "completed"
                          [] currentStep' < Len(wf) /\ ~registered  -> "fail"
    <3>1. currentStep' \in Nat => label \in {"finish", "completed", "fail"}
      BY <1>a
    <3> HIDE DEF label
    <3>2. CASE currentStep' = currentStep + 1 /\ Call(s, label)
      BY <1>a, <1>d, <1>e, <2>1, <3>1, <3>2 DEF AdvanceWorkflowRun, runVars, DbError
    <3>3. CASE Returns(s) /\ UNCHANGED runVars
      BY <1>a, <1>c, <1>e, <2>1, <3>3 DEF AdvanceWorkflowRun, runVars
    <3> QED BY <2>1, <3>2, <3>3 DEF AdvanceWorkflowRun, DbError, label
  <2>2. CASE CompleteWorkflowRun(s) \/ FailWorkflowRun(s)
    BY <1>a, <1>c, <1>e, <2>2
       DEF CompleteWorkflowRun, FailWorkflowRun, DbError, runVars
  <2>3. CASE GetCompletedStepIndices(s)
    <3> DEFINE C == {wf[p].ID : p \in {q \in StepJobs : status[q] = "completed"}}
    <3>1. C \in SUBSET {wf[p].ID : p \in StepJobs}
      OBVIOUS
    <3> HIDE DEF C
    <3>2. CASE adv' = [adv EXCEPT ![s].pc = "submitted", ![s].completedIDs = C]
               /\ UNCHANGED runVars
      <4>1. adv' \in [Sessions -> Calls]
        BY <1>a, <3>1, <3>2 DEF Calls
      <4> QED BY <1>a, <1>e, <2>3, <3>2, <4>1 DEF GetCompletedStepIndices, runVars
    <3>3. CASE DbError(s)
      BY <1>a, <1>c, <1>e, <2>3, <3>3 DEF GetCompletedStepIndices, DbError, runVars
    <3> QED BY <2>3, <3>2, <3>3 DEF GetCompletedStepIndices, C
  <2>4. CASE GetSubmittedStepIndices(s)
    <3> DEFINE S == {p \in StepJobs : status[p] # "none"}
               R == UnblockedSteps(wf, adv[s].completedIDs, S)
    <3>1. R \subseteq StepJobs
      BY DEF UnblockedSteps, StepJobs
    <3> HIDE DEF R
    <3>2. CASE adv' = [adv EXCEPT ![s] = SubmitLoop(R)] /\ UNCHANGED runVars
      <4>1. adv' \in [Sessions -> Calls]
        BY <1>a, <3>1, <3>2, SubmitLoopState
      <4> QED BY <1>a, <1>e, <2>4, <3>2, <4>1 DEF GetSubmittedStepIndices, runVars
    <3>3. CASE DbError(s)
      BY <1>a, <1>c, <1>e, <2>4, <3>3 DEF GetSubmittedStepIndices, DbError, runVars
    <3> QED BY <2>4, <3>2, <3>3 DEF GetSubmittedStepIndices, R, S
  <2>5. ASSUME NEW p \in StepJobs, AdvanceSubmit(s, p, CtxDone(s))
        PROVE  WorkflowTypeOK'
    <3>1. adv' \in [Sessions -> Calls]
      <4>1. adv[s].todo \ {p} \in SUBSET StepJobs
        BY <1>a DEF Calls
      <4>2. adv' = [adv EXCEPT ![s] = SubmitLoop(adv[s].todo \ {p})]
        BY <2>5 DEF AdvanceSubmit
      <4> QED BY <1>a, <4>1, <4>2, SubmitLoopState
    <3>2. chained' \subseteq StepJobs
      BY <1>a, <2>5 DEF AdvanceSubmit, submitStep
    <3> QED BY <1>a, <1>e, <2>5, <3>1, <3>2 DEF AdvanceSubmit, runVars
  <2>6. ASSUME NEW p \in StepJobs, AdvanceOutput(s, p)
        PROVE  WorkflowTypeOK'
    <3>1. adv' \in [Sessions -> Calls]
      BY <1>a, <2>6, OutputState
    <3> QED BY <1>a, <1>e, <2>6, <3>1, OutputState DEF runVars
  <2> QED BY <1>3, <2>1, <2>2, <2>3, <2>4, <2>5, <2>6 DEF Engine, Advance
<1>4. CASE Trigger
  <2>1. CASE CreateWorkflowRun
    BY <1>a, <1>e, <2>1 DEF CreateWorkflowRun, UnblockedSteps, StepJobs
  <2>2. ASSUME NEW p \in StepJobs, TriggerSubmit(p)
        PROVE  WorkflowTypeOK'
    <3>1. trigger' \subseteq StepJobs /\ chained' \subseteq StepJobs
      BY <1>a, <2>2 DEF TriggerSubmit, submitStep
    <3> QED BY <1>a, <1>e, <2>2, <3>1 DEF TriggerSubmit, runVars
  <2> QED BY <1>4, <2>1, <2>2 DEF Trigger, TriggerWorkflow
<1>5. CASE CancelRun
  BY <1>a, <1>e, <1>5 DEF CancelRun, CancelWorkflowRunAtomic
<1>6. CASE WBoot
  BY <1>1, <1>a, <1>e, <1>6 DEF WBoot, runVars
<1>7. CASE WCrash
  BY <1>a, <1>b, <1>e, <1>7 DEF WCrash, runVars
<1> QED BY <1>1, <1>2, <1>3, <1>4, <1>5, <1>6, <1>7
       DEF WNext, Up, JobStep, allVars

\* The variables of the engine keep their types, whatever fails: no Advance
\* counts, reads or submits anything but the steps of its workflow
\* (TriggerWorkflow, Advance, FailWorkflowRun, CancelWorkflowRun).
THEOREM WorkflowTypeCorrect == WSpec => []WorkflowTypeOK
<1>1. WInit => WorkflowTypeOK
  BY DEF WInit, WorkflowInit, WorkflowTypeOK, NoCall
<1> QED BY <1>1, WorkflowTypeStep, PTL DEF WSpec

--------------------------------------------------------------------------------
(*****************************************************************************)
(* Every id in use has a row, and only the engine makes rows.                *)
(*****************************************************************************)
\* LREM adds nothing to a list.
LEMMA RemoveFirstFewer ==
    ASSUME NEW q \in Seq(Jobs), NEW e
    PROVE  ToSet(RemoveFirst(q, e)) \subseteq ToSet(q)
<1>1. CASE \E i \in 1..Len(q) : q[i] = e
  <2> DEFINE I == {i \in 1..Len(q) : q[i] = e}
             m == Min(I)
             u == SubSeq(q, 1, m - 1)
             v == SubSeq(q, m + 1, Len(q))
  <2>1. I # {} /\ I \in SUBSET Nat
    BY <1>1
  <2>2. m \in 1..Len(q)
    <3>1. m \in I
      <4> HIDE DEF I
      <4> QED BY <2>1, SmallestIndex
    <3> QED BY <3>1
  <2>3. RemoveFirst(q, e) = u \o v
    BY <1>1, <2>1 DEF RemoveFirst, RemoveAt, SelectInSeq
  <2> HIDE DEF m
  <2>4. /\ u \in Seq(Jobs) /\ Len(u) = m - 1
        /\ \A i \in 1..(m - 1) : u[i] = q[i]
    BY <2>2
  <2>5. /\ v \in Seq(Jobs) /\ Len(v) = Len(q) - m
        /\ \A i \in 1..(Len(q) - m) : v[i] = q[m + i]
    BY <2>2
  <2> HIDE DEF u, v
  <2>6. ToSet(u) \subseteq ToSet(q)
    BY <2>2, <2>4 DEF ToSet
  <2>7. ToSet(v) \subseteq ToSet(q)
    <3> SUFFICES ASSUME NEW i \in 1..Len(v) PROVE v[i] \in ToSet(q)
      BY <2>5 DEF ToSet
    <3>1. m + i \in 1..Len(q) /\ v[i] = q[m + i]
      BY <2>2, <2>5
    <3> QED BY <3>1 DEF ToSet
  <2>8. ToSet(u \o v) = ToSet(u) \cup ToSet(v)
    BY <2>4, <2>5, ConcatDistinct
  <2> QED BY <2>3, <2>6, <2>7, <2>8
<1>2. CASE ~ \E i \in 1..Len(q) : q[i] = e
  BY <1>2 DEF RemoveFirst
<1> QED BY <1>1, <1>2

\* A step that neither makes nor deletes rows.
SameRows == \A j \in Jobs : HasRow(j)' <=> HasRow(j)

\* The job system's steps on the steps of a run work on rows that exist, and
\* make no new ones: the Work handler,
LEMMA RowsHandler ==
    ASSUME Core, RowsExist, NEW s \in Sessions, Handler(s)
    PROVE  SameRows /\ RowsExist'
<1>a. /\ ready \in Seq(Jobs) /\ processing \in Seq(Jobs)
      /\ delayed \subseteq Jobs /\ due \subseteq Jobs /\ outbox \subseteq Jobs
      /\ job \in [Sessions -> Jobs \cup {Nil}] /\ Nil \notin Jobs
      /\ status \in [Jobs -> Statuses] /\ cancelPc \in [Jobs -> {"idle", "update", "outbox", "queue"}]
      /\ relay.todo \subseteq Jobs /\ relay.job \in Jobs \cup {Nil}
      /\ reaper.list \subseteq Jobs /\ reaper.job \in Jobs \cup {Nil}
  BY NilAssumption
     DEF Core, TypeOK, QueueTypeOK, StoreTypeOK, ServiceTypeOK, RelayTypeOK, ServerTypeOK
<1>b. HandlerScope(s) /\ UNCHANGED <<relay, cancelPc, due>>
  BY HandlerScopeStep DEF Handler, relayVars, serviceVars
<1>c. UNCHANGED reaper
  BY DEF Handler, HandlerStep, RecvReady, RecvError, RecvHeartbeat,
         recordHeartbeat, RecvResult, Pop, ConsumeError, HGet, Drop,
         StoreOwner, SetRunning, Send, RequeueDb, RequeueRedis, GetJob,
         AckResult, CompleteResult, MarkRetrying, RetryResult, MarkFailed,
         FailResult
<1>1. SameRows
  <2> SUFFICES ASSUME NEW j \in Jobs PROVE HasRow(j)' <=> HasRow(j)
    BY DEF SameRows
  <2>1. CASE j # job[s]
    BY <1>b, <2>1 DEF HandlerScope, HasRow
  <2>2. CASE j = job[s]
    <3>1. HasRow(j)
      BY <1>a, <2>2 DEF RowsExist, HandlerRows
    <3> QED BY <1>a, <2>2, <3>1, HandlerRow DEF HasRow
  <2> QED BY <2>1, <2>2
<1>2. RelayRows' /\ CancelRows' /\ ReaperRows'
  BY <1>a, <1>b, <1>c, <1>1
     DEF HandlerScope, SameRows, RowsExist, RelayRows, CancelRows, ReaperRows
<1>3. /\ QueueRows'
      /\ job'[s] # Nil => job'[s] \in Jobs /\ HasRow(job'[s])
  <2>0. ASSUME NEW j PROVE ToSet(RemoveFirst(processing, j)) \subseteq ToSet(processing)
    BY <1>a, RemoveFirstFewer
  <2>a. ToSet(ready) \subseteq Jobs /\ ToSet(processing) \subseteq Jobs
    BY <1>a DEF ToSet
  <2>1. CASE Pop(s)
    <3> DEFINE e == ready[Len(ready)]
               r == SubSeq(ready, 1, Len(ready) - 1)
    <3>1. ready # <<>> /\ e \in Jobs /\ e \in ToSet(ready)
      BY <1>a, <2>1 DEF Pop, ConsumePop, ToSet
    <3>2. ToSet(r) \subseteq ToSet(ready)
      <4>1. DOMAIN r \subseteq DOMAIN ready /\ \A i \in DOMAIN r : r[i] = ready[i]
        BY <1>a, <3>1
      <4> HIDE DEF r
      <4> QED BY <4>1 DEF ToSet
    <3>3. ToSet(<<e>> \o processing) = ToSet(processing) \cup {e}
      BY <1>a, <3>1, PushDistinct
    <3>4. /\ ready' = r /\ processing' = <<e>> \o processing
          /\ UNCHANGED delayed /\ job'[s] = e
      BY <1>a, <2>1 DEF Pop, ConsumePop
    <3> HIDE DEF e, r
    <3> QED BY <1>a, <1>b, <1>1, <2>a, <3>1, <3>2, <3>3, <3>4
         DEF SameRows, RowsExist, QueueRows
  <2>2. CASE /\ pc[s] \in {"requeue_redis", "retry_redis"}
             /\ Retry(job[s], rc[s])
             /\ job'[s] = Nil
    <3>1. job[s] \in Jobs /\ HasRow(job[s])
      BY <1>a, <2>2 DEF Core, SessionOK, RowsExist, HandlerRows
    <3>2. /\ ready' = ready /\ delayed' = delayed \cup {job[s]}
          /\ ToSet(processing') \subseteq ToSet(processing)
      BY <2>0, <2>2 DEF Retry
    <3> QED BY <1>a, <1>b, <1>1, <2>2, <2>a, <3>1, <3>2
         DEF SameRows, RowsExist, QueueRows
  <2>3. CASE /\ UNCHANGED ready
             /\ delayed' \subseteq delayed
             /\ \E j : processing' \in {processing, RemoveFirst(processing, j)}
             /\ job'[s] \in {job[s], Nil}
    <3>1. ToSet(processing') \subseteq ToSet(processing)
      BY <2>0, <2>3
    <3> QED BY <1>a, <1>b, <1>1, <2>3, <2>a, <3>1
         DEF SameRows, RowsExist, QueueRows, HandlerRows
  <2> QED BY <2>1, <2>2, <2>3, HandlerEntries
<1>4. HandlerRows'
  BY <1>a, <1>b, <1>1, <1>3 DEF HandlerScope, SameRows, RowsExist, HandlerRows
<1> QED BY <1>1, <1>2, <1>3, <1>4 DEF RowsExist

\* CancelJob, the relay and the promoter,
LEMMA RowsService ==
    ASSUME Core, RowsExist, Relay \/ Promote \/ \E j \in Jobs : CancelJob(j)
    PROVE  SameRows /\ RowsExist'
<1>a. /\ ready \in Seq(Jobs) /\ processing \in Seq(Jobs)
      /\ delayed \subseteq Jobs /\ due \subseteq Jobs /\ outbox \subseteq Jobs
      /\ job \in [Sessions -> Jobs \cup {Nil}] /\ Nil \notin Jobs
      /\ status \in [Jobs -> Statuses]
      /\ cancelPc \in [Jobs -> {"idle", "update", "outbox", "queue"}]
      /\ relay \in [pc : {"idle", "next", "exec"}, todo : SUBSET Jobs,
                    job : Jobs \cup {Nil}, added : BOOLEAN]
      /\ relay.pc = "exec" => relay.job \in Jobs
      /\ reaper.list \subseteq Jobs /\ reaper.job \in Jobs \cup {Nil}
  BY NilAssumption
     DEF Core, TypeOK, QueueTypeOK, StoreTypeOK, ServiceTypeOK, RelayTypeOK,
         ServerTypeOK
<1>b. UNCHANGED <<job, reaper>>
  BY DEF Relay, Promote, CancelJob, serverVars, handlerVars
<1>c. ToSet(ready) \subseteq Jobs /\ ToSet(processing) \subseteq Jobs
  BY <1>a DEF ToSet
<1>d. SameRows => HandlerRows' /\ ReaperRows'
  BY <1>a, <1>b DEF SameRows, RowsExist, HandlerRows, ReaperRows
<1>1. CASE Relay
  <2>a. UNCHANGED <<due, cancelPc>>
    BY <1>1 DEF Relay, serviceVars
  <2>b. SameRows
    BY <1>1 DEF Relay, RelayStep, RelayBegin, GetUnprocessedOutbox, RelaySAdd,
                RelayExec, RelayCommit, CommitOutbox, RelayAbort, Rollback,
                storeVars, SameRows, HasRow
  <2>c. CancelRows'
    BY <2>a, <2>b DEF SameRows, RowsExist, CancelRows
  <2>d. UNCHANGED <<ready, processing, delayed>> => QueueRows'
    BY <1>a, <1>c, <2>a, <2>b DEF SameRows, RowsExist, QueueRows
  <2>1. CASE RelayBegin
    <3>1. relay'.todo = outbox /\ relay'.job = Nil /\ UNCHANGED <<outbox, redisVars>>
      BY <2>1 DEF RelayBegin, RelayIdle, GetUnprocessedOutbox
    <3>2. RelayRows'
      BY <1>a, <2>b, <3>1 DEF SameRows, RowsExist, RelayRows
    <3> QED BY <1>d, <2>b, <2>c, <2>d, <3>1, <3>2 DEF RowsExist, redisVars
  <2>2. ASSUME NEW j \in Jobs, RelaySAdd(j)
        PROVE  RowsExist'
    <3>1. /\ j \in relay.todo /\ relay'.todo = relay.todo /\ relay'.job = j
          /\ UNCHANGED <<outbox, ready, processing, delayed>>
      BY <1>a, <2>2 DEF RelaySAdd, EnqueueSAdd, storeVars
    <3>2. RelayRows'
      BY <1>a, <2>b, <3>1 DEF SameRows, RowsExist, RelayRows
    <3> QED BY <1>d, <2>b, <2>c, <2>d, <3>1, <3>2 DEF RowsExist
  <2>3. CASE RelayExec
    <3>1. /\ relay.job \in Jobs /\ HasRow(relay.job)
          /\ relay'.todo \subseteq relay.todo /\ relay'.job = Nil
          /\ UNCHANGED <<outbox, processing, delayed>>
          /\ ready' \in {ready, <<relay.job>> \o ready}
      BY <1>a, <2>3 DEF RelayExec, EnqueueExec, storeVars, RowsExist, RelayRows
    <3>2. ToSet(<<relay.job>> \o ready) = ToSet(ready) \cup {relay.job}
      BY <1>a, <3>1, PushDistinct
    <3>3. ToSet(ready') \subseteq ToSet(ready) \cup {relay.job}
      BY <3>1, <3>2
    <3>4. QueueRows'
      BY <1>a, <1>c, <2>a, <2>b, <3>1, <3>3 DEF SameRows, RowsExist, QueueRows
    <3>5. RelayRows'
      BY <1>a, <2>b, <3>1 DEF SameRows, RowsExist, RelayRows
    <3> QED BY <1>d, <2>b, <2>c, <3>4, <3>5 DEF RowsExist
  <2>4. CASE RelayCommit \/ RelayAbort
    <3>0. relay' = RelayIdle
      BY <2>4, Zenon DEF RelayCommit, RelayAbort
    <3>1. /\ relay'.todo = {} /\ relay'.job = Nil /\ outbox' \subseteq outbox
          /\ UNCHANGED redisVars
      BY <2>4, <3>0 DEF RelayCommit, RelayAbort, CommitOutbox, Rollback, RelayIdle
    <3>2. RelayRows'
      BY <1>a, <2>b, <3>1 DEF SameRows, RowsExist, RelayRows
    <3> QED BY <1>d, <2>b, <2>c, <2>d, <3>1, <3>2 DEF RowsExist, redisVars
  <2> QED BY <1>1, <2>b, <2>1, <2>2, <2>3, <2>4 DEF Relay, RelayStep
<1>2. CASE Promote
  <2>a. UNCHANGED <<status, outbox, relay, cancelPc>> /\ SameRows
    BY <1>2 DEF Promote, storeVars, relayVars, serviceVars, SameRows, HasRow
  <2>b. RelayRows' /\ CancelRows'
    BY <1>a, <2>a DEF SameRows, RowsExist, RelayRows, CancelRows
  <2>1. CASE PromoteRead \/ PromoteError
    <3>1. UNCHANGED <<ready, processing, delayed>> /\ due' \subseteq due \cup delayed
      BY <2>1 DEF PromoteRead, PromoteError, redisVars
    <3>2. QueueRows'
      BY <1>a, <1>c, <2>a, <3>1 DEF SameRows, RowsExist, QueueRows
    <3> QED BY <1>d, <2>a, <2>b, <3>2 DEF RowsExist
  <2>2. CASE PromoteExec
    <3>1. PICK order \in SetToSeqs(due) : ready' = order \o ready
      BY <2>2 DEF PromoteExec
    <3>2. order \in Seq(Jobs) /\ ToSet(order) \subseteq due
      BY <1>a, OrderDistinct, SetToSeqsType
    <3>3. ToSet(ready') = ToSet(order) \cup ToSet(ready)
      BY <1>a, <3>1, <3>2, ConcatDistinct
    <3>4. delayed' \subseteq delayed /\ due' = {} /\ UNCHANGED processing
      BY <2>2 DEF PromoteExec
    <3>5. QueueRows'
      BY <1>a, <1>c, <2>a, <3>2, <3>3, <3>4 DEF SameRows, RowsExist, QueueRows
    <3> QED BY <1>d, <2>a, <2>b, <3>5 DEF RowsExist
  <2> QED BY <1>2, <2>a, <2>1, <2>2 DEF Promote
<1>3. ASSUME NEW j \in Jobs, CancelJob(j)
      PROVE  SameRows /\ RowsExist'
  <2>a. UNCHANGED <<due, relay>>
    BY <1>3 DEF CancelJob, relayVars
  <2>b. HasRow(j)
    BY <1>3 DEF CancelJob, CancelStep, CancelRead, CancelUpdate, CancelOutbox,
                CancelQueue, RowsExist, CancelRows, HasRow
  <2>c. /\ outbox' \subseteq outbox
        /\ \A k \in Jobs : k # j => cancelPc'[k] = cancelPc[k]
        /\ UNCHANGED status \/ status' = [status EXCEPT ![j] = "cancelled"]
    BY <1>3, <1>a
       DEF CancelJob, CancelStep, CancelRead, CancelUpdate, CancelOutbox,
           CancelQueue, UpdateJobState, CancelOutboxEntry, storeVars
  <2>d. SameRows
    BY <1>a, <2>b, <2>c DEF SameRows, HasRow
  <2>e. \/ UNCHANGED <<ready, processing, delayed>>
        \/ /\ ready' = RemoveFirst(ready, j)
           /\ processing' = RemoveFirst(processing, j)
           /\ delayed' \subseteq delayed
    BY <1>3
       DEF CancelJob, CancelStep, CancelRead, CancelUpdate, CancelOutbox,
           CancelQueue, Cancel, Forget, redisVars
  <2>f. /\ ToSet(ready') \subseteq ToSet(ready) /\ delayed' \subseteq delayed
        /\ ToSet(processing') \subseteq ToSet(processing)
    BY <1>a, <2>e, RemoveFirstFewer
  <2>1. QueueRows'
    BY <1>a, <1>c, <2>a, <2>d, <2>f DEF SameRows, RowsExist, QueueRows
  <2>2. RelayRows' /\ CancelRows'
    BY <1>a, <2>a, <2>b, <2>c, <2>d DEF SameRows, RowsExist, RelayRows, CancelRows
  <2> QED BY <1>d, <2>d, <2>1, <2>2 DEF RowsExist
<1> QED BY <1>1, <1>2, <1>3

\* the reaper,
LEMMA RowsReaper ==
    ASSUME Core, RowsExist, Reaper
    PROVE  SameRows /\ RowsExist'
<1>a. /\ ready \in Seq(Jobs) /\ processing \in Seq(Jobs)
      /\ delayed \subseteq Jobs /\ due \subseteq Jobs /\ outbox \subseteq Jobs
      /\ job \in [Sessions -> Jobs \cup {Nil}] /\ Nil \notin Jobs
      /\ status \in [Jobs -> Statuses]
      /\ relay.todo \subseteq Jobs /\ relay.job \in Jobs \cup {Nil}
      /\ reaper \in [pc : {"idle", "check", "clear", "update", "retry"},
                     list : SUBSET Jobs, job : Jobs \cup {Nil}, rc : [Jobs -> Nat]]
      /\ reaper.pc \in {"clear", "update", "retry"} => reaper.job \in Jobs
  BY NilAssumption
     DEF Core, TypeOK, QueueTypeOK, StoreTypeOK, RelayTypeOK, ServerTypeOK
<1>b. ToSet(ready) \subseteq Jobs /\ ToSet(processing) \subseteq Jobs
  BY <1>a DEF ToSet
<1>c. UNCHANGED <<due, relay, cancelPc, job, outbox, ready>>
  BY DEF Reaper, ReaperStep, ReaperList, ReaperCheck, ReaperClear, ReaperUpdate,
         ReaperRetry, TryDb, TryRedis, UpdateJobState, Retry, relayVars,
         serviceVars, handlerVars, redisVars, storeVars
<1>d. reaper.pc \in {"update", "retry"} => HasRow(reaper.job) /\ reaper.job \in Jobs
  BY <1>a DEF RowsExist, ReaperRows
<1>1. SameRows
  <2>1. UNCHANGED status \/ (reaper.pc = "update"
                             /\ status' = [status EXCEPT ![reaper.job] = "pending"])
    BY DEF Reaper, ReaperStep, ReaperList, ReaperCheck, ReaperClear,
           ReaperUpdate, ReaperRetry, TryDb, UpdateJobState, storeVars
  <2> QED BY <1>a, <1>d, <2>1 DEF SameRows, HasRow
<1>2. QueueRows'
  <2>1. \/ UNCHANGED <<processing, delayed>>
        \/ /\ reaper.pc = "retry"
           /\ processing' = RemoveFirst(processing, reaper.job)
           /\ delayed' = delayed \cup {reaper.job}
    BY DEF Reaper, ReaperStep, ReaperList, ReaperCheck, ReaperClear,
           ReaperUpdate, ReaperRetry, TryRedis, Retry, redisVars
  <2>2. ToSet(processing') \subseteq ToSet(processing)
    BY <1>a, <2>1, RemoveFirstFewer
  <2> QED BY <1>a, <1>b, <1>c, <1>d, <1>1, <2>1, <2>2
       DEF SameRows, RowsExist, QueueRows
<1>3. RelayRows' /\ HandlerRows' /\ CancelRows'
  BY <1>a, <1>c, <1>1
     DEF SameRows, RowsExist, RelayRows, HandlerRows, CancelRows
<1>4. ReaperRows'
  <2>1. CASE ReaperList
    <3>1. /\ \A j \in reaper'.list : j \in Jobs /\ status[j] = "running"
          /\ reaper'.job = Nil
      BY <2>1 DEF ReaperList, RunningJobs
    <3> QED BY <1>1, <3>1 DEF SameRows, ReaperRows, HasRow
  <2>2. ASSUME NEW j \in Jobs, j \in reaper.list \cup {reaper.job}, ReaperNext(j)
        PROVE  ReaperRows'
    <3>1. reaper'.list \subseteq reaper.list /\ reaper'.job = Nil
      BY <1>a, <2>2 DEF ReaperNext, ReaperIdle
    <3> QED BY <1>a, <1>1, <3>1 DEF SameRows, RowsExist, ReaperRows
  <2>3. ASSUME reaper'.list = reaper.list,
               reaper'.job \in reaper.list \cup {reaper.job}
        PROVE  ReaperRows'
    BY <1>a, <1>1, <2>3 DEF SameRows, RowsExist, ReaperRows
  <2>4. ASSUME NEW j \in Jobs, ReaperCheck(j)
        PROVE  ReaperRows'
    <3>1. CASE ReaperNext(j)
      BY <2>2, <2>4, <3>1 DEF ReaperCheck
    <3>2. CASE reaper' = [reaper EXCEPT !.pc = "clear", !.job = j]
      BY <1>a, <2>3, <2>4, <3>2 DEF ReaperCheck
    <3> QED BY <2>4, <3>1, <3>2 DEF ReaperCheck
  <2>5. CASE ReaperClear \/ ReaperUpdate
    BY <1>a, <2>3, <2>5 DEF ReaperClear, ReaperUpdate
  <2>6. CASE ReaperRetry
    BY <1>a, <2>2, <2>6 DEF ReaperRetry
  <2> QED BY <2>1, <2>4, <2>5, <2>6 DEF Reaper, ReaperStep
<1> QED BY <1>1, <1>2, <1>3, <1>4 DEF RowsExist

\* and the server's crash and restart, and what happens outside.
LEMMA RowsServer ==
    ASSUME Core, RowsExist,
           \/ \E s \in Sessions : Worker(s)
           \/ Trouble \/ Boot \/ Crash \/ UNCHANGED vars
    PROVE  SameRows /\ RowsExist'
<1>a. /\ ready \in Seq(Jobs) /\ processing \in Seq(Jobs)
      /\ delayed \subseteq Jobs /\ due \subseteq Jobs /\ outbox \subseteq Jobs
      /\ job \in [Sessions -> Jobs \cup {Nil}] /\ Nil \notin Jobs
      /\ status \in [Jobs -> Statuses]
      /\ relay.todo \subseteq Jobs /\ relay.job \in Jobs \cup {Nil}
      /\ reaper.list \subseteq Jobs /\ reaper.job \in Jobs \cup {Nil}
  BY NilAssumption
     DEF Core, TypeOK, QueueTypeOK, StoreTypeOK, RelayTypeOK, ServerTypeOK
<1>b. ToSet(ready) \subseteq Jobs /\ ToSet(processing) \subseteq Jobs
  BY <1>a DEF ToSet
<1>1. CASE UNCHANGED <<status, outbox, ready, processing, delayed, due, relay,
                       cancelPc, job, reaper>>
  BY <1>1 DEF SameRows, HasRow, RowsExist, QueueRows, RelayRows, HandlerRows,
              CancelRows, ReaperRows
<1>2. ASSUME \/ \E s \in Sessions : Worker(s)
             \/ Trouble \/ UNCHANGED vars
      PROVE  SameRows /\ RowsExist'
  BY <1>1, <1>2
     DEF Worker, Connect, Finish, Trouble, Disconnect, HeartbeatTimeout, vars,
         queueVars, redisVars, storeVars, relayVars, serviceVars, serverVars,
         handlerVars, workerVars
<1>3. CASE BootReset
  <2>1. /\ status' = [j \in Jobs |-> IF j \in RunningJobs THEN "pending" ELSE status[j]]
        /\ outbox' = outbox \cup RunningJobs
        /\ UNCHANGED <<ready, processing, delayed, due, relay, cancelPc, job, reaper>>
    BY <1>3 DEF BootReset, ResetRunningJobs, queueVars, redisVars, relayVars,
                serviceVars, serverVars, handlerVars
  <2>2. SameRows /\ \A j \in RunningJobs : j \in Jobs /\ HasRow(j)
    BY <1>a, <2>1 DEF SameRows, HasRow, RunningJobs
  <2>3. QueueRows' /\ HandlerRows' /\ CancelRows' /\ ReaperRows'
    BY <1>a, <1>b, <2>1, <2>2
       DEF SameRows, RowsExist, QueueRows, HandlerRows, CancelRows, ReaperRows
  <2>4. RelayRows'
    BY <1>a, <2>1, <2>2 DEF SameRows, RowsExist, RelayRows
  <2> QED BY <2>2, <2>3, <2>4 DEF RowsExist
<1>4. CASE BootRecover
  <2>1. /\ UNCHANGED <<status, outbox, delayed, due, relay, cancelPc, job, reaper>>
        /\ ready' = ready \o processing /\ processing' = <<>>
    BY <1>4 DEF BootRecover, Recover, storeVars, relayVars, serviceVars,
                serverVars, handlerVars
  <2>2. ToSet(ready') = ToSet(ready) \cup ToSet(processing) /\ ToSet(processing') = {}
    <3>1. ToSet(ready \o processing) = ToSet(ready) \cup ToSet(processing)
      BY <1>a, ConcatDistinct
    <3>2. ToSet(<<>>) = {}
      BY DEF ToSet
    <3> QED BY <2>1, <3>1, <3>2
  <2>3. SameRows
    BY <2>1 DEF SameRows, HasRow
  <2>4. QueueRows'
    BY <1>a, <1>b, <2>1, <2>2 DEF RowsExist, QueueRows, HasRow
  <2>5. RelayRows' /\ HandlerRows' /\ CancelRows' /\ ReaperRows'
    BY <2>1 DEF HasRow, RowsExist, RelayRows, HandlerRows, CancelRows, ReaperRows
  <2> QED BY <2>3, <2>4, <2>5 DEF RowsExist
<1>5. CASE Crash
  <2>1. /\ UNCHANGED <<status, outbox, ready, processing, delayed>> /\ due' = {}
        /\ relay'.todo = {} /\ relay'.job = Nil
        /\ reaper'.list = {} /\ reaper'.job = Nil
        /\ \A s \in Sessions : job'[s] = Nil
        /\ \A j \in Jobs : cancelPc'[j] = "idle"
    BY <1>5 DEF Crash, RelayIdle, ReaperIdle, redisVars
  <2> QED BY <2>1 DEF SameRows, HasRow, RowsExist, QueueRows, RelayRows,
                      HandlerRows, CancelRows, ReaperRows
<1> QED BY <1>2, <1>3, <1>4, <1>5 DEF Boot

\* Every step of the job system that a run has.
LEMMA RowsMoves ==
    ASSUME Core, RowsExist, JobMoves
    PROVE  SameRows /\ RowsExist'
<1>1. ASSUME NEW s \in Sessions, Handler(s) PROVE SameRows /\ RowsExist'
  BY <1>1, RowsHandler
<1>2. ASSUME \/ \E j \in Jobs : CancelJob(j)
             \/ Relay \/ Promote
      PROVE  SameRows /\ RowsExist'
  BY <1>2, RowsService
<1>3. CASE Reaper
  BY <1>3, RowsReaper
<1>4. ASSUME \/ \E s \in Sessions : Worker(s)
             \/ Trouble \/ Boot \/ Crash \/ UNCHANGED vars
      PROVE  SameRows /\ RowsExist'
  BY <1>4, RowsServer
<1> QED BY <1>1, <1>2, <1>3, <1>4 DEF JobMoves

\* A statement of the engine works on rows that exist, or inserts one with its
\* outbox row.
LEMMA RowsEngine ==
    ASSUME Core, RowsExist, EngineEffect
    PROVE  RowsExist'
<1>a. /\ UNCHANGED <<ready, processing, delayed, due, relay, cancelPc, job, reaper>>
      /\ outbox \subseteq Jobs /\ status \in [Jobs -> Statuses]
      /\ ready \in Seq(Jobs) /\ processing \in Seq(Jobs)
      /\ delayed \subseteq Jobs /\ due \subseteq Jobs
      /\ job \in [Sessions -> Jobs \cup {Nil}]
      /\ relay.todo \subseteq Jobs /\ relay.job \in Jobs \cup {Nil}
      /\ reaper.list \subseteq Jobs /\ reaper.job \in Jobs \cup {Nil}
      /\ StepJobs \subseteq Jobs
  BY FlowAssumption
     DEF EngineEffect, Core, TypeOK, QueueTypeOK, StoreTypeOK, RelayTypeOK,
         ServerTypeOK, queueVars, redisVars, relayVars, serviceVars, serverVars,
         handlerVars, StepJobs
<1>b. ToSet(ready) \subseteq Jobs /\ ToSet(processing) \subseteq Jobs
  BY <1>a DEF ToSet
<1>1. \A j \in Jobs : HasRow(j) => HasRow(j)'
  BY <1>a DEF EngineEffect, HasRow, InsertJob, storeVars
<1>2. outbox' \subseteq outbox \/ \E p \in Jobs : outbox' = outbox \cup {p} /\ HasRow(p)'
  BY <1>a DEF EngineEffect, HasRow, InsertJob, storeVars
<1>3. QueueRows'
  BY <1>a, <1>b, <1>1 DEF RowsExist, QueueRows
<1>4. RelayRows'
  BY <1>a, <1>1, <1>2 DEF RowsExist, RelayRows
<1>5. HandlerRows' /\ CancelRows' /\ ReaperRows'
  BY <1>a, <1>1 DEF RowsExist, HandlerRows, CancelRows, ReaperRows
<1> QED BY <1>3, <1>4, <1>5 DEF RowsExist

\* Executions are not undone.
LEMMA HistoryGrows ==
    ASSUME Core, JobMoves \/ EngineEffect
    PROVE  /\ succ \subseteq succ'
           /\ \A j \in Jobs : fails'[j] >= fails[j]
<1>a. fails \in [Jobs -> Nat] /\ job \in [Sessions -> Jobs \cup {Nil}]
  BY DEF Core, TypeOK, ServerTypeOK
<1>1. CASE UNCHANGED <<fails, succ>>
  BY <1>a, <1>1
<1>2. CASE EngineEffect
  BY <1>1, <1>2 DEF EngineEffect, serverVars, workerVars
<1>3. ASSUME NEW s \in Sessions, Finish(s)
      PROVE  /\ succ \subseteq succ'
             /\ \A j \in Jobs : fails'[j] >= fails[j]
  BY <1>a, <1>3 DEF Finish
<1>4. CASE JobMoves
  BY <1>1, <1>3, <1>4, LocalEffectStep DEF JobMoves
<1> QED BY <1>2, <1>4

--------------------------------------------------------------------------------
(*****************************************************************************)
(* Steps are submitted in the order of their dependencies.                   *)
(*****************************************************************************)
\* What was unlocked stays so.
LEMMA UnlockedStays ==
    ASSUME Core, [WNext]_allVars, NEW p, Unlocked(p)
    PROVE  Unlocked(p)'
BY WStep, HistoryGrows DEF Unlocked

\* UnblockedSteps are unlocked, if the IDs taken for completed are those of
\* steps that succeeded.
LEMMA UnblockedUnlocked ==
    ASSUME NEW ids, ids \subseteq {wf[q].ID : q \in StepJobs \cap succ},
           NEW submitted, NEW p \in UnblockedSteps(wf, ids, submitted)
    PROVE  Unlocked(p)
<1> SUFFICES ASSUME NEW q \in StepJobs, wf[q].ID \in ToSet(Deps(wf, p))
             PROVE  q \in succ
  BY DEF Unlocked
<1>1. wf[q].ID \in ids
  BY DEF UnblockedSteps
<1>2. PICK r \in StepJobs \cap succ : wf[r].ID = wf[q].ID
  BY <1>1
<1> QED BY <1>2, FlowAssumption DEF StepJobs

\* TriggerWorkflow and Advance read what is unlocked, and submit what they read.
LEMMA SubmitsUnlockedStep ==
    ASSUME JobsSafe, WorkflowTypeOK, SubmitsUnlocked, [WNext]_allVars
    PROVE  SubmitsUnlocked'
<1>a. /\ adv \in [Sessions -> Calls] /\ Core
      /\ succ \subseteq succ' /\ StepJobs \subseteq Jobs
      /\ \A p : Unlocked(p) => Unlocked(p)'
  BY UnlockedStays, WStep, HistoryGrows, FlowAssumption
     DEF JobsSafe, WorkflowTypeOK, Calls, StepJobs
<1> DEFINE Done == {wf[q].ID : q \in StepJobs \cap succ}
           Fine(c) == /\ \A p \in c.todo : Unlocked(p)'
                      /\ c.completedIDs \subseteq Done'
<1>b. Done \subseteq Done'
  BY <1>a
<1> HIDE DEF Done
<1>c. \A s \in Sessions : Fine(adv[s])
  BY <1>a, <1>b DEF SubmitsUnlocked, Done
<1>d. Fine(NoCall)
  BY DEF NoCall
<1>e. ASSUME \A p \in trigger' : Unlocked(p)', \A s \in Sessions : Fine(adv'[s])
      PROVE  SubmitsUnlocked'
  BY <1>e DEF SubmitsUnlocked, Done
<1>f. \A p \in trigger : Unlocked(p)'
  BY <1>a DEF SubmitsUnlocked
<1> HIDE DEF Fine
<1>g. ASSUME trigger' \subseteq trigger,
             NEW s \in Sessions, NEW c, Fine(c), adv' = [adv EXCEPT ![s] = c]
      PROVE  SubmitsUnlocked'
  BY <1>a, <1>c, <1>e, <1>f, <1>g
<1>h. ASSUME NEW s \in Sessions, NEW label, Call(s, label), UNCHANGED trigger
      PROVE  SubmitsUnlocked'
  <2> DEFINE c == [adv[s] EXCEPT !.pc = label]
  <2>1. c.todo = adv[s].todo /\ c.completedIDs = adv[s].completedIDs
    BY <1>a DEF Calls
  <2>2. Fine(c)
    BY <1>c, <2>1 DEF Fine
  <2>3. adv' = [adv EXCEPT ![s] = c]
    BY <1>a, <1>h DEF Call
  <2> HIDE DEF c
  <2> QED BY <1>g, <1>h, <2>2, <2>3
<1>i. ASSUME NEW s \in Sessions, Returns(s), UNCHANGED trigger
      PROVE  SubmitsUnlocked'
  BY <1>d, <1>g, <1>i DEF Returns
<1>1. CASE UNCHANGED <<trigger, adv>>
  BY <1>c, <1>e, <1>f, <1>1
<1>2. ASSUME NEW s \in Sessions, WorkHandler(s)
      PROVE  SubmitsUnlocked'
  BY <1>h, <1>2 DEF WorkHandler
<1>3. ASSUME NEW s \in Sessions, Engine(s)
      PROVE  SubmitsUnlocked'
  <2>1. CASE AdvanceWorkflowRun(s) \/ CompleteWorkflowRun(s) \/ FailWorkflowRun(s)
    <3>1. UNCHANGED trigger /\ (Returns(s) \/ \E label : Call(s, label))
      BY <2>1 DEF AdvanceWorkflowRun, CompleteWorkflowRun, FailWorkflowRun, DbError
    <3> QED BY <1>h, <1>i, <3>1
  <2>2. CASE GetCompletedStepIndices(s)
    <3> DEFINE C == {wf[p].ID : p \in {q \in StepJobs : status[q] = "completed"}}
               c == [adv[s] EXCEPT !.pc = "submitted", !.completedIDs = C]
    <3>1. C \subseteq Done
      BY <1>a DEF JobsSafe, Results, Done
    <3>2. Returns(s) \/ adv' = [adv EXCEPT ![s].pc = "submitted", ![s].completedIDs = C]
      BY <2>2 DEF GetCompletedStepIndices, DbError
    <3> HIDE DEF C
    <3>3. Returns(s) \/ adv' = [adv EXCEPT ![s] = c]
      BY <1>a, <3>2
    <3>4. c.todo = adv[s].todo /\ c.completedIDs = C
      BY <1>a DEF Calls
    <3>5. Fine(c)
      BY <1>b, <1>c, <3>1, <3>4 DEF Fine
    <3> HIDE DEF c
    <3> QED BY <1>g, <1>i, <2>2, <3>3, <3>5 DEF GetCompletedStepIndices
  <2>3. CASE GetSubmittedStepIndices(s)
    <3> DEFINE S == {p \in StepJobs : status[p] # "none"}
               R == UnblockedSteps(wf, adv[s].completedIDs, S)
               c == SubmitLoop(R)
    <3>1. R \in SUBSET StepJobs /\ \A p \in R : Unlocked(p)
      BY UnblockedUnlocked DEF SubmitsUnlocked, UnblockedSteps, StepJobs
    <3>2. Returns(s) \/ adv' = [adv EXCEPT ![s] = c]
      BY <2>3 DEF GetSubmittedStepIndices, DbError
    <3> HIDE DEF R
    <3>3. c.todo = R /\ c.completedIDs = {}
      BY <3>1, SubmitLoopState
    <3>4. Fine(c)
      BY <1>a, <3>1, <3>3 DEF Fine
    <3> HIDE DEF c
    <3> QED BY <1>g, <1>i, <2>3, <3>2, <3>4 DEF GetSubmittedStepIndices
  <2>4. ASSUME NEW p \in StepJobs, AdvanceSubmit(s, p, CtxDone(s))
        PROVE  SubmitsUnlocked'
    <3> DEFINE c == SubmitLoop(adv[s].todo \ {p})
    <3>1. adv' = [adv EXCEPT ![s] = c]
      BY <2>4 DEF AdvanceSubmit
    <3>2. c.todo \subseteq adv[s].todo /\ c.completedIDs = {}
      <4>1. adv[s].todo \ {p} \in SUBSET StepJobs
        BY <1>a DEF Calls
      <4> QED BY <4>1, SubmitLoopState
    <3>3. Fine(c)
      BY <1>c, <3>2 DEF Fine
    <3> HIDE DEF c
    <3> QED BY <1>g, <2>4, <3>1, <3>3 DEF AdvanceSubmit
  <2>5. ASSUME NEW p \in StepJobs, AdvanceOutput(s, p)
        PROVE  SubmitsUnlocked'
    <3>1. PICK c \in Calls : /\ adv' = [adv EXCEPT ![s] = c]
                             /\ c.todo = adv[s].todo
                             /\ c.completedIDs = adv[s].completedIDs
      BY <1>a, <2>5, OutputState
    <3>2. Fine(c)
      BY <1>c, <3>1 DEF Fine
    <3> QED BY <1>g, <2>5, <3>1, <3>2 DEF AdvanceOutput
  <2> QED BY <1>3, <2>1, <2>2, <2>3, <2>4, <2>5 DEF Engine, Advance
<1>4. CASE Trigger
  <2>1. CASE CreateWorkflowRun
    <3>1. \A p \in trigger' : Unlocked(p)'
      BY <1>a, <2>1, UnblockedUnlocked DEF CreateWorkflowRun
    <3> QED BY <1>c, <1>e, <2>1, <3>1 DEF CreateWorkflowRun
  <2>2. ASSUME NEW p \in StepJobs, TriggerSubmit(p)
        PROVE  SubmitsUnlocked'
    BY <1>c, <1>e, <1>f, <2>2 DEF TriggerSubmit
  <2> QED BY <1>4, <2>1, <2>2 DEF Trigger, TriggerWorkflow
<1>5. CASE CancelRun \/ JobStep \/ WBoot
  BY <1>1, <1>5 DEF CancelRun, CancelWorkflowRunAtomic, JobStep, WBoot, workflowVars
<1>6. CASE WCrash
  BY <1>d, <1>e, <1>6 DEF WCrash
<1>7. CASE UNCHANGED allVars
  BY <1>1, <1>7 DEF allVars, workflowVars
<1> QED BY <1>2, <1>3, <1>4, <1>5, <1>6, <1>7 DEF WNext, Up

\* Where a new row comes from: TriggerSubmit or AdvanceSubmit.
LEMMA NewRow ==
    ASSUME Core, RowsExist, [WNext]_allVars, NEW p \in StepJobs, ~HasRow(p), HasRow(p)'
    PROVE  \/ TriggerSubmit(p) /\ submitStep(p, FALSE) /\ p \in trigger
           \/ \E s \in Sessions : /\ AdvanceSubmit(s, p, CtxDone(s))
                                  /\ First(adv[s].todo, p)
                                  /\ submitStep(p, adv[s].previous)
<1>a. p \in Jobs /\ status \in [Jobs -> Statuses]
  BY FlowAssumption DEF StepJobs, Core, TypeOK, StoreTypeOK
<1>1. ~JobMoves
  BY <1>a, RowsMoves DEF SameRows
<1>c. ASSUME NEW q, InsertWorkflowStep(q) PROVE p = q
  BY <1>a, <1>c DEF InsertWorkflowStep, InsertJob, HasRow, storeVars
<1>d. ~UNCHANGED status
  BY DEF HasRow
<1>2. ASSUME NEW s \in Sessions, Engine(s)
      PROVE  /\ AdvanceSubmit(s, p, CtxDone(s))
             /\ First(adv[s].todo, p)
             /\ submitStep(p, adv[s].previous)
  <2>1. PICK q \in StepJobs : AdvanceSubmit(s, q, CtxDone(s))
    BY <1>2, <1>d
       DEF Engine, Advance, AdvanceWorkflowRun, CompleteWorkflowRun,
           GetCompletedStepIndices, GetSubmittedStepIndices, AdvanceOutput,
           FailWorkflowRun, storeVars
  <2>2. submitStep(q, adv[s].previous)
    BY <2>1, <1>d DEF AdvanceSubmit, storeVars
  <2>3. p = q
    BY <1>c, <2>2 DEF submitStep
  <2> QED BY <2>1, <2>2, <2>3 DEF AdvanceSubmit
<1>3. CASE Trigger
  <2>1. PICK q \in StepJobs : TriggerSubmit(q)
    BY <1>3, <1>d DEF Trigger, TriggerWorkflow, CreateWorkflowRun, storeVars
  <2>2. submitStep(q, FALSE)
    BY <2>1, <1>d DEF TriggerSubmit, storeVars
  <2>3. p = q
    BY <1>c, <2>2 DEF submitStep
  <2> QED BY <2>1, <2>2, <2>3 DEF TriggerSubmit, First
<1>4. ~CancelRun
  BY <1>a DEF CancelRun, CancelWorkflowRunAtomic, HasRow
<1>5. ~Up(JobStep)
  BY <1>1 DEF JobStep, JobMoves, Next, Up
<1>6. \A s \in Sessions : ~Up(WorkHandler(s))
  BY <1>1 DEF WorkHandler, JobMoves, Next, Up
<1>7. ~WBoot /\ ~WCrash
  BY <1>1 DEF WBoot, WCrash, JobMoves, Next, Boot
<1>8. ~UNCHANGED allVars
  BY <1>d DEF allVars, vars, storeVars
<1> QED BY <1>2, <1>3, <1>4, <1>5, <1>6, <1>7, <1>8 DEF WNext, Up

\* Only what is unlocked gets a row.
LEMMA StepsInOrderStep ==
    ASSUME JobsSafe, RowsExist, SubmitsUnlocked, StepsInOrder, [WNext]_allVars
    PROVE  StepsInOrder'
<1>a. Core /\ \A p : Unlocked(p) => Unlocked(p)'
  BY UnlockedStays DEF JobsSafe
<1>b. \A p \in StepJobs : HasRow(p) => Unlocked(p)
  BY DEF StepsInOrder, HasRow, Unlocked
<1> SUFFICES ASSUME NEW p \in StepJobs, HasRow(p)', ~HasRow(p)
             PROVE  Unlocked(p)
  BY <1>a, <1>b DEF StepsInOrder, HasRow, Unlocked
<1>1. p \in trigger \/ \E s \in Sessions : p \in adv[s].todo
  BY <1>a, NewRow DEF First
<1> QED BY <1>1 DEF SubmitsUnlocked

--------------------------------------------------------------------------------
(*****************************************************************************)
(* Runs fail for a reason.                                                   *)
(*****************************************************************************)
\* A handler comes to FailWorkflowRun only through MarkFailed, which it enters
\* with a count that has reached its limit and a failure on top of it.
LEMMA FailRedisHandler ==
    ASSUME JobsSafe, FailsForAReason, NEW s \in Sessions, Handler(s),
           NEW t \in Sessions, pc'[t] = "fail_redis"
    PROVE  job'[t] = job[t] /\ job[t] \in Jobs /\ fails[job[t]] > MaxRetries[job[t]]
<1>a. /\ ServerTypeOK /\ SessionOK(s) /\ SessionOK(t)
      /\ MaxRetries \in [Jobs -> Nat]
  BY MaxRetriesAssumption DEF JobsSafe, Core, TypeOK
<1>1. \/ pc[t] = "fail_redis" /\ job'[t] = job[t]
      \/ MarkFailed(s) /\ t = s
  <2>1. CASE RecvReady(s) \/ RecvHeartbeat(s) \/ recordHeartbeat(s) \/ Pop(s)
             \/ HGet(s) \/ StoreOwner(s) \/ Drop(s)
    BY <1>a, <2>1
       DEF RecvReady, RecvHeartbeat, recordHeartbeat, Pop, HGet, StoreOwner,
           Drop, Goto, ServerTypeOK
  <2>2. CASE RecvError(s) \/ RecvResult(s) \/ ConsumeError(s)
    BY <1>a, <2>2
       DEF RecvError, RecvResult, ConsumeError, Goto, Return, ServerTypeOK
  <2>3. CASE SetRunning(s) \/ Send(s) \/ RequeueDb(s) \/ RequeueRedis(s)
             \/ AckResult(s) \/ MarkRetrying(s)
    BY <1>a, <2>3
       DEF SetRunning, Send, RequeueDb, RequeueRedis, AckResult, MarkRetrying,
           Goto, Return, ServerTypeOK
  <2>4. CASE GetJob(s)
    <3>1. ResultBranch(s) # "fail_redis"
      BY <1>a, <2>4 DEF ResultBranch, GetJob, SessionOK, ServerTypeOK
    <3> QED BY <1>a, <2>4, <3>1 DEF GetJob, Goto, ReturnResult, ServerTypeOK
  <2>5. CASE CompleteResult(s) \/ RetryResult(s) \/ FailResult(s)
    BY <1>a, <2>5
       DEF CompleteResult, RetryResult, FailResult, ReturnResult, ServerTypeOK
  <2>6. CASE MarkFailed(s)
    BY <1>a, <2>6 DEF MarkFailed, Goto, ServerTypeOK
  <2> QED BY <2>1, <2>2, <2>3, <2>4, <2>5, <2>6 DEF Handler, HandlerStep
<1>2. CASE pc[t] = "fail_redis" /\ job'[t] = job[t]
  BY <1>a, <1>2 DEF FailsForAReason, SessionOK
<1>3. CASE MarkFailed(s) /\ t = s
  <2>1. job'[s] = job[s] /\ job[s] \in Jobs /\ outcome[s] = "failure" /\ pc[s] = "failed"
    BY <1>a, <1>3 DEF MarkFailed, SessionOK
  <2>2. rc[s] \in Copies(job[s]) /\ s \in Uncharged(job[s]) /\ rc[s] \in Nat
    BY <1>a, <2>1 DEF Copies, Uncharged, ServerTypeOK
  <2>3. rc[s] >= MaxRetries[job[s]]
    BY <2>1 DEF JobsSafe, Counts
  <2>4. rc[s] + Cardinality(Uncharged(job[s])) <= fails[job[s]]
    BY <2>1, <2>2 DEF JobsSafe, Charged
  <2>5. Cardinality(Uncharged(job[s])) \in Nat /\ Cardinality(Uncharged(job[s])) > 0
    <3>1. IsFiniteSet(Uncharged(job[s])) /\ Cardinality(Uncharged(job[s])) \in Nat
      BY <2>1, UnchargedFinite
    <3> QED BY <2>2, <3>1, FS_EmptySet
  <2> QED BY <1>a, <1>3, <2>1, <2>2, <2>3, <2>4, <2>5 DEF ServerTypeOK
<1> QED BY <1>1, <1>2, <1>3

\* The other steps bring no handler there.
LEMMA FailRedisStep ==
    ASSUME JobsSafe, FailsForAReason, JobMoves \/ EngineEffect,
           NEW t \in Sessions, pc'[t] = "fail_redis"
    PROVE  (fails[job[t]] > MaxRetries[job[t]])'
<1>a. /\ ServerTypeOK /\ Core /\ SessionOK(t) /\ MaxRetries \in [Jobs -> Nat]
      /\ \A j \in Jobs : fails'[j] >= fails[j]
      /\ fails \in [Jobs -> Nat]
  BY MaxRetriesAssumption, HistoryGrows DEF JobsSafe, Core, TypeOK, ServerTypeOK
<1>b. fails' \in [Jobs -> Nat]
  BY JobsSafeStep, JobsSafeEngine DEF JobMoves, JobsSafe, Core, TypeOK, ServerTypeOK
<1>1. job'[t] = job[t] /\ job[t] \in Jobs /\ fails[job[t]] > MaxRetries[job[t]]
  <2>a. CASE pc'[t] = pc[t] /\ job'[t] = job[t]
    BY <1>a, <2>a DEF FailsForAReason, SessionOK
  <2>1. ASSUME NEW s \in Sessions, Handler(s)
        PROVE  job'[t] = job[t] /\ job[t] \in Jobs /\ fails[job[t]] > MaxRetries[job[t]]
    BY <2>1, FailRedisHandler
  <2>2. ASSUME NEW s \in Sessions, Worker(s)
        PROVE  pc'[t] = pc[t] /\ job'[t] = job[t]
    BY <1>a, <2>2 DEF Worker, Connect, Finish, Goto, handlerVars, ServerTypeOK
  <2>3. CASE Crash
    BY <2>3 DEF Crash
  <2>4. ASSUME \/ \E j \in Jobs : CancelJob(j)
               \/ Relay \/ Promote \/ Boot \/ EngineEffect \/ UNCHANGED vars
        PROVE  UNCHANGED <<pc, job>>
    BY <2>4 DEF CancelJob, Relay, Promote, Boot, BootReset, BootRecover,
                EngineEffect, vars, serverVars, handlerVars
  <2>5. ASSUME Reaper \/ Trouble
        PROVE  UNCHANGED <<pc, job>>
    BY <2>5 DEF Reaper, ReaperStep, ReaperList, ReaperCheck, ReaperClear,
                ReaperUpdate, ReaperRetry, Trouble, Disconnect,
                HeartbeatTimeout, handlerVars
  <2> QED BY <2>a, <2>1, <2>2, <2>3, <2>4, <2>5 DEF JobMoves
<1> QED BY <1>a, <1>b, <1>1

\* A reason stays one.
LEMMA ReasonStays ==
    ASSUME JobsSafe, Reason, [WNext]_allVars
    PROVE  Reason'
<1>1. /\ \A j \in Jobs : fails'[j] >= fails[j]
      /\ fails \in [Jobs -> Nat] /\ fails' \in [Jobs -> Nat]
      /\ MaxRetries \in [Jobs -> Nat] /\ StepJobs \subseteq Jobs
  <2>1. Core /\ JobsSafe'
    BY WStep, JobsSafeStep, JobsSafeEngine DEF JobsSafe, JobMoves
  <2> QED BY <2>1, WStep, HistoryGrows, MaxRetriesAssumption, FlowAssumption
       DEF JobsSafe, Core, TypeOK, ServerTypeOK, StepJobs
<1>2. UNCHANGED registered \/ registered' = FALSE
  BY DEF WNext, Up, JobStep, WorkHandler, Engine, Advance, AdvanceWorkflowRun,
         CompleteWorkflowRun, GetCompletedStepIndices, GetSubmittedStepIndices,
         AdvanceOutput, AdvanceSubmit, FailWorkflowRun, Trigger, TriggerWorkflow,
         CreateWorkflowRun, TriggerSubmit, CancelRun, CancelWorkflowRunAtomic,
         WBoot, WCrash, allVars, workflowVars
<1> QED BY <1>1, <1>2 DEF Reason

\* Nobody calls FailWorkflowRun without a reason.
LEMMA FailsForAReasonStep ==
    ASSUME JobsSafe, WorkflowTypeOK, FailsForAReason, [WNext]_allVars
    PROVE  FailsForAReason'
<1>a. /\ adv \in [Sessions -> Calls] /\ ServerTypeOK
      /\ currentStep \in Nat /\ Len(wf) \in Nat
  BY FlowAssumption DEF WorkflowTypeOK, Calls, JobsSafe, Core, TypeOK
<1>1. \A t \in Sessions : pc'[t] = "fail_redis" => (fails[job[t]] > MaxRetries[job[t]])'
  BY WStep, FailRedisStep
<1>2. ASSUME NEW t \in Sessions, adv'[t].pc = "fail", ~Reason'
      PROVE  FALSE
  <2>a. adv[t].pc # "fail" /\ ~Reason
    BY <1>2, ReasonStays DEF FailsForAReason
  <2>b. \A s \in Sessions : ~Returns(s)
    BY <1>a, <1>2, <2>a DEF Returns, NoCall
  <2>c. ASSUME NEW s \in Sessions, NEW label, Call(s, label)
        PROVE  s = t /\ label = "fail"
    BY <1>a, <1>2, <2>a, <2>c DEF Call, Calls
  <2>1. adv' # adv
    BY <1>2, <2>a
  <2>2. ASSUME NEW s \in Sessions, WorkHandler(s)
        PROVE  FALSE
    <3>1. CallAfter(s) = "fail" /\ s = t
      BY <2>2, <2>c DEF WorkHandler
    <3>2. job[s] \in StepJobs /\ pc[s] = "fail_redis"
      BY <3>1 DEF CallAfter
    <3> QED BY <2>a, <3>2 DEF FailsForAReason, Reason
  <2>3. ASSUME NEW s \in Sessions, Engine(s)
        PROVE  FALSE
    <3>1. CASE AdvanceWorkflowRun(s)
      <4> DEFINE label == CASE currentStep' >= Len(wf)                -> "finish"
                            [] currentStep' < Len(wf) /\ registered   -> "completed"
                            [] currentStep' < Len(wf) /\ ~registered  -> "fail"
      <4>1. currentStep' = currentStep + 1 /\ Call(s, label)
        BY <2>b, <3>1 DEF AdvanceWorkflowRun, DbError
      <4>2. label = "fail"
        <5> HIDE DEF label
        <5> QED BY <2>c, <4>1
      <4>3. ~registered
        BY <1>a, <4>1, <4>2
      <4> QED BY <2>a, <4>3 DEF Reason
    <3>2. CASE CompleteWorkflowRun(s) \/ FailWorkflowRun(s)
      BY <2>b, <3>2 DEF CompleteWorkflowRun, FailWorkflowRun, DbError
    <3>3. CASE GetCompletedStepIndices(s)
      BY <1>a, <1>2, <2>a, <2>b, <3>3 DEF GetCompletedStepIndices, DbError, Calls
    <3>4. CASE GetSubmittedStepIndices(s)
      <4> DEFINE S == {p \in StepJobs : status[p] # "none"}
                 R == UnblockedSteps(wf, adv[s].completedIDs, S)
                 c == SubmitLoop(R)
      <4>1. adv' = [adv EXCEPT ![s] = c]
        BY <2>b, <3>4 DEF GetSubmittedStepIndices, DbError
      <4>2. c.pc # "fail"
        <5>1. R \in SUBSET StepJobs
          BY DEF UnblockedSteps, StepJobs
        <5> HIDE DEF R
        <5> QED BY <5>1, SubmitLoopState
      <4> HIDE DEF c
      <4> QED BY <1>a, <1>2, <2>a, <4>1, <4>2
    <3>5. ASSUME NEW p \in StepJobs, AdvanceSubmit(s, p, CtxDone(s))
          PROVE  FALSE
      <4> DEFINE c == SubmitLoop(adv[s].todo \ {p})
      <4>1. adv' = [adv EXCEPT ![s] = c]
        BY <3>5 DEF AdvanceSubmit
      <4>2. c.pc # "fail"
        <5>1. adv[s].todo \ {p} \in SUBSET StepJobs
          BY <1>a DEF Calls
        <5> QED BY <5>1, SubmitLoopState
      <4> HIDE DEF c
      <4> QED BY <1>a, <1>2, <2>a, <4>1, <4>2
    <3>6. ASSUME NEW p \in StepJobs, AdvanceOutput(s, p)
          PROVE  FALSE
      <4>1. PICK c \in Calls : adv' = [adv EXCEPT ![s] = c] /\ c.pc = "submit"
        BY <1>a, <3>6, OutputState
      <4> QED BY <1>a, <1>2, <2>a, <4>1
    <3> QED BY <2>3, <3>1, <3>2, <3>3, <3>4, <3>5, <3>6 DEF Engine, Advance
  <2>4. ~Trigger /\ ~CancelRun /\ ~WBoot
    BY <2>1 DEF Trigger, TriggerWorkflow, CreateWorkflowRun, TriggerSubmit,
                CancelRun, CancelWorkflowRunAtomic, WBoot, workflowVars
  <2>5. ~WCrash
    BY <1>2 DEF WCrash, NoCall
  <2>6. ~JobStep /\ ~UNCHANGED allVars
    BY <2>1 DEF JobStep, allVars, workflowVars
  <2> QED BY <2>2, <2>3, <2>4, <2>5, <2>6 DEF WNext, Up
<1> QED BY <1>1, <1>2 DEF FailsForAReason

\* The run is failed by FailWorkflowRun alone.
LEMMA FailedForAReasonStep ==
    ASSUME JobsSafe, FailsForAReason, FailedForAReason, [WNext]_allVars
    PROVE  FailedForAReason'
<1>1. (runStatus = "failed" => Reason) => FailedForAReason
  BY DEF FailedForAReason, Reason
<1>2. runStatus' = "failed" => Reason
  <2>1. \/ runStatus' # "failed" \/ UNCHANGED runStatus
        \/ \E s \in Sessions : FailWorkflowRun(s)
    BY DEF WNext, Up, JobStep, WorkHandler, Engine, Advance, AdvanceWorkflowRun,
           CompleteWorkflowRun, GetCompletedStepIndices, GetSubmittedStepIndices,
           AdvanceOutput, AdvanceSubmit, DbError, Trigger, TriggerWorkflow, CreateWorkflowRun,
           TriggerSubmit, CancelRun, CancelWorkflowRunAtomic, WBoot, WCrash,
           allVars, workflowVars, runVars
  <2>2. \A s \in Sessions : FailWorkflowRun(s) => Reason
    BY DEF FailWorkflowRun, FailsForAReason
  <2> QED BY <2>1, <2>2 DEF FailedForAReason, Reason
<1>3. runStatus' = "failed" => Reason'
  BY <1>2, ReasonStays
<1> QED BY <1>3 DEF FailedForAReason, Reason
--------------------------------------------------------------------------------
\* The invariant of the two theorems.
RunSafe ==
    /\ JobsSafe
    /\ RowsExist
    /\ WorkflowTypeOK
    /\ SubmitsUnlocked
    /\ StepsInOrder
    /\ FailsForAReason
    /\ FailedForAReason

\* It is inductive.
LEMMA RunSafeInvariant == WSpec => []RunSafe
<1>1. WInit => RowsExist /\ SubmitsUnlocked /\ StepsInOrder
                 /\ FailsForAReason /\ FailedForAReason
  <2> SUFFICES ASSUME Init, WorkflowInit
               PROVE  RowsExist /\ SubmitsUnlocked /\ StepsInOrder
                         /\ FailsForAReason /\ FailedForAReason
    BY DEF WInit
  <2>1. ToSet(<<>>) = {}
    BY DEF ToSet
  <2>2. RowsExist
    BY <2>1 DEF Init, QueueInit, StoreInit, RelayInit, ServiceInit, ServerInit,
                RelayIdle, ReaperIdle, RowsExist, QueueRows, RelayRows,
                HandlerRows, CancelRows, ReaperRows
  <2>3. SubmitsUnlocked /\ StepsInOrder
    BY FlowAssumption DEF Init, StoreInit, WorkflowInit, NoCall, SubmitsUnlocked,
                          StepsInOrder, StepJobs
  <2>4. FailsForAReason /\ FailedForAReason
    BY DEF Init, ServerInit, WorkflowInit, NoCall, FailsForAReason, FailedForAReason
  <2> QED BY <2>2, <2>3, <2>4
<1>2. ASSUME RunSafe, [WNext]_allVars
      PROVE  RowsExist' /\ SubmitsUnlocked' /\ StepsInOrder'
                /\ FailsForAReason' /\ FailedForAReason'
  <2>1. RowsExist'
    BY <1>2, WStep, RowsMoves, RowsEngine DEF RunSafe, JobsSafe
  <2>2. SubmitsUnlocked' /\ StepsInOrder'
    BY <1>2, SubmitsUnlockedStep, StepsInOrderStep DEF RunSafe
  <2>3. FailsForAReason' /\ FailedForAReason'
    BY <1>2, FailsForAReasonStep, FailedForAReasonStep DEF RunSafe
  <2> QED BY <2>1, <2>2, <2>3
<1> QED BY <1>1, <1>2, JobsSafeInvariant, WorkflowTypeCorrect, PTL DEF WSpec, RunSafe

\* README: downstream steps run once all their dependencies complete.  A step of
\* the run is submitted only after an execution of every step it depends on has
\* succeeded, however the Advances of several handlers interleave, whatever
\* fails and whoever cancels (TriggerWorkflow, Advance, UnblockedSteps).
THEOREM StepsInOrderHolds == WSpec => []StepsInOrder
<1> QED BY RunSafeInvariant, PTL DEF RunSafe

\* A run is marked failed only if a step of it failed once more than max_retries
\* allows, or if the server was restarted without the workflow's file
\* (handleResult, Advance, FailWorkflowRun).
THEOREM FailedForAReasonHolds == WSpec => []FailedForAReason
<1> QED BY RunSafeInvariant, PTL DEF RunSafe
--------------------------------------------------------------------------------
(*****************************************************************************)
(* A run whose definition is gone.                                           *)
(*****************************************************************************)
\* A crash ends every call, and the file can go only while the server is down.
LEMMA OrphanCallsStep ==
    ASSUME WorkflowTypeOK, OrphanCalls, [WNext]_allVars
    PROVE  OrphanCalls'
<1>a. adv \in [Sessions -> Calls] /\ Len(wf) \in Nat /\ currentStep \in Nat
  BY FlowAssumption DEF WorkflowTypeOK, Calls
<1>1. CASE UNCHANGED <<adv, registered, server>>
  BY <1>1 DEF OrphanCalls
<1>2. ASSUME NEW s \in Sessions, Up(WorkHandler(s))
      PROVE  OrphanCalls'
  <2>1. CallAfter(s) \in {"idle", "count", "fail"}
    BY DEF CallAfter
  <2>2. /\ adv' = [adv EXCEPT ![s].pc = CallAfter(s)]
        /\ server' = "up" /\ UNCHANGED registered
    BY <1>2 DEF Up, WorkHandler, Call
  <2>3. \A t \in Sessions : adv'[t].pc = adv[t].pc
                               \/ adv'[t].pc \in {"idle", "count", "fail"}
    BY <1>a, <2>1, <2>2 DEF Calls
  <2> QED BY <2>2, <2>3 DEF OrphanCalls
<1>3. ASSUME NEW s \in Sessions, Up(Engine(s))
      PROVE  OrphanCalls'
  <2>1. server' = "up" /\ UNCHANGED registered
    BY <1>3 DEF Up, Engine, Advance, AdvanceWorkflowRun, CompleteWorkflowRun,
                GetCompletedStepIndices, GetSubmittedStepIndices, AdvanceOutput,
                AdvanceSubmit, FailWorkflowRun
  <2> SUFFICES ASSUME ~registered
               PROVE  \A t \in Sessions : adv'[t].pc \in {"idle", "count", "finish", "fail"}
    BY <2>1 DEF OrphanCalls
  <2>2. AdvanceWorkflowRun(s) \/ CompleteWorkflowRun(s) \/ FailWorkflowRun(s)
    BY <1>3 DEF Up, Engine, Advance, GetCompletedStepIndices, AdvanceOutput,
                GetSubmittedStepIndices, AdvanceSubmit, OrphanCalls
  <2>3. Returns(s) \/ \E label \in {"finish", "fail"} : Call(s, label)
    <3>1. currentStep' = currentStep + 1
             => currentStep' >= Len(wf) \/ currentStep' < Len(wf)
      BY <1>a
    <3> QED BY <1>a, <2>2, <3>1 DEF AdvanceWorkflowRun, CompleteWorkflowRun,
                              FailWorkflowRun, DbError
  <2>4. \A t \in Sessions : adv'[t].pc = adv[t].pc
                               \/ adv'[t].pc \in {"idle", "finish", "fail"}
    BY <1>a, <2>3 DEF Returns, Call, NoCall, Calls
  <2> QED BY <2>4 DEF OrphanCalls
<1>4. CASE Up(JobStep) \/ Up(Trigger) \/ Up(CancelRun) \/ UNCHANGED allVars
  BY <1>1, <1>4
     DEF Up, JobStep, Trigger, TriggerWorkflow, CreateWorkflowRun, TriggerSubmit,
         CancelRun, CancelWorkflowRunAtomic, allVars, workflowVars, vars
<1>5. CASE WBoot
  <2>1. server # "up" /\ UNCHANGED adv
    BY <1>5 DEF WBoot, BootReset, BootRecover, workflowVars
  <2> QED BY <2>1 DEF OrphanCalls
<1>6. CASE WCrash
  BY <1>6 DEF WCrash, NoCall, OrphanCalls
<1> QED BY <1>2, <1>3, <1>4, <1>5, <1>6 DEF WNext

\* A call that returns without an error leaves a run that has ended, unless its
\* workflow is there.
LEMMA OrphanReturn ==
    ASSUME JobsSafe, WorkflowTypeOK, OrphanCalls, [WNext]_allVars,
           NEW s \in Sessions, adv[s].pc # "idle", adv'[s].pc = "idle",
           ~registered, UNCHANGED faults
    PROVE  runStatus' # "running"
<1>a. /\ adv \in [Sessions -> Calls] /\ Len(wf) \in Nat /\ currentStep \in Nat
      /\ faults \in Int /\ server = "up"
  BY FlowAssumption, FaultAssumption
     DEF WorkflowTypeOK, Calls, JobsSafe, Core, TypeOK, OrphanCalls
<1>b. \A k : ~Fault(k)
  BY <1>a DEF Fault
<1>1. ASSUME NEW t \in Sessions, Up(Engine(t))
      PROVE  runStatus' # "running"
  <2>1. AdvanceWorkflowRun(t) \/ CompleteWorkflowRun(t) \/ FailWorkflowRun(t)
    BY <1>1 DEF Up, Engine, Advance, GetCompletedStepIndices, AdvanceOutput,
                GetSubmittedStepIndices, AdvanceSubmit, OrphanCalls
  <2>2. CASE CompleteWorkflowRun(t) \/ FailWorkflowRun(t)
    BY <1>b, <2>2 DEF CompleteWorkflowRun, FailWorkflowRun, DbError
  <2>3. CASE AdvanceWorkflowRun(t)
    <3>1. CASE runStatus # "running" /\ UNCHANGED runVars
      BY <3>1 DEF runVars
    <3>2. ASSUME NEW label \in {"finish", "fail"}, Call(t, label)
          PROVE  FALSE
      BY <1>a, <3>2 DEF Call, Calls
    <3>3. currentStep' = currentStep + 1
             => currentStep' >= Len(wf) \/ currentStep' < Len(wf)
      BY <1>a
    <3> QED BY <1>a, <1>b, <2>3, <3>1, <3>2, <3>3 DEF AdvanceWorkflowRun, DbError
  <2> QED BY <2>1, <2>2, <2>3
<1>2. ASSUME NEW t \in Sessions, Up(WorkHandler(t))
      PROVE  FALSE
  BY <1>a, <1>2 DEF Up, WorkHandler, Call, Calls
<1>3. CASE Up(JobStep) \/ Up(Trigger) \/ Up(CancelRun) \/ UNCHANGED allVars
  BY <1>3
     DEF Up, JobStep, Trigger, TriggerWorkflow, CreateWorkflowRun, TriggerSubmit,
         CancelRun, CancelWorkflowRunAtomic, allVars, workflowVars
<1>4. CASE WBoot \/ WCrash
  BY <1>a, <1>b, <1>4 DEF WBoot, BootReset, BootRecover, WCrash, Crash
<1> QED BY <1>1, <1>2, <1>3, <1>4 DEF WNext

\* After a restart without the workflow's file its run does not go on: an Advance
\* that returns, but for a Postgres error, leaves the run ended, because no
\* Advance spans the restart and the next one finds the registry without the
\* workflow (Advance, FailWorkflowRun, LoadFromDir at boot).
THEOREM OrphanFailedHolds == WSpec => OrphanFailed
<1>1. WInit => OrphanCalls
  BY DEF WInit, Init, WorkflowInit, NoCall, OrphanCalls
<1>2. WSpec => []OrphanCalls
  BY <1>1, OrphanCallsStep, WorkflowTypeCorrect, PTL DEF WSpec
<1>3. ASSUME JobsSafe, WorkflowTypeOK, OrphanCalls, [WNext]_allVars
      PROVE  [\A s \in Sessions :
                 adv[s].pc # "idle" /\ adv'[s].pc = "idle" /\ ~registered
                    /\ faults' = faults => runStatus' # "running"]_allVars
  BY <1>3, OrphanReturn
<1> QED BY <1>2, <1>3, JobsSafeInvariant, WorkflowTypeCorrect, PTL DEF WSpec, OrphanFailed
================================================================================

---------------------------- MODULE WorkflowService ----------------------------
(***************************************************************************)
(* internal/service/workflow_service.go and internal/db/workflows.go: one  *)
(* run of a workflow on the jobs table.  TriggerWorkflow creates the run   *)
(* and submits the roots; the handler that completed a step calls Advance, *)
(* which counts it and submits what it has unblocked.  Every statement is  *)
(* a step, and each handler has an Advance of its own.                     *)
(*                                                                         *)
(* The job of a step is the step's position: UNIQUE (workflow_run_id,      *)
(* step_index) lets a step have one job only.                              *)
(***************************************************************************)
EXTENDS JobStore, Workflow

CONSTANTS
    wf,            \* the workflow, as Validate has left it in the registry
    Interventions  \* "cancel_run": clients may cancel the run
                   \* "remove_file": its file may be gone at a restart

ASSUME FlowAssumption ==
    /\ wf \in Seq([ID : Nat, DependsOn : {NoList} \cup Seq(Nat)])
    /\ wf = Normalize(wf)
    /\ Positions(wf) \subseteq Jobs
    /\ \A p, q \in Positions(wf) : wf[p].ID = wf[q].ID => p = q

ASSUME InterventionsAssumption ==
    Interventions \subseteq {"cancel_run", "remove_file"}

VARIABLES
    registered,   \* the registry has the workflow
    runStatus,    \* workflow_runs.status, "none" before the row exists
    currentStep,  \* workflow_runs.current_step
    trigger,      \* the steps that TriggerWorkflow has still to submit
    adv,          \* the call that each Work handler makes after a result
    chained       \* steps submitted with the output of their dependency

runVars == <<runStatus, currentStep>>
workflowVars == <<registered, runVars, trigger, adv, chained>>

StepJobs == Positions(wf)

\* pc: what Advance does next ("fail": FailWorkflowRun instead of Advance).
NoCall == [pc |-> "idle", completedIDs |-> {}, todo |-> {}, previous |-> FALSE]

WorkflowInit ==
    /\ registered = TRUE
    /\ runStatus = "none"
    /\ currentStep = 0
    /\ trigger = {}
    /\ adv = [s \in Sessions |-> NoCall]
    /\ chained = {}

WorkflowTypeOK ==
    /\ registered \in BOOLEAN
    /\ runStatus \in {"none", "running", "completed", "failed", "cancelled"}
    /\ currentStep \in Nat
    /\ trigger \subseteq StepJobs
    /\ adv \in [Sessions ->
                  [pc : {"idle", "count", "finish", "completed", "submitted",
                         "output", "submit", "fail"},
                   completedIDs : SUBSET {wf[p].ID : p \in StepJobs},
                   todo : SUBSET StepJobs,
                   previous : BOOLEAN]]
    /\ chained \subseteq StepJobs
--------------------------------------------------------------------------------
\* ON CONFLICT DO NOTHING; otherwise the job and its outbox row, in one
\* transaction.
InsertWorkflowStep(p) ==
    \/ status[p] = "none" /\ InsertJob(p)
    \/ status[p] # "none" /\ UNCHANGED storeVars

\* previous: there is an output to put in the payload.
submitStep(p, previous) ==
    /\ InsertWorkflowStep(p)
    /\ chained' = IF previous /\ status[p] = "none" THEN chained \cup {p} ELSE chained

GetJobOutputByWorkflowStep(q) == status[q] = "completed"

\* The step depends on exactly one step, and that has an output.
previousOutputFor_Own(p) ==
    \E q \in StepJobs : Deps(wf, p) = <<wf[q].ID>> /\ GetJobOutputByWorkflowStep(p)
previousOutputFor(p) ==
    \E q \in StepJobs : Deps(wf, p) = <<wf[q].ID>> /\ GetJobOutputByWorkflowStep(q)

\* The loops over UnblockedSteps go from the first step to the last.
First(todo, p) == p \in todo /\ \A q \in todo : p <= q
--------------------------------------------------------------------------------
(***************************************************************************)
(* TriggerWorkflow, called by an HTTP handler or by the scheduler.         *)
(***************************************************************************)
CreateWorkflowRun_AllSteps ==
    /\ registered
    /\ runStatus = "none"
    /\ runStatus' = "running"
    /\ currentStep' = 0
    /\ trigger' = StepJobs
    /\ UNCHANGED <<storeVars, registered, adv, chained>>
    /\ NoFault
CreateWorkflowRun_Pending ==
    /\ registered
    /\ runStatus = "none"
    /\ runStatus' = "pending"
    /\ currentStep' = 0
    /\ trigger' = UnblockedSteps(wf, {}, {})
    /\ UNCHANGED <<storeVars, registered, adv, chained>>
    /\ NoFault
CreateWorkflowRun ==
    /\ registered
    /\ runStatus = "none"
    /\ runStatus' = "running"
    /\ currentStep' = 0
    /\ trigger' = UnblockedSteps(wf, {}, {})
    /\ UNCHANGED <<storeVars, registered, adv, chained>>
    /\ NoFault

\* The first error ends it (the client has gone, too: the statement runs under
\* the request's context); the steps it has submitted remain.
TriggerSubmit(p) ==
    /\ First(trigger, p)
    /\ \/ /\ submitStep(p, FALSE)
          /\ trigger' = trigger \ {p}
          /\ NoFault
       \/ /\ Fault("db")
          /\ trigger' = {}
          /\ UNCHANGED <<storeVars, chained>>
    /\ UNCHANGED <<registered, runVars, adv>>

TriggerWorkflow == CreateWorkflowRun \/ \E p \in StepJobs : TriggerSubmit(p)

\* One transaction; it waits for the rows that the relay has locked.  The
\* jobs' entries in Redis are left alone.
CancelWorkflowRunAtomic_KeepsJobs ==
    LET cancelled == {p \in StepJobs : status[p] \in {"pending", "retrying"}}
    IN  /\ "cancel_run" \in Interventions
        /\ runStatus = "running"
        /\ cancelled \cap locked = {}
        /\ runStatus' = "cancelled"
        /\ outbox' = outbox \ cancelled
        /\ UNCHANGED <<status, retryCount, locked, registered, currentStep,
                       trigger, adv, chained>>
        /\ NoFault
CancelWorkflowRunAtomic ==
    LET cancelled == {p \in StepJobs : status[p] \in {"pending", "retrying"}}
    IN  /\ "cancel_run" \in Interventions
        /\ runStatus = "running"
        /\ cancelled \cap locked = {}
        /\ runStatus' = "cancelled"
        /\ status' = [j \in Jobs |-> IF j \in cancelled THEN "cancelled" ELSE status[j]]
        /\ outbox' = outbox \ cancelled
        /\ UNCHANGED <<retryCount, locked, registered, currentStep, trigger,
                       adv, chained>>
        /\ NoFault
--------------------------------------------------------------------------------
(***************************************************************************)
(* Advance(ctx, runID), called by handler s, and FailWorkflowRun.          *)
(***************************************************************************)
Call(s, label) == adv' = [adv EXCEPT ![s].pc = label]
Returns(s) == adv' = [adv EXCEPT ![s] = NoCall]

\* A statement of Advance fails: the error is logged and Advance returns.
DbError(s) == Fault("db") /\ Returns(s) /\ UNCHANGED runVars

\* UPDATE ... SET current_step = current_step + 1 WHERE status = 'running';
\* then registry.Get, unless that was the last step.
AdvanceWorkflowRun_Early(s) ==
    /\ adv[s].pc = "count"
    /\ \/ /\ runStatus = "running"
          /\ currentStep' = currentStep + 1
          /\ Call(s, IF currentStep' + 1 >= Len(wf) THEN "finish" ELSE "completed")
          /\ UNCHANGED runStatus
          /\ NoFault
       \/ /\ runStatus # "running"
          /\ Returns(s)
          /\ UNCHANGED runVars
          /\ NoFault
       \/ DbError(s)
    /\ UNCHANGED <<storeVars, registered, trigger, chained>>
AdvanceWorkflowRun_LeavesOrphan(s) ==
    /\ adv[s].pc = "count"
    /\ \/ /\ runStatus = "running"
          /\ currentStep' = currentStep + 1
          /\ Call(s, CASE currentStep' >= Len(wf)                -> "finish"
                      [] currentStep' < Len(wf) /\ registered   -> "completed"
                      [] currentStep' < Len(wf) /\ ~registered  -> "idle")
          /\ UNCHANGED runStatus
          /\ NoFault
       \/ /\ runStatus # "running"
          /\ Returns(s)
          /\ UNCHANGED runVars
          /\ NoFault
       \/ DbError(s)
    /\ UNCHANGED <<storeVars, registered, trigger, chained>>
AdvanceWorkflowRun(s) ==
    /\ adv[s].pc = "count"
    /\ \/ /\ runStatus = "running"
          /\ currentStep' = currentStep + 1
          /\ Call(s, CASE currentStep' >= Len(wf)                -> "finish"
                      [] currentStep' < Len(wf) /\ registered   -> "completed"
                      [] currentStep' < Len(wf) /\ ~registered  -> "fail")
          /\ UNCHANGED runStatus
          /\ NoFault
       \/ /\ runStatus # "running"
          /\ Returns(s)
          /\ UNCHANGED runVars
          /\ NoFault
       \/ DbError(s)
    /\ UNCHANGED <<storeVars, registered, trigger, chained>>

CompleteWorkflowRun(s) ==
    /\ adv[s].pc = "finish"
    /\ \/ /\ runStatus' = "completed"
          /\ Returns(s)
          /\ UNCHANGED currentStep
          /\ NoFault
       \/ DbError(s)
    /\ UNCHANGED <<storeVars, registered, trigger, chained>>

GetCompletedStepIndices_Submitted(s) ==
    /\ adv[s].pc = "completed"
    /\ \/ /\ adv' = [adv EXCEPT ![s].pc = "submitted",
                                ![s].completedIDs = {wf[p].ID : p \in
                                    {q \in StepJobs : status[q] # "none"}}]
          /\ UNCHANGED runVars
          /\ NoFault
       \/ DbError(s)
    /\ UNCHANGED <<storeVars, registered, trigger, chained>>
GetCompletedStepIndices(s) ==
    /\ adv[s].pc = "completed"
    /\ \/ /\ adv' = [adv EXCEPT ![s].pc = "submitted",
                                ![s].completedIDs = {wf[p].ID : p \in
                                    {q \in StepJobs : status[q] = "completed"}}]
          /\ UNCHANGED runVars
          /\ NoFault
       \/ DbError(s)
    /\ UNCHANGED <<storeVars, registered, trigger, chained>>

\* The loop over the unblocked steps, with these still to come.
SubmitLoop(todo) ==
    IF todo = {} THEN NoCall ELSE [NoCall EXCEPT !.pc = "output", !.todo = todo]

GetSubmittedStepIndices(s) ==
    /\ adv[s].pc = "submitted"
    /\ \/ /\ LET submitted == {p \in StepJobs : status[p] # "none"}
             IN  adv' = [adv EXCEPT ![s] =
                     SubmitLoop(UnblockedSteps(wf, adv[s].completedIDs, submitted))]
          /\ UNCHANGED runVars
          /\ NoFault
       \/ DbError(s)
    /\ UNCHANGED <<storeVars, registered, trigger, chained>>

\* previousOutputFor, which asks for the output of a single dependency only; on
\* an error the step is submitted without one.
AdvanceOutput(s, p) ==
    /\ adv[s].pc = "output"
    /\ First(adv[s].todo, p)
    /\ \E found \in BOOLEAN :
          /\ adv' = [adv EXCEPT ![s].pc = "submit", ![s].previous = found]
          /\ \/ found = previousOutputFor(p) /\ NoFault
             \/ ~found /\ Len(Deps(wf, p)) = 1 /\ Fault("db")
    /\ UNCHANGED <<storeVars, registered, runVars, trigger, chained>>

\* submitStep under the stream's context: an error is logged, and the loop
\* goes on to the next step.
AdvanceSubmit_FirstOnly(s, p, ctxDone) ==
    /\ adv[s].pc = "submit"
    /\ First(adv[s].todo, p)
    /\ \/ ~ctxDone /\ submitStep(p, adv[s].previous) /\ NoFault
       \/ ctxDone /\ UNCHANGED <<storeVars, chained>> /\ NoFault
       \/ ~ctxDone /\ Fault("db") /\ UNCHANGED <<storeVars, chained>>
    /\ Returns(s)
    /\ UNCHANGED <<registered, runVars, trigger>>
AdvanceSubmit(s, p, ctxDone) ==
    /\ adv[s].pc = "submit"
    /\ First(adv[s].todo, p)
    /\ \/ ~ctxDone /\ submitStep(p, adv[s].previous) /\ NoFault
       \/ ctxDone /\ UNCHANGED <<storeVars, chained>> /\ NoFault
       \/ ~ctxDone /\ Fault("db") /\ UNCHANGED <<storeVars, chained>>
    /\ adv' = [adv EXCEPT ![s] = SubmitLoop(adv[s].todo \ {p})]
    /\ UNCHANGED <<registered, runVars, trigger>>

FailWorkflowRun(s) ==
    /\ adv[s].pc = "fail"
    /\ \/ /\ runStatus' = "failed"
          /\ Returns(s)
          /\ UNCHANGED currentStep
          /\ NoFault
       \/ DbError(s)
    /\ UNCHANGED <<storeVars, registered, trigger, chained>>

Advance(s, ctxDone) ==
    \/ AdvanceWorkflowRun(s) \/ CompleteWorkflowRun(s)
    \/ GetCompletedStepIndices(s) \/ GetSubmittedStepIndices(s)
    \/ \E p \in StepJobs : AdvanceOutput(s, p) \/ AdvanceSubmit(s, p, ctxDone)
    \/ FailWorkflowRun(s)
================================================================================

------------------------------- MODULE Scheduler -------------------------------
(***************************************************************************)
(* internal/scheduler/scheduler.go: the cron entry of one workflow, beside *)
(* the HTTP handler that triggers the same workflow.  Cron starts a        *)
(* goroutine for every tick and does not wait for the one before.  Of a    *)
(* run, only whether it is active is kept: what goes on inside it is       *)
(* WorkflowService.tla.                                                    *)
(***************************************************************************)
EXTENDS Naturals

CONSTANTS
    Ticks,    \* goroutines that cron starts
    Clients,  \* HTTP handlers of POST /workflows/{name}/trigger
    Runs,     \* bound: workflow_runs rows that may be created
    NoRun     \* TriggerWorkflow has not created its run yet

VARIABLES
    runStatus,  \* workflow_runs.status: "none", "running", "ended"
    submitted,  \* runs whose first steps are all submitted
    pc,         \* where each tick and each request is
    run,        \* the runID of its TriggerWorkflow
    cron        \* "started", or "stopped" when the server's context is cancelled

vars == <<runStatus, submitted, pc, run, cron>>

Callers == Ticks \cup Clients

Init ==
    /\ runStatus = [r \in Runs |-> "none"]
    /\ submitted = {}
    /\ pc = [x \in Callers |-> "idle"]
    /\ run = [x \in Callers |-> NoRun]
    /\ cron = "started"

HasActiveWorkflowRun == \E r \in Runs : runStatus[r] = "running"
--------------------------------------------------------------------------------
\* The entry's function: HasActiveRun, which may fail, and the decision.
Tick(t) ==
    /\ cron = "started"
    /\ pc[t] = "idle"
    /\ ~HasActiveWorkflowRun
    /\ pc' = [pc EXCEPT ![t] = "create"]
    /\ UNCHANGED <<runStatus, submitted, run, cron>>

Request(c) ==
    /\ pc[c] = "idle"
    /\ pc' = [pc EXCEPT ![c] = "create"]
    /\ UNCHANGED <<runStatus, submitted, run, cron>>

\* TriggerWorkflow: the row, under a context of its own.
CreateWorkflowRun(x, r) ==
    /\ pc[x] = "create"
    /\ \/ /\ runStatus[r] = "none"
          /\ runStatus' = [runStatus EXCEPT ![r] = "running"]
          /\ run' = [run EXCEPT ![x] = r]
          /\ pc' = [pc EXCEPT ![x] = "submit"]
       \/ /\ pc' = [pc EXCEPT ![x] = "idle"]
          /\ UNCHANGED <<runStatus, run>>
    /\ UNCHANGED <<submitted, cron>>

\* TriggerWorkflow: its first steps, under the server's or the request's
\* context.  An error leaves the run as it is.
SubmitSteps(x) ==
    /\ pc[x] = "submit"
    /\ \/ /\ x \in Clients \/ cron = "started"
          /\ submitted' = submitted \cup {run[x]}
       \/ UNCHANGED submitted
    /\ pc' = [pc EXCEPT ![x] = "idle"]
    /\ run' = [run EXCEPT ![x] = NoRun]
    /\ UNCHANGED <<runStatus, cron>>

\* The engine ends a run that has its steps, a client cancels any run.  A run
\* that was left without steps is active until somebody cancels it.
EndRun(r) ==
    /\ runStatus[r] = "running"
    /\ r \in submitted
    /\ runStatus' = [runStatus EXCEPT ![r] = "ended"]
    /\ UNCHANGED <<submitted, pc, run, cron>>

CancelRun(r) ==
    /\ runStatus[r] = "running"
    /\ runStatus' = [runStatus EXCEPT ![r] = "ended"]
    /\ UNCHANGED <<submitted, pc, run, cron>>

\* <-ctx.Done() and Stop: no more ticks; those that run are not waited for.
Stop ==
    /\ cron = "started"
    /\ cron' = "stopped"
    /\ UNCHANGED <<runStatus, submitted, pc, run>>

Next ==
    \/ \E t \in Ticks : Tick(t)
    \/ \E c \in Clients : Request(c)
    \/ \E x \in Callers : SubmitSteps(x) \/ \E r \in Runs : CreateWorkflowRun(x, r)
    \/ \E r \in Runs : EndRun(r) \/ CancelRun(r)
    \/ Stop

Spec == Init /\ [][Next]_vars
--------------------------------------------------------------------------------
\* README: cron-triggered runs will not start if a previous run of the same
\* workflow is still active.
CronSkips ==
    [][\A t \in Ticks : pc[t] = "create" /\ pc'[t] = "submit"
            => ~HasActiveWorkflowRun]_vars
================================================================================

----------------------------- MODULE WorkflowSystem ----------------------------
(***************************************************************************)
(* The server with a workflow run on top of the job system: the jobs are   *)
(* the steps of the run, and the handlers of JobSystem call Advance or     *)
(* FailWorkflowRun at the end of handleResult.  (Jobs submitted by         *)
(* themselves are the subject of JobSystem.)                               *)
(***************************************************************************)
EXTENDS JobProperties, WorkflowService

allVars == <<vars, workflowVars>>

WInit == Init /\ WorkflowInit

\* The server process and the workers, as far as the engine leaves them alone.
besidesStore == <<queueVars, relayVars, serviceVars, serverVars>>

\* What handleResult calls before it returns, if job[s] is a step of the run.
CallAfter_EveryFailure(s) ==
    CASE job[s] \in StepJobs /\ pc[s] = "complete"                       -> "count"
      [] job[s] \in StepJobs /\ pc[s] \in {"retry_redis", "fail_redis"}  -> "fail"
      [] OTHER                                                           -> "idle"
CallAfter_NoFail(s) ==
    IF job[s] \in StepJobs /\ pc[s] = "complete" THEN "count" ELSE "idle"
CallAfter(s) ==
    CASE job[s] \in StepJobs /\ pc[s] = "complete"   -> "count"
      [] job[s] \in StepJobs /\ pc[s] = "fail_redis" -> "fail"
      [] OTHER                                       -> "idle"

\* Work does not go on before Advance has returned.
WorkHandler(s) ==
    /\ adv[s].pc = "idle"
    /\ Handler(s)
    /\ Call(s, CallAfter(s))
    /\ UNCHANGED <<registered, runVars, trigger, chained>>

Engine(s) ==
    /\ Advance(s, CtxDone(s))
    /\ UNCHANGED besidesStore

Trigger ==
    /\ TriggerWorkflow
    /\ UNCHANGED besidesStore

CancelRun ==
    /\ CancelWorkflowRunAtomic
    /\ UNCHANGED besidesStore

JobStep ==
    /\ \/ \E j \in Jobs : CancelJob(j)
       \/ \E s \in Sessions : Worker(s)
       \/ Relay
       \/ Promote
       \/ Reaper
       \/ Trouble
    /\ UNCHANGED workflowVars
--------------------------------------------------------------------------------
WCrash ==
    /\ Crash
    /\ trigger' = {}
    /\ adv' = [s \in Sessions |-> NoCall]
    /\ UNCHANGED <<registered, runVars, chained>>

\* LoadFromDir comes after Recover.
WBoot ==
    \/ BootReset /\ UNCHANGED workflowVars
    \/ /\ BootRecover
       /\ \/ UNCHANGED registered
          \/ "remove_file" \in Interventions /\ registered' = FALSE
       /\ UNCHANGED <<runVars, trigger, adv, chained>>

WNext ==
    \/ Up(JobStep)
    \/ \E s \in Sessions : Up(WorkHandler(s)) \/ Up(Engine(s))
    \/ Up(Trigger)
    \/ Up(CancelRun)
    \/ WBoot
    \/ WCrash

WSpec == WInit /\ [][WNext]_allVars

(***************************************************************************)
(* As Fairness in JobSystem; and a TriggerWorkflow that has begun goes on. *)
(***************************************************************************)
WFairness ==
    /\ WF_allVars(Up(Relay /\ UNCHANGED workflowVars))
    /\ WF_allVars(Up(Promote /\ UNCHANGED workflowVars))
    /\ WF_allVars(Up(Reaper /\ UNCHANGED workflowVars))
    /\ \A s \in Sessions : /\ WF_allVars(Up(Worker(s) /\ UNCHANGED workflowVars))
                           /\ WF_allVars(Up(WorkHandler(s)))
                           /\ WF_allVars(Up(Engine(s)))
    /\ \A j \in Jobs : WF_allVars(Up(CancelJob(j) /\ cancelPc[j] # "idle"
                                                  /\ UNCHANGED workflowVars))
    /\ WF_allVars(Up(Trigger /\ trigger # {}))
    /\ WF_allVars(WBoot)

WFairSpec == WSpec /\ WFairness
--------------------------------------------------------------------------------
Ended == {"completed", "failed", "cancelled"}

\* README: downstream steps run once all their dependencies complete.  Whatever
\* fails and is cancelled, a step is submitted only after an execution of every
\* step it depends on has succeeded.
StepsInOrder ==
    \A p \in StepJobs : status[p] # "none" =>
        \A q \in StepJobs : wf[q].ID \in ToSet(Deps(wf, p)) => q \in succ

\* A run is failed only if a step of it used up its retries, or if the server
\* was restarted without the workflow.
FailedForAReason ==
    runStatus = "failed" =>
        ~registered \/ \E p \in StepJobs : fails[p] > MaxRetries[p]

\* A run is completed only when an execution of every step has succeeded:
\* current_step counts no step twice and none that is still to come.
CompletedWhenDone == runStatus = "completed" => StepJobs \subseteq succ

\* README: when a step has exactly one dependency, that dependency's stdout is
\* injected.
OutputChained ==
    \A p \in StepJobs :
        status[p] # "none" /\ Len(Deps(wf, p)) = 1 => p \in chained

\* README: downstream steps run once all their dependencies complete.  When the
\* calls of Advance have returned, a running run has no step left that is
\* unblocked and not submitted, however the Advances of two steps interleave.
UnblockedSubmitted ==
    LET completedIDs == {wf[p].ID : p \in {q \in StepJobs : status[q] = "completed"}}
        submitted == {p \in StepJobs : status[p] # "none"}
    IN  (/\ runStatus = "running"
         /\ trigger = {}
         /\ \A s \in Sessions : adv[s].pc = "idle")
            => UnblockedSteps(wf, completedIDs, submitted) = {}

\* A run that is triggered ends.
RunEnds == runStatus = "running" ~> runStatus \in Ended

\* After a restart without the workflow's file its run does not go on: an Advance
\* that returns, but for a Postgres error, leaves the run ended.
OrphanFailed ==
    [][\A s \in Sessions :
          adv[s].pc # "idle" /\ adv'[s].pc = "idle" /\ ~registered /\ faults' = faults
             => runStatus' # "running"]_allVars

\* Late writes are rejected (handleResult: "Reject if already settled", "ignoring
\* result from non-owner worker"): no dispatch, result, disconnect or Advance that
\* was under way changes a settled step or a run that has ended, and only the
\* owner's own handler, the reaper or the end of the process takes a job from its
\* owner.
LateWritesRejected ==
    [][/\ \A p \in StepJobs : status[p] \in Settled => status'[p] = status[p]
       /\ runStatus \in Ended => runStatus' = runStatus
       /\ \A j \in Jobs, s \in Sessions : owner[j] = s /\ owner'[j] # s
             => pc'[s] # pc[s] \/ reaper.pc = "clear" \/ server' = "down"]_allVars

\* When a run has ended, the steps that it has submitted are settled, also
\* those that a cancellation met on their way to a worker.
EndedRunSettles ==
    runStatus \in Ended ~>
        \A p \in StepJobs : status[p] \in Settled \cup {"none"}
================================================================================

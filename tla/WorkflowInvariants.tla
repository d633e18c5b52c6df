--------------------------- MODULE WorkflowInvariants --------------------------
(***************************************************************************)
(* The inductive invariants behind WorkflowProofs and RunProofs, about     *)
(* the run that the engine keeps on top of the job system.                 *)
(***************************************************************************)
EXTENDS WorkflowSystem, JobInvariants

\* The job system's part: the invariants of JobProofs together.
JobsSafe ==
    /\ Core
    /\ Counts
    /\ Charged
    /\ Results
    /\ OwnerHandlesJob
    /\ DelayedBacked

\* Every id that Redis, the outbox or a program has in hand has a row.
HasRow(j) == status[j] # "none"

QueueRows ==
    \A j \in ToSet(ready) \cup ToSet(processing) \cup delayed \cup due : HasRow(j)
RelayRows ==
    /\ \A j \in outbox \cup relay.todo : HasRow(j)
    /\ relay.job # Nil => HasRow(relay.job)
HandlerRows == \A s \in Sessions : job[s] # Nil => HasRow(job[s])
CancelRows == \A j \in Jobs : cancelPc[j] # "idle" => HasRow(j)
ReaperRows ==
    /\ \A j \in reaper.list : HasRow(j)
    /\ reaper.job # Nil => HasRow(reaper.job)

RowsExist == QueueRows /\ RelayRows /\ HandlerRows /\ CancelRows /\ ReaperRows

\* Every step that p depends on has succeeded.
Unlocked(p) ==
    \A q \in StepJobs : wf[q].ID \in ToSet(Deps(wf, p)) => q \in succ

\* What TriggerWorkflow and the Advances have still to submit is unlocked, and
\* the IDs that Advance takes for completed are.
SubmitsUnlocked ==
    /\ \A p \in trigger : Unlocked(p)
    /\ \A s \in Sessions : \A p \in adv[s].todo : Unlocked(p)
    /\ \A s \in Sessions : adv[s].completedIDs \subseteq {wf[q].ID : q \in StepJobs \cap succ}

\* A step of the run has used up its retries, or the workflow is gone.
Reason == ~registered \/ \E p \in StepJobs : fails[p] > MaxRetries[p]

\* handleResult comes to FailWorkflowRun only with a job that failed more often
\* than it may, and nobody else does but for a workflow that is gone.
FailsForAReason ==
    /\ \A s \in Sessions : pc[s] = "fail_redis" => fails[job[s]] > MaxRetries[job[s]]
    /\ \A s \in Sessions : adv[s].pc = "fail" => Reason

\* No Advance spans a restart: without the workflow's file none goes on to submit
\* steps.
OrphanCalls ==
    /\ server # "up" => \A s \in Sessions : adv[s].pc = "idle"
    /\ ~registered =>
          \A s \in Sessions : adv[s].pc \in {"idle", "count", "finish", "fail"}
--------------------------------------------------------------------------------
(***************************************************************************)
(* When only streams break, and no step is cancelled by itself: completed  *)
(* steps stay so, and each is counted once.                                *)
(***************************************************************************)
CompletedSteps == {p \in StepJobs : status[p] = "completed"}
IDsOf(steps) == {wf[p].ID : p \in steps}

\* What TriggerWorkflow and the Advances have read is still so.
ReadsHold ==
    /\ \A p \in trigger : ToSet(Deps(wf, p)) = {}
    /\ \A s \in Sessions : adv[s].completedIDs \subseteq IDsOf(CompletedSteps)
    /\ \A s \in Sessions : \A p \in adv[s].todo :
          ToSet(Deps(wf, p)) \subseteq IDsOf(CompletedSteps)

\* The output of a single dependency has been read when its step is submitted.
OutputsRead ==
    \A s \in Sessions : \A p \in StepJobs :
        adv[s].pc = "submit" /\ First(adv[s].todo, p) /\ Len(Deps(wf, p)) = 1
            => adv[s].previous

\* The handlers that have completed a step and not counted it.
Counting == {s \in Sessions : adv[s].pc = "count"}

CountedOnce == currentStep + Cardinality(Counting) <= Cardinality(CompletedSteps)

\* Only the Advance that counted the last step completes the run.
LastCounted ==
    (runStatus = "completed" \/ \E s \in Sessions : adv[s].pc = "finish")
        => currentStep >= Len(wf)
--------------------------------------------------------------------------------
(***************************************************************************)
(* When nothing fails: no unblocked step is forgotten.                     *)
(***************************************************************************)
\* No stream is lost, and neither is the workflow.
Undamaged == registered /\ Connected

\* Nothing happens before there is a run.
BeforeRun ==
    runStatus = "none" =>
        /\ trigger = {}
        /\ adv = [s \in Sessions |-> NoCall]
        /\ \A p \in StepJobs : ~HasRow(p)

Unblocked(p) == ~HasRow(p) /\ ToSet(Deps(wf, p)) \subseteq IDsOf(CompletedSteps)

\* The Advance of s will submit p, or has still to read what is completed.
WillSubmit(s, p) ==
    \/ adv[s].pc \in {"count", "completed"}
    \/ adv[s].pc = "submitted" /\ ToSet(Deps(wf, p)) \subseteq adv[s].completedIDs
    \/ adv[s].pc \in {"output", "submit"} /\ p \in adv[s].todo

NoneForgotten ==
    runStatus = "running" =>
        \A p \in StepJobs :
            Unblocked(p) => p \in trigger \/ \E s \in Sessions : WillSubmit(s, p)
================================================================================

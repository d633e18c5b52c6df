------------------------------ MODULE WorkflowFile -----------------------------
(***************************************************************************)
(* A workflow file from LoadFromDir to the end of an undisturbed run of    *)
(* it: Validate accepts or rejects it, TriggerWorkflow submits its roots,  *)
(* and every completed step submits what it has unblocked.  One Advance at *)
(* a time, no failures: what Validate accepts must be runnable at all.     *)
(***************************************************************************)
EXTENDS Workflow, FiniteSets

CONSTANTS
    MaxSteps,  \* bound: the steps of a workflow
    MaxDeps    \* bound: the dependencies of a step

ASSUME BoundsAssumption == MaxSteps \in Nat /\ MaxDeps \in Nat

VARIABLES
    steps,      \* the Workflow's Steps
    verdict,    \* of Validate: "unread", "checking" (cycles), "ok" or an error
    color,      \* detectCycles: colors
    at,         \* how many dependencies of each step its dfs has looked at
    stack,      \* the calls of dfs that have not returned
    run,        \* the status of the workflow run, "none" before there is one
    submitted,  \* positions with a job
    completed   \* positions whose job is completed

searchVars == <<color, at, stack>>
runVars == <<run, submitted, completed>>
vars == <<steps, verdict, searchVars, runVars>>

IDs == {Unnamed} \cup 0..(MaxSteps - 1)
DependsOns == {NoList} \cup UNION {[1..n -> 0..(MaxSteps - 1)] : n \in 0..MaxDeps}
Steps == [ID : IDs, DependsOn : DependsOns]
Files == UNION {[1..n -> Steps] : n \in 0..MaxSteps}

\* Any file with at most MaxSteps steps and MaxDeps dependencies each.
Init ==
    /\ steps \in Files
    /\ verdict = "unread"
    /\ color = [p \in Positions(steps) |-> "white"]
    /\ at = [p \in Positions(steps) |-> 0]
    /\ stack = <<>>
    /\ run = "none"
    /\ submitted = {}
    /\ completed = {}
--------------------------------------------------------------------------------
(***************************************************************************)
(* LoadFromDir and Validate, which normalizes the workflow in place.       *)
(***************************************************************************)
DuplicateID(w) == \E p, q \in Positions(w) : p # q /\ w[p].ID = w[q].ID

UnknownDep(w) ==
    \E p \in Positions(w) : \E d \in ToSet(Deps(w, p)) :
        \A q \in Positions(w) : w[q].ID # d

Validate ==
    /\ verdict = "unread"
    /\ steps' = Normalize(steps)
    /\ verdict' = CASE DuplicateID(steps') -> "duplicate"
                    [] ~DuplicateID(steps') /\ UnknownDep(steps') -> "unknown"
                    [] OTHER -> "checking"
    /\ UNCHANGED <<searchVars, runVars>>

(***************************************************************************)
(* detectCycles: a depth-first search with three colours.                  *)
(***************************************************************************)
indexByID(id) == CHOOSE p \in Positions(steps) : steps[p].ID = id

\* dfs(p) goes past its first two tests.
Call(p) ==
    /\ color' = [color EXCEPT ![p] = "gray"]
    /\ stack' = Append(stack, p)

\* The loop over w.Steps calls dfs, which returns at once from a black one.
NextRoot ==
    /\ verdict = "checking"
    /\ stack = <<>>
    /\ \E p \in Positions(steps) :
          /\ color[p] = "white"
          /\ \A q \in 1..(p - 1) : color[q] = "black"
          /\ Call(p)
    /\ UNCHANGED <<steps, verdict, at, runVars>>

NoMoreRoots ==
    /\ verdict = "checking"
    /\ stack = <<>>
    /\ \A p \in Positions(steps) : color[p] = "black"
    /\ verdict' = "ok"
    /\ UNCHANGED <<steps, searchVars, runVars>>

\* dfs(p) calls itself for the next dependency of p, or returns.
Dfs_GraySkipped ==
    /\ verdict = "checking"
    /\ stack # <<>>
    /\ LET p == Last(stack)
           q == indexByID(Deps(steps, p)[at[p] + 1])
       IN \/ /\ at[p] < Len(Deps(steps, p))
             /\ at' = [at EXCEPT ![p] = @ + 1]
             /\ \/ color[q] # "white" /\ UNCHANGED <<verdict, color, stack>>
                \/ color[q] = "white" /\ Call(q) /\ UNCHANGED verdict
          \/ /\ at[p] = Len(Deps(steps, p))
             /\ color' = [color EXCEPT ![p] = "black"]
             /\ stack' = Front(stack)
             /\ UNCHANGED <<verdict, at>>
    /\ UNCHANGED <<steps, runVars>>
Dfs ==
    /\ verdict = "checking"
    /\ stack # <<>>
    /\ LET p == Last(stack)
           q == indexByID(Deps(steps, p)[at[p] + 1])
       IN \/ /\ at[p] < Len(Deps(steps, p))
             /\ at' = [at EXCEPT ![p] = @ + 1]
             /\ \/ color[q] = "black" /\ UNCHANGED <<verdict, color, stack>>
                \/ /\ color[q] = "gray"
                   /\ verdict' = "cycle"
                   /\ UNCHANGED <<color, stack>>
                \/ color[q] = "white" /\ Call(q) /\ UNCHANGED verdict
          \/ /\ at[p] = Len(Deps(steps, p))
             /\ color' = [color EXCEPT ![p] = "black"]
             /\ stack' = Front(stack)
             /\ UNCHANGED <<verdict, at>>
    /\ UNCHANGED <<steps, runVars>>
--------------------------------------------------------------------------------
(***************************************************************************)
(* An undisturbed run: one Advance at a time.                              *)
(***************************************************************************)
CompletedIDs(done) == {steps[p].ID : p \in done}

TriggerWorkflow ==
    /\ verdict = "ok"
    /\ run = "none"
    /\ run' = "running"
    /\ submitted' = UnblockedSteps(steps, {}, {})
    /\ UNCHANGED <<steps, verdict, searchVars, completed>>

\* A job is completed, and Advance counts it: it completes the run with the
\* last step, and submits what is unblocked with every other.
Advance_BeforeComplete(p) ==
    /\ p \in submitted \ completed
    /\ run = "running"
    /\ completed' = completed \cup {p}
    /\ \/ /\ Cardinality(completed') >= Len(steps)
          /\ run' = "completed"
          /\ UNCHANGED submitted
       \/ /\ Cardinality(completed') < Len(steps)
          /\ submitted' = submitted \cup
                UnblockedSteps(steps, CompletedIDs(completed), submitted)
          /\ UNCHANGED run
    /\ UNCHANGED <<steps, verdict, searchVars>>
Advance(p) ==
    /\ p \in submitted \ completed
    /\ run = "running"
    /\ completed' = completed \cup {p}
    /\ \/ /\ Cardinality(completed') >= Len(steps)
          /\ run' = "completed"
          /\ UNCHANGED submitted
       \/ /\ Cardinality(completed') < Len(steps)
          /\ submitted' = submitted \cup
                UnblockedSteps(steps, CompletedIDs(completed'), submitted)
          /\ UNCHANGED run
    /\ UNCHANGED <<steps, verdict, searchVars>>

Next ==
    \/ Validate
    \/ NextRoot \/ NoMoreRoots \/ Dfs
    \/ TriggerWorkflow
    \/ \E p \in 1..MaxSteps : Advance(p)

\* Jobs end, and clients trigger what is registered.
FairSpec == Init /\ [][Next]_vars /\ WF_vars(Next)
--------------------------------------------------------------------------------
TypeOK ==
    /\ \A p \in Positions(steps) : steps[p].ID \in IDs
    /\ verdict \in {"unread", "checking", "ok", "duplicate", "unknown", "cycle"}
    /\ color \in [Positions(steps) -> {"white", "gray", "black"}]
    /\ \A p \in Positions(steps) : at[p] \in 0..Len(Deps(steps, p))
    /\ stack \in Seq(Positions(steps))
    /\ run \in {"none", "running", "completed"}
    /\ submitted \subseteq Positions(steps)
    /\ completed \subseteq submitted

\* The steps of w can be put in an order that respects all dependencies.
Orderable(w) ==
    \E rank \in [Positions(w) -> Positions(w)] :
        \A p \in Positions(w) : \A d \in ToSet(Deps(w, p)) :
            \E q \in Positions(w) : w[q].ID = d /\ rank[q] < rank[p]

\* Validate accepts exactly the workflows whose IDs are unique and whose steps
\* can be ordered: the three-colour search finds every cycle, whichever step
\* it starts from and however the lists share steps, and nothing else.
ValidateExact ==
    verdict \notin {"unread", "checking"} =>
        (verdict = "ok" <=> ~DuplicateID(steps) /\ Orderable(steps))

\* Normalize changes nothing any more once Validate has run it.
\* TriggerWorkflow and Advance run it again, in many goroutines, on a copy of
\* the Workflow that shares its Steps: they never write to them.
NormalizeOnce == verdict # "unread" => Normalize(steps) = steps

\* Validate ends, and the run of a workflow that it accepts, if it has any
\* steps, is completed after the last one: UnblockedSteps leaves no step
\* behind, whatever order its steps end in.
RunsToTheEnd ==
    /\ <>(verdict \notin {"unread", "checking"})
    /\ verdict = "ok" /\ steps # <<>> ~>
          run = "completed" /\ completed = Positions(steps)
================================================================================

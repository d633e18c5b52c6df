--------------------------- MODULE MCWorkflowSystem ----------------------------
(***************************************************************************)
(* WorkflowSystem for TLC, with small workflows.                           *)
(***************************************************************************)
EXTENDS WorkflowSystem

CONSTANT RetriedJobs  \* the jobs with max_retries 1

MCMaxRetries == [j \in Jobs |-> IF j \in RetriedJobs THEN 1 ELSE 0]

Step(id, deps) == [ID |-> id, DependsOn |-> deps]

\* One step after another.
Chain == <<Step(0, NoList), Step(1, <<0>>)>>

\* Two steps at once, and a third after one of them.
Branches == <<Step(0, NoList), Step(1, NoList), Step(2, <<1>>)>>

\* A step, two at once after it, and one that joins them.
Diamond == <<Step(0, NoList), Step(1, <<0>>), Step(2, <<0>>), Step(3, <<1, 2>>)>>

Symmetry == Permutations(Sessions)
================================================================================

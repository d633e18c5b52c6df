-------------------------------- MODULE Workflow -------------------------------
(***************************************************************************)
(* internal/workflow/workflow.go: what a workflow file becomes.  A step is *)
(* a record of its ID and its DependsOn; commands and retries are left     *)
(* out.  Positions start at 1 here and at 0 in Go.                         *)
(*                                                                         *)
(* An ID is a number: i stands for the string "step-i" that Normalize      *)
(* makes up, and that a file may also contain as it stands.                *)
(***************************************************************************)
EXTENDS Integers, SequencesExt

CONSTANT NoList  \* a DependsOn that is nil, not an empty list

ASSUME NoListAssumption == NoList \notin Seq(Nat)

Unnamed == -1
Positions(w) == DOMAIN w

\* The dependencies of step p: ranging over nil is ranging over nothing.
Deps(w, p) == IF w[p].DependsOn = NoList THEN <<>> ELSE w[p].DependsOn

(***************************************************************************)
(* Normalize: give IDs to the steps that have none; and when no step has a *)
(* DependsOn, make each depend on the one before it.                       *)
(***************************************************************************)
AssignIDs_FromOne(w) ==
    [p \in Positions(w) |->
        IF w[p].ID = Unnamed THEN [w[p] EXCEPT !.ID = p] ELSE w[p]]
AssignIDs(w) ==
    [p \in Positions(w) |->
        IF w[p].ID = Unnamed THEN [w[p] EXCEPT !.ID = p - 1] ELSE w[p]]

DagMode(w) == \E p \in Positions(w) : w[p].DependsOn # NoList

Normalize_Appends(w) ==
    LET named == AssignIDs(w)
    IN  [p \in Positions(w) |->
            IF p > 1
            THEN [named[p] EXCEPT
                    !.DependsOn = Append(Deps(w, p), named[p - 1].ID)]
            ELSE named[p]]
Normalize(w) ==
    LET named == AssignIDs(w)
    IN  IF DagMode(named) THEN named
        ELSE [p \in Positions(w) |->
                IF p > 1
                THEN [named[p] EXCEPT !.DependsOn = <<named[p - 1].ID>>]
                ELSE named[p]]

\* The steps to submit, given the IDs that are completed and the positions
\* that are submitted.
UnblockedSteps(w, completedIDs, submitted) ==
    {p \in Positions(w) \ submitted :
        \A d \in ToSet(Deps(w, p)) : d \in completedIDs}
================================================================================

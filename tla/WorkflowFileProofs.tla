--------------------------- MODULE WorkflowFileProofs --------------------------
(*****************************************************************************)
(* What WorkflowFile checks for small files, for files of every size.  That  *)
(* a depth-first search finds exactly the cycles is usually proved by        *)
(* induction over paths; here both directions are invariants of the search.  *)
(* The steps that it has finished carry an order, the one in which they were *)
(* finished; and whatever order the steps might have, it descends along the  *)
(* stack of calls, so that there is none when a call meets itself.           *)
(*****************************************************************************)
EXTENDS WorkflowFile, SequenceTheorems, FiniteSetTheorems, TLAPS
--------------------------------------------------------------------------------
(*****************************************************************************)
(* What a file is, and what Normalize makes of it.                           *)
(*****************************************************************************)
\* A step of a workflow, before Normalize or after it.
StepOK == [ID : IDs, DependsOn : {NoList} \cup Seq(Nat)]

\* What detectCycles and UnblockedSteps range over.
LEMMA DepsType ==
    ASSUME NEW w \in Seq(StepOK), NEW p \in Positions(w)
    PROVE  Deps(w, p) \in Seq(Nat)
<1>1. w[p] \in StepOK
  BY DEF Positions
<1> QED BY <1>1 DEF StepOK, Deps

\* Every file is a list of steps.
LEMMA FileType ==
    ASSUME NEW w \in Files
    PROVE  w \in Seq(StepOK) /\ Len(w) <= MaxSteps
<1>1. DependsOns \subseteq {NoList} \cup Seq(Nat)
  <2> SUFFICES ASSUME NEW n \in 0..MaxDeps, NEW l \in [1..n -> 0..(MaxSteps - 1)]
               PROVE  l \in Seq(Nat)
    BY DEF DependsOns
  <2>1. n \in Nat /\ l \in [1..n -> Nat]
    BY BoundsAssumption
  <2> QED BY <2>1, SeqDef
<1>2. Steps \subseteq StepOK
  BY <1>1 DEF Steps, StepOK
<1>3. PICK n \in 0..MaxSteps : w \in [1..n -> Steps]
  BY DEF Files
<1>4. n \in Nat /\ n <= MaxSteps
  BY BoundsAssumption
<1>5. w \in Seq(Steps) /\ Len(w) = n
  BY <1>3, <1>4, SeqDef
<1> QED BY <1>2, <1>4, <1>5

\* AssignIDs gives every step an ID and changes nothing else.
LEMMA Assigned ==
    ASSUME NEW w \in Seq(StepOK), Len(w) <= MaxSteps
    PROVE  /\ AssignIDs(w) \in [Positions(w) -> StepOK]
           /\ \A p \in Positions(w) :
                 /\ AssignIDs(w)[p].ID # Unnamed
                 /\ AssignIDs(w)[p].DependsOn = w[p].DependsOn
<1>1. ASSUME NEW p \in Positions(w)
      PROVE  /\ AssignIDs(w)[p] \in StepOK
             /\ AssignIDs(w)[p].ID # Unnamed
             /\ AssignIDs(w)[p].DependsOn = w[p].DependsOn
  <2>1. w[p] \in StepOK /\ p \in 1..Len(w)
    BY DEF Positions
  <2>2. p - 1 \in IDs /\ p - 1 # Unnamed
    BY <2>1, BoundsAssumption DEF IDs, Unnamed
  <2>3. AssignIDs(w)[p] = IF w[p].ID = Unnamed THEN [w[p] EXCEPT !.ID = p - 1] ELSE w[p]
    BY DEF AssignIDs
  <2> QED BY <2>1, <2>2, <2>3 DEF StepOK
<1>2. AssignIDs(w) = [p \in Positions(w) |-> AssignIDs(w)[p]]
  BY DEF AssignIDs
<1> HIDE DEF AssignIDs
<1> QED BY <1>1, <1>2

\* It has nothing to do when every step has one.
LEMMA AssignedTwice ==
    ASSUME NEW w \in Seq(StepOK), \A p \in Positions(w) : w[p].ID # Unnamed
    PROVE  AssignIDs(w) = w
<1>1. \A p \in Positions(w) : AssignIDs(w)[p] = w[p]
  BY DEF AssignIDs
<1>2. w \in [Positions(w) -> StepOK]
  BY DEF Positions
<1>3. AssignIDs(w) \in [Positions(w) -> StepOK]
  BY <1>2 DEF AssignIDs
<1> QED BY <1>1, <1>2, <1>3

\* What Normalize makes of a workflow, which it makes nothing else of later.
LEMMA Normalized ==
    ASSUME NEW w \in Seq(StepOK), Len(w) <= MaxSteps
    PROVE  /\ Normalize(w) \in Seq(StepOK)
           /\ Positions(Normalize(w)) = Positions(w)
           /\ Len(Normalize(w)) = Len(w)
           /\ \A p \in Positions(w) : Normalize(w)[p].ID # Unnamed
           /\ Normalize(Normalize(w)) = Normalize(w)
<1> DEFINE named == AssignIDs(w)
           N == Normalize(w)
<1>a. /\ named \in [1..Len(w) -> StepOK] /\ Len(w) \in Nat /\ Positions(w) = 1..Len(w)
      /\ \A p \in 1..Len(w) : named[p].ID # Unnamed
  BY Assigned DEF Positions
<1> HIDE DEF named
<1>b. N = IF DagMode(named) THEN named
          ELSE [p \in Positions(w) |->
                  IF p > 1 THEN [named[p] EXCEPT !.DependsOn = <<named[p - 1].ID>>]
                  ELSE named[p]]
  BY DEF Normalize, named
<1>1. N \in [1..Len(w) -> StepOK] /\ \A p \in 1..Len(w) : N[p].ID # Unnamed
  <2>1. CASE DagMode(named)
    BY <1>a, <1>b, <2>1
  <2>2. CASE ~DagMode(named)
    <3> SUFFICES ASSUME NEW p \in 1..Len(w)
                 PROVE  N[p] \in StepOK /\ N[p].ID # Unnamed
      BY <1>a, <1>b, <2>2
    <3>1. CASE p > 1
      <4>1. /\ named[p] \in StepOK /\ named[p - 1] \in StepOK
            /\ named[p].ID # Unnamed /\ named[p - 1].ID # Unnamed
        BY <1>a, <3>1
      <4>2. named[p - 1].ID \in Nat
        BY <4>1, BoundsAssumption DEF StepOK, IDs, Unnamed
      <4>3. N[p] = [named[p] EXCEPT !.DependsOn = <<named[p - 1].ID>>]
        BY <1>a, <1>b, <2>2, <3>1
      <4>4. <<named[p - 1].ID>> \in Seq(Nat)
        BY <4>2
      <4> HIDE DEF N
      <4> QED BY <4>1, <4>3, <4>4 DEF StepOK
    <3>2. CASE ~(p > 1)
      BY <1>a, <1>b, <2>2, <3>2
    <3> QED BY <3>1, <3>2
  <2> QED BY <2>1, <2>2
<1> HIDE DEF N
<1>2. N \in Seq(StepOK) /\ Len(N) = Len(w) /\ Positions(N) = Positions(w)
  BY <1>a, <1>1, SeqDef DEF Positions
<1>3. AssignIDs(N) = N
  BY <1>a, <1>1, <1>2, AssignedTwice
<1>4. Normalize(N) = N
  <2>1. CASE DagMode(N)
    BY <1>3, <2>1 DEF Normalize
  <2>2. CASE ~DagMode(N)
    <3>1. Normalize(N) = [p \in Positions(N) |->
                  IF p > 1 THEN [N[p] EXCEPT !.DependsOn = <<N[p - 1].ID>>] ELSE N[p]]
      BY <1>3, <2>2 DEF Normalize
    <3>2. ~DagMode(named)
      BY <1>b, <2>2
    <3>3. \A p \in 1..Len(w) : ~(p > 1)
      <4> SUFFICES ASSUME NEW p \in 1..Len(w), p > 1
                   PROVE  FALSE
        OBVIOUS
      <4>1. N[p] = [named[p] EXCEPT !.DependsOn = <<named[p - 1].ID>>]
        BY <1>a, <1>b, <3>2
      <4>2. named[p] \in StepOK /\ named[p - 1] \in StepOK /\ named[p - 1].ID # Unnamed
        BY <1>a
      <4>3. named[p - 1].ID \in Nat
        BY <4>2, BoundsAssumption DEF StepOK, IDs, Unnamed
      <4>4. N[p].DependsOn = <<named[p - 1].ID>>
        BY <4>1, <4>2 DEF StepOK
      <4>5. <<named[p - 1].ID>> \in Seq(Nat)
        BY <4>3
      <4>6. N[p].DependsOn # NoList
        BY <4>4, <4>5, NoListAssumption
      <4> QED BY <1>a, <1>2, <2>2, <4>6 DEF DagMode
    <3>4. Normalize(N) = [p \in 1..Len(w) |-> N[p]]
      BY <1>a, <1>2, <3>1, <3>3
    <3> QED BY <1>1, <3>4
  <2> QED BY <2>1, <2>2
<1> QED BY <1>a, <1>1, <1>2, <1>4 DEF N
--------------------------------------------------------------------------------
(*****************************************************************************)
(* The inductive invariant, and the steps of detectCycles.                   *)
(*****************************************************************************)
\* The types of what TypeOK leaves open; and nothing is begun before Validate,
\* no run before its verdict.
Shape ==
    /\ steps \in Seq(StepOK) /\ Len(steps) <= MaxSteps
    /\ at \in [Positions(steps) -> Nat]
    /\ verdict = "unread" =>
          stack = <<>> /\ \A p \in Positions(steps) : color[p] = "white" /\ at[p] = 0
    /\ verdict # "ok" => run = "none"
    /\ run = "none" => submitted = {} /\ completed = {}

\* What each verdict says of the workflow.
Verdicts ==
    /\ verdict = "duplicate" => DuplicateID(steps)
    /\ verdict = "unknown" => UnknownDep(steps)
    /\ verdict \in {"checking", "cycle", "ok"} => ~DuplicateID(steps) /\ ~UnknownDep(steps)
    /\ verdict = "cycle" => ~Orderable(steps)
    /\ verdict = "ok" => \A p \in Positions(steps) : color[p] = "black"

\* rank puts the steps in an order as Orderable asks for.
Respects(rank) ==
    \A p \in Positions(steps) : \A d \in ToSet(Deps(steps, p)) :
        \E q \in Positions(steps) : steps[q].ID = d /\ rank[q] < rank[p]

\* The steps whose dfs has returned.
Black == {p \in Positions(steps) : color[p] = "black"}

\* The steps that dfs has finished can be ordered: by the time it finished them.
Finished ==
    \E rank \in [Positions(steps) -> Positions(steps)] :
        \A p \in Black :
            /\ rank[p] <= Cardinality(Black)
            /\ \A d \in ToSet(Deps(steps, p)) :
                  \E q \in Black : steps[q].ID = d /\ rank[q] < rank[p]

\* The gray steps are those on the stack of calls, once each.
GrayOnStack ==
    /\ \A i, j \in 1..Len(stack) : stack[i] = stack[j] => i = j
    /\ \A p \in Positions(steps) :
          color[p] = "gray" <=> \E i \in 1..Len(stack) : stack[i] = p
    /\ \A p \in Positions(steps) : color[p] = "white" => at[p] = 0

\* A dependency that a call of dfs has looked at is finished, or is the call
\* that it is waiting for.
Looked ==
    \A i \in 1..Len(stack) : \A k \in 1..at[stack[i]] : \A q \in Positions(steps) :
        steps[q].ID = Deps(steps, stack[i])[k] =>
            color[q] = "black" \/ (i < Len(stack) /\ q = stack[i + 1])

\* Each call on the stack is for something that those below it depend on: any
\* order of the steps would have to descend along it.
Descending ==
    \A rank \in [Positions(steps) -> Positions(steps)] :
        Respects(rank) =>
            \A i, j \in 1..Len(stack) : i < j => rank[stack[j]] < rank[stack[i]]

\* What the search knows while it lasts.
Search == verdict = "checking" => GrayOnStack /\ Looked /\ Descending

\* A dependency of a workflow without unknown ones is one step.
LEMMA OneStep ==
    ASSUME Shape, ~DuplicateID(steps), ~UnknownDep(steps),
           NEW p \in Positions(steps), NEW k \in 1..Len(Deps(steps, p))
    PROVE  LET d == Deps(steps, p)[k]
               q == indexByID(d)
           IN  /\ d \in ToSet(Deps(steps, p))
               /\ q \in Positions(steps) /\ steps[q].ID = d
               /\ \A r \in Positions(steps) : steps[r].ID = d => r = q
<1> DEFINE d == Deps(steps, p)[k]
<1>1. Deps(steps, p) \in Seq(Nat)
  BY DepsType DEF Shape
<1>2. d \in ToSet(Deps(steps, p))
  BY <1>1 DEF ToSet
<1>3. \E q \in Positions(steps) : steps[q].ID = d
  BY <1>2 DEF UnknownDep
<1>4. indexByID(d) \in Positions(steps) /\ steps[indexByID(d)].ID = d
  BY <1>3 DEF indexByID
<1> QED BY <1>2, <1>4 DEF DuplicateID

\* dfs(p) looks at its next dependency, the step q.
Looks(p, q) ==
    /\ at[p] < Len(Deps(steps, p))
    /\ steps[q].ID = Deps(steps, p)[at[p] + 1]
    /\ \A r \in Positions(steps) : steps[r].ID = steps[q].ID => r = q
    /\ at' = [at EXCEPT ![p] = at[p] + 1]
    /\ \/ color[q] = "black" /\ UNCHANGED <<verdict, color, stack>>
       \/ color[q] = "gray" /\ verdict' = "cycle" /\ UNCHANGED <<color, stack>>
       \/ color[q] = "white" /\ Call(q) /\ UNCHANGED verdict

\* dfs(p) returns.
Returns(p) ==
    /\ at[p] = Len(Deps(steps, p))
    /\ color' = [color EXCEPT ![p] = "black"]
    /\ stack' = SubSeq(stack, 1, Len(stack) - 1)
    /\ UNCHANGED <<verdict, at>>

\* These are the two things that dfs does.
LEMMA DfsCases ==
    ASSUME Shape, TypeOK, Verdicts, Dfs
    PROVE  /\ verdict = "checking" /\ stack # <<>> /\ UNCHANGED <<steps, runVars>>
           /\ \E p \in Positions(steps) :
                 /\ p = stack[Len(stack)]
                 /\ Returns(p) \/ \E q \in Positions(steps) : Looks(p, q)
<1>a. /\ verdict = "checking" /\ stack # <<>> /\ UNCHANGED <<steps, runVars>>
      /\ stack \in Seq(Positions(steps)) /\ Len(stack) \in 1..Len(stack)
      /\ ~DuplicateID(steps) /\ ~UnknownDep(steps)
  BY DEF Dfs, TypeOK, Verdicts
<1>1. PICK p \in Positions(steps) : p = stack[Len(stack)]
  BY <1>a
<1>2. at[p] \in Nat /\ Len(Deps(steps, p)) \in Nat
  BY DepsType DEF Shape
<1>3. Last(stack) = p /\ Front(stack) = SubSeq(stack, 1, Len(stack) - 1)
  BY <1>1 DEF Last, Front
<1>4. CASE at[p] = Len(Deps(steps, p))
  BY <1>a, <1>1, <1>2, <1>3, <1>4 DEF Dfs, Returns
<1>5. CASE at[p] < Len(Deps(steps, p))
  <2> DEFINE q == indexByID(Deps(steps, p)[at[p] + 1])
  <2>1. /\ q \in Positions(steps) /\ steps[q].ID = Deps(steps, p)[at[p] + 1]
        /\ \A r \in Positions(steps) : steps[r].ID = Deps(steps, p)[at[p] + 1] => r = q
    <3>1. at[p] + 1 \in 1..Len(Deps(steps, p))
      BY <1>2, <1>5
    <3> QED BY <1>a, <3>1, OneStep
  <2>2. at' = [at EXCEPT ![p] = at[p] + 1]
    BY <1>2, <1>3, <1>5 DEF Dfs
  <2>3. \/ color[q] = "black" /\ UNCHANGED <<verdict, color, stack>>
        \/ color[q] = "gray" /\ verdict' = "cycle" /\ UNCHANGED <<color, stack>>
        \/ color[q] = "white" /\ Call(q) /\ UNCHANGED verdict
    BY <1>2, <1>3, <1>5 DEF Dfs
  <2> HIDE DEF q
  <2>4. Looks(p, q)
    BY <1>5, <2>1, <2>2, <2>3 DEF Looks
  <2> QED BY <1>a, <1>1, <2>1, <2>4
<1> QED BY <1>2, <1>3, <1>4, <1>5 DEF Dfs

\* The shape of the state stays.
LEMMA ShapeStep ==
    ASSUME Shape, TypeOK, Verdicts, [Next]_vars
    PROVE  Shape' /\ TypeOK'
<1>a. /\ Positions(steps) = 1..Len(steps) /\ Len(steps) \in Nat
      /\ \A p \in Positions(steps) : Deps(steps, p) \in Seq(Nat)
  BY DepsType DEF Positions, Shape
<1>1. CASE Validate
  <2>1. /\ steps' \in Seq(StepOK) /\ Positions(steps') = Positions(steps)
        /\ Len(steps') = Len(steps)
    BY <1>1, Normalized DEF Validate, Shape
  <2>2. /\ UNCHANGED <<color, at, stack, run, submitted, completed>>
        /\ verdict = "unread" /\ verdict' \in {"duplicate", "unknown", "checking"}
    BY <1>1 DEF Validate, searchVars, runVars
  <2>3. Shape'
    <3>1. at' \in [Positions(steps') -> Nat]
      BY <2>1, <2>2 DEF Shape
    <3>2. Len(steps') <= MaxSteps /\ verdict' # "unread"
      BY <2>1, <2>2 DEF Shape
    <3>3. run' = "none" /\ submitted' = {} /\ completed' = {}
      BY <2>2 DEF Shape
    <3> QED BY <2>1, <3>1, <3>2, <3>3 DEF Shape
  <2>4. \A p \in Positions(steps)' : steps'[p].ID \in IDs /\ Deps(steps', p) \in Seq(Nat)
    <3> SUFFICES ASSUME NEW p \in Positions(steps')
                 PROVE  steps'[p].ID \in IDs /\ Deps(steps', p) \in Seq(Nat)
      OBVIOUS
    <3>1. steps'[p] \in StepOK
      BY <2>1 DEF Positions
    <3> QED BY <2>1, <3>1, DepsType DEF StepOK
  <2>5. \A p \in Positions(steps)' : at'[p] \in 0..Len(Deps(steps', p))
    BY <2>1, <2>2, <2>4 DEF Shape
  <2> QED BY <2>1, <2>2, <2>3, <2>4, <2>5 DEF TypeOK
<1>2. CASE NextRoot
  BY <1>a, <1>2 DEF NextRoot, Call, runVars, Shape, TypeOK
<1>3. CASE NoMoreRoots
  BY <1>3 DEF NoMoreRoots, searchVars, runVars, Shape, TypeOK
<1>4. CASE Dfs
  <2>a. /\ verdict = "checking" /\ stack # <<>>
        /\ UNCHANGED <<steps, run, submitted, completed>>
    BY <1>4, DfsCases DEF runVars
  <2>1. PICK p \in Positions(steps) : Returns(p) \/ \E q \in Positions(steps) : Looks(p, q)
    BY <1>4, DfsCases
  <2>2. CASE Returns(p)
    BY <1>a, <2>a, <2>2 DEF Returns, Shape, TypeOK
  <2>3. ASSUME NEW q \in Positions(steps), Looks(p, q)
        PROVE  Shape' /\ TypeOK'
    <3>1. at' = [at EXCEPT ![p] = at[p] + 1] /\ at[p] < Len(Deps(steps, p))
      BY <2>3 DEF Looks
    <3>2. /\ verdict' \in {"checking", "cycle"}
          /\ \/ UNCHANGED <<color, stack>>
             \/ color' = [color EXCEPT ![q] = "gray"] /\ stack' = Append(stack, q)
      BY <2>a, <2>3 DEF Looks, Call
    <3>3. Shape'
      BY <1>a, <2>a, <3>1, <3>2 DEF Shape
    <3>4. \A r \in Positions(steps) : at'[r] \in 0..Len(Deps(steps, r))
      <4>1. /\ at \in [Positions(steps) -> Nat]
            /\ \A r \in Positions(steps) : at[r] \in 0..Len(Deps(steps, r))
        BY DEF Shape, TypeOK
      <4>2. \A r \in Positions(steps) \ {p} : at'[r] = at[r]
        BY <3>1, <4>1
      <4>3. at'[p] = at[p] + 1
        BY <3>1, <4>1
      <4>4. Len(Deps(steps, p)) \in Nat
        BY DepsType, LenProperties DEF Shape
      <4>5. at'[p] \in 0..Len(Deps(steps, p))
        BY <3>1, <4>1, <4>3, <4>4
      <4> QED BY <4>1, <4>2, <4>5
    <3>5. /\ color' \in [Positions(steps) -> {"white", "gray", "black"}]
          /\ stack' \in Seq(Positions(steps))
      <4>1. /\ color \in [Positions(steps) -> {"white", "gray", "black"}]
            /\ stack \in Seq(Positions(steps))
        BY DEF TypeOK
      <4> QED BY <3>2, <4>1
    <3>6. verdict' \in {"unread", "checking", "ok", "duplicate", "unknown", "cycle"}
      BY <3>2
    <3> QED BY <2>a, <3>3, <3>4, <3>5, <3>6 DEF TypeOK
  <2> QED BY <2>1, <2>2, <2>3
<1>5. CASE TriggerWorkflow
  <2>1. /\ verdict = "ok" /\ run' = "running" /\ submitted' \subseteq Positions(steps)
        /\ UNCHANGED <<steps, verdict, color, at, stack, completed>>
    BY <1>5 DEF TriggerWorkflow, UnblockedSteps, searchVars
  <2>2. run = "none" /\ completed = {}
    BY <1>5 DEF TriggerWorkflow, Shape
  <2> QED BY <2>1, <2>2 DEF Shape, TypeOK
<1>6. ASSUME NEW p \in 1..MaxSteps, Advance(p)
      PROVE  Shape' /\ TypeOK'
  BY <1>6 DEF Advance, UnblockedSteps, searchVars, Shape, TypeOK
<1>7. CASE UNCHANGED vars
  BY <1>7 DEF vars, searchVars, runVars, Shape, TypeOK
<1> QED BY <1>1, <1>2, <1>3, <1>4, <1>5, <1>6, <1>7 DEF Next
--------------------------------------------------------------------------------
(*****************************************************************************)
(* The stack of calls is a chain of dependencies.                            *)
(*****************************************************************************)
\* A stack without its last call.
LEMMA Popped ==
    ASSUME NEW S, NEW q \in Seq(S), q # <<>>
    PROVE  /\ Len(SubSeq(q, 1, Len(q) - 1)) = Len(q) - 1
           /\ \A i \in 1..(Len(q) - 1) : SubSeq(q, 1, Len(q) - 1)[i] = q[i]
<1> DEFINE r == SubSeq(q, 1, Len(q) - 1)
<1>1. /\ Len(q) \in Nat \ {0}
      /\ DOMAIN r = 1..(Len(q) - 1) /\ r \in Seq(S)
      /\ \A i \in DOMAIN r : r[i] = q[i]
  OBVIOUS
<1> HIDE DEF r
<1>2. DOMAIN r = 1..Len(r) /\ Len(r) \in Nat
  BY <1>1
<1>3. Len(r) = Len(q) - 1
  BY <1>1, <1>2
<1> QED BY <1>1, <1>3 DEF r

\* What dfs(p) looks at must come before p, and before all that wait for p.
LEMMA LooksDown ==
    ASSUME Shape, TypeOK, Descending, stack # <<>>,
           NEW p \in Positions(steps), p = stack[Len(stack)],
           NEW q \in Positions(steps), Looks(p, q),
           NEW rank \in [Positions(steps) -> Positions(steps)], Respects(rank)
    PROVE  \A i \in 1..Len(stack) : rank[q] < rank[stack[i]]
<1>a. /\ Positions(steps) \subseteq Nat /\ stack \in Seq(Positions(steps))
      /\ Len(stack) \in Nat \ {0} /\ at[p] \in Nat /\ Deps(steps, p) \in Seq(Nat)
  BY DepsType DEF Positions, Shape, TypeOK
<1>1. Deps(steps, p)[at[p] + 1] \in ToSet(Deps(steps, p))
  BY <1>a DEF Looks, ToSet
<1>2. PICK r \in Positions(steps) :
          steps[r].ID = Deps(steps, p)[at[p] + 1] /\ rank[r] < rank[p]
  BY <1>1 DEF Respects
<1>3. rank[q] < rank[p]
  BY <1>2 DEF Looks
<1> SUFFICES ASSUME NEW i \in 1..Len(stack)
             PROVE  rank[q] < rank[stack[i]]
  OBVIOUS
<1>4. CASE i = Len(stack)
  BY <1>3, <1>4
<1>5. CASE i < Len(stack)
  <2>1. stack[i] \in Positions(steps) /\ Len(stack) \in 1..Len(stack)
    BY <1>a
  <2>2. rank[stack[Len(stack)]] < rank[stack[i]]
    BY <1>5, <2>1 DEF Descending
  <2>3. rank[q] \in Nat /\ rank[p] \in Nat /\ rank[stack[i]] \in Nat
    BY <1>a, <2>1
  <2> QED BY <1>3, <2>2, <2>3
<1> QED BY <1>a, <1>4, <1>5

\* A gray dependency closes a cycle.
LEMMA GrayUnorderable ==
    ASSUME Shape, TypeOK, GrayOnStack, Descending, stack # <<>>,
           NEW p \in Positions(steps), p = stack[Len(stack)],
           NEW q \in Positions(steps), Looks(p, q), color[q] = "gray"
    PROVE  ~Orderable(steps)
<1> SUFFICES ASSUME NEW rank \in [Positions(steps) -> Positions(steps)], Respects(rank)
             PROVE  FALSE
  BY DEF Orderable, Respects
<1>1. PICK i \in 1..Len(stack) : stack[i] = q
  BY DEF GrayOnStack
<1>2. rank[q] < rank[q]
  BY <1>1, LooksDown
<1>3. rank[q] \in Nat
  BY DEF Positions, Shape
<1> QED BY <1>2, <1>3

\* The search goes on as it should.
LEMMA SearchStep ==
    ASSUME Shape, TypeOK, Verdicts, Search, [Next]_vars
    PROVE  Search'
<1>a. /\ Positions(steps) = 1..Len(steps) /\ Len(steps) \in Nat
      /\ \A p \in Positions(steps) : Deps(steps, p) \in Seq(Nat)
      /\ stack \in Seq(Positions(steps)) /\ Len(stack) \in Nat
      /\ color \in [Positions(steps) -> {"white", "gray", "black"}]
      /\ at \in [Positions(steps) -> Nat]
  BY DepsType DEF Positions, Shape, TypeOK
<1>1. CASE Validate
  <2>1. Positions(steps') = Positions(steps)
    BY <1>1, Normalized DEF Validate, Shape
  <2>2. /\ stack' = <<>> /\ UNCHANGED <<color, at>>
        /\ \A p \in Positions(steps) : color[p] = "white" /\ at[p] = 0
    BY <1>1 DEF Validate, searchVars, Shape
  <2>3. GrayOnStack'
    BY <2>1, <2>2 DEF GrayOnStack
  <2>4. Looked' /\ Descending'
    BY <2>2 DEF Looked, Descending
  <2> QED BY <2>3, <2>4 DEF Search
<1>2. CASE NextRoot
  <2>1. PICK p \in Positions(steps) : color[p] = "white" /\ Call(p)
    BY <1>2 DEF NextRoot
  <2>2. /\ verdict = "checking" /\ stack = <<>> /\ UNCHANGED <<steps, verdict, at>>
    BY <1>2 DEF NextRoot
  <2>3. GrayOnStack
    BY <2>2 DEF Search
  <2>4. /\ stack' = <<p>> /\ color' = [color EXCEPT ![p] = "gray"] /\ at[p] = 0
    BY <2>1, <2>2, <2>3 DEF Call, GrayOnStack
  <2>5. /\ Len(stack') = 1 /\ stack'[1] = p
        /\ \A r \in Positions(steps) : color[r] # "gray"
    BY <2>2, <2>3, <2>4 DEF GrayOnStack
  <2>6. GrayOnStack'
    BY <1>a, <2>2, <2>3, <2>4, <2>5 DEF GrayOnStack
  <2>7. Looked' /\ Descending'
    BY <2>2, <2>4, <2>5 DEF Looked, Descending
  <2> QED BY <2>6, <2>7 DEF Search
<1>3. CASE Dfs
  <2>a. /\ verdict = "checking" /\ stack # <<>> /\ UNCHANGED steps
        /\ GrayOnStack /\ Looked /\ Descending /\ Len(stack) \in 1..Len(stack)
    BY <1>a, <1>3, DfsCases DEF Search
  <2>1. PICK p \in Positions(steps) :
            /\ p = stack[Len(stack)]
            /\ Returns(p) \/ \E q \in Positions(steps) : Looks(p, q)
    BY <1>3, DfsCases
  <2>2. ASSUME NEW q \in Positions(steps), Looks(p, q)
        PROVE  Search'
    <3>1. CASE color[q] = "gray"
      BY <2>2, <3>1 DEF Looks, Search
    <3>2. CASE color[q] = "black"
      <4>1. UNCHANGED <<color, stack>> /\ at' = [at EXCEPT ![p] = at[p] + 1]
        BY <2>2, <3>2 DEF Looks
      <4>2. color[p] = "gray"
        BY <2>a, <2>1 DEF GrayOnStack
      <4>3. GrayOnStack'
        BY <1>a, <2>a, <4>1, <4>2 DEF GrayOnStack
      <4>4. Looked'
        <5> SUFFICES ASSUME NEW i \in 1..Len(stack), NEW k \in 1..at'[stack[i]],
                            NEW r \in Positions(steps),
                            steps[r].ID = Deps(steps, stack[i])[k]
                     PROVE  color[r] = "black" \/ (i < Len(stack) /\ r = stack[i + 1])
          BY <2>a, <4>1 DEF Looked
        <5>1. stack[i] \in Positions(steps)
          BY <1>a
        <5>2. CASE k \in 1..at[stack[i]]
          BY <2>a, <5>2 DEF Looked
        <5>3. CASE stack[i] = p /\ k = at[p] + 1
          BY <2>2, <3>2, <5>3 DEF Looks
        <5> QED BY <1>a, <4>1, <5>1, <5>2, <5>3
      <4>5. Descending'
        BY <2>a, <4>1 DEF Descending, Respects
      <4> QED BY <4>3, <4>4, <4>5 DEF Search
    <3>3. CASE color[q] = "white"
      <4>1. /\ color' = [color EXCEPT ![q] = "gray"] /\ stack' = Append(stack, q)
            /\ at' = [at EXCEPT ![p] = at[p] + 1]
        BY <2>2, <3>3 DEF Looks, Call
      <4>2. color[p] = "gray" /\ at[q] = 0 /\ p # q
        BY <2>a, <2>1, <3>3 DEF GrayOnStack
      <4>3. /\ Len(stack') = Len(stack) + 1 /\ stack'[Len(stack) + 1] = q
            /\ \A i \in 1..Len(stack) : stack'[i] = stack[i] /\ stack[i] # q
        <5>1. /\ Len(stack') = Len(stack) + 1 /\ stack'[Len(stack) + 1] = q
              /\ \A i \in 1..Len(stack) : stack'[i] = stack[i]
          BY <1>a, <4>1, AppendProperties
        <5>2. \A i \in 1..Len(stack) : stack[i] # q
          BY <2>a, <3>3 DEF GrayOnStack
        <5> QED BY <5>1, <5>2
      <4>n. \A i \in 1..Len(stack') : i \in 1..Len(stack) \/ i = Len(stack) + 1
        BY <1>a, <4>3
      <4>m. \A i : i \in 1..Len(stack) \/ i = Len(stack) + 1 => i \in 1..Len(stack')
        BY <1>a, <4>3
      <4>4. GrayOnStack'
        <5>1. \A i, j \in 1..Len(stack') : stack'[i] = stack'[j] => i = j
          BY <2>a, <4>3, <4>n DEF GrayOnStack
        <5>2. \A r \in Positions(steps) :
                  color'[r] = "gray" <=> \E i \in 1..Len(stack') : stack'[i] = r
          <6> SUFFICES ASSUME NEW r \in Positions(steps)
                       PROVE  color'[r] = "gray" <=> \E i \in 1..Len(stack') : stack'[i] = r
            OBVIOUS
          <6>1. CASE r = q
            BY <1>a, <4>1, <4>3, <4>m, <6>1
          <6>2. CASE r # q
            <7>1. color'[r] = color[r]
              BY <1>a, <4>1, <6>2
            <7>2. (\E i \in 1..Len(stack') : stack'[i] = r) <=>
                      \E i \in 1..Len(stack) : stack[i] = r
              BY <4>3, <4>n, <4>m, <6>2
            <7> QED BY <2>a, <7>1, <7>2 DEF GrayOnStack
          <6> QED BY <6>1, <6>2
        <5>3. \A r \in Positions(steps) : color'[r] = "white" => at'[r] = 0
          BY <1>a, <2>a, <4>1, <4>2 DEF GrayOnStack
        <5> QED BY <2>a, <5>1, <5>2, <5>3 DEF GrayOnStack
      <4>5. Looked'
        <5> SUFFICES ASSUME NEW i \in 1..Len(stack'), NEW k \in 1..at'[stack'[i]],
                            NEW r \in Positions(steps),
                            steps[r].ID = Deps(steps, stack'[i])[k]
                     PROVE  color'[r] = "black" \/ (i < Len(stack') /\ r = stack'[i + 1])
          BY <2>a DEF Looked
        <5>1. CASE i = Len(stack) + 1
          BY <1>a, <4>1, <4>2, <4>3, <5>1
        <5>2. CASE i = Len(stack) /\ k = at[p] + 1
          <6>1. r = q
            BY <2>a, <2>1, <2>2, <4>3, <5>2 DEF Looks
          <6>2. i < Len(stack') /\ stack'[i + 1] = q
            BY <1>a, <4>3, <5>2
          <6> QED BY <6>1, <6>2
        <5>3. CASE i \in 1..Len(stack) /\ k \in 1..at[stack[i]]
          <6>1. color[r] = "black" \/ (i < Len(stack) /\ r = stack[i + 1])
            BY <2>a, <4>3, <5>3 DEF Looked
          <6>2. color[r] = "black" => color'[r] = "black"
            BY <1>a, <3>3, <4>1
          <6>3. i < Len(stack) => i < Len(stack') /\ stack'[i + 1] = stack[i + 1]
            <7> SUFFICES ASSUME i < Len(stack)
                         PROVE  i < Len(stack') /\ stack'[i + 1] = stack[i + 1]
              OBVIOUS
            <7>0. Len(stack) \in Nat /\ i \in 1..Len(stack)
              BY <1>a, <5>3
            <7>1. i + 1 \in 1..Len(stack) /\ i < Len(stack) + 1
              BY <7>0
            <7> QED BY <4>3, <7>1
          <6> QED BY <6>1, <6>2, <6>3
        <5>4. i \in 1..Len(stack) => stack'[i] \in Positions(steps) /\ stack'[i] = stack[i]
          <6>1. stack \in Seq(Positions(steps))
            BY <1>a
          <6>2. i \in 1..Len(stack) => stack[i] \in Positions(steps)
            BY <6>1
          <6> QED BY <4>3, <6>2
        <5>5. i \in 1..Len(stack) /\ i # Len(stack) => stack[i] # p
          BY <2>a, <2>1 DEF GrayOnStack
        <5>6. CASE i \in 1..Len(stack)
          <6>1. stack'[i] = p => i = Len(stack) /\ at'[p] = at[p] + 1
            BY <1>a, <4>1, <5>4, <5>5, <5>6
          <6>2. stack'[i] # p => at'[stack'[i]] = at[stack[i]]
            BY <1>a, <4>1, <5>4, <5>6
          <6>3. at[p] \in Nat /\ stack[i] = stack'[i]
            BY <1>a, <5>4, <5>6
          <6>4. CASE stack'[i] = p
            <7>1. k \in 1..at[p] \/ k = at[p] + 1
              BY <6>1, <6>3, <6>4
            <7> QED BY <5>2, <5>3, <5>6, <6>1, <6>3, <6>4, <7>1
          <6>5. CASE stack'[i] # p
            BY <5>3, <5>6, <6>2, <6>5
          <6> QED BY <6>4, <6>5
        <5> QED BY <4>n, <5>1, <5>6
      <4>6. Descending'
        <5> SUFFICES ASSUME NEW rank \in [Positions(steps) -> Positions(steps)],
                            Respects(rank),
                            NEW i \in 1..Len(stack'), NEW j \in 1..Len(stack'), i < j
                     PROVE  rank[stack'[j]] < rank[stack'[i]]
          BY <2>a DEF Descending, Respects
        <5>1. CASE j = Len(stack) + 1
          <6>1. i \in 1..Len(stack)
            BY <1>a, <4>3, <5>1
          <6>2. rank[q] < rank[stack[i]]
            BY <2>a, <2>1, <2>2, <6>1, LooksDown
          <6> QED BY <4>3, <5>1, <6>1, <6>2
        <5>2. CASE j \in 1..Len(stack)
          <6>1. i \in 1..Len(stack)
            BY <1>a, <4>n, <5>2
          <6> QED BY <2>a, <4>3, <5>2, <6>1 DEF Descending
        <5> QED BY <4>n, <5>1, <5>2
      <4> QED BY <4>4, <4>5, <4>6 DEF Search
    <3> QED BY <1>a, <3>1, <3>2, <3>3
  <2>3. CASE Returns(p)
    <3>1. /\ color' = [color EXCEPT ![p] = "black"] /\ UNCHANGED at
          /\ Len(stack') = Len(stack) - 1
          /\ \A i \in 1..Len(stack') : stack'[i] = stack[i] /\ i \in 1..Len(stack)
          /\ \A i \in 1..Len(stack) : i = Len(stack) \/ i \in 1..Len(stack')
      <4>1. /\ color' = [color EXCEPT ![p] = "black"] /\ UNCHANGED at
            /\ stack' = SubSeq(stack, 1, Len(stack) - 1)
        BY <2>3 DEF Returns
      <4>2. /\ Len(stack') = Len(stack) - 1
            /\ \A i \in 1..(Len(stack) - 1) : stack'[i] = stack[i]
        BY <1>a, <2>a, <4>1, Popped
      <4> QED BY <1>a, <2>a, <4>1, <4>2
    <3>2. \A i \in 1..Len(stack) : stack[i] = p <=> i = Len(stack)
      BY <2>a, <2>1 DEF GrayOnStack
    <3>3. GrayOnStack'
      <4>1. \A i, j \in 1..Len(stack') : stack'[i] = stack'[j] => i = j
        BY <2>a, <3>1 DEF GrayOnStack
      <4>2. \A r \in Positions(steps) :
                color'[r] = "gray" <=> \E i \in 1..Len(stack') : stack'[i] = r
        <5> SUFFICES ASSUME NEW r \in Positions(steps)
                     PROVE  color'[r] = "gray" <=> \E i \in 1..Len(stack') : stack'[i] = r
          OBVIOUS
        <5>0. Len(stack) \notin 1..Len(stack')
          BY <1>a, <3>1
        <5>1. CASE r = p
          BY <1>a, <3>1, <3>2, <5>0, <5>1
        <5>2. CASE r # p
          <6>1. color'[r] = color[r]
            BY <1>a, <3>1, <5>2
          <6>2. (\E i \in 1..Len(stack') : stack'[i] = r) <=>
                    \E i \in 1..Len(stack) : stack[i] = r
            <7>1. ASSUME NEW i \in 1..Len(stack'), stack'[i] = r
                  PROVE  i \in 1..Len(stack) /\ stack[i] = r
              BY <3>1, <7>1
            <7>2. ASSUME NEW i \in 1..Len(stack), stack[i] = r
                  PROVE  i \in 1..Len(stack') /\ stack'[i] = r
              BY <3>1, <3>2, <5>2, <7>2
            <7> QED BY <7>1, <7>2
          <6> QED BY <2>a, <6>1, <6>2 DEF GrayOnStack
        <5> QED BY <5>1, <5>2
      <4>3. \A r \in Positions(steps) : color'[r] = "white" => at'[r] = 0
        BY <1>a, <2>a, <3>1 DEF GrayOnStack
      <4> QED BY <2>a, <4>1, <4>2, <4>3 DEF GrayOnStack
    <3>4. Looked'
      <4> SUFFICES ASSUME NEW i \in 1..Len(stack'), NEW k \in 1..at[stack[i]],
                          NEW r \in Positions(steps),
                          steps[r].ID = Deps(steps, stack[i])[k]
                   PROVE  color'[r] = "black" \/ (i < Len(stack') /\ r = stack'[i + 1])
        BY <2>a, <3>1 DEF Looked
      <4>1. color[r] = "black" \/ (i < Len(stack) /\ r = stack[i + 1])
        BY <2>a, <3>1 DEF Looked
      <4>2. color[r] = "black" \/ r = p => color'[r] = "black"
        BY <1>a, <3>1
      <4>3. i + 1 = Len(stack) => stack[i + 1] = p
        BY <2>1
      <4>4. i + 1 # Len(stack) => i < Len(stack') /\ i + 1 \in 1..Len(stack')
        BY <1>a, <3>1
      <4> QED BY <3>1, <4>1, <4>2, <4>3, <4>4
    <3>5. Descending'
      BY <2>a, <3>1 DEF Descending, Respects
    <3> QED BY <3>3, <3>4, <3>5 DEF Search
  <2> QED BY <2>1, <2>2, <2>3
<1>4. CASE NoMoreRoots \/ TriggerWorkflow \/ \E p \in 1..MaxSteps : Advance(p)
  <2>1. verdict' = "ok"
    BY <1>4 DEF NoMoreRoots, TriggerWorkflow, Advance, Shape
  <2> QED BY <2>1 DEF Search
<1>5. CASE UNCHANGED vars
  BY <1>5 DEF vars, searchVars, Search, GrayOnStack, Looked, Descending, Respects
<1> QED BY <1>1, <1>2, <1>3, <1>4, <1>5 DEF Next
--------------------------------------------------------------------------------
(*****************************************************************************)
(* The finished steps can be ordered; verdicts; theorems.                    *)
(*****************************************************************************)
\* The positions of a workflow are counted by its length.
LEMMA BlackCount ==
    ASSUME Shape
    PROVE  IsFiniteSet(Black) /\ Cardinality(Black) \in Nat /\ IsFiniteSet(Positions(steps))
<1>1. PICK n \in Nat : n = Len(steps) /\ Positions(steps) = 1..n
  BY DEF Shape, Positions
<1>2. IsFiniteSet(1..n)
  BY FS_Interval
<1>3. IsFiniteSet(Positions(steps)) /\ Black \in SUBSET Positions(steps)
  BY <1>1, <1>2 DEF Black
<1> QED BY <1>3, FS_Subset, FS_CardinalityType

\* A step that is not finished makes the next number a position.
LEMMA NextRank ==
    ASSUME Shape, NEW p \in Positions(steps), p \notin Black
    PROVE  /\ Cardinality(Black \cup {p}) = Cardinality(Black) + 1
           /\ Cardinality(Black) + 1 \in Positions(steps)
<1>1. PICK n \in Nat : n = Len(steps) /\ Positions(steps) = 1..n
  BY DEF Shape, Positions
<1>2. IsFiniteSet(1..n) /\ Cardinality(1..n) = n
  <2>1. Cardinality(1..n) = IF 1 > n THEN 0 ELSE n - 1 + 1
    BY FS_Interval
  <2> QED BY <2>1, FS_Interval
<1>3. Cardinality(Black \cup {p}) = Cardinality(Black) + 1
  BY BlackCount, FS_AddElement
<1>4. Black \cup {p} \in SUBSET (1..n)
  BY <1>1 DEF Black
<1>5. Cardinality(Black \cup {p}) <= n
  BY <1>2, <1>4, FS_Subset
<1> QED BY <1>1, <1>3, <1>5, BlackCount

\* A step is finished after all that it depends on.
LEMMA FinishedStep ==
    ASSUME Shape, TypeOK, Verdicts, Search, Finished, [Next]_vars
    PROVE  Finished'
<1>a. /\ Positions(steps) = 1..Len(steps) /\ Len(steps) \in Nat
      /\ stack \in Seq(Positions(steps))
      /\ color \in [Positions(steps) -> {"white", "gray", "black"}]
  BY DEF Positions, Shape, TypeOK
<1>1. CASE Validate
  <2>1. Positions(steps') = Positions(steps) /\ UNCHANGED color
    BY <1>1, Normalized DEF Validate, searchVars, Shape
  <2>2. Black' = {}
    BY <1>1, <2>1 DEF Black, Validate, Shape
  <2>3. [p \in Positions(steps) |-> p] \in [Positions(steps) -> Positions(steps)]
    OBVIOUS
  <2> QED BY <2>1, <2>2, <2>3 DEF Finished
<1>2. CASE UNCHANGED <<steps, Black>>
  BY <1>2 DEF Finished
<1>3. ASSUME NEW q \in Positions(steps), color[q] = "white", Call(q), UNCHANGED steps
      PROVE  Finished'
  <2>1. UNCHANGED Black
    BY <1>a, <1>3 DEF Black, Call
  <2> QED BY <1>2, <1>3, <2>1
<1>4. CASE Dfs
  <2>a. /\ verdict = "checking" /\ stack # <<>> /\ UNCHANGED steps
        /\ GrayOnStack /\ Looked /\ Len(stack) \in 1..Len(stack)
        /\ ~UnknownDep(steps)
    BY <1>a, <1>4, DfsCases DEF Search, Verdicts
  <2>1. PICK p \in Positions(steps) :
            /\ p = stack[Len(stack)]
            /\ Returns(p) \/ \E q \in Positions(steps) : Looks(p, q)
    BY <1>4, DfsCases
  <2>2. ASSUME NEW q \in Positions(steps), Looks(p, q)
        PROVE  Finished'
    <3>1. CASE UNCHANGED color
      BY <1>2, <2>a, <3>1 DEF Black
    <3> QED BY <1>3, <2>a, <2>2, <3>1 DEF Looks
  <2>3. CASE Returns(p)
    <3>a. /\ at[p] = Len(Deps(steps, p)) /\ color' = [color EXCEPT ![p] = "black"]
          /\ color[p] = "gray" /\ Deps(steps, p) \in Seq(Nat)
      BY <2>a, <2>1, <2>3, DepsType DEF Returns, GrayOnStack, Shape
    <3>1. p \notin Black /\ Black' = Black \cup {p} /\ Black \subseteq Positions(steps)
      BY <1>a, <2>a, <3>a DEF Black
    <3>2. PICK rank \in [Positions(steps) -> Positions(steps)] :
            \A r \in Black :
              /\ rank[r] <= Cardinality(Black)
              /\ \A d \in ToSet(Deps(steps, r)) :
                    \E q \in Black : steps[q].ID = d /\ rank[q] < rank[r]
      BY DEF Finished
    <3>3. PICK n \in Nat : n = Cardinality(Black)
      BY BlackCount
    <3>4. Cardinality(Black \cup {p}) = n + 1 /\ n + 1 \in Positions(steps)
      BY <3>1, <3>3, NextRank
    <3> DEFINE new == [rank EXCEPT ![p] = n + 1]
    <3>5. /\ new \in [Positions(steps) -> Positions(steps)] /\ new[p] = n + 1
          /\ \A r \in Black : new[r] = rank[r] /\ rank[r] \in Nat
      BY <1>a, <3>1, <3>4
    <3> HIDE DEF new
    <3>6. ASSUME NEW r \in Black
          PROVE  /\ new[r] <= n + 1
                 /\ \A d \in ToSet(Deps(steps, r)) :
                       \E q \in Black \cup {p} : steps[q].ID = d /\ new[q] < new[r]
      BY <3>2, <3>3, <3>5
    <3>7. ASSUME NEW d \in ToSet(Deps(steps, p))
          PROVE  \E q \in Black \cup {p} : steps[q].ID = d /\ new[q] < new[p]
      <4>1. PICK k \in 1..Len(Deps(steps, p)) : d = Deps(steps, p)[k]
        BY <3>a DEF ToSet
      <4>2. PICK q \in Positions(steps) : steps[q].ID = d
        BY <2>a DEF UnknownDep
      <4>3. color[q] = "black"
        <5>1. /\ k \in 1..at[stack[Len(stack)]]
              /\ steps[q].ID = Deps(steps, stack[Len(stack)])[k]
          BY <2>1, <3>a, <4>1, <4>2
        <5>2. color[q] = "black" \/ Len(stack) < Len(stack)
          BY <2>a, <5>1 DEF Looked
        <5>3. Len(stack) \in Nat
          BY <1>a
        <5> QED BY <5>2, <5>3
      <4>4. q \in Black
        BY <4>3 DEF Black
      <4>5. rank[q] <= n
        BY <3>2, <3>3, <4>4
      <4> QED BY <3>5, <4>2, <4>4, <4>5
    <3>8. new[p] <= n + 1
      BY <3>5
    <3>9. \A r \in Black' :
            /\ new[r] <= Cardinality(Black')
            /\ \A d \in ToSet(Deps(steps, r)) :
                  \E q \in Black' : steps[q].ID = d /\ new[q] < new[r]
      BY <3>1, <3>4, <3>6, <3>7, <3>8
    <3> QED BY <2>a, <3>5, <3>9 DEF Finished
  <2> QED BY <2>1, <2>2, <2>3
<1>5. CASE NextRoot
  BY <1>3, <1>5 DEF NextRoot
<1>6. CASE \/ NoMoreRoots \/ TriggerWorkflow \/ \E p \in 1..MaxSteps : Advance(p)
           \/ UNCHANGED vars
  <2>1. UNCHANGED <<steps, color>>
    BY <1>6 DEF NoMoreRoots, TriggerWorkflow, Advance, searchVars, vars
  <2> QED BY <1>2, <2>1 DEF Black
<1> QED BY <1>1, <1>4, <1>5, <1>6 DEF Next

\* A verdict is given for a reason, and stays.
LEMMA VerdictsStep ==
    ASSUME Shape, TypeOK, Verdicts, Search, [Next]_vars
    PROVE  Verdicts'
<1>1. CASE Validate
  BY <1>1 DEF Validate, Verdicts
<1>2. CASE Dfs
  <2>a. /\ verdict = "checking" /\ stack # <<>> /\ UNCHANGED steps
        /\ GrayOnStack /\ Descending /\ ~DuplicateID(steps) /\ ~UnknownDep(steps)
    BY <1>2, DfsCases DEF Search, Verdicts
  <2>1. PICK p \in Positions(steps) :
            /\ p = stack[Len(stack)]
            /\ Returns(p) \/ \E q \in Positions(steps) : Looks(p, q)
    BY <1>2, DfsCases
  <2>2. CASE UNCHANGED verdict
    BY <2>a, <2>2 DEF Verdicts
  <2>3. ASSUME NEW q \in Positions(steps), Looks(p, q), color[q] = "gray"
        PROVE  Verdicts'
    <3>1. ~Orderable(steps)
      BY <2>a, <2>1, <2>3, GrayUnorderable
    <3>2. verdict' = "cycle"
      BY <2>3 DEF Looks
    <3> QED BY <2>a, <3>1, <3>2 DEF Verdicts
  <2> QED BY <2>1, <2>2, <2>3 DEF Returns, Looks
<1>3. CASE NextRoot
  BY <1>3 DEF NextRoot, Verdicts
<1>4. CASE NoMoreRoots
  BY <1>4 DEF NoMoreRoots, searchVars, Verdicts
<1>5. CASE TriggerWorkflow \/ (\E p \in 1..MaxSteps : Advance(p)) \/ UNCHANGED vars
  <2>1. UNCHANGED <<steps, verdict, color>>
    BY <1>5 DEF TriggerWorkflow, Advance, searchVars, vars
  <2> QED BY <2>1 DEF Verdicts
<1> QED BY <1>1, <1>2, <1>3, <1>4, <1>5 DEF Next

\* The inductive invariant: with it, the exactness of Validate at its verdict.
FileInv == Shape /\ TypeOK /\ Verdicts /\ Search /\ Finished

\* It holds of every file.
LEMMA FileInvInit == Init => FileInv
<1> SUFFICES ASSUME Init PROVE FileInv
  OBVIOUS
<1>a. /\ steps \in Seq(StepOK) /\ Len(steps) <= MaxSteps /\ verdict = "unread"
      /\ color = [p \in Positions(steps) |-> "white"]
      /\ at = [p \in Positions(steps) |-> 0] /\ stack = <<>>
      /\ run = "none" /\ submitted = {} /\ completed = {}
  BY FileType DEF Init
<1>b. \A p \in Positions(steps) : steps[p].ID \in IDs /\ Deps(steps, p) \in Seq(Nat)
  <2> SUFFICES ASSUME NEW p \in Positions(steps)
               PROVE  steps[p].ID \in IDs /\ Deps(steps, p) \in Seq(Nat)
    OBVIOUS
  <2>1. steps[p] \in StepOK
    BY <1>a DEF Positions
  <2> QED BY <1>a, <2>1, DepsType DEF StepOK
<1>1. Shape
  BY <1>a DEF Shape
<1>2. TypeOK
  <2>1. \A p \in Positions(steps) : at[p] \in 0..Len(Deps(steps, p))
    BY <1>a, <1>b
  <2> QED BY <1>a, <1>b, <2>1 DEF TypeOK
<1>3. Verdicts /\ Search
  BY <1>a DEF Verdicts, Search
<1>4. Finished
  <2>1. Black = {}
    BY <1>a DEF Black
  <2>2. [p \in Positions(steps) |-> p] \in [Positions(steps) -> Positions(steps)]
    OBVIOUS
  <2> QED BY <2>1, <2>2 DEF Finished
<1> QED BY <1>1, <1>2, <1>3, <1>4 DEF FileInv

\* And at every step.
LEMMA FileInvariant == FairSpec => []FileInv
<1>1. FileInv /\ [Next]_vars => FileInv'
  BY ShapeStep, VerdictsStep, SearchStep, FinishedStep DEF FileInv
<1> QED BY <1>1, FileInvInit, PTL DEF FairSpec

\* Type correctness of Validate, of the search and of the run.
THEOREM FileTypeCorrect == FairSpec => []TypeOK
<1>1. FileInv => TypeOK
  BY DEF FileInv
<1> QED BY <1>1, FileInvariant, PTL

\* For workflows of any size, Validate accepts exactly those whose IDs are unique
\* and whose steps can be ordered: detectCycles finds every cycle, from whatever
\* step it starts and however the dependencies share steps, and nothing else.
THEOREM ValidateExactHolds == FairSpec => []ValidateExact
<1>1. FileInv => ValidateExact
  <2> SUFFICES ASSUME FileInv, verdict \notin {"unread", "checking"}
               PROVE  verdict = "ok" <=> ~DuplicateID(steps) /\ Orderable(steps)
    BY DEF ValidateExact
  <2>1. verdict \in {"ok", "duplicate", "unknown", "cycle"}
    BY DEF FileInv, TypeOK
  <2>2. CASE verdict = "ok"
    <3>1. Black = Positions(steps) /\ ~DuplicateID(steps)
      BY <2>2 DEF FileInv, Verdicts, Black
    <3>2. PICK rank \in [Positions(steps) -> Positions(steps)] :
            \A p \in Black : \A d \in ToSet(Deps(steps, p)) :
                \E q \in Black : steps[q].ID = d /\ rank[q] < rank[p]
      BY DEF FileInv, Finished
    <3>3. Orderable(steps)
      BY <3>1, <3>2 DEF Orderable
    <3> QED BY <2>2, <3>1, <3>3
  <2>3. CASE verdict = "duplicate"
    BY <2>3 DEF FileInv, Verdicts
  <2>4. CASE verdict = "unknown"
    <3>1. UnknownDep(steps)
      BY <2>4 DEF FileInv, Verdicts
    <3>2. ~Orderable(steps)
      BY <3>1 DEF UnknownDep, Orderable
    <3> QED BY <2>4, <3>2
  <2>5. CASE verdict = "cycle"
    BY <2>5 DEF FileInv, Verdicts
  <2> QED BY <2>1, <2>2, <2>3, <2>4, <2>5
<1> QED BY <1>1, FileInvariant, PTL

\* Normalize, which Validate, TriggerWorkflow and every Advance call, writes to
\* the steps that they share only the first time.
THEOREM NormalizeOnceHolds == FairSpec => []NormalizeOnce
<1>1. Init => NormalizeOnce
  BY DEF Init, NormalizeOnce
<1>2. ASSUME FileInv, NormalizeOnce, [Next]_vars
      PROVE  NormalizeOnce'
  <2>1. CASE Validate
    <3>1. steps' = Normalize(steps) /\ steps \in Seq(StepOK) /\ Len(steps) <= MaxSteps
      BY <1>2, <2>1 DEF Validate, FileInv, Shape
    <3>2. Normalize(steps') = steps'
      BY <3>1, Normalized
    <3> QED BY <3>2 DEF NormalizeOnce
  <2>2. CASE ~Validate
    <3>1. UNCHANGED steps /\ (verdict = "unread" => UNCHANGED verdict)
      BY <1>2, <2>2 DEF FileInv, Shape, Next, NextRoot, NoMoreRoots, Dfs, TriggerWorkflow,
                        Advance, vars
    <3> QED BY <1>2, <3>1 DEF NormalizeOnce
  <2> QED BY <2>1, <2>2
<1> QED BY <1>1, <1>2, FileInvariant, PTL DEF FairSpec
================================================================================

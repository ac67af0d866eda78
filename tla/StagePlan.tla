------------------------------ MODULE StagePlan ------------------------------
(***************************************************************************)
(* StageRegistry: validation of the stages as a dependency DAG, their      *)
(* canonical topological order, and the plan with its downstream closure   *)
(* of skips.  The registry's tuple and each stage's dependency tuple come  *)
(* in any order, so where the code iterates over one the model chooses.    *)
(* Stage names are numbers: the order of numbers is the order of strings.  *)
(***************************************************************************)
EXTENDS Integers, Sequences, FiniteSets

CONSTANTS
  N,        \* number of registered stages
  Missing,  \* names that no registered stage has
  MaxDeps   \* bound on the dependencies of a stage

Stages == 1..N

ASSUME SizeAssumption == N \in Nat \ {0}
ASSUME MissingAssumption == Missing \cap Stages = {}

VARIABLES
  deps,       \* Stage.dependencies, for each stage
  requested,  \* the skip_stages argument of build_plan
  phase,      \* where the algorithm is, or how it ended
  mark,       \* _validate_acyclic: 0 unvisited, 1 on the stack, 2 finished
  path,       \* _validate_acyclic: the stack of stages being visited
  cycle,      \* the cycle that the error message reports
  indegree,   \* topological_stages: dependencies not yet ordered
  ready,      \* topological_stages: the heap
  order,      \* topological_stages: the result
  reason,     \* build_plan: decision of each planned stage, "undecided" before
  blockedBy   \* build_plan: skipped dependencies of each planned stage

vars == <<deps, requested, phase, mark, path, cycle, indegree, ready, order,
          reason, blockedBy>>
input == <<deps, requested>>
search == <<mark, path, cycle>>
kahn == <<indegree, ready, order>>
plan == <<reason, blockedBy>>

Faults == {"missing", "cyclic", "unknown_skip", "unresolved"}
Phases == {"names", "visit", "skips", "order", "plan", "done"} \cup Faults
Reasons == {"undecided", "execute", "REQUESTED", "DEPENDENCY_SKIPPED"}

Top == path[Len(path)]
Ordered == {order[k] : k \in 1..Len(order)}
Skipped == {s \in Stages : reason[s] \in {"REQUESTED", "DEPENDENCY_SKIPPED"}}

\* validate_stage_metadata has refused self-dependencies and duplicates.
Init ==
  /\ deps \in {d \in [Stages -> SUBSET (Stages \cup Missing)] :
                 \A s \in Stages : s \notin d[s] /\ Cardinality(d[s]) <= MaxDeps}
  /\ requested \in SUBSET (Stages \cup Missing)
  /\ phase = "names"
  /\ mark = [s \in Stages |-> 0]
  /\ path = << >>
  /\ cycle = << >>
  /\ indegree = [s \in Stages |-> 0]
  /\ ready = {}
  /\ order = << >>
  /\ reason = [s \in Stages |-> "undecided"]
  /\ blockedBy = [s \in Stages |-> {}]

-----------------------------------------------------------------------------
(* StageRegistry.__post_init__ *)

CheckNames ==
  /\ phase = "names"
  /\ phase' = IF \A s \in Stages : deps[s] \subseteq Stages THEN "visit" ELSE "missing"
  /\ UNCHANGED <<input, search, kahn, plan>>

Push(s) ==
  /\ mark' = [mark EXCEPT ![s] = 1]
  /\ path' = Append(path, s)

\* visit(s) for a stage without a mark: from the loop over the registry, or
\* from the loop over the dependencies of the stage on top of the stack. The
\* call returns at once for a finished stage.
Visit(s) ==
  /\ phase = "visit"
  /\ mark[s] = 0
  /\ path # << >> => s \in deps[Top]
  /\ Push(s)
  /\ UNCHANGED <<input, phase, cycle, kahn, plan>>

FindsCycle(s) ==
  /\ path # << >>
  /\ s \in deps[Top]
  /\ mark[s] = 1

\* stack[stack.index(s):] followed by s.
CycleFrom(s) ==
  LET start == CHOOSE k \in 1..Len(path) : path[k] = s
  IN  Append(SubSeq(path, start, Len(path)), s)

MeetCycle(s) ==
  /\ phase = "visit"
  /\ FindsCycle(s)
  /\ phase' = "cyclic"
  /\ cycle' = CycleFrom(s)
  /\ UNCHANGED <<input, mark, path, kahn, plan>>

\* Mutant: visit returns for every marked stage, on the stack or finished.
LeaveMarked ==
  /\ phase = "visit"
  /\ path # << >>
  /\ \A s \in deps[Top] : mark[s] # 0
  /\ mark' = [mark EXCEPT ![Top] = 2]
  /\ path' = SubSeq(path, 1, Len(path) - 1)
  /\ UNCHANGED <<input, phase, cycle, kahn, plan>>

Leave ==
  /\ phase = "visit"
  /\ path # << >>
  /\ \A s \in deps[Top] : mark[s] = 2
  /\ mark' = [mark EXCEPT ![Top] = 2]
  /\ path' = SubSeq(path, 1, Len(path) - 1)
  /\ UNCHANGED <<input, phase, cycle, kahn, plan>>

Validated ==
  /\ phase = "visit"
  /\ \A s \in Stages : mark[s] = 2
  /\ phase' = "skips"
  /\ UNCHANGED <<input, search, kahn, plan>>

-----------------------------------------------------------------------------
(* build_plan, from its argument check to topological_stages. *)

CheckSkips ==
  /\ phase = "skips"
  /\ IF requested \subseteq Stages
     THEN /\ phase' = "order"
          /\ indegree' = [s \in Stages |-> Cardinality(deps[s])]
          /\ ready' = {s \in Stages : deps[s] = {}}
     ELSE phase' = "unknown_skip" /\ UNCHANGED <<indegree, ready>>
  /\ UNCHANGED <<input, search, order, plan>>

\* The least name of the heap.
Least(s) == s \in ready /\ \A t \in ready : s <= t

Decremented(s) ==
  [t \in Stages |-> IF s \in deps[t] THEN indegree[t] - 1 ELSE indegree[t]]

Pop(s) ==
  /\ phase = "order"
  /\ Least(s)
  /\ order' = Append(order, s)
  /\ indegree' = Decremented(s)
  /\ ready' = (ready \ {s}) \cup {t \in Stages : s \in deps[t] /\ indegree'[t] = 0}
  /\ UNCHANGED <<input, phase, search, plan>>

\* The heap is empty: an order that is too short raises.
EndOrder ==
  /\ phase = "order"
  /\ ready = {}
  /\ phase' = IF Len(order) = N THEN "plan" ELSE "unresolved"
  /\ UNCHANGED <<input, search, kahn, plan>>

-----------------------------------------------------------------------------
(* build_plan: one decision for each stage, in topological order. *)

Blockers(s) == deps[s] \cap Skipped

NextToPlan(s) ==
  \E k \in 1..Len(order) :
    /\ order[k] = s
    /\ reason[s] = "undecided"
    /\ \A j \in 1..(k - 1) : reason[order[j]] # "undecided"

Decision(s) ==
  IF s \in requested THEN "REQUESTED"
  ELSE IF Blockers(s) # {} THEN "DEPENDENCY_SKIPPED"
  ELSE "execute"

Decide(s) ==
  /\ phase = "plan"
  /\ NextToPlan(s)
  /\ reason' = [reason EXCEPT ![s] = Decision(s)]
  /\ blockedBy' = [blockedBy EXCEPT ![s] = IF s \in requested THEN {} ELSE Blockers(s)]
  /\ UNCHANGED <<input, phase, search, kahn>>

EndPlan ==
  /\ phase = "plan"
  /\ \A s \in Stages : reason[s] # "undecided"
  /\ phase' = "done"
  /\ UNCHANGED <<input, search, kahn, plan>>

Next ==
  \/ CheckNames \/ Leave \/ Validated \/ CheckSkips \/ EndOrder \/ EndPlan
  \/ \E s \in Stages : Visit(s) \/ MeetCycle(s) \/ Pop(s) \/ Decide(s)

Spec == Init /\ [][Next]_vars
-----------------------------------------------------------------------------
(* What the registry promises, in terms of the input alone. *)

\* A set of stages each of which depends on a member of the set.
Knot(S) == S # {} /\ \A s \in S : deps[s] \cap S # {}
Acyclic == \A S \in SUBSET Stages : ~Knot(S)

\* A set of stages that contains whatever depends on one of its members.
Downstream(S) == \A s \in Stages : deps[s] \cap S # {} => s \in S

\* Whatever the order of the tuples, the search accepts only acyclic graphs and
\* refuses only cyclic ones, naming an actual cycle (_validate_acyclic).
CycleVerdict ==
  /\ phase \in {"skips", "order", "plan", "done", "unknown_skip"} => Acyclic
  /\ phase = "cyclic" =>
       /\ Len(cycle) > 1 /\ cycle[1] = cycle[Len(cycle)]
       /\ \A k \in 1..(Len(cycle) - 1) : cycle[k + 1] \in deps[cycle[k]]

\* The order is canonical: each stage is the least name among those whose
\* dependencies are all ordered before it, and a registry that passed validation is
\* ordered in full, so the second cycle error of topological_stages is never raised.
Eligible(s, k) ==
  /\ \A j \in 1..(k - 1) : order[j] # s
  /\ \A d \in deps[s] : \E j \in 1..(k - 1) : order[j] = d
OrderIsCanonical ==
  /\ \A k \in 1..Len(order) :
       /\ Eligible(order[k], k)
       /\ \A s \in Stages : Eligible(s, k) => order[k] <= s
  /\ phase # "unresolved" /\ (phase = "done" => Len(order) = N)

\* The stages that do not execute are the least set that contains the requested
\* ones and whatever depends on a member, as GenerationLifecycle assumes; each blocked
\* stage names exactly its skipped dependencies (build_plan).
SkipsAreClosure ==
  phase = "done" =>
    /\ requested \subseteq Skipped /\ Downstream(Skipped)
    /\ \A S \in SUBSET Stages :
         requested \subseteq S /\ Downstream(S) => Skipped \subseteq S
    /\ \A s \in Stages :
         blockedBy[s] = IF reason[s] = "DEPENDENCY_SKIPPED" THEN deps[s] \cap Skipped ELSE {}

\* What the registry answers is right, whatever was registered in whatever order: the
\* verdict on cycles, the order, and the skips.
PlanIsRight == CycleVerdict /\ OrderIsCanonical /\ SkipsAreClosure
=============================================================================

---------------------------- MODULE PlanningProofs ----------------------------
(***************************************************************************)
(* The stage registry, the zoning stage, the demography stage, the         *)
(* composite scores, the planning of roads and the suitability stage, for  *)
(* any number of stages, cells, buildings, blocks, zones, runs, anchors    *)
(* and factors.                                                            *)
(*                                                                         *)
(* Registry: that the finished stages of the depth-first search hold no    *)
(* knot is an invariant of its loop, so no induction over paths is needed; *)
(* that Kahn's algorithm is never stuck follows, since what it leaves      *)
(* behind would be a knot.                                                 *)
(*                                                                         *)
(* Sums: both stages add up functions over sets, and the regions of the    *)
(* zoning and the matrices of the demography are recursive functions. The  *)
(* sections on sums unfold the fold the library defines a sum by, and get  *)
(* every other fact by induction over the subsets of a finite set: what    *)
(* is to be shown of every subset is put into a set, and the well-founded  *)
(* order of the strict subsets has no least subset outside it.             *)
(*                                                                         *)
(* Zoning: dealing cells by deficit never exceeds a target by as much as   *)
(* one cell. (The refinement that follows is in SettlementProofs.)         *)
(*                                                                         *)
(* Demography: largest remainders make up the total and stay close to the  *)
(* proportional shares, a matrix dealt row by row keeps both its margins,  *)
(* and so the buildings, blocks, zones and totals of the stage agree.      *)
(*                                                                         *)
(* Scores: normalisation is monotone in a policy's direction, so the sums  *)
(* are; the places by a strict order are a permutation, so the places      *)
(* gained and lost under other weights cancel out.                         *)
(*                                                                         *)
(* Suitability: what was read of a factor so far is what the cells read so *)
(* far give by themselves; a window shows all neighbours of its cells, and *)
(* the tiles cover the grid.                                               *)
(*                                                                         *)
(* Roads: the component of an anchor is the smallest set around it that no *)
(* pair leaves; a shortest pair that leaves a set can be exchanged for one *)
(* of any spanning tree, so Prim's algorithm always has a minimum tree     *)
(* around what it chose; each component has a number, and an attachment.   *)
(***************************************************************************)
EXTENDS StagePlan, Zoning, Demography, Scoring, Roads, Suitability, FiniteSetTheorems, SequenceTheorems, TLAPS

-----------------------------------------------------------------------------
(* The stage registry. *)

Finished == {s \in Stages : mark[s] = 2}

\* The inputs never change, and are what the earlier checks have accepted.
InputInv ==
  /\ deps \in [Stages -> SUBSET (Stages \cup Missing)]
  /\ \A s \in Stages : s \notin deps[s]
  /\ phase \in Phases
  /\ phase \notin {"names", "missing"} => \A s \in Stages : deps[s] \subseteq Stages
  /\ phase \in {"order", "plan", "done", "unresolved"} => requested \subseteq Stages

\* The stack is a chain of dependencies without repetition, of the stages marked
\* as being visited.
PathInv ==
  /\ mark \in [Stages -> 0..2]
  /\ path \in Seq(Stages)
  /\ \A s \in Stages : mark[s] = 1 <=> \E k \in 1..Len(path) : path[k] = s
  /\ \A j, k \in 1..Len(path) : path[j] = path[k] => j = k
  /\ \A k \in 1..(Len(path) - 1) : path[k + 1] \in deps[path[k]]

\* Finished stages depend on finished ones only, and form no knot.
FinishedInv ==
  /\ \A s \in Finished : deps[s] \subseteq Finished
  /\ \A S \in SUBSET Finished : ~Knot(S)

\* A registry that was accepted has been visited in full.
Accepted == {"skips", "order", "plan", "done", "unknown_skip", "unresolved"}
AcceptedInv == phase \in Accepted => Finished = Stages

NamedCycle ==
  /\ Len(cycle) > 1 /\ cycle[1] = cycle[Len(cycle)]
  /\ \A k \in 1..(Len(cycle) - 1) : cycle[k + 1] \in deps[cycle[k]]
CycleInv == phase = "cyclic" => NamedCycle

SearchInv == InputInv /\ PathInv /\ FinishedInv /\ AcceptedInv /\ CycleInv

-----------------------------------------------------------------------------
LEMMA InputStep == InputInv /\ [Next]_vars => InputInv'
<1> SUFFICES ASSUME InputInv, [Next]_vars PROVE InputInv'
  OBVIOUS
<1> USE DEF InputInv, input, search, kahn, plan, Phases, Faults
<1>1. CASE CheckNames
  BY <1>1 DEF CheckNames
<1>2. CASE Leave
  BY <1>2 DEF Leave
<1>3. CASE Validated \/ CheckSkips \/ EndOrder \/ EndPlan
  BY <1>3 DEF Validated, CheckSkips, EndOrder, EndPlan
<1>4. ASSUME NEW s \in Stages, Visit(s) \/ MeetCycle(s) \/ Pop(s) \/ Decide(s)
      PROVE  InputInv'
  BY <1>4 DEF Visit, MeetCycle, Pop, Decide
<1>5. CASE UNCHANGED vars
  BY <1>5 DEF vars
<1> QED BY <1>1, <1>2, <1>3, <1>4, <1>5 DEF Next

\* The piece of a sequence between two positions.
LEMMA PieceOf ==
  ASSUME NEW S, NEW q \in Seq(S), NEW m \in 1..(Len(q) + 1), NEW n \in (m - 1)..Len(q)
  PROVE  /\ SubSeq(q, m, n) \in Seq(S)
         /\ Len(SubSeq(q, m, n)) = n - m + 1
         /\ \A k \in 1..(n - m + 1) : SubSeq(q, m, n)[k] = q[m + k - 1]
<1>1. m \in Int /\ n \in Int /\ \A i \in m..n : q[i] \in S
  OBVIOUS
<1>2. (IF m <= n THEN n - m + 1 ELSE 0) = n - m + 1
  BY <1>1
<1> QED BY <1>1, <1>2, SubSeqProperties

LEMMA TopOfPath ==
  ASSUME PathInv, path # << >>
  PROVE  Len(path) \in 1..Len(path) /\ Top \in Stages /\ mark[Top] = 1
  BY DEF PathInv, Top

LEMMA PathStep == InputInv /\ PathInv /\ [Next]_vars => PathInv'
<1> SUFFICES ASSUME InputInv, PathInv, [Next]_vars PROVE PathInv'
  OBVIOUS
<1> USE DEF input, search, kahn, plan
<1>1. CASE search' = search /\ deps' = deps
  BY <1>1 DEF PathInv
<1>2. ASSUME NEW s \in Stages, Visit(s) PROVE PathInv'
  <2>1. /\ mark' = [mark EXCEPT ![s] = 1] /\ path' = Append(path, s)
        /\ mark[s] = 0 /\ deps' = deps
        /\ path # << >> => s \in deps[path[Len(path)]]
    BY <1>2 DEF Visit, Push, Top
  <2>2. /\ path' \in Seq(Stages) /\ Len(path') = Len(path) + 1 /\ Len(path) \in Nat
        /\ path'[Len(path) + 1] = s
        /\ \A k \in 1..Len(path) : path'[k] = path[k]
    BY <2>1 DEF PathInv
  <2>3. \A k \in 1..Len(path) : path[k] # s
    BY <2>1 DEF PathInv
  <2>4. mark' \in [Stages -> 0..2]
    BY <2>1 DEF PathInv
  <2>5. \A t \in Stages : mark'[t] = 1 <=> \E k \in 1..Len(path') : path'[k] = t
    <3>1. \A t \in Stages : mark'[t] = IF t = s THEN 1 ELSE mark[t]
      BY <2>1 DEF PathInv
    <3>2. Len(path) + 1 \in 1..Len(path')
      BY <2>2
    <3>3. \A t \in Stages : t # s =>
            ((\E k \in 1..Len(path') : path'[k] = t) <=> \E k \in 1..Len(path) : path[k] = t)
      BY <2>2
    <3> QED BY <2>2, <3>1, <3>2, <3>3 DEF PathInv
  <2>6. \A j, k \in 1..Len(path') : path'[j] = path'[k] => j = k
    BY <2>2, <2>3 DEF PathInv
  <2>7. \A k \in 1..(Len(path') - 1) : path'[k + 1] \in deps[path'[k]]
    <3> SUFFICES ASSUME NEW k \in 1..Len(path) PROVE path'[k + 1] \in deps[path'[k]]
      BY <2>2
    <3>1. CASE k = Len(path)
      BY <2>1, <2>2, <3>1
    <3>2. CASE k # Len(path)
      BY <2>2, <3>2 DEF PathInv
    <3> QED BY <3>1, <3>2
  <2> QED BY <2>1, <2>2, <2>4, <2>5, <2>6, <2>7 DEF PathInv
<1>3. CASE Leave
  <2> DEFINE n == Len(path)
  <2>1. /\ path # << >> /\ mark' = [mark EXCEPT ![path[n]] = 2]
        /\ path' = SubSeq(path, 1, n - 1) /\ deps' = deps
    BY <1>3 DEF Leave, Top
  <2>2. n \in Nat \ {0} /\ path[n] \in Stages /\ mark[path[n]] = 1
    BY <2>1, TopOfPath DEF PathInv, Top
  <2>3. /\ path' \in Seq(Stages) /\ Len(path') = n - 1
        /\ \A k \in 1..(n - 1) : path'[k] = path[k]
    <3>1. 1 \in 1..(n + 1) /\ n - 1 \in 0..n /\ path \in Seq(Stages)
      BY <2>2 DEF PathInv
    <3>2. /\ SubSeq(path, 1, n - 1) \in Seq(Stages)
          /\ Len(SubSeq(path, 1, n - 1)) = (n - 1) - 1 + 1
          /\ \A k \in 1..((n - 1) - 1 + 1) : SubSeq(path, 1, n - 1)[k] = path[1 + k - 1]
      <4>1. n - 1 \in (1 - 1)..n
        BY <3>1
      <4> QED BY <3>1, <4>1, PieceOf
    <3>3. (n - 1) - 1 + 1 = n - 1 /\ \A k \in 1..(n - 1) : 1 + k - 1 = k
      BY <2>2
    <3> QED BY <2>1, <3>2, <3>3
  <2>4. \A t \in Stages : mark'[t] = IF t = path[n] THEN 2 ELSE mark[t]
    BY <2>1 DEF PathInv
  <2>5. \A t \in Stages : mark'[t] = 1 <=> \E k \in 1..Len(path') : path'[k] = t
    <3> SUFFICES ASSUME NEW t \in Stages
                 PROVE  mark'[t] = 1 <=> \E k \in 1..(n - 1) : path[k] = t
      BY <2>3
    <3>1. CASE t = path[n]
      <4>1. \A k \in 1..(n - 1) : path[k] # path[n]
        BY <2>2 DEF PathInv
      <4> QED BY <2>4, <3>1, <4>1
    <3>2. CASE t # path[n]
      <4>1. mark[t] = 1 <=> \E k \in 1..n : path[k] = t
        BY DEF PathInv
      <4>2. (\E k \in 1..n : path[k] = t) <=> \E k \in 1..(n - 1) : path[k] = t
        BY <2>2, <3>2
      <4> QED BY <2>4, <3>2, <4>1, <4>2
    <3> QED BY <3>1, <3>2
  <2>6. mark' \in [Stages -> 0..2]
    BY <2>1 DEF PathInv
  <2>7. /\ \A j, k \in 1..Len(path') : path'[j] = path'[k] => j = k
        /\ \A k \in 1..(Len(path') - 1) : path'[k + 1] \in deps[path'[k]]
    BY <2>2, <2>3 DEF PathInv
  <2> QED BY <2>1, <2>3, <2>5, <2>6, <2>7 DEF PathInv
<1>4. CASE CheckNames \/ Validated \/ CheckSkips \/ EndOrder \/ EndPlan
  BY <1>1, <1>4 DEF CheckNames, Validated, CheckSkips, EndOrder, EndPlan
<1>5. CASE \E s \in Stages : MeetCycle(s) \/ Pop(s) \/ Decide(s)
  BY <1>1, <1>5 DEF MeetCycle, Pop, Decide, PathInv
<1>6. CASE UNCHANGED vars
  BY <1>1, <1>6 DEF vars
<1> QED BY <1>2, <1>3, <1>4, <1>5, <1>6 DEF Next

\* What the finished stage on top of the stack depends on is finished, so it closes
\* no knot.
LEMMA FinishedStep == InputInv /\ PathInv /\ FinishedInv /\ [Next]_vars => FinishedInv'
<1> SUFFICES ASSUME InputInv, PathInv, FinishedInv, [Next]_vars PROVE FinishedInv'
  OBVIOUS
<1> USE DEF input, search, kahn, plan
<1>1. CASE Finished' = Finished /\ deps' = deps
  BY <1>1 DEF FinishedInv, Knot
<1>2. CASE Leave
  <2> DEFINE t == Top
  <2>1. t \in Stages /\ mark[t] = 1 /\ deps' = deps /\ mark' = [mark EXCEPT ![t] = 2]
    BY <1>2, TopOfPath DEF Leave
  <2>2. t \notin Finished /\ Finished' = Finished \cup {t}
    BY <2>1 DEF Finished, PathInv
  <2>3. phase = "visit" /\ \A s \in deps[t] : mark[s] = 2
    BY <1>2 DEF Leave
  <2>4. deps[t] \subseteq Finished
    BY <2>1, <2>3 DEF InputInv, Finished
  <2>5. ASSUME NEW S \in SUBSET (Finished \cup {t}), Knot(S) PROVE FALSE
    <3>1. \A s \in S \cap Finished : deps[s] \cap (S \cap Finished) # {}
      BY <2>5 DEF Knot, FinishedInv
    <3>2. S \cap Finished = {}
      BY <3>1 DEF Knot, FinishedInv
    <3>3. S = {t}
      BY <2>5, <3>2 DEF Knot
    <3> QED BY <2>2, <2>4, <2>5, <3>3 DEF Knot
  <2>6. \A S \in SUBSET Finished' : ~Knot(S)'
    BY <2>1, <2>2, <2>5 DEF Knot
  <2>7. \A s \in Finished' : deps'[s] \subseteq Finished'
    BY <2>1, <2>2, <2>4 DEF FinishedInv
  <2> QED BY <2>6, <2>7 DEF FinishedInv
<1>3. ASSUME NEW s \in Stages, Visit(s) PROVE Finished' = Finished /\ deps' = deps
  BY <1>3 DEF Visit, Push, Finished, PathInv
<1>4. CASE CheckNames \/ Validated \/ CheckSkips \/ EndOrder \/ EndPlan
  BY <1>1, <1>4 DEF CheckNames, Validated, CheckSkips, EndOrder, EndPlan, Finished
<1>5. CASE \E s \in Stages : MeetCycle(s) \/ Pop(s) \/ Decide(s)
  BY <1>1, <1>5 DEF MeetCycle, Pop, Decide, Finished
<1>6. CASE UNCHANGED vars
  BY <1>1, <1>6 DEF vars, Finished
<1> QED BY <1>1, <1>2, <1>3, <1>4, <1>5, <1>6 DEF Next

LEMMA AcceptedStep == PathInv /\ AcceptedInv /\ [Next]_vars => AcceptedInv'
<1> SUFFICES ASSUME PathInv, AcceptedInv, [Next]_vars PROVE AcceptedInv'
  OBVIOUS
<1> USE DEF AcceptedInv, Accepted, Finished, input, search, kahn, plan
<1>1. CASE CheckNames \/ Validated \/ CheckSkips \/ EndOrder \/ EndPlan
  BY <1>1 DEF CheckNames, Validated, CheckSkips, EndOrder, EndPlan
<1>2. CASE Leave
  BY <1>2 DEF Leave
<1>3. CASE \E s \in Stages : Visit(s) \/ MeetCycle(s) \/ Pop(s) \/ Decide(s)
  BY <1>3 DEF Visit, MeetCycle, Pop, Decide
<1>4. CASE UNCHANGED vars
  BY <1>4 DEF vars
<1> QED BY <1>1, <1>2, <1>3, <1>4 DEF Next

\* The stack from the stage that was met again, and that stage.
LEMMA CycleIsNamed ==
  ASSUME InputInv, PathInv, NEW s \in Stages, MeetCycle(s)
  PROVE  NamedCycle'
<1> DEFINE n == Len(path)
           start == CHOOSE k \in 1..n : path[k] = s
           piece == SubSeq(path, start, n)
           m == n - start + 1
<1>1. /\ path # << >> /\ s \in deps[path[n]] /\ mark[s] = 1
      /\ cycle' = Append(piece, s) /\ deps' = deps
  BY DEF MeetCycle, FindsCycle, CycleFrom, Top, input
<1>2. n \in Nat /\ path \in Seq(Stages) /\ \E k \in 1..n : path[k] = s
  BY <1>1 DEF PathInv
<1>3. start \in 1..n /\ path[start] = s
  BY <1>2
<1> HIDE DEF start
<1>4. /\ piece \in Seq(Stages) /\ Len(piece) = m /\ m \in Nat \ {0}
      /\ \A k \in 1..m : piece[k] = path[start + k - 1]
  <2>1. start \in 1..(n + 1) /\ n \in (start - 1)..n
    BY <1>2, <1>3
  <2> QED BY <1>2, <1>3, <2>1, PieceOf
<1>5. /\ Len(cycle') = m + 1 /\ cycle'[m + 1] = s
      /\ \A k \in 1..m : cycle'[k] = path[start + k - 1]
  <2> HIDE DEF piece, m
  <2> QED BY <1>1, <1>4
<1>6. cycle'[1] = s
  <2>1. 1 \in 1..m /\ start + 1 - 1 = start
    BY ONLY <1>2, <1>3, <1>4
  <2> HIDE DEF m, n, piece
  <2>2. cycle'[1] = path[start + 1 - 1]
    BY ONLY <1>5, <2>1
  <2> QED BY ONLY <1>3, <2>1, <2>2
<1>7. ASSUME NEW k \in 1..m PROVE cycle'[k + 1] \in deps[cycle'[k]]
  <2>1. CASE k = m
    BY <1>1, <1>2, <1>3, <1>5, <2>1
  <2>2. CASE k # m
    <3>1. /\ k + 1 \in 1..m /\ start + k - 1 \in 1..(n - 1)
          /\ start + (k + 1) - 1 = (start + k - 1) + 1
      BY <1>2, <1>3, <1>4, <1>7, <2>2
    <3> HIDE DEF m, piece
    <3>2. cycle'[k] = path[start + k - 1]
      BY <1>5, <1>7
    <3>3. cycle'[k + 1] = path[start + (k + 1) - 1]
      BY <1>5, <3>1
    <3>4. \A i \in 1..(n - 1) : path[i + 1] \in deps[path[i]]
      BY DEF PathInv
    <3> QED BY <3>1, <3>2, <3>3, <3>4
  <2> QED BY <2>1, <2>2
<1> HIDE DEF piece, m
<1>8. Len(cycle') > 1 /\ Len(cycle') - 1 = m /\ cycle'[1] = cycle'[Len(cycle')]
  BY <1>4, <1>5, <1>6
<1>9. \A k \in 1..(Len(cycle') - 1) : cycle'[k + 1] \in deps'[cycle'[k]]
  BY <1>1, <1>7, <1>8
<1> QED BY <1>8, <1>9 DEF NamedCycle

LEMMA CycleStep == InputInv /\ PathInv /\ CycleInv /\ [Next]_vars => CycleInv'
<1> SUFFICES ASSUME InputInv, PathInv, CycleInv, [Next]_vars PROVE CycleInv'
  OBVIOUS
<1> USE DEF CycleInv, input, search, kahn, plan
<1>1. CASE \E s \in Stages : MeetCycle(s)
  BY <1>1, CycleIsNamed
<1>2. CASE CheckNames \/ Validated \/ CheckSkips \/ EndOrder \/ EndPlan \/ Leave
  BY <1>2 DEF CheckNames, Validated, CheckSkips, EndOrder, EndPlan, Leave, NamedCycle
<1>3. CASE \E s \in Stages : Visit(s) \/ Pop(s) \/ Decide(s)
  BY <1>3 DEF Visit, Pop, Decide, NamedCycle
<1>4. CASE UNCHANGED vars
  BY <1>4 DEF vars, NamedCycle
<1> QED BY <1>1, <1>2, <1>3, <1>4 DEF Next

LEMMA SearchInit == Init => SearchInv
<1> SUFFICES ASSUME Init PROVE SearchInv
  OBVIOUS
<1>1. InputInv /\ AcceptedInv /\ CycleInv
  BY DEF Init, InputInv, AcceptedInv, Accepted, CycleInv, Phases
<1>2. PathInv
  BY DEF Init, PathInv
<1>3. FinishedInv
  BY DEF Init, FinishedInv, Finished, Knot
<1> QED BY <1>1, <1>2, <1>3 DEF SearchInv

LEMMA SearchStep == SearchInv /\ [Next]_vars => SearchInv'
  BY InputStep, PathStep, FinishedStep, AcceptedStep, CycleStep DEF SearchInv

LEMMA AcceptedIsAcyclic == SearchInv /\ phase \in Accepted => Acyclic
  BY DEF SearchInv, AcceptedInv, FinishedInv, Acyclic

\* Every cyclic registry is refused, with a cycle of its own, and no other, for any
\* number of stages and in any order of iteration.
THEOREM VerdictIsRight == Spec => []CycleVerdict
<1>1. SearchInv => CycleVerdict
  BY AcceptedIsAcyclic DEF SearchInv, CycleVerdict, CycleInv, NamedCycle, Accepted
<1> QED BY <1>1, SearchInit, SearchStep, PTL DEF Spec

-----------------------------------------------------------------------------
(* Kahn's algorithm. *)

OrderPhases == {"order", "plan", "done"}

\* The prefix is ordered canonically and without repetition; while it grows, the
\* heap and the counters are what the prefix leaves.
OrderInv ==
  /\ order \in Seq(Stages)
  /\ \A j, k \in 1..Len(order) : order[j] = order[k] => j = k
  /\ \A k \in 1..Len(order) :
       Eligible(order[k], k) /\ \A s \in Stages : Eligible(s, k) => order[k] <= s
HeapInv ==
  phase = "order" =>
    /\ ready = {s \in Stages \ Ordered : deps[s] \subseteq Ordered}
    /\ indegree = [s \in Stages |-> Cardinality(deps[s] \ Ordered)]
FullInv ==
  /\ phase \notin OrderPhases => order = << >>
  /\ phase \in {"plan", "done"} => Len(order) = N /\ Ordered = Stages
  /\ phase # "unresolved"
KahnInv == OrderInv /\ HeapInv /\ FullInv

LEMMA FiniteStages ==
  ASSUME NEW S \in SUBSET Stages
  PROVE  /\ IsFiniteSet(S) /\ Cardinality(S) \in Nat
         /\ Cardinality(S) = 0 <=> S = {}
<1>1. IsFiniteSet(1..N)
  BY SizeAssumption, FS_Interval
<1>2. IsFiniteSet(S)
  BY <1>1, FS_Subset DEF Stages
<1> QED BY <1>2, FS_CardinalityType, FS_EmptySet

\* A prefix that holds every stage once has N members.
LEMMA FullOrder ==
  ASSUME OrderInv, Ordered = Stages
  PROVE  Len(order) = N
<1> DEFINE n == Len(order)
<1>1. n \in Nat /\ order \in [1..n -> Stages]
  BY DEF OrderInv
<1>2. order \in Injection(1..n, Stages)
  BY <1>1 DEF OrderInv, Injection, IsInjective
<1>3. order \in Surjection(1..n, Stages)
  BY <1>1 DEF Ordered, Surjection
<1>4. Cardinality(1..n) = Cardinality(Stages)
  <2>1. IsFiniteSet(Stages)
    BY FiniteStages
  <2> QED BY <1>2, <1>3, <2>1, FS_Injection
<1>5. Cardinality(1..n) = n /\ Cardinality(1..N) = N
  <2>1. 1 \in Int /\ n \in Int /\ N \in Int /\ n >= 0 /\ N >= 1
    BY <1>1, SizeAssumption
  <2>2. /\ Cardinality(1..n) = IF 1 > n THEN 0 ELSE n - 1 + 1
        /\ Cardinality(1..N) = IF 1 > N THEN 0 ELSE N - 1 + 1
    BY <2>1, FS_Interval
  <2> QED BY <2>1, <2>2
<1> QED BY <1>4, <1>5 DEF Stages

LEMMA EligibleNext ==
  ASSUME OrderInv, NEW s \in Stages
  PROVE  Eligible(s, Len(order) + 1) <=> s \notin Ordered /\ deps[s] \subseteq Ordered
<1>1. Len(order) \in Nat /\ Len(order) + 1 - 1 = Len(order)
  BY DEF OrderInv
<1> QED BY <1>1 DEF Eligible, Ordered

\* What is ordered has its dependencies ordered.
LEMMA OrderedIsClosed ==
  ASSUME OrderInv, NEW s \in Ordered
  PROVE  s \in Stages /\ deps[s] \subseteq Ordered
<1>1. PICK k \in 1..Len(order) : order[k] = s
  BY DEF Ordered
<1>2. \A d \in deps[s] : \E j \in 1..(k - 1) : order[j] = d
  BY <1>1 DEF OrderInv, Eligible
<1>3. \A j \in 1..(k - 1) : j \in 1..Len(order)
  BY <1>1 DEF OrderInv
<1> QED BY <1>1, <1>2, <1>3 DEF OrderInv, Ordered

\* An empty heap leaves no stage: what it left would be a knot.
LEMMA NothingIsLeft ==
  ASSUME SearchInv, KahnInv, phase = "order", ready = {}
  PROVE  Ordered = Stages
<1> DEFINE L == Stages \ Ordered
<1>1. Ordered \subseteq Stages
  BY OrderedIsClosed DEF KahnInv
<1>2. \A s \in Stages : deps[s] \subseteq Stages
  BY DEF SearchInv, InputInv
<1>3. \A s \in L : deps[s] \cap L # {}
  BY <1>2 DEF KahnInv, HeapInv
<1>4. L = {}
  BY <1>3, AcceptedIsAcyclic DEF Acyclic, Knot, Accepted
<1> QED BY <1>1, <1>4

LEMMA PopStep ==
  ASSUME SearchInv, KahnInv, NEW s \in Stages, Pop(s)
  PROVE  KahnInv'
<1> DEFINE n == Len(order)
<1>1. /\ phase = "order" /\ phase' = phase /\ deps' = deps
      /\ s \in ready /\ \A t \in ready : s <= t
      /\ order' = Append(order, s) /\ indegree' = Decremented(s)
      /\ ready' = (ready \ {s}) \cup {t \in Stages : s \in deps[t] /\ indegree'[t] = 0}
  BY DEF Pop, Least, input
<1>2. /\ ready = {t \in Stages \ Ordered : deps[t] \subseteq Ordered}
      /\ indegree = [t \in Stages |-> Cardinality(deps[t] \ Ordered)]
  BY <1>1 DEF KahnInv, HeapInv
<1>3. /\ order' \in Seq(Stages) /\ Len(order') = n + 1 /\ n \in Nat
      /\ order'[n + 1] = s /\ \A k \in 1..n : order'[k] = order[k]
  BY <1>1 DEF KahnInv, OrderInv
<1>4. s \notin Ordered /\ deps[s] \subseteq Ordered
  BY <1>1, <1>2
<1>5. Ordered' = Ordered \cup {s}
  BY <1>3 DEF Ordered
<1>6. \A t \in Stages : deps[t] \subseteq Stages /\ t \notin deps[t]
  BY <1>1 DEF SearchInv, InputInv
<1>7. OrderInv'
  <2>1. \A j, k \in 1..Len(order') : order'[j] = order'[k] => j = k
    <3>1. \A k \in 1..n : order'[k] # s
      BY <1>3, <1>4 DEF Ordered
    <3> QED BY <1>3, <3>1 DEF KahnInv, OrderInv
  <2> DEFINE E(q, t, k) == /\ \A j \in 1..(k - 1) : q[j] # t
                           /\ \A d \in deps[t] : \E j \in 1..(k - 1) : q[j] = d
             Canonical(q, k) == E(q, q[k], k) /\ \A t \in Stages : E(q, t, k) => q[k] <= t
  <2>2. ASSUME NEW t \in Stages, NEW k \in 1..(n + 1)
        PROVE  E(order', t, k) <=> E(order, t, k)
    <3>1. \A j \in 1..(k - 1) : order'[j] = order[j]
      BY <1>3
    <3> QED BY <3>1
  <2>3. \A k \in 1..n : Canonical(order, k)
    BY DEF KahnInv, OrderInv, Eligible
  <2>4. E(order, s, n + 1) /\ \A t \in Stages : E(order, t, n + 1) => s <= t
    <3>1. OrderInv
      BY DEF KahnInv
    <3>2. \A t \in Stages : Eligible(t, n + 1) <=> t \in ready
      BY <3>1, <1>2, EligibleNext
    <3> QED BY <1>1, <3>2 DEF Eligible
  <2>5. ASSUME NEW k \in 1..(n + 1) PROVE Canonical(order', k)
    <3> HIDE DEF E
    <3>1. CASE k = n + 1
      <4>1. order'[n + 1] = s /\ n + 1 \in 1..(n + 1)
        BY <1>3
      <4>2. E(order', s, n + 1) /\ \A t \in Stages : E(order', t, n + 1) => s <= t
        BY <1>1, <2>2, <2>4, <4>1
      <4> QED BY <3>1, <4>1, <4>2
    <3>2. CASE k \in 1..n
      <4>1. order[k] \in Stages /\ order'[k] = order[k]
        BY <1>3, <3>2 DEF KahnInv, OrderInv
      <4>2. E(order, order[k], k) /\ \A t \in Stages : E(order, t, k) => order[k] <= t
        BY <2>3, <3>2
      <4>3. E(order', order[k], k) /\ \A t \in Stages : E(order', t, k) => order[k] <= t
        BY <2>2, <2>5, <4>1, <4>2
      <4> QED BY <4>1, <4>3
    <3>3. k = n + 1 \/ k \in 1..n
      BY <1>3, <2>5
    <3> HIDE DEF Canonical
    <3> QED BY ONLY <3>1, <3>2, <3>3
  <2> HIDE DEF Canonical
  <2>6. deps' = deps /\ order' \in Seq(Stages)
    BY <1>1, <1>3
  <2>7. \A k \in 1..Len(order') : Canonical(order', k)
    BY <1>3, <2>5
  <2> USE DEF Canonical
  <2> QED BY ONLY <2>1, <2>6, <2>7 DEF OrderInv, Eligible
<1>8. indegree' = [t \in Stages |-> Cardinality(deps[t] \ Ordered')]
  <2>1. ASSUME NEW t \in Stages
        PROVE  IF s \in deps[t] THEN Cardinality(deps[t] \ Ordered') = indegree[t] - 1
               ELSE Cardinality(deps[t] \ Ordered') = indegree[t]
    <3>1. deps[t] \ Ordered' = (deps[t] \ Ordered) \ {s}
      BY <1>5
    <3>2. IsFiniteSet(deps[t] \ Ordered)
      BY <1>6, FiniteStages
    <3>3. indegree[t] = Cardinality(deps[t] \ Ordered)
      BY <1>2
    <3>4. s \in deps[t] \ Ordered <=> s \in deps[t]
      BY <1>4
    <3> QED BY <3>1, <3>2, <3>3, <3>4, FS_RemoveElement
  <2> QED BY <1>1, <2>1 DEF Decremented
<1>9. ready' = {t \in Stages \ Ordered' : deps[t] \subseteq Ordered'}
  <2>1. \A t \in Stages : indegree'[t] = 0 <=> deps[t] \subseteq Ordered'
    <3> SUFFICES ASSUME NEW t \in Stages
                 PROVE  indegree'[t] = 0 <=> deps[t] \subseteq Ordered'
      OBVIOUS
    <3>1. indegree'[t] = Cardinality(deps[t] \ Ordered')
      BY <1>8
    <3>2. Cardinality(deps[t] \ Ordered') = 0 <=> deps[t] \ Ordered' = {}
      BY <1>6, FiniteStages
    <3> QED BY <3>1, <3>2
  <2>2. \A t \in Ordered : deps[t] \subseteq Ordered
    BY OrderedIsClosed DEF KahnInv
  <2> QED BY <1>1, <1>2, <1>4, <1>5, <1>6, <2>1, <2>2
<1>10. HeapInv' /\ FullInv'
  BY <1>1, <1>8, <1>9 DEF HeapInv, FullInv, KahnInv, OrderPhases
<1> QED BY <1>7, <1>10 DEF KahnInv

LEMMA StartOrder ==
  ASSUME SearchInv, KahnInv, CheckSkips
  PROVE  KahnInv'
<1>1. phase = "skips" /\ order = << >> /\ order' = << >> /\ deps' = deps
  BY DEF CheckSkips, KahnInv, FullInv, OrderPhases, input
<1>2. OrderInv'
  BY <1>1 DEF OrderInv
<1>3. Ordered' = {}
  BY <1>1 DEF Ordered
<1>4. HeapInv'
  <2>1. CASE phase' = "order"
    <3>1. /\ indegree' = [s \in Stages |-> Cardinality(deps[s])]
          /\ ready' = {s \in Stages : deps[s] = {}}
      BY <2>1 DEF CheckSkips
    <3>2. \A s \in Stages : deps[s] \ Ordered' = deps[s]
      BY <1>3
    <3>3. indegree' = [s \in Stages |-> Cardinality(deps'[s] \ Ordered')]
      BY <1>1, <3>1, <3>2
    <3>4. ready' = {s \in Stages \ Ordered' : deps'[s] \subseteq Ordered'}
      BY <1>1, <1>3, <3>1
    <3> QED BY <3>3, <3>4 DEF HeapInv
  <2> QED BY <2>1 DEF HeapInv
<1>5. FullInv'
  BY <1>1 DEF FullInv, CheckSkips, OrderPhases
<1> QED BY <1>2, <1>4, <1>5 DEF KahnInv

LEMMA KahnStep == SearchInv /\ KahnInv /\ [Next]_vars => KahnInv'
<1> SUFFICES ASSUME SearchInv, KahnInv, [Next]_vars PROVE KahnInv'
  OBVIOUS
<1> USE DEF input, search, kahn, plan
<1>1. ASSUME kahn' = kahn, deps' = deps, phase' \in OrderPhases => phase' = phase,
             phase \in OrderPhases => phase' = phase, phase' # "unresolved"
      PROVE  KahnInv'
  <2>1. UNCHANGED <<order, ready, indegree, deps>>
    BY <1>1
  <2>2. OrderInv' <=> OrderInv
    BY ONLY <2>1 DEF OrderInv, Eligible
  <2>3. HeapInv => HeapInv'
    BY <1>1, <2>1 DEF HeapInv, OrderPhases, Ordered
  <2>4. FullInv => FullInv'
    BY <1>1, <2>1 DEF FullInv, OrderPhases, Ordered
  <2> QED BY <2>2, <2>3, <2>4 DEF KahnInv
<1>2. CASE CheckSkips
  BY <1>2, StartOrder
<1>3. ASSUME NEW s \in Stages, Pop(s) PROVE KahnInv'
  BY <1>3, PopStep
<1>4. CASE EndOrder
  <2>1. Ordered = Stages /\ Len(order) = N
    BY <1>4, NothingIsLeft, FullOrder DEF EndOrder, KahnInv
  <2> QED BY <1>4, <2>1
          DEF EndOrder, KahnInv, OrderInv, HeapInv, FullInv, OrderPhases, Eligible, Ordered
<1>5. CASE EndPlan
  BY <1>5 DEF EndPlan, KahnInv, OrderInv, HeapInv, FullInv, OrderPhases, Eligible, Ordered
<1>6. CASE CheckNames \/ Validated \/ Leave
  BY <1>1, <1>6 DEF CheckNames, Validated, Leave, OrderPhases
<1>7. CASE \E s \in Stages : Visit(s) \/ MeetCycle(s)
  BY <1>1, <1>7 DEF Visit, MeetCycle, OrderPhases
<1>8. CASE \E s \in Stages : Decide(s)
  BY <1>1, <1>8 DEF Decide, KahnInv, FullInv
<1>9. CASE UNCHANGED vars
  BY <1>1, <1>9 DEF vars, KahnInv, FullInv
<1> QED BY <1>2, <1>3, <1>4, <1>5, <1>6, <1>7, <1>8, <1>9 DEF Next

LEMMA KahnInit == Init => KahnInv
  BY DEF Init, KahnInv, OrderInv, HeapInv, FullInv, OrderPhases

\* The topological order is the canonical one, is complete when the search has
\* accepted the graph, and the second cycle error is never raised.
THEOREM OrderIsRight == Spec => []OrderIsCanonical
<1>1. KahnInv => OrderIsCanonical
  BY DEF KahnInv, OrderInv, FullInv, OrderIsCanonical
<1>2. SearchInv /\ KahnInv /\ [Next]_vars => (SearchInv /\ KahnInv)'
  BY SearchStep, KahnStep
<1> QED BY <1>1, <1>2, SearchInit, KahnInit, PTL DEF Spec

-----------------------------------------------------------------------------
(* The plan. *)

Decided == {s \in Stages : reason[s] # "undecided"}

\* The decided stages contain what they depend on, so a later decision changes none
\* of their blockers; among them the skipped ones are those requested or blocked, and
\* belong to every downstream-closed set that contains the requested ones.
PlanInv ==
  /\ reason \in [Stages -> Reasons]
  /\ blockedBy \in [Stages -> SUBSET Stages]
  /\ phase \notin {"plan", "done"} => Decided = {}
  /\ phase = "done" => Decided = Stages
  /\ \A s \in Decided :
       /\ deps[s] \subseteq Decided
       /\ s \in Skipped <=> s \in requested \/ Blockers(s) # {}
       /\ blockedBy[s] = IF reason[s] = "DEPENDENCY_SKIPPED" THEN Blockers(s) ELSE {}
  /\ \A S \in SUBSET Stages : requested \subseteq S /\ Downstream(S) => Skipped \subseteq S

\* The stage decided next has only decided dependencies.
LEMMA NextHasDecidedDeps ==
  ASSUME OrderInv, PlanInv, NEW s \in Stages, NextToPlan(s)
  PROVE  deps[s] \subseteq Decided /\ s \notin Decided
<1>1. PICK k \in 1..Len(order) :
        /\ order[k] = s /\ reason[s] = "undecided"
        /\ \A j \in 1..(k - 1) : reason[order[j]] # "undecided"
  BY DEF NextToPlan
<1>2. \A d \in deps[s] : \E j \in 1..(k - 1) : order[j] = d
  BY <1>1 DEF OrderInv, Eligible
<1>3. \A j \in 1..(k - 1) : order[j] \in Stages
  BY <1>1 DEF OrderInv
<1> QED BY <1>1, <1>2, <1>3 DEF Decided

LEMMA DecideStep ==
  ASSUME InputInv, OrderInv, PlanInv, NEW s \in Stages, Decide(s)
  PROVE  PlanInv'
<1> USE DEF input
<1>1. /\ phase = "plan" /\ phase' = phase /\ deps' = deps /\ requested' = requested
      /\ reason' = [reason EXCEPT ![s] = Decision(s)]
      /\ blockedBy' = [blockedBy EXCEPT ![s] = IF s \in requested THEN {} ELSE Blockers(s)]
  BY DEF Decide
<1>2. deps[s] \subseteq Decided /\ s \notin Decided
  BY NextHasDecidedDeps DEF Decide
<1>3. Decision(s) \in {"REQUESTED", "DEPENDENCY_SKIPPED", "execute"}
  BY DEF Decision
<1>4. /\ reason' \in [Stages -> Reasons]
      /\ \A t \in Stages : reason'[t] = IF t = s THEN Decision(s) ELSE reason[t]
  BY <1>1, <1>3 DEF PlanInv, Reasons
<1>5. Decided' = Decided \cup {s}
  BY <1>3, <1>4 DEF Decided
<1>6. Decision(s) \in {"REQUESTED", "DEPENDENCY_SKIPPED"}
        <=> s \in requested \/ Blockers(s) # {}
  BY DEF Decision
<1>7. Skipped' = Skipped \cup (IF s \in requested \/ Blockers(s) # {} THEN {s} ELSE {})
  BY <1>2, <1>4, <1>6 DEF Skipped, Decided
<1>8. \A t \in Decided \cup {s} : deps[t] \subseteq Decided
  BY <1>2 DEF PlanInv
<1>9. \A t \in Decided \cup {s} : Blockers(t)' = Blockers(t)
  BY <1>1, <1>2, <1>7, <1>8 DEF Blockers
<1>10. blockedBy' \in [Stages -> SUBSET Stages]
  BY <1>1 DEF PlanInv, Blockers, Skipped
<1>11. \A t \in Decided' :
         /\ deps'[t] \subseteq Decided'
         /\ t \in Skipped' <=> t \in requested' \/ Blockers(t)' # {}
  <2>1. \A t \in Decided : t # s /\ (t \in Skipped <=> t \in requested \/ Blockers(t) # {})
    BY <1>2 DEF PlanInv
  <2>2. s \notin Skipped
    BY <1>2 DEF Skipped, Decided
  <2> QED BY <1>1, <1>5, <1>7, <1>8, <1>9, <2>1, <2>2
<1>12. \A t \in Decided' :
         blockedBy'[t] = IF reason'[t] = "DEPENDENCY_SKIPPED" THEN Blockers(t)' ELSE {}
  <2>1. ASSUME NEW t \in Decided
        PROVE  blockedBy'[t] = IF reason'[t] = "DEPENDENCY_SKIPPED" THEN Blockers(t)' ELSE {}
    <3>1. t \in Stages /\ t # s /\ blockedBy'[t] = blockedBy[t] /\ reason'[t] = reason[t]
      BY <1>1, <1>2, <1>4 DEF PlanInv, Decided
    <3> QED BY <1>9, <3>1 DEF PlanInv
  <2>2. blockedBy'[s] = IF reason'[s] = "DEPENDENCY_SKIPPED" THEN Blockers(s)' ELSE {}
    <3>1. blockedBy'[s] = IF s \in requested THEN {} ELSE Blockers(s)
      BY <1>1 DEF PlanInv
    <3>2. reason'[s] = Decision(s)
      BY <1>4
    <3> QED BY <1>9, <3>1, <3>2 DEF Decision
  <2> QED BY <1>5, <2>1, <2>2
<1>13. ASSUME NEW S \in SUBSET Stages, requested \subseteq S, Downstream(S)
       PROVE  Skipped' \subseteq S
  <2>1. Skipped \subseteq S
    BY <1>13 DEF PlanInv
  <2>2. Blockers(s) # {} => s \in S
    BY <1>13, <2>1 DEF Blockers, Downstream
  <2> QED BY <1>7, <1>13, <2>1, <2>2
<1>14. \A S \in SUBSET Stages : requested' \subseteq S /\ Downstream(S)' => Skipped' \subseteq S
  BY <1>1, <1>13 DEF Downstream
<1> QED BY <1>1, <1>4, <1>10, <1>11, <1>12, <1>14 DEF PlanInv

LEMMA PlanStep == SearchInv /\ KahnInv /\ PlanInv /\ [Next]_vars => PlanInv'
<1> SUFFICES ASSUME SearchInv, KahnInv, PlanInv, [Next]_vars PROVE PlanInv'
  OBVIOUS
<1> USE DEF input, search, kahn, plan
<1>1. ASSUME plan' = plan, input' = input,
             phase' \notin {"plan", "done"} => phase \notin {"plan", "done"},
             phase' = "done" => Decided = Stages
      PROVE  PlanInv'
  BY <1>1 DEF PlanInv, Decided, Skipped, Blockers, Downstream
<1>2. ASSUME NEW s \in Stages, Decide(s) PROVE PlanInv'
  BY <1>2, DecideStep DEF SearchInv, KahnInv
<1>3. CASE CheckNames \/ Leave \/ Validated \/ CheckSkips
  BY <1>1, <1>3 DEF CheckNames, Leave, Validated, CheckSkips
<1>4. CASE EndOrder \/ EndPlan
  BY <1>1, <1>4 DEF EndOrder, EndPlan, Decided
<1>5. CASE \E s \in Stages : Visit(s) \/ MeetCycle(s) \/ Pop(s)
  BY <1>1, <1>5 DEF Visit, MeetCycle, Pop
<1>6. CASE UNCHANGED vars
  BY <1>1, <1>6 DEF vars, PlanInv
<1> QED BY <1>2, <1>3, <1>4, <1>5, <1>6 DEF Next

LEMMA PlanInit == Init => PlanInv
<1> SUFFICES ASSUME Init PROVE PlanInv
  OBVIOUS
<1>1. \A s \in Stages : reason[s] = "undecided"
  BY DEF Init
<1>2. Decided = {} /\ Skipped = {}
  BY <1>1 DEF Decided, Skipped
<1> QED BY <1>2 DEF Init, PlanInv, Reasons

\* The stages that do not execute are the least downstream-closed set that contains
\* the requested ones, and each blocked stage names its skipped dependencies, for
\* any graph and any request.
THEOREM SkipsAreRight == Spec => []SkipsAreClosure
<1>1. InputInv /\ PlanInv => SkipsAreClosure
  <2> SUFFICES ASSUME InputInv, PlanInv, phase = "done" PROVE SkipsAreClosure
    BY DEF SkipsAreClosure
  <2>1. Decided = Stages /\ requested \subseteq Stages
    BY DEF PlanInv, InputInv
  <2>2. requested \subseteq Skipped /\ Downstream(Skipped)
    BY <2>1 DEF PlanInv, Downstream, Blockers
  <2> QED BY <2>1, <2>2 DEF PlanInv, SkipsAreClosure, Blockers
<1>2. SearchInv /\ KahnInv /\ PlanInv /\ [Next]_vars => (SearchInv /\ KahnInv /\ PlanInv)'
  BY SearchStep, KahnStep, PlanStep
<1>3. SearchInv /\ PlanInv => SkipsAreClosure
  BY <1>1 DEF SearchInv
<1> QED BY <1>2, <1>3, SearchInit, KahnInit, PlanInit, PTL DEF Spec

\* Verdict, order and skips of the registry are right for every number of stages
\* (StageRegistry).
THEOREM RegistryIsRight == Spec => []PlanIsRight
BY VerdictIsRight, OrderIsRight, SkipsAreRight, PTL DEF PlanIsRight

-----------------------------------------------------------------------------
(* Induction, with the set of what satisfies a statement in place of the statement. *)

\* Induction over the naturals: a set with 0 that is closed under successor holds them all.
LEMMA NatInductionOnSet ==
  ASSUME NEW T, 0 \in T, \A n \in Nat : n \in T => n + 1 \in T
  PROVE Nat \subseteq T
<1> DEFINE U == Nat \ T
<1>1. SUFFICES ASSUME U # {} PROVE FALSE
  OBVIOUS
<1>2. IsWellFoundedOn(OpToRel(<, Nat), Nat)
  BY NatLessThanWellFounded
<1>3. PICK x \in U : \A y \in U : ~(<<y, x>> \in OpToRel(<, Nat))
  <2> U \subseteq Nat OBVIOUS
  <2> HIDE DEF U
  <2> QED BY <1>1, <1>2, WFMin
<1>4. \A y \in U : ~(y < x)
  BY <1>3 DEF OpToRel
<1> QED BY ONLY <1>4, x \in U, 0 \in T, \A n \in Nat : n \in T => n + 1 \in T DEF U

\* Induction over the subsets of a finite set: what holds of a subset whenever it holds of
\* its strict subsets holds of them all.
LEMMA SubsetInduction ==
  ASSUME NEW S, IsFiniteSet(S), NEW P,
         \A T \in SUBSET S : (\A R \in SUBSET T : R # T => R \in P) => T \in P
  PROVE SUBSET S \subseteq P
<1> DEFINE U == (SUBSET S) \ P
<1>1. SUFFICES ASSUME U # {} PROVE FALSE
  OBVIOUS
<1>2. IsWellFoundedOn(StrictSubsetOrdering(S), SUBSET S)
  BY FS_StrictSubsetOrderingWellFounded, FS_FiniteSubsetsOfFinite
<1>3. PICK x \in U : \A y \in U : ~(<<y, x>> \in StrictSubsetOrdering(S))
  <2> U \subseteq SUBSET S OBVIOUS
  <2> HIDE DEF U
  <2> QED BY <1>1, <1>2, WFMin
<1>4. \A R \in SUBSET x : R # x => R \in P
  <2> SUFFICES ASSUME NEW R \in SUBSET x, R # x, R \notin P PROVE FALSE
    OBVIOUS
  <2>1. R \in U
    OBVIOUS
  <2>2. <<R, x>> \in StrictSubsetOrdering(S)
    BY DEF StrictSubsetOrdering
  <2> QED BY <1>3, <2>1, <2>2
<1> QED BY <1>4

\* A set grown in n steps inside a set of n elements, from one of them, is settled: the
\* last step added nothing. And it stays inside whatever every step stays inside.
LEMMA ChainSettles ==
  ASSUME NEW U, IsFiniteSet(U), NEW n, n = Cardinality(U), NEW a \in U, NEW r, r[0] = {a},
         \A k \in Nat : k < n => r[k] \subseteq r[k + 1],
         \A k \in Nat : k < n /\ r[k] \subseteq U => r[k + 1] \subseteq U,
         \A k \in Nat : k + 1 < n /\ r[k + 1] = r[k] => r[k + 1 + 1] = r[k + 1]
  PROVE /\ n \in Nat \ {0} /\ n - 1 \in Nat /\ a \in r[n] /\ r[n] \subseteq U /\ r[n] = r[n - 1]
        /\ \A T : a \in T /\ (\A k \in Nat : k < n /\ r[k] \subseteq T => r[k + 1] \subseteq T)
                    => r[n] \subseteq T
<1>1. n \in Nat
  BY FS_CardinalityType
<1>2. ASSUME NEW T, a \in T, \A k \in Nat : k < n /\ r[k] \subseteq T => r[k + 1] \subseteq T,
             NEW k \in Nat, k <= n
      PROVE r[k] \subseteq T
  <2> DEFINE Good == {i \in Nat : i <= n => r[i] \subseteq T}
  <2>1. 0 \in Good
    BY <1>2
  <2>2. ASSUME NEW i \in Nat, i \in Good PROVE i + 1 \in Good
    <3>1. i + 1 <= n => i < n /\ i <= n
      BY <1>1
    <3> QED BY <1>2, <2>2, <3>1
  <2>3. Nat \subseteq Good
    <3> HIDE DEF Good
    <3> QED BY <2>1, <2>2, NatInductionOnSet
  <2> QED BY <1>2, <2>3
<1>3. \A k \in Nat : k <= n => a \in r[k] /\ r[k] \subseteq U
  <2> DEFINE Good == {k \in Nat : k <= n => a \in r[k]}
  <2>1. 0 \in Good
    OBVIOUS
  <2>2. ASSUME NEW k \in Nat, k \in Good PROVE k + 1 \in Good
    <3>1. k + 1 <= n => k < n /\ k <= n
      BY <1>1
    <3> QED BY <2>2, <3>1
  <2>3. Nat \subseteq Good
    <3> HIDE DEF Good
    <3> QED BY <2>1, <2>2, NatInductionOnSet
  <2> QED BY <1>2, <2>3
<1>4. \A k \in Nat : k <= n => IsFiniteSet(r[k]) /\ Cardinality(r[k]) \in Nat /\ Cardinality(r[k]) <= n
  <2>1. \A k \in Nat : k <= n => r[k] \in SUBSET U
    BY <1>3
  <2> QED BY <2>1, FS_Subset, FS_CardinalityType
<1> DEFINE Settled(k) == k # 0 /\ r[k] = r[k - 1]
           Larger(k) == Cardinality(r[k]) >= k + 1
           Good == {k \in Nat : k <= n => Settled(k) \/ Larger(k)}
<1>5. 0 \in Good
  <2>1. Cardinality(r[0]) = 1
    BY FS_Singleton
  <2>2. Larger(0)
    BY <2>1
  <2> HIDE DEF Larger
  <2> QED BY <2>2
<1>6. ASSUME NEW k \in Nat, k \in Good PROVE k + 1 \in Good
  <2> SUFFICES ASSUME k + 1 <= n PROVE Settled(k + 1) \/ Larger(k + 1)
    OBVIOUS
  <2>1. k < n /\ k <= n /\ (k + 1) - 1 = k /\ r[k] \subseteq r[k + 1] /\ k + 1 # 0
    BY <1>1
  <2>2. CASE r[k + 1] = r[k]
    BY <2>1, <2>2
  <2>3. CASE r[k + 1] # r[k] /\ Settled(k)
    <3>1. k - 1 \in Nat /\ (k - 1) + 1 = k /\ (k - 1) + 1 < n
      BY <2>1, <2>3
    <3>2. r[(k - 1) + 1 + 1] = r[(k - 1) + 1]
      BY <2>3, <3>1
    <3> QED BY <2>3, <3>1, <3>2
  <2>4. CASE r[k + 1] # r[k] /\ Larger(k)
    <3>1. IsFiniteSet(r[k + 1]) /\ r[k] \in SUBSET r[k + 1]
      BY <1>4, <2>1
    <3>2. Cardinality(r[k]) <= Cardinality(r[k + 1]) /\ Cardinality(r[k]) # Cardinality(r[k + 1])
      BY <2>4, <3>1, FS_Subset
    <3>3. Cardinality(r[k]) \in Nat /\ Cardinality(r[k + 1]) \in Nat
      BY <1>4, <2>1
    <3> QED BY <2>4, <3>2, <3>3
  <2> QED BY <1>6, <2>1, <2>2, <2>3, <2>4
<1>7. Nat \subseteq Good
  <2> HIDE DEF Good
  <2> QED BY <1>5, <1>6, NatInductionOnSet
<1>8. Settled(n)
  <2>1. ~Larger(n)
    BY <1>1, <1>4
  <2> QED BY <1>1, <1>7, <2>1
<1> QED BY <1>1, <1>2, <1>3, <1>8

-----------------------------------------------------------------------------
(* Sums over finite sets, whatever order the fold takes their elements in. *)

\* The fold of the library, taken apart: an element, and the sum of the rest.
Pick(s) == CHOOSE x \in s : TRUE
SumBody(f, g, s) == IF s = {} THEN 0 ELSE f[Pick(s)] + g[s \ {Pick(s)}]
Sums(f, S) == CHOOSE g : g = [s \in SUBSET S |-> SumBody(f, g, s)]
IsSum(f, g, D) == g \in [D -> Int] /\ \A s \in D : g[s] = SumBody(f, g, s)

\* A sum is the value of that recursive function.
LEMMA SumIs == ASSUME NEW f, NEW S PROVE SumFunctionOnSet(f, S) = Sums(f, S)[S]
BY Zenon DEF SumFunctionOnSet, FoldFunctionOnSet, MapThenFoldSet, Sums, Pick, SumBody

LEMMA PickIn == ASSUME NEW s, s # {} PROVE Pick(s) \in s
BY DEF Pick

\* The recursive function exists, which its CHOOSE does not say.
LEMMA SumsExist ==
  ASSUME NEW S, IsFiniteSet(S), NEW f, \A x \in S : f[x] \in Int
  PROVE \E g : IsSum(f, g, SUBSET S)
<1> DEFINE Small(n) == {s \in SUBSET S : Cardinality(s) <= n}
           Good == {n \in Nat : \E g : IsSum(f, g, Small(n))}
<1>0. \A s \in SUBSET S : IsFiniteSet(s) /\ Cardinality(s) \in Nat
  BY FS_Subset, FS_CardinalityType
<1>1. 0 \in Good
  <2> DEFINE g == [s \in Small(0) |-> 0]
  <2>1. \A s \in Small(0) : s = {}
    BY <1>0, FS_EmptySet
  <2>2. IsSum(f, g, Small(0))
    BY <2>1 DEF SumBody, IsSum
  <2> HIDE DEF Small, g
  <2> QED BY <2>2
<1>2. ASSUME NEW n \in Nat, n \in Good PROVE n + 1 \in Good
  <2>1. PICK g : IsSum(f, g, Small(n))
    BY <1>2
  <2> DEFINE h == [s \in Small(n + 1) |-> SumBody(f, g, s)]
  <2>2. ASSUME NEW s \in Small(n + 1), s # {}
        PROVE s \ {Pick(s)} \in Small(n) /\ Pick(s) \in S
    BY <1>0, <2>2, PickIn, FS_RemoveElement
  <2>3. \A s \in Small(n + 1) : SumBody(f, g, s) \in Int
    BY <2>1, <2>2 DEF SumBody, IsSum
  <2>4. \A s \in Small(n) : s \in Small(n + 1) /\ h[s] = g[s]
    BY <1>0, <2>1 DEF IsSum
  <2>5. \A s \in Small(n + 1) : h[s] = SumBody(f, h, s)
    <3> SUFFICES ASSUME NEW s \in Small(n + 1) PROVE SumBody(f, g, s) = SumBody(f, h, s)
      OBVIOUS
    <3>1. s # {} => h[s \ {Pick(s)}] = g[s \ {Pick(s)}]
      BY <2>2, <2>4
    <3> HIDE DEF h
    <3> QED BY <3>1 DEF SumBody
  <2>6. h \in [Small(n + 1) -> Int]
    BY <2>3
  <2>7. IsSum(f, h, Small(n + 1))
    <3> HIDE DEF h
    <3> QED BY <2>5, <2>6 DEF IsSum
  <2> HIDE DEF h, Small
  <2> QED BY <2>7
<1>3. Nat \subseteq Good
  <2> HIDE DEF Good
  <2> QED BY <1>1, <1>2, NatInductionOnSet
<1>4. Cardinality(S) \in Good
  BY <1>0, <1>3
<1>5. Small(Cardinality(S)) = SUBSET S
  BY <1>0, FS_Subset
<1>6. \E g : IsSum(f, g, Small(Cardinality(S)))
  BY <1>4
<1> HIDE DEF Small
<1> QED BY <1>5, <1>6

\* So it satisfies its own definition.
LEMMA SumsUnfold ==
  ASSUME NEW S, IsFiniteSet(S), NEW f, \A x \in S : f[x] \in Int
  PROVE IsSum(f, Sums(f, S), SUBSET S)
<1> DEFINE F == Sums(f, S)
<1>1. PICK g : IsSum(f, g, SUBSET S)
  BY SumsExist
<1>2. g = [s \in SUBSET S |-> SumBody(f, g, s)]
  BY <1>1 DEF IsSum
<1>3. F = [s \in SUBSET S |-> SumBody(f, F, s)]
  BY <1>2 DEF Sums
<1>4. \A s \in SUBSET S : F[s] = SumBody(f, F, s)
  <2> HIDE DEF F
  <2> QED BY <1>3
<1> DEFINE Same == {s \in SUBSET S : F[s] = g[s]}
<1>5. SUBSET S \subseteq Same
  <2> HIDE DEF F
  <2>1. ASSUME NEW T \in SUBSET S, \A R \in SUBSET T : R # T => R \in Same PROVE T \in Same
    <3>1. T # {} => F[T \ {Pick(T)}] = g[T \ {Pick(T)}]
      BY <2>1, PickIn
    <3>2. F[T] = SumBody(f, F, T) /\ g[T] = SumBody(f, g, T)
      BY <1>1, <1>4 DEF IsSum
    <3> QED BY <3>1, <3>2 DEF SumBody
  <2> HIDE DEF Same
  <2> QED BY <2>1, SubsetInduction
<1>6. F = g
  <2> HIDE DEF F
  <2> QED BY <1>2, <1>3, <1>5
<1> QED BY <1>1, <1>6

\* The function built for a set sums up its subsets too.
LEMMA SumOnSubset ==
  ASSUME NEW S, IsFiniteSet(S), NEW f, \A x \in S : f[x] \in Int, NEW T \in SUBSET S
  PROVE SumFunctionOnSet(f, T) = Sums(f, S)[T]
<1> DEFINE F == Sums(f, S)
           G == Sums(f, T)
           Same == {s \in SUBSET T : F[s] = G[s]}
<1>1. IsFiniteSet(T) /\ \A x \in T : f[x] \in Int
  BY FS_Subset
<1>2. /\ \A s \in SUBSET T : F[s] = SumBody(f, F, s)
      /\ \A s \in SUBSET T : G[s] = SumBody(f, G, s)
  BY <1>1, SumsUnfold DEF IsSum
<1> HIDE DEF F, G
<1>3. ASSUME NEW R \in SUBSET T, \A s \in SUBSET R : s # R => s \in Same PROVE R \in Same
  <2>1. R # {} => F[R \ {Pick(R)}] = G[R \ {Pick(R)}]
    BY <1>3, PickIn
  <2> QED BY <1>2, <2>1 DEF SumBody
<1>4. SUBSET T \subseteq Same
  <2> HIDE DEF Same
  <2> QED BY <1>1, <1>3, SubsetInduction
<1>5. SumFunctionOnSet(f, T) = G[T]
  BY SumIs DEF G
<1> QED BY <1>4, <1>5 DEF F

LEMMA SumOfNone == ASSUME NEW f PROVE SumFunctionOnSet(f, {}) = 0
<1>1. IsFiniteSet({}) /\ \A x \in {} : f[x] \in Int
  BY FS_EmptySet
<1>2. Sums(f, {})[{}] = SumBody(f, Sums(f, {}), {})
  BY <1>1, SumsUnfold DEF IsSum
<1> QED BY <1>2, SumIs DEF SumBody

LEMMA SumIsInt ==
  ASSUME NEW S, IsFiniteSet(S), NEW f, \A x \in S : f[x] \in Int
  PROVE SumFunctionOnSet(f, S) \in Int
BY SumsUnfold, SumIs DEF IsSum

\* Whichever element is taken out, not only the one that was picked.
LEMMA SumOfMore ==
  ASSUME NEW S, IsFiniteSet(S), NEW f, \A x \in S : f[x] \in Int, NEW y \in S
  PROVE SumFunctionOnSet(f, S) = SumFunctionOnSet(f, S \ {y}) + f[y]
<1> DEFINE F == Sums(f, S)
           Good == {T \in SUBSET S : \A x \in T : F[T] = F[T \ {x}] + f[x]}
<1>1. /\ F \in [SUBSET S -> Int]
      /\ \A s \in SUBSET S : F[s] = SumBody(f, F, s)
  BY SumsUnfold DEF IsSum
<1> HIDE DEF F
<1>2. ASSUME NEW T \in SUBSET S, \A R \in SUBSET T : R # T => R \in Good PROVE T \in Good
  <2> SUFFICES ASSUME NEW x \in T PROVE F[T] = F[T \ {x}] + f[x]
    OBVIOUS
  <2> DEFINE p == Pick(T)
  <2>1. p \in T /\ F[T] = f[p] + F[T \ {p}]
    BY <1>1, PickIn DEF SumBody
  <2>2. CASE x = p
    BY <1>1, <2>1, <2>2
  <2>3. CASE x # p
    <3>1. F[(T \ {p}) \ {x}] = F[(T \ {x}) \ {p}]
      <4>1. (T \ {p}) \ {x} = (T \ {x}) \ {p}
        OBVIOUS
      <4> QED BY ONLY <4>1
    <3>2. T \ {p} \in Good /\ T \ {x} \in Good
      BY <1>2, <2>1
    <3>3. F[T \ {p}] = F[(T \ {p}) \ {x}] + f[x]
      BY <2>3, <3>2
    <3>4. F[T \ {x}] = F[(T \ {x}) \ {p}] + f[p]
      BY <2>1, <2>3, <3>2
    <3>5. F[(T \ {p}) \ {x}] \in Int /\ f[p] \in Int /\ f[x] \in Int
      BY <1>1, <2>1
    <3> HIDE DEF p
    <3> DEFINE a == F[(T \ {p}) \ {x}]
               b == F[T \ {x}]
               c == F[T \ {p}]
    <3>6. /\ a \in Int /\ f[p] \in Int /\ f[x] \in Int
          /\ c = a + f[x] /\ b = a + f[p] /\ F[T] = f[p] + c
      BY ONLY <2>1, <3>1, <3>3, <3>4, <3>5
    <3> HIDE DEF a, b, c
    <3>7. F[T] = b + f[x]
      BY ONLY <3>6
    <3> QED BY <3>7 DEF b
  <2> QED BY <2>2, <2>3
<1>3. SUBSET S \subseteq Good
  <2> HIDE DEF Good
  <2> QED BY <1>2, SubsetInduction
<1>4. SumFunctionOnSet(f, S) = F[S] /\ SumFunctionOnSet(f, S \ {y}) = F[S \ {y}]
  BY SumOnSubset DEF F
<1> QED BY <1>3, <1>4

LEMMA SumOfUnion ==
  ASSUME NEW S, NEW T, IsFiniteSet(S), IsFiniteSet(T), S \cap T = {},
         NEW f, \A x \in S \cup T : f[x] \in Int
  PROVE SumFunctionOnSet(f, S \cup T) = SumFunctionOnSet(f, S) + SumFunctionOnSet(f, T)
<1> DEFINE Sigma(R) == SumFunctionOnSet(f, R)
           Good == {R \in SUBSET T : Sigma(S \cup R) = Sigma(S) + Sigma(R)}
<1>1. ASSUME NEW R \in SUBSET T, \A Q \in SUBSET R : Q # R => Q \in Good PROVE R \in Good
  <2>1. IsFiniteSet(R) /\ IsFiniteSet(S \cup R)
    BY FS_Subset, FS_Union
  <2>2. CASE R = {}
    <3>1. Sigma(S) \in Int /\ Sigma(R) = 0 /\ S \cup R = S
      BY <2>2, SumIsInt, SumOfNone
    <3> HIDE DEF Sigma
    <3> QED BY <2>2, <3>1
  <2>3. ASSUME NEW x \in R PROVE R \in Good
    <3>1. R \ {x} \in Good
      BY <1>1
    <3>2. Sigma(R) = Sigma(R \ {x}) + f[x]
      BY <2>1, SumOfMore
    <3>3. Sigma(S \cup R) = Sigma((S \cup R) \ {x}) + f[x]
      BY <2>1, SumOfMore, x \in S \cup R
    <3>4. Sigma((S \cup R) \ {x}) = Sigma(S) + Sigma(R \ {x})
      <4>1. (S \cup R) \ {x} = S \cup (R \ {x})
        OBVIOUS
      <4> QED BY <3>1, <4>1
    <3>5. Sigma(S) \in Int /\ Sigma(R \ {x}) \in Int /\ f[x] \in Int
      BY <2>1, SumIsInt, FS_Subset
    <3>6. Sigma(S \cup R) = Sigma(S) + Sigma(R)
      <4> HIDE DEF Sigma
      <4> QED BY ONLY <3>2, <3>3, <3>4, <3>5
    <3> QED BY <3>6
  <2> QED BY <2>2, <2>3
<1>2. SUBSET T \subseteq Good
  <2> HIDE DEF Good
  <2> QED BY <1>1, SubsetInduction
<1> QED BY <1>2

LEMMA SumIsNat ==
  ASSUME NEW S, IsFiniteSet(S), NEW f, \A x \in S : f[x] \in Nat
  PROVE SumFunctionOnSet(f, S) \in Nat
<1> DEFINE Sigma(R) == SumFunctionOnSet(f, R)
           Good == {R \in SUBSET S : Sigma(R) \in Nat}
<1>1. ASSUME NEW R \in SUBSET S, \A Q \in SUBSET R : Q # R => Q \in Good PROVE R \in Good
  <2>1. CASE R = {}
    BY <2>1, SumOfNone
  <2>2. ASSUME NEW x \in R PROVE R \in Good
    <3>1. R \ {x} \in Good
      BY <1>1
    <3>2. Sigma(R) = Sigma(R \ {x}) + f[x]
      BY FS_Subset, SumOfMore
    <3> QED BY <3>1, <3>2
  <2> QED BY <2>1, <2>2
<1>2. SUBSET S \subseteq Good
  <2> HIDE DEF Good
  <2> QED BY <1>1, SubsetInduction
<1> QED BY <1>2

\* Naturals never sum up to less on more.
LEMMA SumGrows ==
  ASSUME NEW S, IsFiniteSet(S), NEW f, \A x \in S : f[x] \in Nat, NEW T \in SUBSET S
  PROVE SumFunctionOnSet(f, T) <= SumFunctionOnSet(f, S)
<1>1. IsFiniteSet(T) /\ IsFiniteSet(S \ T) /\ T \cup (S \ T) = S /\ T \cap (S \ T) = {}
  BY FS_Subset
<1>2. SumFunctionOnSet(f, T) \in Nat /\ SumFunctionOnSet(f, S \ T) \in Nat
  BY <1>1, SumIsNat
<1>3. SumFunctionOnSet(f, S) = SumFunctionOnSet(f, T) + SumFunctionOnSet(f, S \ T)
  <2>1. \A x \in T \cup (S \ T) : f[x] \in Int
    OBVIOUS
  <2> HIDE <1>2
  <2> QED BY ONLY <1>1, <2>1, SumOfUnion
<1> QED BY <1>2, <1>3

LEMMA SumOfOne ==
  ASSUME NEW x, NEW f, f[x] \in Int PROVE SumFunctionOnSet(f, {x}) = f[x]
<1>1. IsFiniteSet({x}) /\ {x} \ {x} = {}
  BY FS_Singleton
<1>2. SumFunctionOnSet(f, {x}) = SumFunctionOnSet(f, {x} \ {x}) + f[x]
  BY <1>1, SumOfMore
<1> QED BY <1>1, <1>2, SumOfNone

-----------------------------------------------------------------------------
(* Extremes. *)

\* A finite set has a highest element by any measure, and so a maximum and a minimum.
LEMMA HighestOf ==
  ASSUME NEW S, IsFiniteSet(S), S # {}, NEW f, \A x \in S : f[x] \in Int
  PROVE \E m \in S : \A x \in S : f[x] <= f[m]
<1> DEFINE Good == {R \in SUBSET S : R # {} => \E m \in R : \A x \in R : f[x] <= f[m]}
<1>1. ASSUME NEW R \in SUBSET S, \A Q \in SUBSET R : Q # R => Q \in Good PROVE R \in Good
  <2> SUFFICES ASSUME NEW y \in R PROVE \E m \in R : \A x \in R : f[x] <= f[m]
    OBVIOUS
  <2>1. CASE R = {y}
    BY <2>1
  <2>2. CASE R # {y}
    <3>1. R \ {y} \in Good /\ R \ {y} # {}
      BY <1>1, <2>2
    <3>2. PICK m \in R \ {y} : \A x \in R \ {y} : f[x] <= f[m]
      BY <3>1
    <3>3. f[y] \in Int /\ f[m] \in Int /\ \A x \in R : x = y \/ f[x] <= f[m]
      BY <3>2
    <3> QED BY <3>3
  <2> QED BY <2>1, <2>2
<1>2. SUBSET S \subseteq Good
  <2> HIDE DEF Good
  <2> QED BY <1>1, SubsetInduction
<1> QED BY <1>2

LEMMA MaxOf ==
  ASSUME NEW S, IsFiniteSet(S), S # {}, S \subseteq Int
  PROVE Max(S) \in S /\ \A x \in S : x <= Max(S)
<1> DEFINE f == [x \in S |-> x]
<1>1. \E m \in S : \A x \in S : f[x] <= f[m]
  BY HighestOf
<1>2. \E m \in S : \A x \in S : m >= x
  BY <1>1
<1> QED BY <1>2 DEF Max

LEMMA MinOf ==
  ASSUME NEW S, IsFiniteSet(S), S # {}, S \subseteq Int
  PROVE Min(S) \in S /\ \A x \in S : Min(S) <= x
<1> DEFINE f == [x \in S |-> -x]
<1>1. \E m \in S : \A x \in S : f[x] <= f[m]
  <2>1. \A x \in S : f[x] \in Int
    OBVIOUS
  <2> HIDE DEF f
  <2> QED BY <2>1, HighestOf
<1>2. \E m \in S : \A x \in S : m <= x
  BY <1>1
<1> QED BY <1>2 DEF Min

LEMMA ImageFinite ==
  ASSUME NEW S, IsFiniteSet(S), NEW f
  PROVE IsFiniteSet({f[x] : x \in S})
<1> DEFINE T == {f[x] : x \in S}
           g == [x \in S |-> f[x]]
<1>1. g \in Surjection(S, T)
  BY DEF Surjection
<1> HIDE DEF g, T
<1>2. IsFiniteSet(T)
  BY <1>1, FS_Surjection
<1> QED BY <1>2 DEF T

LEMMA FourFinite == ASSUME NEW a, NEW b, NEW c, NEW d PROVE IsFiniteSet({a, b, c, d})
<1>1. IsFiniteSet({a})
  BY FS_Singleton
<1>2. IsFiniteSet({a} \cup {b})
  BY <1>1, FS_AddElement
<1>3. IsFiniteSet(({a} \cup {b}) \cup {c})
  BY <1>2, FS_AddElement
<1>4. IsFiniteSet((({a} \cup {b}) \cup {c}) \cup {d})
  BY <1>3, FS_AddElement
<1>5. (({a} \cup {b}) \cup {c}) \cup {d} = {a, b, c, d}
  OBVIOUS
<1> QED BY <1>4, <1>5

\* Sums of the same values are the same; sums are linear.
LEMMA SumSame ==
  ASSUME NEW S, IsFiniteSet(S), NEW f, NEW g, \A x \in S : f[x] \in Int /\ f[x] = g[x]
  PROVE SumFunctionOnSet(f, S) = SumFunctionOnSet(g, S)
<1> DEFINE P(R) == SumFunctionOnSet(f, R)
           Q(R) == SumFunctionOnSet(g, R)
           Good == {R \in SUBSET S : P(R) = Q(R)}
<1>1. ASSUME NEW R \in SUBSET S, \A T \in SUBSET R : T # R => T \in Good PROVE R \in Good
  <2>1. CASE R = {}
    BY <2>1, SumOfNone
  <2>2. ASSUME NEW x \in R PROVE R \in Good
    <3>1. R \ {x} \in Good /\ IsFiniteSet(R)
      BY <1>1, FS_Subset
    <3>2. P(R) = P(R \ {x}) + f[x] /\ Q(R) = Q(R \ {x}) + g[x]
      BY <3>1, SumOfMore
    <3> QED BY <3>1, <3>2
  <2> QED BY <2>1, <2>2
<1>2. SUBSET S \subseteq Good
  <2> HIDE DEF Good
  <2> QED BY <1>1, SubsetInduction
<1> QED BY <1>2

LEMMA SumOfSum ==
  ASSUME NEW S, IsFiniteSet(S), NEW f, NEW g, NEW h,
         \A x \in S : f[x] \in Int /\ g[x] \in Int /\ h[x] = f[x] + g[x]
  PROVE SumFunctionOnSet(h, S) = SumFunctionOnSet(f, S) + SumFunctionOnSet(g, S)
<1> DEFINE P(R) == SumFunctionOnSet(f, R)
           Q(R) == SumFunctionOnSet(g, R)
           H(R) == SumFunctionOnSet(h, R)
           Good == {R \in SUBSET S : H(R) = P(R) + Q(R)}
<1>1. ASSUME NEW R \in SUBSET S, \A T \in SUBSET R : T # R => T \in Good PROVE R \in Good
  <2>1. CASE R = {}
    BY <2>1, SumOfNone
  <2>2. ASSUME NEW x \in R PROVE R \in Good
    <3>1. R \ {x} \in Good /\ IsFiniteSet(R) /\ IsFiniteSet(R \ {x})
      BY <1>1, FS_Subset
    <3>2. P(R) = P(R \ {x}) + f[x] /\ Q(R) = Q(R \ {x}) + g[x] /\ H(R) = H(R \ {x}) + h[x]
      BY <3>1, SumOfMore
    <3>3. P(R \ {x}) \in Int /\ Q(R \ {x}) \in Int
      BY <3>1, SumIsInt
    <3>4. f[x] \in Int /\ g[x] \in Int /\ h[x] = f[x] + g[x]
      OBVIOUS
    <3>5. H(R \ {x}) = P(R \ {x}) + Q(R \ {x})
      BY <3>1
    <3> HIDE DEF P, Q, H
    <3>6. H(R) = P(R) + Q(R)
      BY ONLY <3>2, <3>3, <3>4, <3>5
    <3> QED BY <3>6
  <2> QED BY <2>1, <2>2
<1>2. SUBSET S \subseteq Good
  <2> HIDE DEF Good
  <2> QED BY <1>1, SubsetInduction
<1> QED BY <1>2

LEMMA SumOfTimes ==
  ASSUME NEW S, IsFiniteSet(S), NEW f, NEW c \in Int, NEW h,
         \A x \in S : f[x] \in Int /\ h[x] = c * f[x]
  PROVE SumFunctionOnSet(h, S) = c * SumFunctionOnSet(f, S)
<1> DEFINE P(R) == SumFunctionOnSet(f, R)
           H(R) == SumFunctionOnSet(h, R)
           Good == {R \in SUBSET S : H(R) = c * P(R)}
<1>1. ASSUME NEW R \in SUBSET S, \A T \in SUBSET R : T # R => T \in Good PROVE R \in Good
  <2>1. CASE R = {}
    BY <2>1, SumOfNone
  <2>2. ASSUME NEW x \in R PROVE R \in Good
    <3>1. R \ {x} \in Good /\ IsFiniteSet(R) /\ IsFiniteSet(R \ {x})
      BY <1>1, FS_Subset
    <3>2. P(R) = P(R \ {x}) + f[x] /\ H(R) = H(R \ {x}) + h[x]
      BY <3>1, SumOfMore
    <3>3. P(R \ {x}) \in Int
      BY <3>1, SumIsInt
    <3>4. f[x] \in Int /\ h[x] = c * f[x] /\ c \in Int
      OBVIOUS
    <3>5. H(R \ {x}) = c * P(R \ {x})
      BY <3>1
    <3> HIDE DEF P, H
    <3>6. H(R) = c * P(R)
      BY ONLY <3>2, <3>3, <3>4, <3>5
    <3> QED BY <3>6
  <2> QED BY <2>1, <2>2
<1>2. SUBSET S \subseteq Good
  <2> HIDE DEF Good
  <2> QED BY <1>1, SubsetInduction
<1> QED BY <1>2

\* The smaller function has the smaller sum, and with the same sum it is no smaller.
LEMMA SumLeq ==
  ASSUME NEW S, IsFiniteSet(S), NEW f, NEW g,
         \A x \in S : f[x] \in Int /\ g[x] \in Int /\ f[x] <= g[x]
  PROVE /\ SumFunctionOnSet(f, S) <= SumFunctionOnSet(g, S)
        /\ SumFunctionOnSet(f, S) = SumFunctionOnSet(g, S) => \A x \in S : f[x] = g[x]
<1> DEFINE h == [x \in S |-> g[x] - f[x]]
           F == SumFunctionOnSet(f, S)
           G == SumFunctionOnSet(g, S)
           H == SumFunctionOnSet(h, S)
<1>1. \A x \in S : h[x] \in Nat /\ g[x] = f[x] + h[x]
  OBVIOUS
<1> HIDE DEF h
<1>2. F \in Int /\ H \in Nat
  BY <1>1, SumIsInt, SumIsNat
<1>3. G = F + H
  BY <1>1, SumOfSum
<1>4. ASSUME NEW x \in S PROVE h[x] <= H
  <2>0. \A y \in S : h[y] \in Nat
    BY <1>1
  <2>1. SumFunctionOnSet(h, {x}) <= SumFunctionOnSet(h, S)
    BY ONLY IsFiniteSet(S), <2>0, SumGrows, {x} \in SUBSET S
  <2>2. h[x] \in Int
    BY <2>0
  <2>3. SumFunctionOnSet(h, {x}) = h[x]
    BY ONLY <2>2, SumOfOne
  <2> QED BY <2>1, <2>3
<1> HIDE DEF F, G, H
<1>5. ASSUME F = G, NEW x \in S PROVE f[x] = g[x]
  <2>1. H = 0 /\ h[x] <= H /\ h[x] \in Nat /\ g[x] = f[x] + h[x] /\ f[x] \in Int
    BY <1>1, <1>2, <1>3, <1>4, <1>5
  <2> QED BY ONLY <2>1
<1>6. F <= G
  BY <1>2, <1>3
<1> QED BY <1>5, <1>6 DEF F, G

LEMMA SumOfMarks ==
  ASSUME NEW S, IsFiniteSet(S), NEW T \in SUBSET S, NEW h,
         \A x \in S : h[x] = IF x \in T THEN 1 ELSE 0
  PROVE SumFunctionOnSet(h, S) = Cardinality(T)
<1> DEFINE H(R) == SumFunctionOnSet(h, R)
           Good == {R \in SUBSET S : H(R) = Cardinality(T \cap R)}
<1>1. ASSUME NEW R \in SUBSET S, \A Q \in SUBSET R : Q # R => Q \in Good PROVE R \in Good
  <2>1. CASE R = {}
    <3>1. T \cap R = {}
      BY <2>1
    <3> QED BY <2>1, <3>1, SumOfNone, FS_EmptySet
  <2>2. ASSUME NEW x \in R PROVE R \in Good
    <3>1. R \ {x} \in Good /\ IsFiniteSet(R) /\ IsFiniteSet(T \cap R)
      BY <1>1, FS_Subset
    <3>2. \A y \in R : h[y] \in Int
      OBVIOUS
    <3>3. H(R) = H(R \ {x}) + h[x]
      BY <3>1, <3>2, SumOfMore
    <3>4. H(R \ {x}) = Cardinality(T \cap (R \ {x}))
      BY <3>1
    <3>5. CASE x \in T
      <4>1. T \cap (R \ {x}) = (T \cap R) \ {x} /\ x \in T \cap R
        BY <3>5
      <4>2. Cardinality((T \cap R) \ {x}) = Cardinality(T \cap R) - 1 /\ Cardinality(T \cap R) \in Nat
        BY <3>1, <4>1, FS_RemoveElement, FS_CardinalityType
      <4>3. h[x] = 1
        BY <3>5
      <4>4. Cardinality(T \cap (R \ {x})) = Cardinality((T \cap R) \ {x})
        BY ONLY <4>1
      <4> HIDE DEF H
      <4>5. H(R) = Cardinality(T \cap R)
        BY ONLY <3>3, <3>4, <4>2, <4>3, <4>4
      <4> QED BY <4>5 DEF H
    <3>6. CASE x \notin T
      <4>1. T \cap (R \ {x}) = T \cap R /\ h[x] = 0
        BY <3>6
      <4>2. Cardinality(T \cap R) \in Nat
        BY <3>1, FS_CardinalityType
      <4>3. Cardinality(T \cap (R \ {x})) = Cardinality(T \cap R)
        BY ONLY <4>1
      <4> HIDE DEF H
      <4>4. H(R) = Cardinality(T \cap R)
        BY ONLY <3>3, <3>4, <4>1, <4>2, <4>3
      <4> QED BY <4>4 DEF H
    <3> QED BY <3>5, <3>6
  <2> QED BY <2>1, <2>2
<1>2. SUBSET S \subseteq Good
  <2> HIDE DEF Good
  <2> QED BY <1>1, SubsetInduction
<1>3. T \cap S = T
  OBVIOUS
<1> QED BY <1>2, <1>3

\* A sum over disjoint sets is the sum of their sums.
Parts(K, F, f, g) ==
  /\ IsFiniteSet(K)
  /\ \A k \in K : IsFiniteSet(F[k]) /\ \A x \in F[k] : f[x] \in Int
  /\ \A k, l \in K : k # l => F[k] \cap F[l] = {}
  /\ \A k \in K : g[k] = SumFunctionOnSet(f, F[k])

\* A sum over disjoint sets is the sum of their sums.
LEMMA SumOfParts ==
  ASSUME NEW K, NEW F, NEW f, NEW g, Parts(K, F, f, g)
  PROVE SumFunctionOnSet(g, K) = SumFunctionOnSet(f, UNION {F[k] : k \in K})
<1> USE DEF Parts
<1> DEFINE All(R) == UNION {F[k] : k \in R}
           Good == {R \in SUBSET K : IsFiniteSet(All(R))
                      /\ SumFunctionOnSet(g, R) = SumFunctionOnSet(f, All(R))}
<1>1. ASSUME NEW R \in SUBSET K, \A Q \in SUBSET R : Q # R => Q \in Good PROVE R \in Good
  <2>1. CASE R = {}
    <3>1. All(R) = {}
      BY <2>1
    <3> QED BY <2>1, <3>1, SumOfNone, FS_EmptySet
  <2>2. ASSUME NEW k \in R PROVE R \in Good
    <3> DEFINE Q == R \ {k}
    <3>1. IsFiniteSet(All(Q)) /\ SumFunctionOnSet(g, Q) = SumFunctionOnSet(f, All(Q))
      BY <1>1
    <3>2. All(R) = All(Q) \cup F[k] /\ All(Q) \cap F[k] = {}
      OBVIOUS
    <3>3. IsFiniteSet(F[k]) /\ IsFiniteSet(R) /\ \A x \in All(Q) \cup F[k] : f[x] \in Int
      BY FS_Subset
    <3>4. SumFunctionOnSet(f, All(R)) = SumFunctionOnSet(f, All(Q)) + SumFunctionOnSet(f, F[k])
      <4> HIDE DEF All, Q
      <4> QED BY <3>1, <3>2, <3>3, SumOfUnion
    <3>5. SumFunctionOnSet(g, R) = SumFunctionOnSet(g, Q) + g[k]
      <4>1. \A l \in R : SumFunctionOnSet(f, F[l]) \in Int
        BY SumIsInt
      <4>2. \A l \in R : g[l] \in Int
        BY <4>1
      <4> QED BY <3>3, <4>2, SumOfMore
    <3>6. IsFiniteSet(All(R))
      <4> HIDE DEF All, Q
      <4>1. IsFiniteSet(All(Q) \cup F[k])
        BY ONLY <3>1, <3>3, FS_Union
      <4> QED BY ONLY <3>2, <4>1
    <3>7. g[k] = SumFunctionOnSet(f, F[k])
      OBVIOUS
    <3> HIDE DEF All, Q
    <3> QED BY <3>1, <3>4, <3>5, <3>6, <3>7
  <2> QED BY <2>1, <2>2
<1>2. SUBSET K \subseteq Good
  <2> HIDE DEF Good
  <2> QED BY <1>1, SubsetInduction
<1> QED BY <1>2

\* The sum of a matrix by rows is its sum by columns.
LEMMA SumExchange ==
  ASSUME NEW I, NEW J, IsFiniteSet(I), IsFiniteSet(J), NEW m,
         \A i \in I, j \in J : m[i][j] \in Int
  PROVE SumFunctionOnSet([i \in I |-> SumFunctionOnSet(m[i], J)], I)
          = SumFunctionOnSet([j \in J |-> SumFunctionOnSet([i \in I |-> m[i][j]], I)], J)
<1> DEFINE r == [i \in I |-> SumFunctionOnSet(m[i], J)]
           c(j) == [i \in I |-> m[i][j]]
           d(R) == [j \in J |-> SumFunctionOnSet(c(j), R)]
           Good == {R \in SUBSET I : SumFunctionOnSet(r, R) = SumFunctionOnSet(d(R), J)}
<1>0. \A j \in J : \A i \in I : c(j)[i] = m[i][j] /\ c(j)[i] \in Int
  OBVIOUS
<1>1. ASSUME NEW R \in SUBSET I, \A Q \in SUBSET R : Q # R => Q \in Good PROVE R \in Good
  <2>0. IsFiniteSet(R) /\ \A x \in R : IsFiniteSet(R \ {x})
    BY FS_Subset
  <2>1. CASE R = {}
    <3>1. \A j \in J : d(R)[j] = 0
      BY <2>1, SumOfNone
    <3>2. SumFunctionOnSet(d(R), J) = 0 * SumFunctionOnSet([j \in J |-> 0], J)
      <4> HIDE DEF d
      <4>1. \A j \in J : [k \in J |-> 0][j] \in Int /\ d(R)[j] = 0 * [k \in J |-> 0][j]
        BY <3>1
      <4> QED BY <4>1, SumOfTimes
    <3>3. SumFunctionOnSet([j \in J |-> 0], J) \in Int
      BY SumIsInt
    <3> QED BY <2>1, <3>2, <3>3, SumOfNone
  <2>2. ASSUME NEW x \in R PROVE R \in Good
    <3> DEFINE Q == R \ {x}
    <3>1. SumFunctionOnSet(r, Q) = SumFunctionOnSet(d(Q), J)
      BY <1>1
    <3>2. SumFunctionOnSet(r, R) = SumFunctionOnSet(r, Q) + SumFunctionOnSet(m[x], J)
      <4>1. \A i \in R : r[i] \in Int
        BY SumIsInt
      <4>2. r[x] = SumFunctionOnSet(m[x], J)
        OBVIOUS
      <4> HIDE DEF r
      <4> QED BY <2>0, <4>1, <4>2, SumOfMore
    <3>3. \A j \in J : d(Q)[j] \in Int /\ m[x][j] \in Int /\ d(R)[j] = d(Q)[j] + m[x][j]
      <4> SUFFICES ASSUME NEW j \in J
                   PROVE d(Q)[j] \in Int /\ m[x][j] \in Int /\ d(R)[j] = d(Q)[j] + m[x][j]
        OBVIOUS
      <4>1. \A i \in R : c(j)[i] \in Int
        BY <1>0
      <4>2. c(j)[x] = m[x][j]
        OBVIOUS
      <4> HIDE DEF c
      <4>3. SumFunctionOnSet(c(j), R) = SumFunctionOnSet(c(j), Q) + c(j)[x]
        BY <2>0, <4>1, SumOfMore
      <4>4. SumFunctionOnSet(c(j), Q) \in Int
        BY <2>0, <4>1, SumIsInt
      <4> QED BY <4>2, <4>3, <4>4
    <3>4. SumFunctionOnSet(d(R), J) = SumFunctionOnSet(d(Q), J) + SumFunctionOnSet(m[x], J)
      <4> HIDE DEF d, Q
      <4> QED BY <3>3, SumOfSum
    <3> HIDE DEF d, r, Q
    <3> QED BY <3>1, <3>2, <3>4
  <2> QED BY <2>1, <2>2
<1>2. SUBSET I \subseteq Good
  <2> HIDE DEF Good
  <2> QED BY <1>1, SubsetInduction
<1>3. SumFunctionOnSet(r, I) = SumFunctionOnSet(d(I), J)
  <2> HIDE DEF r, d
  <2> QED BY <1>2
<1> QED BY <1>3

-----------------------------------------------------------------------------
(* Regions: the search for the cells of one label around a cell. *)

\* What one step of the search for a region does.
Spread(lab, i, R) == R \cup {j \in Cells : lab[j] = lab[i] /\ Neighbors(j) \cap R # {}}

\* The sets a search from cell i reaches after each of its first n steps.
IsSearch(g, lab, i, n) ==
  /\ g = [k \in 0..n |-> g[k]] /\ g[0] = {i}
  /\ \A k \in 1..n : g[k] = Spread(lab, i, g[k - 1])

\* A recursive function again: it exists, and is the one the model names.
LEMMA SearchExists ==
  ASSUME NEW lab, NEW i, NEW n \in Nat PROVE \E g : IsSearch(g, lab, i, n)
<1> DEFINE Good == {k \in Nat : \E g : IsSearch(g, lab, i, k)}
<1>1. 0 \in Good
  <2> DEFINE g == [k \in 0..0 |-> {i}]
  <2>1. IsSearch(g, lab, i, 0)
    BY DEF IsSearch
  <2> HIDE DEF g
  <2> QED BY <2>1
<1>2. ASSUME NEW m \in Nat, m \in Good PROVE m + 1 \in Good
  <2>1. PICK g : IsSearch(g, lab, i, m)
    BY <1>2
  <2> DEFINE h == [k \in 0..(m + 1) |-> IF k <= m THEN g[k] ELSE Spread(lab, i, g[m])]
  <2>2. h[0] = {i} /\ h = [k \in 0..(m + 1) |-> h[k]]
    BY <2>1 DEF IsSearch
  <2>3. \A k \in 0..m : h[k] = g[k]
    OBVIOUS
  <2>4. h[m + 1] = Spread(lab, i, g[m])
    OBVIOUS
  <2> HIDE DEF h
  <2>5. ASSUME NEW k \in 1..(m + 1) PROVE h[k] = Spread(lab, i, h[k - 1])
    <3>1. k - 1 \in 0..m /\ h[k - 1] = g[k - 1]
      BY <2>3
    <3>2. CASE k = m + 1
      BY <2>4, <3>1, <3>2
    <3>3. CASE k # m + 1
      <4>1. k \in 1..m /\ k \in 0..m
        BY <3>3
      <4> QED BY <2>1, <2>3, <3>1, <4>1 DEF IsSearch
    <3> QED BY <3>2, <3>3
  <2>6. IsSearch(h, lab, i, m + 1)
    BY <2>2, <2>5 DEF IsSearch
  <2> QED BY <2>6
<1>3. Nat \subseteq Good
  <2> HIDE DEF Good
  <2> QED BY <1>1, <1>2, NatInductionOnSet
<1> QED BY <1>3

SearchBody(lab, i, g, k) == IF k = 0 THEN {i} ELSE Spread(lab, i, g[k - 1])
RegionSearched(lab, i, n) == CHOOSE g : g = [k \in 0..n |-> SearchBody(lab, i, g, k)]

LEMMA RegionIsSearched ==
  ASSUME NEW lab, NEW i
  PROVE Region(lab, i) = RegionSearched(lab, i, given.count)[given.count]
BY Zenon DEF Region, RegionSearched, SearchBody, Spread

\* The region of the model is where that search ends.
LEMMA RegionSearch ==
  ASSUME NEW lab, NEW i, NEW n \in Nat
  PROVE IsSearch(RegionSearched(lab, i, n), lab, i, n)
<1> DEFINE r == RegionSearched(lab, i, n)
<1>1. PICK h : IsSearch(h, lab, i, n)
  BY SearchExists
<1>2. \A k \in 0..n : h[k] = SearchBody(lab, i, h, k)
  <2>1. \A k \in 0..n : k = 0 \/ k \in 1..n
    OBVIOUS
  <2> QED BY <1>1, <2>1 DEF IsSearch, SearchBody
<1>3. h = [k \in 0..n |-> SearchBody(lab, i, h, k)]
  BY <1>1, <1>2 DEF IsSearch
<1>4. r = [k \in 0..n |-> SearchBody(lab, i, r, k)]
  BY <1>3 DEF RegionSearched
<1> HIDE DEF r
<1>5. \A k \in 0..n : r[k] = SearchBody(lab, i, r, k)
  BY <1>4
<1>6. r = [k \in 0..n |-> r[k]]
  BY <1>4, <1>5
<1>7. r[0] = {i}
  BY <1>5 DEF SearchBody
<1>8. \A k \in 1..n : r[k] = Spread(lab, i, r[k - 1])
  BY <1>5 DEF SearchBody
<1>9. IsSearch(r, lab, i, n)
  BY <1>6, <1>7, <1>8 DEF IsSearch
<1> QED BY <1>9 DEF r

\* A set of cells no neighbour of class c can join, unless it is a member.
Closed(lab, c, T) == \A y \in Cells : lab[y] = c /\ Neighbors(y) \cap T # {} => y \in T

\* The region of a cell is the smallest closed set around it, of cells of its class.
LEMMA RegionIs ==
  ASSUME given.count \in Nat, NEW lab, NEW i \in Cells
  PROVE /\ i \in Region(lab, i) /\ Region(lab, i) \subseteq Cells
        /\ \A x \in Region(lab, i) : lab[x] = lab[i]
        /\ Closed(lab, lab[i], Region(lab, i))
        /\ \A T : i \in T /\ Closed(lab, lab[i], T) => Region(lab, i) \subseteq T
<1> DEFINE n == given.count
           r == RegionSearched(lab, i, n)
           S(R) == Spread(lab, i, R)
           Like == {y \in Cells : lab[y] = lab[i]}
<1>0. n \in Nat /\ Cells = 1..n /\ Region(lab, i) = r[n]
  BY RegionIsSearched DEF Cells
<1>1. r[0] = {i} /\ \A k \in Nat : k < n => r[k + 1] = S(r[k])
  <2>1. IsSearch(r, lab, i, n)
    BY <1>0, RegionSearch
  <2>2. \A k \in Nat : k < n => k + 1 \in 1..n /\ (k + 1) - 1 = k
    BY <1>0
  <2> HIDE DEF r, n
  <2> QED BY <2>1, <2>2 DEF IsSearch
<1>2. IsFiniteSet(Cells) /\ Cardinality(Cells) = n
  BY <1>0, FS_Interval
<1> HIDE DEF n, r
<1>3. \A R : R \subseteq S(R) /\ (R \subseteq Like => S(R) \subseteq Like)
            /\ (Closed(lab, lab[i], R) => S(R) = R)
  BY DEF Spread, Closed
<1>4. \A R : S(R) = R => Closed(lab, lab[i], R)
  BY DEF Spread, Closed
<1>5. \A R, T : R \subseteq T /\ Closed(lab, lab[i], T) => S(R) \subseteq T
  BY DEF Spread, Closed
<1> HIDE DEF S
<1>6. /\ n \in Nat \ {0} /\ n - 1 \in Nat /\ i \in r[n] /\ r[n] \subseteq Cells /\ r[n] = r[n - 1]
      /\ \A T : i \in T /\ (\A k \in Nat : k < n /\ r[k] \subseteq T => r[k + 1] \subseteq T)
                  => r[n] \subseteq T
  <2>1. \A k \in Nat : k < n /\ r[k] \subseteq Cells => r[k + 1] \subseteq Cells
    BY <1>1 DEF S, Spread
  <2>2. \A k \in Nat : k < n => r[k] \subseteq r[k + 1]
    BY <1>1, <1>3
  <2>3. \A k \in Nat : k + 1 < n /\ r[k + 1] = r[k] => r[k + 1 + 1] = r[k + 1]
    <3>1. \A k \in Nat : k + 1 < n => k + 1 \in Nat /\ k < n
      BY <1>0
    <3> QED BY <1>1, <3>1
  <2> QED BY <1>1, <1>2, <2>1, <2>2, <2>3, ChainSettles
<1>7. i \in Like /\ r[n] \subseteq Like
  <2>1. i \in Like
    OBVIOUS
  <2> HIDE DEF Like
  <2> QED BY <1>1, <1>3, <1>6, <2>1
<1>8. Closed(lab, lab[i], r[n])
  <2>1. r[(n - 1) + 1] = S(r[n - 1]) /\ (n - 1) + 1 = n
    BY <1>1, <1>6
  <2> QED BY <1>4, <1>6, <2>1
<1>9. \A T : i \in T /\ Closed(lab, lab[i], T) => r[n] \subseteq T
  BY <1>1, <1>5, <1>6
<1> QED BY <1>0, <1>6, <1>7, <1>8, <1>9

(* Zoning. *)

LEMMA ClassesAre == ClassIds = 1..4 /\ ClassIds = {1, 2, 3, 4}
BY DEF ClassIds, ZoneClasses

\* What the assumptions say of a zoning request.
LEMMA PlanFacts ==
  ASSUME given \in ZoningCases
  PROVE /\ Unit \in Nat \ {0} /\ given.count \in Nat \ {0} /\ IsFiniteSet(Cells)
        /\ given.share \in [ClassIds -> 0..Unit] /\ SumFunction(given.share) = Unit
        /\ given.minimum \in [ClassIds -> Nat \ {0}]
        /\ \A p \in given.plats : /\ p.area \in [Cells -> Nat \ {0}]
                                  /\ p.borders \subseteq kSubset(2, Cells)
<1>1. ZoningInput(given) /\ Unit \in Nat \ {0}
  BY ZoningAssumption
<1>2. given.count \in Nat \ {0} /\ Cells = 1..given.count
  BY <1>1 DEF ZoningInput, Cells
<1>3. IsFiniteSet(Cells)
  BY <1>2, FS_Interval
<1>4. /\ given.share \in [ClassIds -> 0..Unit] /\ SumFunction(given.share) = Unit
      /\ given.minimum \in [ClassIds -> Nat \ {0}]
  BY <1>1 DEF ZoningInput
<1>5. \A p \in given.plats : /\ p.area \in [Cells -> Nat \ {0}]
                              /\ p.borders \subseteq kSubset(2, Cells)
  BY <1>1, <1>2 DEF ZoningInput
<1> QED BY <1>1, <1>2, <1>3, <1>4, <1>5

LEMMA FourTerms ==
  ASSUME NEW f \in [ClassIds -> Int]
  PROVE SumFunction(f) = f[1] + f[2] + f[3] + f[4]
<1> DEFINE Sigma(R) == SumFunctionOnSet(f, R)
<1>0. ClassIds = {1, 2, 3, 4}
  BY ClassesAre
<1>1. DOMAIN f = {1, 2, 3, 4} /\ \A z \in {1, 2, 3, 4} : f[z] \in Int
  BY ONLY <1>0, f \in [ClassIds -> Int]
<1>2. \A R \in SUBSET {1, 2, 3, 4} : IsFiniteSet(R)
  <2>1. IsFiniteSet({1, 2, 3, 4})
    BY FourFinite
  <2> QED BY <2>1, FS_Subset
<1>3. ASSUME NEW R \in SUBSET {1, 2, 3, 4}, NEW z \in R PROVE Sigma(R) = Sigma(R \ {z}) + f[z]
  BY <1>1, <1>2, SumOfMore
<1>4. /\ {1, 2, 3, 4} \ {4} = {1, 2, 3} /\ {1, 2, 3} \ {3} = {1, 2}
      /\ {1, 2} \ {2} = {1} /\ {1} \ {1} = {}
  OBVIOUS
<1>5. Sigma({}) = 0 /\ SumFunction(f) = Sigma({1, 2, 3, 4})
  BY <1>1, SumOfNone DEF SumFunction
<1> HIDE DEF Sigma
<1>6. Sigma({1}) = f[1]
  BY <1>1, <1>3, <1>4, <1>5
<1>7. Sigma({1, 2}) = f[1] + f[2]
  BY <1>3, <1>4, <1>6
<1>8. Sigma({1, 2, 3}) = f[1] + f[2] + f[3]
  BY <1>3, <1>4, <1>7
<1>9. Sigma({1, 2, 3, 4}) = f[1] + f[2] + f[3] + f[4]
  BY <1>3, <1>4, <1>8
<1> QED BY <1>5, <1>9

\* What is dealt out and what is left make up the land.
LEMMA AreasAddUp ==
  ASSUME given \in ZoningCases, plat \in given.plats, NEW lab \in [Cells -> {0} \cup ClassIds]
  PROVE /\ \A z \in {0} \cup ClassIds : LabelArea(lab, z) \in Nat
        /\ Developable = LabelArea(lab, 0) + LabelArea(lab, 1) + LabelArea(lab, 2)
                           + LabelArea(lab, 3) + LabelArea(lab, 4)
<1> DEFINE P(z) == {i \in Cells : lab[i] = z}
           Sigma(R) == SumFunctionOnSet(plat.area, R)
<1>1. /\ IsFiniteSet(Cells) /\ plat.area \in [Cells -> Nat \ {0}]
      /\ \A R \in SUBSET Cells : IsFiniteSet(R)
  BY PlanFacts, FS_Subset
<1>2. \A R \in SUBSET Cells : Sigma(R) \in Nat
  BY <1>1, SumIsNat
<1>3. ASSUME NEW S \in SUBSET Cells, NEW T \in SUBSET Cells, S \cap T = {}
      PROVE Sigma(S \cup T) = Sigma(S) + Sigma(T)
  <2>1. \A x \in S \cup T : plat.area[x] \in Int
    BY <1>1
  <2> QED BY ONLY <1>1, <1>3, <2>1, SumOfUnion
<1>4. \A z : P(z) \in SUBSET Cells /\ Sigma(P(z)) = LabelArea(lab, z)
  BY DEF LabelArea
<1>5. Developable = Sigma(Cells)
  BY <1>1 DEF Developable, SumFunction
<1>6. Cells = P(0) \cup (P(1) \cup (P(2) \cup (P(3) \cup P(4))))
  BY ClassesAre
<1>7. /\ P(3) \cap P(4) = {} /\ P(2) \cap (P(3) \cup P(4)) = {}
      /\ P(1) \cap (P(2) \cup (P(3) \cup P(4))) = {}
      /\ P(0) \cap (P(1) \cup (P(2) \cup (P(3) \cup P(4)))) = {}
  OBVIOUS
<1> HIDE DEF P, Sigma
<1>8. Sigma(P(3) \cup P(4)) = Sigma(P(3)) + Sigma(P(4))
  BY <1>3, <1>4, <1>7
<1>9. Sigma(P(2) \cup (P(3) \cup P(4))) = Sigma(P(2)) + Sigma(P(3) \cup P(4))
  BY <1>3, <1>4, <1>7
<1>10. Sigma(P(1) \cup (P(2) \cup (P(3) \cup P(4)))) = Sigma(P(1)) + Sigma(P(2) \cup (P(3) \cup P(4)))
  BY <1>3, <1>4, <1>7
<1>11. Sigma(Cells) = Sigma(P(0)) + Sigma(P(1) \cup (P(2) \cup (P(3) \cup P(4))))
  BY <1>3, <1>4, <1>6, <1>7
<1>12. \A z : LabelArea(lab, z) \in Nat
  BY <1>2, <1>4
<1> QED BY <1>4, <1>5, <1>8, <1>9, <1>10, <1>11, <1>12

\* While a cell is left, some class still lacks land.
LEMMA SomeClassLacks ==
  ASSUME given \in ZoningCases, plat \in given.plats, label \in [Cells -> {0} \cup ClassIds],
         NEW i \in Cells, label[i] = 0
  PROVE /\ \A z \in ClassIds : Deficit(z) \in Int
        /\ \E z \in ClassIds : Deficit(z) > 0
<1> DEFINE D == Developable
           L(z) == LabelArea(label, z)
           s == given.share
<1>1. /\ \A z \in {0} \cup ClassIds : L(z) \in Nat
      /\ D = L(0) + L(1) + L(2) + L(3) + L(4)
  BY AreasAddUp
<1>2. L(0) > 0
  <2> DEFINE rest == {j \in Cells : label[j] = 0}
  <2>1. IsFiniteSet(rest) /\ \A x \in rest : plat.area[x] \in Nat
    BY PlanFacts, FS_Subset
  <2>2. SumFunctionOnSet(plat.area, {i}) = plat.area[i] /\ plat.area[i] > 0
    BY PlanFacts, SumOfOne
  <2>3. SumFunctionOnSet(plat.area, {i}) <= SumFunctionOnSet(plat.area, rest)
    BY <2>1, SumGrows, {i} \in SUBSET rest
  <2>4. SumFunctionOnSet(plat.area, rest) \in Nat /\ plat.area[i] \in Nat
    BY <2>1, SumIsNat, PlanFacts
  <2> QED BY <2>2, <2>3, <2>4 DEF LabelArea
<1>3. Unit = s[1] + s[2] + s[3] + s[4] /\ Unit \in Nat \ {0} /\ \A z \in ClassIds : s[z] \in Nat
  <2>1. /\ Unit \in Nat \ {0} /\ s \in [ClassIds -> 0..Unit] /\ SumFunction(s) = Unit
    BY PlanFacts
  <2>2. s \in [ClassIds -> Int]
    BY <2>1
  <2> HIDE DEF s
  <2> QED BY <2>1, <2>2, FourTerms
<1>4. \A z \in ClassIds : Deficit(z) = D * s[z] - Unit * L(z)
  BY DEF Deficit
<1> HIDE DEF D, L, s
<1>5. /\ D \in Nat /\ L(0) \in Nat /\ L(1) \in Nat /\ L(2) \in Nat /\ L(3) \in Nat /\ L(4) \in Nat
      /\ s[1] \in Nat /\ s[2] \in Nat /\ s[3] \in Nat /\ s[4] \in Nat
  BY <1>1, <1>3, ClassesAre
<1>6. Unit * L(0) > 0
  BY ONLY <1>2, <1>3, <1>5
<1>7. D * Unit = D * s[1] + D * s[2] + D * s[3] + D * s[4]
  BY ONLY <1>3, <1>5
<1>8. Unit * D = Unit * L(0) + Unit * L(1) + Unit * L(2) + Unit * L(3) + Unit * L(4)
  BY ONLY <1>1, <1>3, <1>5
<1>9. /\ \A z \in ClassIds : D * s[z] \in Int /\ Unit * L(z) \in Int
      /\ D * Unit = Unit * D /\ Unit * L(0) \in Int
  BY <1>1, <1>3, <1>5, ClassesAre
<1>10. Deficit(1) + Deficit(2) + Deficit(3) + Deficit(4) = Unit * L(0)
  BY <1>4, <1>7, <1>8, <1>9, ClassesAre
<1>11. \A z \in ClassIds : Deficit(z) \in Int
  BY <1>4, <1>9
<1>12. Deficit(1) > 0 \/ Deficit(2) > 0 \/ Deficit(3) > 0 \/ Deficit(4) > 0
  BY <1>6, <1>9, <1>10, <1>11, ClassesAre
<1> QED BY <1>11, <1>12, ClassesAre

\* A share of the land is not exceeded by as much as one cell, because a cell goes to
\* the class that lacks most, which lacks something.
LEMMA AssignKeeps ==
  ASSUME given \in ZoningCases, plat \in given.plats, label \in [Cells -> {0} \cup ClassIds],
         TargetsRespected, NEW i \in Cells, NEW z \in ClassIds, Assign(i, z)
  PROVE  TargetsRespected'
<1>1. /\ zoning = "assign" /\ label[i] = 0 /\ Needs(z)
      /\ label' = [label EXCEPT ![i] = z] /\ UNCHANGED <<zoning, given, plat>>
  BY DEF Assign
<1>2. \A y \in ClassIds : Deficit(y) \in Int
  BY <1>1, SomeClassLacks
<1>3. Deficit(z) > 0
  <2>1. PICK y \in ClassIds : Deficit(y) > 0
    BY <1>1, SomeClassLacks
  <2> QED BY <1>1, <1>2, <2>1 DEF Needs
<1> DEFINE A == plat.area
           Mine(y) == {k \in Cells : label[k] = y}
           Dealt(y) == {k \in Cells : label'[k] = y}
<1>4. /\ Dealt(z) = Mine(z) \cup {i} /\ i \notin Mine(z)
      /\ \A y \in ClassIds \ {z} : Dealt(y) = Mine(y)
  <2>1. ClassIds \subseteq Nat \ {0}
    BY ClassesAre
  <2> QED BY <1>1, <2>1
<1>5. Unit \in Nat \ {0} /\ IsFiniteSet(Cells) /\ A \in [Cells -> Nat \ {0}]
  BY PlanFacts
<1>6. \A y : Deficit(y)' = Developable * given.share[y] - Unit * SumFunctionOnSet(A, Dealt(y))
  BY <1>1 DEF Deficit, LabelArea, Developable, Cells
<1>7. \A y : Deficit(y) = Developable * given.share[y] - Unit * SumFunctionOnSet(A, Mine(y))
  BY DEF Deficit, LabelArea
<1>8. \A y \in ClassIds \ {z} : Deficit(y)' = Deficit(y)
  BY <1>4, <1>6, <1>7
<1>9. Deficit(z)' = Deficit(z) - Unit * A[i]
  <2> DEFINE a == SumFunctionOnSet(A, Mine(z))
             t == Developable * given.share[z]
  <2>1. SumFunctionOnSet(A, Dealt(z)) = a + A[i]
    <3>1. IsFiniteSet(Dealt(z)) /\ Dealt(z) \ {i} = Mine(z) /\ i \in Dealt(z)
      BY <1>4, <1>5, FS_Subset
    <3>2. \A x \in Dealt(z) : A[x] \in Int
      BY <1>5
    <3> QED BY ONLY <3>1, <3>2, SumOfMore
  <2>2. a \in Int
    <3>1. IsFiniteSet(Mine(z)) /\ \A x \in Mine(z) : A[x] \in Nat
      BY <1>5, FS_Subset
    <3>2. a \in Nat
      BY ONLY <3>1, SumIsNat
    <3> QED BY <3>2
  <2>3. t \in Int /\ A[i] \in Int
    <3>1. Developable \in Int
      BY <1>5, SumIsNat DEF Developable, SumFunction
    <3>2. given.share[z] \in Int
      BY PlanFacts
    <3> QED BY <1>5, <3>1, <3>2
  <2>4. Deficit(z) = t - Unit * a
    BY <1>7
  <2>5. Deficit(z)' = t - Unit * (a + A[i])
    BY <1>6, <2>1
  <2> HIDE DEF A, t, a
  <2> QED BY ONLY <1>5, <2>2, <2>3, <2>4, <2>5
<1>10. -Deficit(z)' < Unit * A[i]
  <2>1. Unit \in Int /\ A[i] \in Int /\ Deficit(z) \in Int
    BY <1>2, <1>5
  <2> HIDE DEF A
  <2> QED BY ONLY <1>3, <1>9, <2>1
<1>11. /\ Max({A[j] : j \in Dealt(z)}) \in Int
       /\ Unit * A[i] <= Unit * Max({A[j] : j \in Dealt(z)})
  <2>1. IsFiniteSet({A[j] : j \in Dealt(z)})
    <3>1. IsFiniteSet(Dealt(z))
      BY <1>5, FS_Subset
    <3> HIDE DEF A, Dealt
    <3> QED BY <3>1, ImageFinite
  <2>2. A[i] \in {A[j] : j \in Dealt(z)} /\ {A[j] : j \in Dealt(z)} \subseteq Int
    BY <1>4, <1>5
  <2> DEFINE V == {A[j] : j \in Dealt(z)}
             M == Max(V)
  <2>3. A[i] <= M /\ A[i] \in Int /\ M \in Int
    BY <2>1, <2>2, MaxOf
  <2>4. Unit \in Nat
    BY <1>5
  <2>5. Unit * A[i] <= Unit * M
    <3> HIDE DEF A, M, V
    <3> QED BY ONLY <2>3, <2>4
  <2> QED BY <2>3, <2>5
<1>12. -Deficit(z)' < Unit * Max({A[j] : j \in Dealt(z)})
  <2> DEFINE M == Unit * Max({A[j] : j \in Dealt(z)})
  <2>1. M \in Int /\ Unit * A[i] \in Int /\ Deficit(z)' \in Int
    <3>1. Max({A[j] : j \in Dealt(z)}) \in Int
      BY <1>11
    <3>2. Unit * A[i] \in Int
      BY <1>5
    <3> QED BY <1>2, <1>5, <1>9, <3>1, <3>2
  <2> HIDE DEF M
  <2> QED BY <1>10, <1>11, <2>1 DEF M
<1> QED
  <2> SUFFICES ASSUME NEW y \in ClassIds, Dealt(y) # {}
               PROVE -(Deficit(y)') < Unit * Max({A[j] : j \in Dealt(y)})
    BY <1>1 DEF TargetsRespected, Cells
  <2>1. CASE y = z
    BY <1>12, <2>1
  <2>2. CASE y # z
    <3>1. Dealt(y) = Mine(y) /\ Deficit(y)' = Deficit(y)
      BY <1>4, <1>8, <2>2
    <3>2. -Deficit(y) < Unit * Max({A[j] : j \in Mine(y)})
      BY <1>1, <3>1 DEF TargetsRespected
    <3> QED BY <3>1, <3>2
  <2> QED BY <2>1, <2>2

Labelled == zoning \in {"assign", "refine", "stable", "max_iterations"}
Refined == zoning \in {"refine", "stable", "max_iterations"}

\* The types that the proofs need of the labels.
ZoningInv ==
  /\ given \in ZoningCases
  /\ Labelled => plat \in given.plats /\ label \in [Cells -> {0} \cup ClassIds]
  /\ Refined => label \in [Cells -> ClassIds]

LEMMA CandidateIs ==
  ASSUME NEW m
  PROVE m \in Candidates <=>
          \E n \in Cells \X ClassIds :
            /\ n[2] # label[n[1]] /\ \E j \in Neighbors(n[1]) : label[j] = n[2]
            /\ m = [at |-> n, value |-> Objective([label EXCEPT ![n[1]] = n[2]])]
<1> DEFINE Value(n) == Objective([label EXCEPT ![n[1]] = n[2]])
           Free(n) == n[2] # label[n[1]] /\ \E j \in Neighbors(n[1]) : label[j] = n[2]
<1>1. Candidates = {[at |-> n, value |-> Value(n)] : n \in {n \in Cells \X ClassIds : Free(n)}}
  BY DEF Candidates
<1> HIDE DEF Value, Free
<1>2. m \in Candidates <=> \E n \in Cells \X ClassIds : Free(n) /\ m = [at |-> n, value |-> Value(n)]
  BY <1>1
<1> QED BY <1>2 DEF Value, Free

\* They hold of every state.
LEMMA ZoningStep == ZoningInv /\ [ZoningNext]_zoningVars => ZoningInv'
<1> SUFFICES ASSUME ZoningInv, [ZoningNext]_zoningVars PROVE ZoningInv'
  OBVIOUS
<1> USE DEF ZoningInv, Labelled, Refined, Cells
<1>1. CASE GenerateSeeds \/ Partition
  BY <1>1 DEF GenerateSeeds, Partition
<1>2. ASSUME NEW i \in Cells, NEW z \in ClassIds, Assign(i, z) PROVE ZoningInv'
  BY <1>2 DEF Assign
<1>3. CASE BeginRefinement
  BY <1>3 DEF BeginRefinement
<1>4. CASE Move
  <2>1. PICK m \in Improving : label' = [label EXCEPT ![m.at[1]] = m.at[2]]
    BY <1>4 DEF Move
  <2>2. m \in Candidates
    BY <2>1 DEF Improving
  <2>3. \A n, v : [at |-> n, value |-> v].at = n
    OBVIOUS
  <2>4. m.at \in Cells \X ClassIds
    <3>1. PICK n \in Cells \X ClassIds :
                 m = [at |-> n, value |-> Objective([label EXCEPT ![n[1]] = n[2]])]
      BY <2>2, CandidateIs, Zenon
    <3>2. m.at = n
      BY ONLY <2>3, <3>1, Zenon
    <3> QED BY <3>2
  <2>5. m.at[1] \in Cells /\ m.at[2] \in ClassIds
    BY <2>4
  <2> QED BY <1>4, <2>1, <2>5 DEF Move
<1>5. CASE Stop \/ EvaluateZones
  BY <1>5 DEF Stop, EvaluateZones
<1>6. CASE UNCHANGED zoningVars
  BY <1>6 DEF zoningVars
<1> QED BY <1>1, <1>2, <1>3, <1>4, <1>5, <1>6 DEF ZoningNext

LEMMA ZoningAlways == ZoningSpec => []ZoningInv
<1>1. ZoningInit => ZoningInv
  BY DEF ZoningInit, ZoningInv, Labelled, Refined
<1> QED BY <1>1, ZoningStep, PTL DEF ZoningSpec

\* Zones are dealt out by target shares, and none exceeds its share by as much as one cell.
THEOREM TargetsAreRespected == ZoningSpec => []TargetsRespected
<1>1. ZoningInit => TargetsRespected
  BY DEF ZoningInit, TargetsRespected
<1>2. ZoningInv /\ TargetsRespected /\ [ZoningNext]_zoningVars => TargetsRespected'
  <2> SUFFICES ASSUME ZoningInv, TargetsRespected, [ZoningNext]_zoningVars PROVE TargetsRespected'
    OBVIOUS
  <2>1. CASE GenerateSeeds \/ BeginRefinement \/ Move \/ Stop \/ EvaluateZones
    <3>1. zoning' # "assign"
      BY <2>1 DEF GenerateSeeds, BeginRefinement, Move, Stop, EvaluateZones
    <3> QED BY <3>1 DEF TargetsRespected
  <2>2. CASE Partition
    <3>1. zoning' = "assign" => \A z \in ClassIds : {i \in Cells' : label'[i] = z} = {}
      BY <2>2, ClassesAre DEF Partition, Cells
    <3> QED BY <3>1 DEF TargetsRespected
  <2>3. ASSUME NEW i \in Cells, NEW z \in ClassIds, Assign(i, z) PROVE TargetsRespected'
    <3>1. plat \in given.plats /\ label \in [Cells -> {0} \cup ClassIds] /\ given \in ZoningCases
      BY <2>3 DEF Assign, ZoningInv, Labelled
    <3> QED BY <2>3, <3>1, AssignKeeps
  <2>4. CASE UNCHANGED zoningVars
    BY <2>4 DEF zoningVars, TargetsRespected, Cells, Deficit, LabelArea, Developable
  <2> QED BY <2>1, <2>2, <2>3, <2>4 DEF ZoningNext
<1> QED BY <1>1, <1>2, ZoningAlways, PTL DEF ZoningSpec


-----------------------------------------------------------------------------
(* Demography. *)

\* The order in which remainders win.
Ahead(rem, k, i) == rem[k] > rem[i] \/ (rem[k] = rem[i] /\ k < i)

\* The first n naturals are n.
LEMMA UpTo ==
  ASSUME NEW n \in Nat PROVE IsFiniteSet(0..(n - 1)) /\ Cardinality(0..(n - 1)) = n
<1>1. \A a, b \in Int : Cardinality(a..b) = IF a > b THEN 0 ELSE b - a + 1
  BY FS_Interval
<1>2. \A a, b \in Int : IsFiniteSet(a..b)
  BY FS_Interval
<1> QED BY <1>1, <1>2

\* Winners are as many as are asked for, and nobody else is ahead of one.
LEMMA WinnersAre ==
  ASSUME NEW C, IsFiniteSet(C), C \subseteq Int, NEW rem, \A i \in C : rem[i] \in Int,
         NEW n \in 0..Cardinality(C)
  PROVE /\ Winners(rem, C, n) \in SUBSET C /\ Cardinality(Winners(rem, C, n)) = n
        /\ \A i \in Winners(rem, C, n) : \A k \in C : Ahead(rem, k, i) => k \in Winners(rem, C, n)
<1> DEFINE Firsts == Cardinality(C)
           A(i) == {k \in C : Ahead(rem, k, i)}
           r(i) == Cardinality(A(i))
           W == Winners(rem, C, n)
<1>1. /\ \A i \in C : ~Ahead(rem, i, i)
      /\ \A i, k \in C : i # k => Ahead(rem, i, k) \/ Ahead(rem, k, i)
      /\ \A i, k, l \in C : Ahead(rem, i, k) /\ Ahead(rem, k, l) => Ahead(rem, i, l)
  BY DEF Ahead
<1>2. \A i \in C : A(i) \in SUBSET C /\ i \notin A(i)
  BY <1>1
<1>3. Firsts \in Nat
  BY FS_CardinalityType
<1>4. W = {i \in C : r(i) < n}
  BY Zenon DEF Winners, Ahead
<1>5. \A i \in C : r(i) \in 0..(Firsts - 1)
  <2> SUFFICES ASSUME NEW i \in C PROVE r(i) \in 0..(Firsts - 1)
    OBVIOUS
  <2>1. IsFiniteSet(A(i)) /\ A(i) \in SUBSET (C \ {i}) /\ IsFiniteSet(C \ {i})
    BY <1>2, FS_Subset
  <2>2. Cardinality(C \ {i}) = Firsts - 1
    BY FS_RemoveElement
  <2> HIDE DEF A, Firsts
  <2>3. r(i) <= Firsts - 1 /\ r(i) \in Nat
    BY <2>1, <2>2, FS_Subset, FS_CardinalityType
  <2> QED BY <1>3, <2>3
<1>15. \A i \in C : r(i) \in Nat /\ (i \in W <=> r(i) < n)
  BY <1>3, <1>4, <1>5
<1>6. \A i, k \in C : Ahead(rem, i, k) => r(i) < r(k)
  <2> SUFFICES ASSUME NEW i \in C, NEW k \in C, Ahead(rem, i, k) PROVE r(i) < r(k)
    OBVIOUS
  <2>1. A(i) \in SUBSET A(k) /\ i \in A(k) /\ i \notin A(i) /\ IsFiniteSet(A(k))
    BY <1>1, FS_Subset
  <2>2. r(i) <= r(k) /\ r(i) # r(k) /\ r(i) \in Nat /\ r(k) \in Nat
    <3> HIDE DEF A
    <3> QED BY <2>1, FS_Subset, FS_CardinalityType
  <2> QED BY ONLY <2>2
<1>14. W \in SUBSET C
  BY <1>4
<1> HIDE DEF A, r, W
<1>7. \A i, k \in C : r(i) = r(k) => i = k
  BY <1>1, <1>5, <1>6
<1> DEFINE f == [i \in C |-> r(i)]
           g == [i \in W |-> r(i)]
<1>8. f \in Injection(C, 0..(Firsts - 1))
  <2>1. f \in [C -> 0..(Firsts - 1)]
    BY <1>5
  <2> QED BY <1>7, <2>1 DEF Injection, IsInjective
<1>9. IsFiniteSet(0..(Firsts - 1)) /\ Cardinality(0..(Firsts - 1)) = Firsts
  BY <1>3, UpTo
<1>10. f \in Surjection(C, 0..(Firsts - 1))
  <2> HIDE DEF f
  <2> QED BY <1>8, <1>9, FS_Injection
<1>11. g \in Bijection(W, 0..(n - 1))
  <2>1. W \subseteq C /\ n <= Firsts /\ n \in Nat
    BY <1>3, <1>14
  <2>2. g \in [W -> 0..(n - 1)]
    BY <1>14, <1>15, <2>1
  <2>3. \A v \in 0..(n - 1) : \E i \in W : g[i] = v
    <3> SUFFICES ASSUME NEW v \in 0..(n - 1) PROVE \E i \in W : g[i] = v
      OBVIOUS
    <3>1. v \in 0..(Firsts - 1) /\ v < n
      BY <1>3, <2>1
    <3>2. PICK i \in C : f[i] = v
      BY <1>10, <3>1 DEF Surjection
    <3>3. r(i) = v
      BY <3>2
    <3>4. i \in W /\ g[i] = v
      BY <1>15, <3>1, <3>3
    <3> QED BY <3>4
  <2>4. \A i, k \in W : g[i] = g[k] => i = k
    BY <1>7, <2>1
  <2> HIDE DEF g
  <2> QED BY <2>2, <2>3, <2>4 DEF Bijection, Injection, IsInjective, Surjection
<1>12. Cardinality(W) = n
  <2>1. W \in SUBSET C /\ n \in Nat
    BY <1>3, <1>14
  <2>2. IsFiniteSet(W)
    BY <2>1, FS_Subset
  <2>5. IsFiniteSet(0..(n - 1)) /\ Cardinality(0..(n - 1)) = n
    BY <2>1, UpTo
  <2>6. Cardinality(W) = Cardinality(0..(n - 1))
    <3> HIDE DEF g
    <3>1. ExistsBijection(W, 0..(n - 1))
      BY <1>11 DEF ExistsBijection
    <3> QED BY <2>2, <3>1, FS_Bijection
  <2> QED BY <2>5, <2>6
<1>13. \A i \in W : \A k \in C : Ahead(rem, k, i) => k \in W
  <2> SUFFICES ASSUME NEW i \in W, NEW k \in C, Ahead(rem, k, i) PROVE k \in W
    OBVIOUS
  <2>1. i \in C /\ r(i) < n /\ r(k) < r(i) /\ r(i) \in Int /\ r(k) \in Int /\ n \in Int
    BY <1>3, <1>6, <1>14, <1>15
  <2>2. r(k) < n
    BY <2>1
  <2> QED BY <1>15, <2>2
<1> QED BY <1>12, <1>13, <1>14 DEF W

\* The parts of a split by largest remainders, under one name so that a lemma about
\* them can be cited.
Rounding(D, w, s, t, base, rem, C, n, r) ==
  /\ IsFiniteSet(D) /\ D \subseteq Int /\ w \in [D -> Nat] /\ t \in Nat
  /\ s \in Nat \ {0} /\ s = SumFunctionOnSet(w, D)
  /\ base = [i \in D |-> (t * w[i]) \div s] /\ rem = [i \in D |-> (t * w[i]) % s]
  /\ C \in SUBSET D /\ \A i \in D : rem[i] > 0 => i \in C
  /\ n = t - SumFunctionOnSet(base, D)
  /\ r = [i \in D |-> base[i] + (IF i \in Winners(rem, C, n) THEN 1 ELSE 0)]

\* Largest remainders: whole shares, and one more each for the winners among candidates
\* who are owed a part of one, make up the total, near the proportional shares.
LEMMA LargestRemainders ==
  ASSUME NEW D, NEW w, NEW s, NEW t, NEW base, NEW rem, NEW C, NEW n, NEW r,
         Rounding(D, w, s, t, base, rem, C, n, r)
  PROVE /\ r \in [D -> Nat] /\ SumFunctionOnSet(r, D) = t
        /\ \A i \in D : r[i] * s - t * w[i] \in (1 - s)..(s - 1)
        /\ \A i \in D : t <= s => r[i] <= w[i]
        /\ \A i, k \in D : w[i] > w[k] => r[i] >= r[k]
<1> DEFINE P == {i \in D : rem[i] > 0}
           W == Winners(rem, C, n)
           B == SumFunctionOnSet(base, D)
           R == SumFunctionOnSet(rem, D)
           p == Cardinality(P)
           bit == [i \in D |-> IF i \in P THEN 1 ELSE 0]
           most == [i \in D |-> (s - 1) * bit[i]]
<1> USE DEF Rounding
<1>1. \A i \in D : /\ base[i] \in Nat /\ rem[i] \in Nat /\ rem[i] <= s - 1 /\ w[i] \in Nat
                   /\ t * w[i] = s * base[i] + rem[i]
  <2> SUFFICES ASSUME NEW i \in D
               PROVE /\ base[i] \in Nat /\ rem[i] \in Nat /\ rem[i] <= s - 1 /\ w[i] \in Nat
                     /\ t * w[i] = s * base[i] + rem[i]
    OBVIOUS
  <2>1. w[i] \in Nat /\ t * w[i] \in Nat
    OBVIOUS
  <2>2. base[i] = (t * w[i]) \div s /\ rem[i] = (t * w[i]) % s
    OBVIOUS
  <2> DEFINE a == t * w[i]
  <2> HIDE DEF a
  <2>3. a \in Nat => /\ a \div s \in Nat /\ a % s \in Nat /\ a % s <= s - 1
                     /\ a = s * (a \div s) + (a % s)
    BY ONLY s \in Nat \ {0}
  <2> QED BY <2>1, <2>2, <2>3 DEF a
<1>2. IsFiniteSet(P) /\ IsFiniteSet(C) /\ P \in SUBSET C /\ P \in SUBSET D /\ p \in Nat
  <2>1. P \in SUBSET D /\ P \in SUBSET C
    OBVIOUS
  <2> HIDE DEF P
  <2> QED BY <2>1, FS_Subset, FS_CardinalityType
<1>3. B \in Nat /\ R \in Nat
  BY <1>1, SumIsNat
<1>4. s * n = R
  <2> DEFINE f == [i \in D |-> t * w[i]]
             g == [i \in D |-> s * base[i]]
  <2>1. \A i \in D : w[i] \in Int /\ f[i] = t * w[i]
    BY <1>1
  <2>2. SumFunctionOnSet(f, D) = t * s
    <3> HIDE DEF f
    <3> QED BY ONLY IsFiniteSet(D), t \in Int, s = SumFunctionOnSet(w, D), <2>1, SumOfTimes
  <2>3. \A i \in D : base[i] \in Int /\ g[i] = s * base[i]
    BY <1>1
  <2>4. SumFunctionOnSet(g, D) = s * B
    <3> HIDE DEF g
    <3> QED BY ONLY IsFiniteSet(D), s \in Int, <2>3, SumOfTimes
  <2>5. \A i \in D : g[i] \in Int /\ rem[i] \in Int /\ f[i] = g[i] + rem[i]
    BY <1>1
  <2>6. SumFunctionOnSet(f, D) = SumFunctionOnSet(g, D) + R
    <3> HIDE DEF f, g
    <3> QED BY ONLY IsFiniteSet(D), <2>5, SumOfSum
  <2>7. t * s = s * B + R /\ n = t - B
    BY <2>2, <2>4, <2>6
  <2> HIDE DEF B, R
  <2> QED BY ONLY <1>3, <2>7, t \in Nat, s \in Nat \ {0}
<1>5. n \in Nat
  <2>1. n \in Int
    BY <1>3
  <2> HIDE DEF R
  <2> QED BY ONLY <1>3, <1>4, <2>1, s \in Nat \ {0}
<1>6. n <= p
  <2>1. SumFunctionOnSet(bit, D) = p
    <3>1. \A i \in D : bit[i] = IF i \in P THEN 1 ELSE 0
      OBVIOUS
    <3> HIDE DEF bit, P
    <3> QED BY <1>2, <3>1, SumOfMarks
  <2>2. SumFunctionOnSet(most, D) = (s - 1) * p
    <3>1. \A i \in D : bit[i] \in Int /\ most[i] = (s - 1) * bit[i]
      OBVIOUS
    <3>2. s - 1 \in Int
      OBVIOUS
    <3> HIDE DEF bit, most, p
    <3> QED BY <2>1, <3>1, <3>2, SumOfTimes
  <2>3. \A i \in D : rem[i] \in Int /\ most[i] \in Int /\ rem[i] <= most[i]
    <3> SUFFICES ASSUME NEW i \in D PROVE rem[i] \in Int /\ most[i] \in Int /\ rem[i] <= most[i]
      OBVIOUS
    <3>1. CASE i \in P
      <4>1. most[i] = s - 1
        BY <3>1
      <4> QED BY <1>1, <4>1
    <3>2. CASE i \notin P
      <4>1. most[i] = 0 /\ rem[i] = 0
        BY <1>1, <3>2
      <4> QED BY <4>1
    <3> QED BY <3>1, <3>2
  <2>4. R <= (s - 1) * p
    <3> HIDE DEF most, p
    <3> QED BY ONLY IsFiniteSet(D), <2>2, <2>3, SumLeq
  <2> HIDE DEF R, p
  <2>5. s * n <= (s - 1) * p
    BY <1>4, <2>4
  <2>6. (s - 1) * p = s * p - p
    BY ONLY <1>2, s \in Nat \ {0}
  <2>7. s * n <= s * p
    BY <1>2, <1>5, <2>5, <2>6
  <2> QED BY ONLY <1>2, <1>5, <2>7, s \in Nat \ {0}
<1>7. /\ W \in SUBSET C /\ Cardinality(W) = n /\ IsFiniteSet(W)
      /\ \A i \in W : \A k \in C : Ahead(rem, k, i) => k \in W
  <2>1. p <= Cardinality(C) /\ Cardinality(C) \in Nat
    <3> HIDE DEF P
    <3> QED BY <1>2, FS_Subset, FS_CardinalityType
  <2>2. n \in 0..Cardinality(C)
    <3> HIDE DEF p
    <3> QED BY <1>2, <1>5, <1>6, <2>1
  <2>3. C \subseteq Int /\ \A i \in C : rem[i] \in Int
    BY <1>1
  <2>4. /\ W \in SUBSET C /\ Cardinality(W) = n
        /\ \A i \in W : \A k \in C : Ahead(rem, k, i) => k \in W
    BY ONLY <1>2, <2>2, <2>3, WinnersAre
  <2>5. IsFiniteSet(W)
    <3> HIDE DEF W
    <3> QED BY <1>2, <2>4, FS_Subset
  <2> HIDE DEF W
  <2> QED BY <2>4, <2>5
<1> HIDE DEF W
<1>8. W \subseteq P
  <2> SUFFICES ASSUME NEW i \in W, i \notin P PROVE FALSE
    OBVIOUS
  <2>1. i \in D /\ rem[i] = 0
    BY <1>1, <1>7
  <2>2. P \subseteq W
    BY <1>2, <1>7, <2>1 DEF Ahead
  <2>3. P \in SUBSET (W \ {i})
    BY <2>2
  <2>4. IsFiniteSet(W \ {i}) /\ Cardinality(W \ {i}) = n - 1
    BY <1>7, FS_RemoveElement
  <2>5. p <= n - 1
    <3> HIDE DEF P
    <3> QED BY <2>3, <2>4, FS_Subset
  <2> HIDE DEF p
  <2> QED BY <1>2, <1>5, <1>6, <2>5
<1> DEFINE e == [i \in D |-> IF i \in W THEN 1 ELSE 0]
<1>9. \A i \in D : r[i] = base[i] + e[i] /\ e[i] = IF i \in W THEN 1 ELSE 0
  BY DEF W
<1>10. r \in [D -> Nat]
  <2>1. r = [i \in D |-> r[i]]
    OBVIOUS
  <2>2. \A i \in D : r[i] \in Nat
    BY <1>1, <1>9
  <2> QED BY ONLY <2>1, <2>2
<1> HIDE DEF e
<1>11. SumFunctionOnSet(r, D) = t
  <2>1. W \in SUBSET D
    BY <1>7
  <2>2. SumFunctionOnSet(e, D) = n
    BY ONLY IsFiniteSet(D), <1>7, <1>9, <2>1, SumOfMarks
  <2>3. \A i \in D : base[i] \in Int /\ e[i] \in Int /\ r[i] = base[i] + e[i]
    BY ONLY <1>1, <1>9
  <2>4. SumFunctionOnSet(r, D) = B + SumFunctionOnSet(e, D)
    BY ONLY IsFiniteSet(D), <2>3, SumOfSum
  <2>5. n = t - B
    OBVIOUS
  <2> HIDE DEF B
  <2> QED BY <1>3, <2>2, <2>4, <2>5
<1>12. \A i \in D : IF i \in W THEN r[i] = base[i] + 1 /\ rem[i] > 0 ELSE r[i] = base[i]
  <2>1. \A i \in W : rem[i] > 0
    BY ONLY <1>8
  <2> QED BY ONLY <1>1, <1>9, <2>1
<1>13. ASSUME NEW i \in D PROVE r[i] * s - t * w[i] \in (1 - s)..(s - 1)
  <2> DEFINE b == base[i]
             m == rem[i]
             x == t * w[i]
             y == r[i]
  <2>1. /\ b \in Nat /\ m \in Nat /\ m <= s - 1 /\ x = s * b + m
        /\ (y = b \/ (y = b + 1 /\ m > 0))
    BY <1>1, <1>12
  <2> HIDE DEF b, m, x, y
  <2>2. y * s - x \in (1 - s)..(s - 1)
    BY ONLY <2>1, s \in Nat \ {0}
  <2> QED BY <2>2 DEF x, y
<1>14. ASSUME NEW i \in D, t <= s PROVE r[i] <= w[i]
  <2> DEFINE b == base[i]
             m == rem[i]
             v == w[i]
             y == r[i]
  <2>1. /\ b \in Nat /\ m \in Nat /\ m <= s - 1 /\ t * v = s * b + m /\ v \in Nat
        /\ (y = b \/ (y = b + 1 /\ m > 0))
    BY <1>1, <1>12
  <2> HIDE DEF b, m, v, y
  <2>2. t * v <= s * v
    BY ONLY <1>14, <2>1, t \in Nat, s \in Nat \ {0}
  <2>3. s * b + m <= s * v
    BY ONLY <2>1, <2>2
  <2>4. b <= v /\ (m > 0 => b < v)
    BY ONLY <2>1, <2>3, s \in Nat \ {0}
  <2>5. y <= v
    BY ONLY <2>1, <2>4
  <2> QED BY <2>5 DEF y, v
<1>15. ASSUME NEW i \in D, NEW k \in D, w[i] > w[k] PROVE r[i] >= r[k]
  <2>1. /\ base[i] \in Nat /\ rem[i] \in Nat /\ t * w[i] = s * base[i] + rem[i] /\ w[i] \in Nat
        /\ base[k] \in Nat /\ rem[k] \in Nat /\ t * w[k] = s * base[k] + rem[k] /\ w[k] \in Nat
        /\ rem[i] <= s - 1 /\ rem[k] <= s - 1
    BY <1>1
  <2> DEFINE a == base[i]
             b == base[k]
             m == rem[i]
             q == rem[k]
             u == w[i]
             v == w[k]
  <2>2. /\ a \in Nat /\ m \in Nat /\ t * u = s * a + m /\ u \in Nat /\ m <= s - 1
        /\ b \in Nat /\ q \in Nat /\ t * v = s * b + q /\ v \in Nat /\ q <= s - 1 /\ u > v
    BY <1>15, <2>1
  <2>3. b <= a /\ (a = b => q <= m)
    <3> HIDE DEF a, b, m, q, u, v
    <3>1. t * v <= t * u
      BY ONLY <2>2, t \in Nat
    <3>2. s * b + q <= s * a + m
      BY ONLY <2>2, <3>1
    <3>3. b <= a
      BY ONLY <2>2, <3>2, s \in Nat \ {0}
    <3>4. a = b => q <= m
      BY ONLY <2>2, <3>2, s \in Nat \ {0}
    <3> QED BY <3>3, <3>4
  <2>0. /\ (r[i] = a \/ r[i] = a + 1) /\ (r[k] = b \/ r[k] = b + 1)
        /\ (k \notin W => r[k] = b) /\ (k \in W => q > 0) /\ (i \in W => r[i] = a + 1)
    BY ONLY <1>12, i \in D, k \in D
  <2> HIDE DEF a, b
  <2>4. CASE k \notin W
    BY ONLY <2>0, <2>2, <2>3, <2>4
  <2>5. CASE k \in W /\ a # b
    BY ONLY <2>0, <2>2, <2>3, <2>5
  <2>6. CASE k \in W /\ a = b
    <3>1. t > 0
      <4>1. q > 0
        BY <2>0, <2>6
      <4>2. t # 0
        <5> HIDE DEF m, q, u, v
        <5> QED BY ONLY <2>2, <4>1, t \in Nat, s \in Nat \ {0}
      <4> QED BY <4>2
    <3>2. q < m
      <4> HIDE DEF m, q, u, v
      <4>1. t * v < t * u
        BY ONLY <2>2, <3>1, t \in Nat
      <4>2. s * b + q < s * a + m
        BY ONLY <2>2, <4>1
      <4> QED BY ONLY <2>2, <2>6, <4>2, s \in Nat \ {0}
    <3>3. i \in C
      BY <2>1, <3>2
    <3>4. Ahead(rem, i, k)
      BY <3>2 DEF Ahead
    <3>5. i \in W
      BY <1>7, <2>6, <3>3, <3>4
    <3> QED BY ONLY <2>0, <2>2, <2>6, <3>5
  <2> QED BY <2>4, <2>5, <2>6
<1> QED BY <1>10, <1>11, <1>13, <1>14, <1>15

\* Nothing sums up to nothing.
LEMMA SumOfZeros ==
  ASSUME NEW D, IsFiniteSet(D), NEW f, \A i \in D : f[i] = 0
  PROVE SumFunctionOnSet(f, D) = 0
<1>1. \A i \in D : f[i] \in Int /\ f[i] = 0 * f[i]
  OBVIOUS
<1>2. SumFunctionOnSet(f, D) = 0 * SumFunctionOnSet(f, D) /\ SumFunctionOnSet(f, D) \in Int
  BY <1>1, SumOfTimes, SumIsInt
<1> QED BY <1>2

\* What a proportional split of a total promises.
FairSplit(r, D, w, t) ==
  LET s == SumFunctionOnSet(w, D)
  IN  /\ r \in [D -> Nat]
      /\ s > 0 \/ t = 0 => SumFunctionOnSet(r, D) = t
      /\ t <= s => \A i \in D : r[i] <= w[i]
      /\ s > 0 => \A i \in D : r[i] * s - t * w[i] \in (1 - s)..(s - 1)
      /\ \A i, k \in D : w[i] > w[k] => r[i] >= r[k]

\* Whatever the weights, the split by largest remainders is fair.
THEOREM ApportionIsFair ==
  ASSUME NEW D, IsFiniteSet(D), D \subseteq Int, NEW w \in [D -> Nat], NEW t \in Nat
  PROVE FairSplit(Apportion(t, w), D, w, t)
<1> DEFINE s == SumFunctionOnSet(w, D)
           base == [i \in D |-> (t * w[i]) \div s]
           rem == [i \in D |-> (t * w[i]) % s]
           n == t - SumFunctionOnSet(base, D)
           r == [i \in D |-> base[i] + (IF i \in Winners(rem, D, n) THEN 1 ELSE 0)]
<1>1. s \in Nat
  BY SumIsNat
<1>2. DOMAIN w = D /\ SumFunction(w) = s /\ SumFunction(base) = SumFunctionOnSet(base, D)
  BY DEF SumFunction
<1>3. Apportion(t, w) = IF t = 0 \/ s = 0 THEN [i \in D |-> 0] ELSE r
  BY <1>2 DEF Apportion, Zero
<1>4. CASE t = 0 \/ s = 0
  <2> DEFINE z == [i \in D |-> 0]
  <2>1. Apportion(t, w) = z
    BY <1>3, <1>4
  <2>2. \A i \in D : z[i] = 0
    OBVIOUS
  <2>3. z \in [D -> Nat]
    OBVIOUS
  <2> HIDE DEF z, s
  <2>4. SumFunctionOnSet(z, D) = 0
    BY ONLY IsFiniteSet(D), <2>2, SumOfZeros
  <2>5. \A i \in D : w[i] \in Nat
    OBVIOUS
  <2>6. s > 0 => \A i \in D : z[i] * s - t * w[i] \in (1 - s)..(s - 1)
    <3> SUFFICES ASSUME s > 0, NEW i \in D PROVE z[i] * s - t * w[i] \in (1 - s)..(s - 1)
      OBVIOUS
    <3>1. t = 0 /\ z[i] = 0 /\ w[i] \in Nat
      BY <1>4, <2>2, <2>5
    <3> QED BY ONLY <1>1, <3>1, s > 0
  <2>7. t <= s => \A i \in D : z[i] <= w[i]
    BY ONLY <2>2, <2>5
  <2>8. \A i, k \in D : w[i] > w[k] => z[i] >= z[k]
    BY ONLY <2>2
  <2>9. s > 0 \/ t = 0 => SumFunctionOnSet(z, D) = t
    BY <1>4, <2>4
  <2> QED BY <2>1, <2>3, <2>6, <2>7, <2>8, <2>9 DEF FairSplit, s
<1>5. CASE t # 0 /\ s # 0
  <2>1. Apportion(t, w) = r
    BY <1>3, <1>5
  <2>2. s \in Nat \ {0}
    BY <1>1, <1>5
  <2>3. /\ base = [i \in D |-> (t * w[i]) \div s] /\ rem = [i \in D |-> (t * w[i]) % s]
        /\ n = t - SumFunctionOnSet(base, D)
        /\ r = [i \in D |-> base[i] + (IF i \in Winners(rem, D, n) THEN 1 ELSE 0)]
        /\ s = SumFunctionOnSet(w, D)
    OBVIOUS
  <2> HIDE DEF base, rem, n, r, s
  <2>4. /\ r \in [D -> Nat] /\ SumFunctionOnSet(r, D) = t
        /\ \A i \in D : r[i] * s - t * w[i] \in (1 - s)..(s - 1)
        /\ \A i \in D : t <= s => r[i] <= w[i]
        /\ \A i, k \in D : w[i] > w[k] => r[i] >= r[k]
    <3>1. Rounding(D, w, s, t, base, rem, D, n, r)
      BY <2>2, <2>3 DEF Rounding
    <3> QED BY ONLY <3>1, LargestRemainders
  <2> QED BY <2>1, <2>4 DEF FairSplit, s
<1> QED BY <1>4, <1>5

\* A row of a matrix takes what it was given and nothing a column does not have.
LEMMA RowIsExact ==
  ASSUME NEW D, IsFiniteSet(D), D \subseteq Int, NEW w \in [D -> Nat],
         NEW t \in Nat, t <= SumFunctionOnSet(w, D)
  PROVE /\ Row(t, w) \in [D -> Nat] /\ SumFunctionOnSet(Row(t, w), D) = t
        /\ \A i \in D : Row(t, w)[i] <= w[i]
<1> DEFINE s == SumFunctionOnSet(w, D)
           base == [i \in D |-> (t * w[i]) \div s]
           rem == [i \in D |-> (t * w[i]) % s]
           n == t - SumFunctionOnSet(base, D)
           C == {i \in D : base[i] < w[i]}
           r == [i \in D |-> base[i] + (IF i \in Winners(rem, C, n) THEN 1 ELSE 0)]
<1>1. s \in Nat
  BY SumIsNat
<1>2. DOMAIN w = D /\ SumFunction(w) = s /\ SumFunction(base) = SumFunctionOnSet(base, D)
  BY DEF SumFunction
<1>3. Row(t, w) = IF t = 0 THEN [i \in D |-> 0] ELSE r
  BY <1>2 DEF Row, Zero
<1>4. CASE t = 0
  <2> DEFINE z == [i \in D |-> 0]
  <2>1. Row(t, w) = z
    BY <1>3, <1>4
  <2>2. \A i \in D : z[i] = 0 /\ z[i] <= w[i]
    OBVIOUS
  <2>3. z \in [D -> Nat]
    OBVIOUS
  <2> HIDE DEF z
  <2>4. SumFunctionOnSet(z, D) = 0
    BY ONLY IsFiniteSet(D), <2>2, SumOfZeros
  <2> QED BY <1>4, <2>1, <2>2, <2>3, <2>4
<1>5. CASE t # 0
  <2>1. Row(t, w) = r
    BY <1>3, <1>5
  <2>2. s \in Nat \ {0} /\ t <= s
    BY <1>1, <1>5
  <2>3. /\ base = [i \in D |-> (t * w[i]) \div s] /\ rem = [i \in D |-> (t * w[i]) % s]
        /\ n = t - SumFunctionOnSet(base, D) /\ C \in SUBSET D
        /\ r = [i \in D |-> base[i] + (IF i \in Winners(rem, C, n) THEN 1 ELSE 0)]
        /\ s = SumFunctionOnSet(w, D)
    OBVIOUS
  <2>4. ASSUME NEW i \in D, rem[i] > 0 PROVE i \in C
    <3> DEFINE v == w[i]
               b == (t * v) \div s
               m == (t * v) % s
    <3>1. v \in Nat /\ base[i] = b /\ rem[i] = m
      OBVIOUS
    <3> HIDE DEF s, v
    <3>2. t * v \in Nat /\ t * v <= s * v /\ s * v \in Nat
      BY ONLY <2>2, <3>1, t \in Nat
    <3>3. t * v = s * b + m /\ b \in Nat /\ m \in Nat /\ m <= s - 1
      <4> DEFINE a == t * v
      <4> HIDE DEF a
      <4>1. a \in Nat => /\ a \div s \in Nat /\ a % s \in Nat /\ a % s <= s - 1
                         /\ a = s * (a \div s) + (a % s)
        BY ONLY <2>2
      <4> QED BY ONLY <3>2, <4>1 DEF a
    <3>4. b < v
      <4>1. m > 0
        BY <2>4, <3>1
      <4> HIDE DEF b, m
      <4> QED BY ONLY <2>2, <3>1, <3>2, <3>3, <4>1
    <3> QED BY <3>1, <3>4 DEF v
  <2> HIDE DEF base, rem, n, r, s, C
  <2>5. /\ r \in [D -> Nat] /\ SumFunctionOnSet(r, D) = t
        /\ \A i \in D : t <= s => r[i] <= w[i]
    <3>1. Rounding(D, w, s, t, base, rem, C, n, r)
      BY <2>2, <2>3, <2>4 DEF Rounding
    <3> QED BY ONLY <3>1, LargestRemainders
  <2> QED BY <2>1, <2>2, <2>5
<1> QED BY <1>4, <1>5

\* The rows before a row, and what they leave of the columns.
Earlier(rows, i) == {k \in DOMAIN rows : k < i}
LeftBody(rows, columns, left, i) ==
  IF Earlier(rows, i) = {} THEN columns
  ELSE [c \in DOMAIN columns |->
          left[Max(Earlier(rows, i))][c]
            - Row(rows[Max(Earlier(rows, i))], left[Max(Earlier(rows, i))])[c]]
LeftOf(rows, columns) ==
  CHOOSE left : left = [i \in DOMAIN rows |-> LeftBody(rows, columns, left, i)]

\* The matrix of the model, by these names.
LEMMA MatrixIs ==
  ASSUME NEW rows, NEW columns
  PROVE Matrix(rows, columns) = [i \in DOMAIN rows |-> Row(rows[i], LeftOf(rows, columns)[i])]
BY Zenon DEF Matrix, LeftOf, LeftBody, Earlier

LEMMA MaxOfEarlier ==
  ASSUME NEW rows, IsFiniteSet(DOMAIN rows), DOMAIN rows \subseteq Int, NEW i \in DOMAIN rows,
         Earlier(rows, i) # {}
  PROVE /\ Max(Earlier(rows, i)) \in DOMAIN rows /\ Max(Earlier(rows, i)) < i
        /\ \A k \in Earlier(rows, i) : k <= Max(Earlier(rows, i))
<1>1. Earlier(rows, i) \in SUBSET DOMAIN rows /\ \A k \in Earlier(rows, i) : k < i
  BY DEF Earlier
<1>2. IsFiniteSet(Earlier(rows, i)) /\ Earlier(rows, i) \subseteq Int
  BY <1>1, FS_Subset
<1>3. Max(Earlier(rows, i)) \in Earlier(rows, i) /\ \A k \in Earlier(rows, i) : k <= Max(Earlier(rows, i))
  BY <1>2, MaxOf
<1> QED BY <1>1, <1>3

\* That recursive function exists, by induction over the sets of rows that hold all
\* earlier ones.
IsLeft(rows, columns, g, R) ==
  g = [i \in R |-> g[i]] /\ \A i \in R : g[i] = LeftBody(rows, columns, g, i)

LEMMA LeftExists ==
  ASSUME NEW rows, IsFiniteSet(DOMAIN rows), DOMAIN rows \subseteq Int, NEW columns
  PROVE \E g : IsLeft(rows, columns, g, DOMAIN rows)
<1> DEFINE I == DOMAIN rows
           Initial(R) == \A i \in R : \A k \in I : k < i => k \in R
           Good == {R \in SUBSET I : Initial(R) => \E g : IsLeft(rows, columns, g, R)}
<1>1. ASSUME NEW R \in SUBSET I, \A Q \in SUBSET R : Q # R => Q \in Good PROVE R \in Good
  <2> SUFFICES ASSUME Initial(R) PROVE \E g : IsLeft(rows, columns, g, R)
    OBVIOUS
  <2>1. CASE R = {}
    <3> DEFINE g == [i \in {} |-> columns]
    <3>1. IsLeft(rows, columns, g, {})
      BY DEF IsLeft
    <3> HIDE DEF g
    <3> QED BY <2>1, <3>1
  <2>2. CASE R # {}
    <3> DEFINE m == Max(R)
               Q == R \ {m}
    <3>1. m \in R /\ (\A x \in R : x <= m) /\ R \subseteq Int
      <4>1. IsFiniteSet(R) /\ R \subseteq Int
        BY FS_Subset
      <4> QED BY <2>2, <4>1, MaxOf
    <3> HIDE DEF m
    <3>2. Q \in SUBSET R /\ Q # R /\ Initial(Q)
      BY <3>1
    <3>3. Q \in Good
      BY <1>1, <3>2
    <3>4. PICK g : IsLeft(rows, columns, g, Q)
      BY <3>2, <3>3
    <3> DEFINE h == [i \in R |-> IF i = m THEN LeftBody(rows, columns, g, m) ELSE g[i]]
    <3>5. ASSUME NEW i \in R PROVE LeftBody(rows, columns, h, i) = LeftBody(rows, columns, g, i)
      <4>1. CASE Earlier(rows, i) = {}
        BY <4>1 DEF LeftBody
      <4>2. CASE Earlier(rows, i) # {}
        <5> DEFINE p == Max(Earlier(rows, i))
        <5>1. p \in I /\ p < i
          BY <4>2, MaxOfEarlier
        <5>2. p \in R /\ p # m
          BY <3>1, <5>1
        <5> HIDE DEF p
        <5>3. h[p] = g[p]
          BY <5>2
        <5> HIDE DEF h
        <5> QED BY <4>2, <5>3 DEF LeftBody, p
      <4> QED BY <4>1, <4>2
    <3>6. \A i \in R : h[i] = LeftBody(rows, columns, g, i)
      BY <3>4 DEF IsLeft
    <3>7. h = [i \in R |-> h[i]]
      OBVIOUS
    <3> HIDE DEF h
    <3>8. IsLeft(rows, columns, h, R)
      BY <3>5, <3>6, <3>7 DEF IsLeft
    <3> QED BY <3>8
  <2> QED BY <2>1, <2>2
<1>2. SUBSET I \subseteq Good
  <2> HIDE DEF Good
  <2> QED BY <1>1, SubsetInduction
<1>3. Initial(I) /\ I \in Good
  BY <1>2
<1> QED BY <1>3

LEMMA LeftIs ==
  ASSUME NEW rows, IsFiniteSet(DOMAIN rows), DOMAIN rows \subseteq Int, NEW columns
  PROVE IsLeft(rows, columns, LeftOf(rows, columns), DOMAIN rows)
<1> DEFINE left == LeftOf(rows, columns)
<1>1. PICK g : IsLeft(rows, columns, g, DOMAIN rows)
  BY LeftExists
<1>2. g = [i \in DOMAIN rows |-> LeftBody(rows, columns, g, i)]
  BY <1>1 DEF IsLeft
<1>3. left = [i \in DOMAIN rows |-> LeftBody(rows, columns, left, i)]
  BY <1>2 DEF LeftOf
<1> HIDE DEF left
<1>4. \A i \in DOMAIN rows : left[i] = LeftBody(rows, columns, left, i)
  BY <1>3
<1>5. left = [i \in DOMAIN rows |-> left[i]]
  BY <1>3, <1>4
<1>6. IsLeft(rows, columns, left, DOMAIN rows)
  BY <1>4, <1>5 DEF IsLeft
<1> QED BY <1>6 DEF left

\* The rows dealt before row i have taken left of the columns what the later rows need.
MatrixSoFar(rows, columns, D, left, taken, i) ==
  /\ left[i] \in [D -> Nat]
  /\ SumFunctionOnSet(left[i], D) = SumFunctionOnSet(rows, {k \in DOMAIN rows : k >= i})
  /\ \A c \in D : left[i][c] = columns[c] - SumFunctionOnSet(taken[c], Earlier(rows, i))

\* Row after row, what the columns have left is what the later rows need.
LEMMA MatrixProgress ==
  ASSUME NEW I, IsFiniteSet(I), I \subseteq Int, NEW rows \in [I -> Nat],
         NEW D, IsFiniteSet(D), D \subseteq Int, NEW columns \in [D -> Nat],
         SumFunctionOnSet(rows, I) = SumFunctionOnSet(columns, D),
         NEW left, IsLeft(rows, columns, left, I),
         NEW taken, taken = [c \in D |-> [i \in I |-> Row(rows[i], left[i])[c]]]
  PROVE \A i \in I : MatrixSoFar(rows, columns, D, left, taken, i)
<1> DEFINE P(i) == MatrixSoFar(rows, columns, D, left, taken, i)
           Bad == {i \in I : ~P(i)}
           From(i) == {k \in I : k >= i}
           E(i) == Earlier(rows, i)
<1>1. SUFFICES ASSUME Bad # {} PROVE FALSE
  OBVIOUS
<1>2. PICK m \in Bad : \A i \in I : i < m => P(i)
  <2>1. Bad \in SUBSET I
    OBVIOUS
  <2>2. IsFiniteSet(Bad) /\ Bad \subseteq Int
    BY <2>1, FS_Subset
  <2>3. Min(Bad) \in Bad /\ \A x \in Bad : Min(Bad) <= x
    <3> HIDE DEF Bad
    <3> QED BY <1>1, <2>2, MinOf
  <2>4. \A i \in I : i < Min(Bad) => P(i)
    BY <2>2, <2>3
  <2> QED BY <2>3, <2>4
<1>3. m \in I /\ ~P(m) /\ m \in Int /\ DOMAIN rows = I /\ DOMAIN columns = D
  OBVIOUS
<1>4. left[m] = LeftBody(rows, columns, left, m)
  BY <1>3 DEF IsLeft
<1>5. \A R \in SUBSET I : IsFiniteSet(R)
  BY FS_Subset
<1>6. CASE E(m) = {}
  <2>1. left[m] = columns
    BY <1>3, <1>4, <1>6 DEF LeftBody
  <2>2. From(m) = I
    <3>1. \A k \in I : ~(k < m) /\ k \in Int
      BY <1>3, <1>6 DEF Earlier
    <3>2. m \in Int
      BY <1>3
    <3>3. \A k \in I : k >= m
      BY ONLY <3>1, <3>2
    <3> QED BY ONLY <3>3
  <2>3. \A c \in D : SumFunctionOnSet(taken[c], E(m)) = 0
    BY <1>6, SumOfNone
  <2>4. \A c \in D : columns[c] \in Nat
    OBVIOUS
  <2>5. SumFunctionOnSet(left[m], D) = SumFunctionOnSet(rows, From(m))
    BY <2>1, <2>2
  <2>6. \A c \in D : left[m][c] = columns[c] - SumFunctionOnSet(taken[c], E(m))
    BY <2>1, <2>3, <2>4
  <2>7. P(m)
    BY <1>3, <2>1, <2>5, <2>6 DEF MatrixSoFar
  <2> QED BY <1>3, <2>7
<1>7. CASE E(m) # {}
  <2> DEFINE p == Max(E(m))
             row == Row(rows[p], left[p])
  <2>1. p \in I /\ p < m /\ \A k \in E(m) : k <= p
    BY <1>3, <1>7, MaxOfEarlier
  <2>2. left[m] = [c \in D |-> left[p][c] - row[c]]
    BY <1>3, <1>4, <1>7 DEF LeftBody
  <2> HIDE DEF p
  <2>3. P(p)
    BY <1>2, <2>1
  <2>4. /\ left[p] \in [D -> Nat]
        /\ SumFunctionOnSet(left[p], D) = SumFunctionOnSet(rows, From(p))
        /\ \A c \in D : left[p][c] = columns[c] - SumFunctionOnSet(taken[c], E(p))
    BY <1>3, <2>3 DEF MatrixSoFar
  <2>5. From(m) = From(p) \ {p} /\ p \in From(p) /\ E(p) = E(m) \ {p} /\ p \in E(m)
        /\ From(p) \in SUBSET I /\ E(m) \in SUBSET I
    <3>1. \A k \in I : k \in Int /\ (k < m => k <= p)
      BY <1>3, <2>1 DEF Earlier
    <3>4. m \in Int /\ p \in Int /\ p \in I /\ p < m /\ DOMAIN rows = I
      BY <1>3, <2>1
    <3>5. \A k \in I : (k >= m <=> k >= p /\ k # p) /\ (k < p <=> k < m /\ k # p)
      BY ONLY <3>1, <3>4
    <3>2. From(m) = From(p) \ {p} /\ p \in From(p) /\ From(p) \in SUBSET I
      <4>1. p >= p
        BY ONLY <3>4
      <4>2. From(p) = {k \in I : k >= p} /\ From(m) = {k \in I : k >= m}
        OBVIOUS
      <4> HIDE DEF From
      <4>3. From(m) = From(p) \ {p}
        BY ONLY <3>4, <3>5, <4>2
      <4>4. p \in From(p) /\ From(p) \in SUBSET I
        BY ONLY <3>4, <4>1, <4>2
      <4> QED BY <4>3, <4>4
    <3>3. E(p) = E(m) \ {p} /\ p \in E(m) /\ E(m) \in SUBSET I
      <4>1. E(p) = {k \in I : k < p}
        BY ONLY <3>4 DEF Earlier
      <4>2. E(m) = {k \in I : k < m}
        BY ONLY <3>4 DEF Earlier
      <4> HIDE DEF E
      <4>3. E(p) = E(m) \ {p}
        BY ONLY <3>4, <3>5, <4>1, <4>2
      <4>4. p \in E(m) /\ E(m) \in SUBSET I
        BY ONLY <3>4, <4>2
      <4> QED BY <4>3, <4>4
    <3> QED BY <3>2, <3>3
  <2>6. SumFunctionOnSet(rows, From(p)) = SumFunctionOnSet(rows, From(m)) + rows[p]
    <3>1. IsFiniteSet(From(p)) /\ \A k \in From(p) : rows[k] \in Int
      BY <1>5, <2>5
    <3> HIDE DEF From
    <3> QED BY <2>5, <3>1, SumOfMore
  <2>7. SumFunctionOnSet(rows, From(m)) \in Nat /\ rows[p] \in Nat
    <3>1. From(m) \in SUBSET I
      BY <1>3
    <3>2. IsFiniteSet(From(m)) /\ \A k \in From(m) : rows[k] \in Nat
      BY <1>5, <3>1
    <3> HIDE DEF From
    <3> QED BY <2>1, <3>2, SumIsNat
  <2>8. rows[p] <= SumFunctionOnSet(left[p], D)
    <3> HIDE DEF From
    <3> QED BY <2>4, <2>6, <2>7
  <2>9. /\ row \in [D -> Nat] /\ SumFunctionOnSet(row, D) = rows[p]
        /\ \A c \in D : row[c] <= left[p][c]
    <3> HIDE DEF From
    <3> QED BY ONLY IsFiniteSet(D), D \subseteq Int, <2>4, <2>7, <2>8, RowIsExact DEF row
  <2> HIDE DEF row
  <2>10. \A c \in D : /\ left[p][c] \in Nat /\ row[c] \in Nat /\ left[m][c] \in Nat
                      /\ left[p][c] = left[m][c] + row[c] /\ left[m][c] = left[p][c] - row[c]
    <3> SUFFICES ASSUME NEW c \in D
                 PROVE /\ left[p][c] \in Nat /\ row[c] \in Nat /\ left[m][c] \in Nat
                       /\ left[p][c] = left[m][c] + row[c] /\ left[m][c] = left[p][c] - row[c]
      OBVIOUS
    <3>1. left[p][c] \in Nat /\ row[c] \in Nat /\ row[c] <= left[p][c]
      BY <2>4, <2>9
    <3>2. left[m][c] = left[p][c] - row[c]
      BY <2>2
    <3> QED BY <3>1, <3>2
  <2>11. left[m] \in [D -> Nat]
    BY ONLY <2>2, <2>10
  <2>12. SumFunctionOnSet(left[m], D) = SumFunctionOnSet(rows, From(m))
    <3>1. SumFunctionOnSet(left[p], D) = SumFunctionOnSet(left[m], D) + SumFunctionOnSet(row, D)
      BY ONLY IsFiniteSet(D), <2>10, SumOfSum
    <3>2. SumFunctionOnSet(left[m], D) \in Nat
      BY ONLY IsFiniteSet(D), <2>10, SumIsNat
    <3> HIDE DEF From
    <3> QED BY ONLY <2>4, <2>6, <2>7, <2>9, <3>1, <3>2
  <2>13. \A c \in D : left[m][c] = columns[c] - SumFunctionOnSet(taken[c], E(m))
    <3> SUFFICES ASSUME NEW c \in D
                 PROVE left[m][c] = columns[c] - SumFunctionOnSet(taken[c], E(m))
      OBVIOUS
    <3>1. taken[c] = [i \in I |-> Row(rows[i], left[i])[c]]
      OBVIOUS
    <3>2. taken[c][p] = row[c]
      BY <2>1, <3>1 DEF row
    <3>3. \A k \in E(m) : taken[c][k] \in Int
      <4> SUFFICES ASSUME NEW k \in E(m) PROVE taken[c][k] \in Int
        OBVIOUS
      <4>1. k \in I /\ k < m
        BY <1>3 DEF Earlier
      <4>2. P(k)
        BY <1>2, <4>1
      <4>3. /\ left[k] \in [D -> Nat] /\ rows[k] \in Nat
            /\ SumFunctionOnSet(left[k], D) = SumFunctionOnSet(rows, From(k))
        BY <1>3, <4>1, <4>2 DEF MatrixSoFar
      <4>4. rows[k] <= SumFunctionOnSet(rows, From(k))
        <5>1. {k} \in SUBSET From(k) /\ From(k) \in SUBSET I
          BY <4>1
        <5>2. IsFiniteSet(From(k)) /\ \A x \in From(k) : rows[x] \in Nat
          BY <1>5, <5>1
        <5> HIDE DEF From
        <5>3. SumFunctionOnSet(rows, {k}) <= SumFunctionOnSet(rows, From(k))
          BY ONLY <5>1, <5>2, SumGrows
        <5>4. SumFunctionOnSet(rows, {k}) = rows[k]
          <6>1. rows[k] \in Int
            BY <4>3
          <6> QED BY ONLY <6>1, SumOfOne
        <5> QED BY <5>3, <5>4
      <4>5. Row(rows[k], left[k]) \in [D -> Nat]
        <5> HIDE DEF From
        <5>1. rows[k] <= SumFunctionOnSet(left[k], D)
          BY <4>3, <4>4
        <5> QED BY ONLY IsFiniteSet(D), D \subseteq Int, <4>3, <5>1, RowIsExact
      <4> QED BY <3>1, <4>1, <4>5
    <3>4. SumFunctionOnSet(taken[c], E(m)) = SumFunctionOnSet(taken[c], E(p)) + taken[c][p]
      <4>1. IsFiniteSet(E(m))
        BY <1>5, <2>5
      <4> HIDE DEF E
      <4> QED BY ONLY <2>5, <3>3, <4>1, SumOfMore
    <3>5. SumFunctionOnSet(taken[c], E(p)) \in Int
      <4>1. IsFiniteSet(E(p)) /\ \A k \in E(p) : taken[c][k] \in Int
        <5>1. E(p) \in SUBSET I /\ E(p) \in SUBSET E(m)
          BY <2>5
        <5> HIDE DEF E
        <5> QED BY <1>5, <3>3, <5>1
      <4> HIDE DEF E
      <4> QED BY ONLY <4>1, SumIsInt
    <3>6. left[p][c] = columns[c] - SumFunctionOnSet(taken[c], E(p)) /\ columns[c] \in Nat
      BY <2>4
    <3>7. left[m][c] = left[p][c] - row[c] /\ row[c] \in Nat
      BY <2>10
    <3> HIDE DEF E
    <3> QED BY ONLY <3>2, <3>4, <3>5, <3>6, <3>7
  <2>14. P(m)
    BY <1>3, <2>11, <2>12, <2>13 DEF MatrixSoFar
  <2> QED BY <1>3, <2>14
<1> QED BY <1>6, <1>7

\* Margins a matrix can have, and what it is to have them.
Margins(rows, I, columns, D) ==
  /\ IsFiniteSet(I) /\ I \subseteq Int /\ rows \in [I -> Nat]
  /\ IsFiniteSet(D) /\ D \subseteq Int /\ columns \in [D -> Nat]
  /\ SumFunctionOnSet(rows, I) = SumFunctionOnSet(columns, D)
Keeps(matrix, rows, I, columns, D) ==
  /\ matrix \in [I -> [D -> Nat]]
  /\ \A i \in I : SumFunctionOnSet(matrix[i], D) = rows[i]
  /\ \A c \in D : SumFunctionOnSet([i \in I |-> matrix[i][c]], I) = columns[c]

\* A matrix dealt row by row has the rows and the columns that were asked for.
THEOREM MatrixIsExact ==
  ASSUME NEW I, NEW rows, NEW D, NEW columns, Margins(rows, I, columns, D)
  PROVE Keeps(Matrix(rows, columns), rows, I, columns, D)
<1> USE DEF Margins
<1> DEFINE left == LeftOf(rows, columns)
           M == Matrix(rows, columns)
           taken == [c \in D |-> [i \in I |-> Row(rows[i], left[i])[c]]]
           From(i) == {k \in I : k >= i}
<1>1. DOMAIN rows = I /\ DOMAIN columns = D
  OBVIOUS
<1>2. IsLeft(rows, columns, left, I)
  BY <1>1, LeftIs
<1>3. M = [i \in I |-> Row(rows[i], left[i])]
  BY <1>1, MatrixIs
<1> HIDE DEF left, M
<1>4. \A i \in I : MatrixSoFar(rows, columns, D, left, taken, i)
  <2>1. taken = [c \in D |-> [i \in I |-> Row(rows[i], left[i])[c]]]
    OBVIOUS
  <2> HIDE DEF taken
  <2> QED BY <1>2, <2>1, MatrixProgress
<1>5. ASSUME NEW i \in I
      PROVE /\ M[i] \in [D -> Nat] /\ SumFunctionOnSet(M[i], D) = rows[i] /\ left[i] \in [D -> Nat]
            /\ (\A c \in D : M[i][c] <= left[i][c]) /\ rows[i] \in Nat
            /\ SumFunctionOnSet(left[i], D) = SumFunctionOnSet(rows, From(i))
            /\ \A c \in D : left[i][c] = columns[c] - SumFunctionOnSet(taken[c], Earlier(rows, i))
  <2>1. /\ left[i] \in [D -> Nat] /\ rows[i] \in Nat
        /\ SumFunctionOnSet(left[i], D) = SumFunctionOnSet(rows, From(i))
        /\ \A c \in D : left[i][c] = columns[c] - SumFunctionOnSet(taken[c], Earlier(rows, i))
    BY <1>1, <1>4 DEF MatrixSoFar
  <2>2. rows[i] <= SumFunctionOnSet(rows, From(i))
    <3>1. {i} \in SUBSET From(i) /\ From(i) \in SUBSET I
      OBVIOUS
    <3>2. IsFiniteSet(From(i)) /\ \A x \in From(i) : rows[x] \in Nat
      BY <3>1, FS_Subset
    <3> HIDE DEF From
    <3>3. SumFunctionOnSet(rows, {i}) <= SumFunctionOnSet(rows, From(i))
      BY ONLY <3>1, <3>2, SumGrows
    <3>4. SumFunctionOnSet(rows, {i}) = rows[i]
      <4>1. rows[i] \in Int
        BY <2>1
      <4> QED BY ONLY <4>1, SumOfOne
    <3> QED BY <3>3, <3>4
  <2>3. rows[i] <= SumFunctionOnSet(left[i], D)
    <3> HIDE DEF From
    <3> QED BY <2>1, <2>2
  <2>4. /\ Row(rows[i], left[i]) \in [D -> Nat]
        /\ SumFunctionOnSet(Row(rows[i], left[i]), D) = rows[i]
        /\ \A c \in D : Row(rows[i], left[i])[c] <= left[i][c]
    <3>1. left[i] \in [D -> Nat] /\ rows[i] \in Nat
      BY <2>1
    <3> QED BY ONLY IsFiniteSet(D), D \subseteq Int, <2>3, <3>1, RowIsExact
  <2>5. M[i] = Row(rows[i], left[i])
    BY <1>3
  <2> HIDE DEF From, taken
  <2> QED BY ONLY <2>1, <2>4, <2>5
<1>6. M \in [I -> [D -> Nat]]
  BY ONLY <1>3, <1>5
<1>7. ASSUME NEW c \in D PROVE SumFunctionOnSet([i \in I |-> M[i][c]], I) = columns[c]
  <2> DEFINE f == [i \in I |-> M[i][c]]
  <2>1. f = taken[c]
    BY <1>3
  <2>2. \A i \in I : f[i] \in Nat /\ f[i] = M[i][c]
    BY <1>5
  <2>3. CASE I = {}
    <3>1. SumFunctionOnSet(columns, D) = 0
      BY <2>3, SumOfNone
    <3>2. columns[c] <= SumFunctionOnSet(columns, D) /\ columns[c] \in Nat
      <4>1. columns[c] \in Nat /\ columns[c] \in Int /\ {c} \in SUBSET D
            /\ \A x \in D : columns[x] \in Nat
        OBVIOUS
      <4>2. SumFunctionOnSet(columns, {c}) <= SumFunctionOnSet(columns, D)
        BY ONLY IsFiniteSet(D), <4>1, SumGrows
      <4>3. SumFunctionOnSet(columns, {c}) = columns[c]
        BY ONLY <4>1, SumOfOne
      <4> QED BY <4>1, <4>2, <4>3
    <3>3. SumFunctionOnSet(f, I) = 0
      <4> HIDE DEF f
      <4> QED BY <2>3, SumOfNone
    <3> HIDE DEF f
    <3>4. SumFunctionOnSet(f, I) = columns[c]
      BY ONLY <3>1, <3>2, <3>3
    <3> QED BY <3>4 DEF f
  <2>4. CASE I # {}
    <3> DEFINE m == Max(I)
    <3>1. m \in I /\ \A x \in I : x <= m
      BY <2>4, MaxOf
    <3> HIDE DEF m
    <3>2. From(m) = {m} /\ Earlier(rows, m) = I \ {m}
      <4>1. m \in I /\ \A k \in I : k \in Int /\ k <= m
        BY <3>1
      <4>2. \A k \in I : (k >= m <=> k = m) /\ (k < m <=> k # m)
        BY ONLY <4>1
      <4>3. From(m) = {m}
        BY ONLY <4>1, <4>2
      <4>4. Earlier(rows, m) = I \ {m}
        BY ONLY <1>1, <4>1, <4>2 DEF Earlier
      <4> QED BY <4>3, <4>4
    <3>3. SumFunctionOnSet(rows, {m}) = rows[m]
      <4>1. rows[m] \in Int
        BY <3>1
      <4> QED BY ONLY <4>1, SumOfOne
    <3>4. /\ \A x \in D : M[m][x] \in Int /\ left[m][x] \in Int /\ M[m][x] <= left[m][x]
          /\ SumFunctionOnSet(M[m], D) = rows[m]
          /\ SumFunctionOnSet(left[m], D) = SumFunctionOnSet(rows, From(m))
          /\ left[m][c] = columns[c] - SumFunctionOnSet(taken[c], Earlier(rows, m))
      BY <1>5, <3>1
    <3>5. SumFunctionOnSet(M[m], D) = SumFunctionOnSet(left[m], D)
      BY <3>2, <3>3, <3>4
    <3>6. M[m][c] = left[m][c]
      BY ONLY IsFiniteSet(D), c \in D, <3>4, <3>5, SumLeq
    <3>7. f[m] = left[m][c] /\ f[m] \in Nat
      BY <2>2, <3>1, <3>6
    <3>8. left[m][c] = columns[c] - SumFunctionOnSet(f, I \ {m}) /\ columns[c] \in Nat
      BY <2>1, <3>2, <3>4
    <3> HIDE DEF f
    <3>9. SumFunctionOnSet(f, I) = SumFunctionOnSet(f, I \ {m}) + f[m]
      <4>1. \A i \in I : f[i] \in Int
        BY <2>2
      <4> QED BY ONLY IsFiniteSet(I), <3>1, <4>1, SumOfMore
    <3>10. SumFunctionOnSet(f, I \ {m}) \in Int
      <4>1. \A i \in I \ {m} : f[i] \in Int
        BY <2>2
      <4>2. I \ {m} \in SUBSET I
        OBVIOUS
      <4>3. IsFiniteSet(I \ {m})
        BY ONLY IsFiniteSet(I), <4>2, FS_Subset
      <4> QED BY ONLY <4>1, <4>3, SumIsInt
    <3>11. SumFunctionOnSet(f, I) = columns[c]
      BY ONLY <3>7, <3>8, <3>9, <3>10
    <3> QED BY <3>11 DEF f
  <2> QED BY <2>3, <2>4
<1>8. /\ M \in [I -> [D -> Nat]] /\ \A i \in I : SumFunctionOnSet(M[i], D) = rows[i]
      /\ \A c \in D : SumFunctionOnSet([i \in I |-> M[i][c]], I) = columns[c]
  BY <1>5, <1>6, <1>7
<1>9. Keeps(M, rows, I, columns, D)
  BY ONLY <1>8 DEF Keeps
<1> QED BY <1>9 DEF M

\* What the assumptions say of the inputs of the stage.
LEMMA CaseFacts ==
  ASSUME in \in DemographyCases
  PROVE /\ in.gfa \in [Buildings -> Nat] /\ in.use \in [Buildings -> Uses]
        /\ in.occupancy \in 0..Scale /\ in.mixed \in 0..Scale /\ in.perPerson \in Nat \ {0}
        /\ in.baseline \in Nat /\ in.target.value \in Int
        /\ IF in.target.kind = "total" THEN in.target.value \in Nat ELSE in.target.value > -Scale
        /\ in.perJob \in [JobUses -> Nat \ {0}] /\ \A u \in JobUses : JobScale % in.perJob[u] = 0
        /\ in.working \in Nat
        /\ in.raster => in.rasterWeight \in 0..Scale
        /\ Scale \in Nat \ {0} /\ JobScale \in Nat \ {0}
<1>1. InCase(in) /\ Scale \in Nat \ {0} /\ JobScale \in Nat \ {0}
  BY DemographyAssumption
<1>2. in.gfa \in [Buildings -> Nat] /\ in.use \in [Buildings -> Uses]
  BY <1>1 DEF InCase, BuildingsCase
<1>3. /\ in.occupancy \in 0..Scale /\ in.mixed \in 0..Scale /\ in.perPerson \in Nat \ {0}
      /\ in.working \in Nat /\ TargetCase(in.target)
  BY <1>1 DEF InCase, ScenarioCase
<1>4. in.target.value \in IF in.target.kind = "total" THEN Nat ELSE {v \in Int : v > -Scale}
  BY <1>3 DEF TargetCase
<1>5. /\ in.target.value \in Int
      /\ IF in.target.kind = "total" THEN in.target.value \in Nat ELSE in.target.value > -Scale
  BY <1>4
<1>6. in.perJob \in [JobUses -> Nat \ {0}] /\ \A u \in JobUses : JobScale % in.perJob[u] = 0
  BY <1>1 DEF InCase, EmploymentCase
<1>7. in.baseline \in Nat
  BY <1>1 DEF InCase, StageCase
<1>8. in.raster => in.rasterWeight \in 0..Scale
  BY <1>1 DEF InCase, CalibrationCase
<1> QED BY <1>1, <1>2, <1>3, <1>5, <1>6, <1>7, <1>8

LEMMA RasterFacts ==
  ASSUME in \in DemographyCases, in.raster
  PROVE /\ {in.height, in.width, in.cellArea} \subseteq Nat /\ Scale \in Nat
        /\ in.pixels \in [(0..(in.height - 1)) \X (0..(in.width - 1)) -> Nat \cup {NoValue}]
        /\ IsFiniteSet(DOMAIN in.windows)
        /\ \A k \in DOMAIN in.windows :
             in.windows[k] \in Seq([row : Nat, col : Nat, height : Nat \ {0}, width : Nat \ {0}])
<1>1. InCase(in) /\ Scale \in Nat \ {0}
  BY DemographyAssumption
<1>2. RasterCase(in) /\ SubjectsCase(in)
  BY <1>1 DEF InCase
<1> QED BY <1>1, <1>2 DEF RasterCase, SubjectsCase, Windows

LEMMA GroupFacts ==
  ASSUME in \in DemographyCases
  PROVE /\ IsFiniteSet(Groups) /\ Groups \subseteq Int /\ in.weights \in [Groups -> Nat]
        /\ SumFunctionOnSet(in.weights, Groups) > 0
<1>1. in.weights \in Seq(Nat) /\ SumFunction(in.weights) > 0
  BY DemographyAssumption DEF InCase, ScenarioCase, SharesCase
<1>2. \A n \in Nat : IsFiniteSet(1..n)
  BY FS_Interval
<1>3. Groups = 1..Len(in.weights) /\ Len(in.weights) \in Nat /\ in.weights \in [Groups -> Nat]
  BY <1>1 DEF Groups
<1>4. IsFiniteSet(Groups) /\ Groups \subseteq Int
  BY <1>2, <1>3
<1> QED BY <1>1, <1>3, <1>4 DEF SumFunction, Groups

LEMMA BlockFacts ==
  /\ IsFiniteSet(Buildings) /\ Buildings \subseteq Int /\ BlockOf \in [Buildings -> Nat]
  /\ IsFiniteSet(Blocks) /\ Blocks \subseteq Int
  /\ \A z : IsFiniteSet(Inside(z)) /\ Inside(z) \in SUBSET Blocks /\ Inside(z) \subseteq Int
  /\ \A k : Owned(k) \in SUBSET Buildings
  /\ \A z : UNION {Owned(k) : k \in Inside(z)} \in SUBSET Buildings
  /\ IsFiniteSet(Zones) /\ \A z \in Zones : Inside(z) # {}
<1>1. IsFiniteSet(Buildings) /\ Buildings \subseteq Nat /\ BlockOf \in [Buildings -> Nat]
  BY DemographyAssumption
<1>2. Blocks = {BlockOf[b] : b \in Buildings}
  BY <1>1 DEF Blocks, Range
<1>3. IsFiniteSet(Blocks) /\ Blocks \subseteq Int
  <2>1. \A f : IsFiniteSet({f[b] : b \in Buildings})
    BY ONLY <1>1, ImageFinite
  <2>2. IsFiniteSet(Blocks)
    BY ONLY <1>2, <2>1
  <2> QED BY <1>1, <1>2, <2>2
<1>4. \A z : Inside(z) \in SUBSET Blocks
  BY DEF Inside
<1>5. \A z : IsFiniteSet(Inside(z)) /\ Inside(z) \subseteq Int
  BY <1>3, <1>4, FS_Subset
<1>6. IsFiniteSet(Zones)
  <2>1. \A f : IsFiniteSet({f[k] : k \in Blocks})
    BY ONLY <1>3, ImageFinite
  <2> QED BY <2>1 DEF Zones
<1>7. \A z \in Zones : Inside(z) # {}
  BY DEF Zones, Inside
<1> QED BY <1>1, <1>3, <1>4, <1>5, <1>6, <1>7 DEF Owned

\* The whole of a function is its sum over its domain.
LEMMA WholeSum ==
  ASSUME NEW D, NEW f, DOMAIN f = D PROVE SumFunction(f) = SumFunctionOnSet(f, D)
BY DEF SumFunction

\* Counts that add up to a total lie between nothing and the total.
LEMMA SplitsWhole ==
  ASSUME NEW D, IsFiniteSet(D), NEW f \in [D -> Nat], NEW t, SumFunctionOnSet(f, D) = t
  PROVE Splits(f, t)
<1>1. ASSUME NEW x \in D PROVE f[x] \in 0..t
  <2>1. {x} \in SUBSET D /\ f[x] \in Nat /\ f[x] \in Int /\ \A y \in D : f[y] \in Nat
    OBVIOUS
  <2>2. SumFunctionOnSet(f, {x}) <= SumFunctionOnSet(f, D)
    BY ONLY IsFiniteSet(D), <2>1, SumGrows
  <2>3. SumFunctionOnSet(f, {x}) = f[x]
    BY ONLY <2>1, SumOfOne
  <2>4. SumFunctionOnSet(f, D) \in Nat
    BY ONLY IsFiniteSet(D), <2>1, SumIsNat
  <2> QED BY ONLY <2>1, <2>2, <2>3, <2>4, SumFunctionOnSet(f, D) = t
<1>2. DOMAIN f = D
  OBVIOUS
<1>3. SumFunction(f) = t
  BY <1>2, WholeSum
<1> QED BY <1>1, <1>2, <1>3 DEF Splits

\* As many members as the disjoint parts have together.
Pieces(K, F, g, U) ==
  /\ IsFiniteSet(K) /\ U = UNION {F[k] : k \in K}
  /\ \A k \in K : IsFiniteSet(F[k]) /\ g[k] = Cardinality(F[k])
  /\ \A k, l \in K : k # l => F[k] \cap F[l] = {}

LEMMA SizeOfParts ==
  ASSUME NEW K, NEW F, NEW g, NEW U, Pieces(K, F, g, U)
  PROVE IsFiniteSet(U) /\ SumFunctionOnSet(g, K) = Cardinality(U)
<1> DEFINE one == [x \in U |-> 1]
<1> USE DEF Pieces
<1>1. IsFiniteSet(U)
  <2>1. IsFiniteSet({F[k] : k \in K})
    BY ImageFinite
  <2> QED BY <2>1, FS_UNION
<1>2. \A k \in K : F[k] \in SUBSET U
  OBVIOUS
<1>3. \A x \in U : one[x] = 1
  OBVIOUS
<1> HIDE DEF one
<1>4. ASSUME NEW k \in K PROVE g[k] = SumFunctionOnSet(one, F[k])
  <2> DEFINE S == F[k]
  <2>1. IsFiniteSet(S) /\ S \in SUBSET S /\ \A x \in S : one[x] = IF x \in S THEN 1 ELSE 0
    BY <1>2, <1>3
  <2>2. g[k] = Cardinality(S)
    OBVIOUS
  <2> HIDE DEF S
  <2>3. SumFunctionOnSet(one, S) = Cardinality(S)
    BY ONLY <2>1, SumOfMarks
  <2> QED BY <2>2, <2>3 DEF S
<1>5. \A k \in K : \A x \in F[k] : one[x] \in Int
  BY <1>2, <1>3
<1>6. Parts(K, F, one, g)
  BY <1>4, <1>5 DEF Parts
<1>7. SumFunctionOnSet(g, K) = SumFunctionOnSet(one, U)
  <2>1. U = UNION {F[k] : k \in K}
    OBVIOUS
  <2> QED BY ONLY <1>6, <2>1, SumOfParts
<1>8. SumFunctionOnSet(one, U) = Cardinality(U)
  <2>1. \A x \in U : one[x] = IF x \in U THEN 1 ELSE 0
    BY <1>3
  <2>2. U \in SUBSET U
    OBVIOUS
  <2> QED BY ONLY <1>1, <2>1, <2>2, SumOfMarks
<1> QED BY ONLY <1>1, <1>7, <1>8

\* A window covers finitely many cells, and two that do not overlap share none.
LEMMA CellsAreFinite == \A w \in Windows : IsFiniteSet(CellsOf(w))
<1> SUFFICES ASSUME NEW w \in Windows PROVE IsFiniteSet(CellsOf(w))
  OBVIOUS
<1>1. IsFiniteSet(w.row..(w.row + w.height - 1)) /\ IsFiniteSet(w.col..(w.col + w.width - 1))
  <2>1. \A a, b \in Int : IsFiniteSet(a..b)
    BY FS_Interval
  <2> QED BY <2>1 DEF Windows
<1> QED BY <1>1, FS_Product DEF CellsOf

LEMMA CellsApart ==
  \A v, w \in Windows : ~WindowsOverlap(v, w) => CellsOf(v) \cap CellsOf(w) = {}
<1> SUFFICES ASSUME NEW v \in Windows, NEW w \in Windows, ~WindowsOverlap(v, w),
                    NEW x \in CellsOf(v), x \in CellsOf(w)
             PROVE FALSE
  OBVIOUS
<1>1. /\ x[1] \in v.row..(v.row + v.height - 1) /\ x[2] \in v.col..(v.col + v.width - 1)
      /\ x[1] \in w.row..(w.row + w.height - 1) /\ x[2] \in w.col..(w.col + w.width - 1)
  BY DEF CellsOf
<1>2. \/ v.row + v.height <= w.row \/ w.row + w.height <= v.row
      \/ v.col + v.width <= w.col \/ w.col + w.width <= v.col
  BY DEF WindowsOverlap
<1>3. /\ v.row \in Nat /\ v.col \in Nat /\ v.height \in Nat /\ v.width \in Nat
      /\ w.row \in Nat /\ w.col \in Nat /\ w.height \in Nat /\ w.width \in Nat
  BY DEF Windows
<1> QED BY ONLY <1>1, <1>2, <1>3

\* The cells of a subject, and those of them with data.
CellsAsked(k) == UNION {CellsOf(in.windows[k][i]) : i \in DOMAIN in.windows[k]}
CellsWithData(k) == {x \in CellsAsked(k) : in.pixels[x] # NoValue}

\* What a sample says is what its cells say, each of them counted once.
SampleRight(s, k) ==
  /\ s.cells = Cardinality(CellsAsked(k))
  /\ s.population = SumFunctionOnSet(CellPopulation, CellsWithData(k)) /\ s.population \in Nat
SamplesRight == \A k \in DOMAIN samples : SampleRight(samples[k], k)

LEMMA SampleIsRight ==
  ASSUME in \in DemographyCases, in.raster, SubjectsAccepted, NEW k \in DOMAIN in.windows
  PROVE SampleRight(SampleOf(k), k) /\ SampleWhole(SampleOf(k))
<1> DEFINE w == in.windows[k]
           D == DOMAIN w
           F == [i \in D |-> CellsOf(w[i])]
           V == [i \in D |-> {x \in CellsOf(w[i]) : in.pixels[x] # NoValue}]
           f == [i \in D |-> Cardinality(CellsOf(w[i]))]
           v == [i \in D |-> Cardinality(V[i])]
           p == [i \in D |-> SumFunctionOnSet(CellPopulation, V[i])]
           U == UNION {F[i] : i \in D}
           W == UNION {V[i] : i \in D}
<1>1. IsFiniteSet(D) /\ D \subseteq Int /\ \A i \in D : w[i] \in Windows
  <2>1. w \in Seq(Windows)
    BY RasterFacts DEF Windows
  <2>2. D = 1..Len(w) /\ Len(w) \in Nat /\ \A i \in D : w[i] \in Windows
    BY ONLY <2>1
  <2> QED BY ONLY <2>2, FS_Interval
<1>2. /\ \A i \in D : InRaster(w[i])
      /\ \A i, l \in D : i < l => ~WindowsOverlap(w[i], w[l])
  BY DEF SubjectsAccepted
<1>3. /\ SampleOf(k).cells = SumFunctionOnSet(f, D)
      /\ SampleOf(k).valid = SumFunctionOnSet(v, D)
      /\ SampleOf(k).population = SumFunctionOnSet(p, D)
  BY DEF SampleOf, SumFunction
<1>4. \A i, l \in D : i # l => F[i] \cap F[l] = {}
  <2>1. \A i, l \in D : i < l => CellsOf(w[i]) \cap CellsOf(w[l]) = {}
    BY <1>1, <1>2, CellsApart
  <2>2. \A i, l \in D : i # l => i < l \/ l < i
    BY <1>1
  <2> QED BY <2>1, <2>2
<1>5. \A i \in D : IsFiniteSet(F[i]) /\ V[i] \in SUBSET F[i]
  BY <1>1, CellsAreFinite
<1>6. \A i \in D : IsFiniteSet(V[i])
  BY <1>5, FS_Subset
<1>7. CellsAsked(k) = U /\ CellsWithData(k) = W
  <2>1. CellsAsked(k) = U
    BY DEF CellsAsked
  <2>2. \A x : x \in CellsWithData(k) <=> x \in U /\ in.pixels[x] # NoValue
    BY <2>1 DEF CellsWithData
  <2>3. \A x : x \in U <=> \E i \in D : x \in CellsOf(w[i])
    OBVIOUS
  <2>4. \A x : x \in W <=> \E i \in D : x \in CellsOf(w[i]) /\ in.pixels[x] # NoValue
    <3>1. \A i \in D : \A x : x \in V[i] <=> x \in CellsOf(w[i]) /\ in.pixels[x] # NoValue
      OBVIOUS
    <3> HIDE DEF V
    <3> QED BY <3>1
  <2> HIDE DEF U, W
  <2> QED BY <2>1, <2>2, <2>3, <2>4
<1>8. \A i \in D : \A x \in V[i] : CellPopulation[x] \in Nat
  <2> SUFFICES ASSUME NEW i \in D, NEW x \in V[i] PROVE CellPopulation[x] \in Nat
    OBVIOUS
  <2> DEFINE P == (0..(in.height - 1)) \X (0..(in.width - 1))
  <2>1. /\ in.cellArea \in Nat /\ Scale \in Nat
        /\ in.pixels \in [P -> Nat \cup {NoValue}]
    BY RasterFacts
  <2>2. x \in CellsOf(w[i]) /\ in.pixels[x] # NoValue /\ w[i] \in Windows /\ InRaster(w[i])
    BY <1>1, <1>2
  <2>3. x \in P
    <3> DEFINE r == w[i]
    <3>1. x \in (r.row..(r.row + r.height - 1)) \X (r.col..(r.col + r.width - 1))
      BY <2>2 DEF CellsOf
    <3>2. /\ r.row \in Nat /\ r.col \in Nat /\ r.height \in Nat /\ r.width \in Nat
          /\ r.row + r.height <= in.height /\ r.col + r.width <= in.width
      BY <2>2 DEF Windows, InRaster
    <3>3. in.height \in Int /\ in.width \in Int
      BY RasterFacts
    <3> HIDE DEF r
    <3>4. /\ r.row..(r.row + r.height - 1) \subseteq 0..(in.height - 1)
          /\ r.col..(r.col + r.width - 1) \subseteq 0..(in.width - 1)
      BY ONLY <3>2, <3>3
    <3> QED BY ONLY <3>1, <3>4
  <2> HIDE DEF P
  <2>4. in.pixels[x] \in Nat /\ DOMAIN in.pixels = P
    BY <2>1, <2>2, <2>3
  <2> DEFINE a == in.pixels[x]
             c == IF in.kind = "cell" THEN Scale ELSE in.cellArea
  <2>5. CellPopulation[x] = a * c
    BY <2>3, <2>4 DEF CellPopulation
  <2>6. a \in Nat /\ c \in Nat
    BY <2>1, <2>4
  <2> HIDE DEF a, c
  <2> QED BY ONLY <2>5, <2>6
<1>9. /\ \A i \in D : f[i] = Cardinality(F[i]) /\ v[i] = Cardinality(V[i])
                      /\ p[i] = SumFunctionOnSet(CellPopulation, V[i])
      /\ \A i, l \in D : i # l => V[i] \cap V[l] = {}
  BY <1>4
<1> HIDE DEF F, V, f, v, p, D
<1>20. Pieces(D, F, f, U)
  BY ONLY <1>1, <1>4, <1>5, <1>9 DEF Pieces
<1>21. Pieces(D, V, v, W)
  BY ONLY <1>1, <1>6, <1>9 DEF Pieces
<1>10. SumFunctionOnSet(f, D) = Cardinality(U)
  BY ONLY <1>20, SizeOfParts
<1>11. SumFunctionOnSet(v, D) = Cardinality(W) /\ IsFiniteSet(W)
  BY ONLY <1>21, SizeOfParts
<1>12. SumFunctionOnSet(p, D) = SumFunctionOnSet(CellPopulation, W)
  <2>1. \A i \in D : \A x \in V[i] : CellPopulation[x] \in Int
    BY <1>8
  <2>2. Parts(D, V, CellPopulation, p)
    BY ONLY <1>1, <1>6, <1>9, <2>1 DEF Parts
  <2> QED BY ONLY <2>2, SumOfParts
<1>13. \A x \in W : CellPopulation[x] \in Nat
  BY <1>8
<1>14. IsFiniteSet(U) /\ W \in SUBSET U
  <2>1. W \in SUBSET U
    BY <1>5
  <2> QED BY ONLY <1>20, <2>1, SizeOfParts
<1> HIDE DEF U, W
<1>15. SumFunctionOnSet(CellPopulation, W) \in Nat
  BY ONLY <1>11, <1>13, SumIsNat
<1>16. SampleRight(SampleOf(k), k)
  BY ONLY <1>3, <1>7, <1>10, <1>12, <1>15 DEF SampleRight
<1>17. Cardinality(W) <= Cardinality(U) /\ Cardinality(W) \in Nat /\ Cardinality(U) \in Nat
  BY ONLY <1>11, <1>14, FS_Subset, FS_CardinalityType
<1>18. Cardinality(W) = 0 => SumFunctionOnSet(CellPopulation, W) = 0
  <2>1. Cardinality(W) = 0 => W = {}
    BY ONLY <1>11, FS_EmptySet
  <2> QED BY ONLY <2>1, SumOfNone
<1>19. SampleWhole(SampleOf(k))
  BY ONLY <1>3, <1>10, <1>11, <1>12, <1>15, <1>17, <1>18 DEF SampleWhole
<1> QED BY <1>16, <1>19

\* The greater of zero and a number, the lesser of two counts.
LEMMA AboveZero == \A d \in Int : Max({0, d}) = IF d > 0 THEN d ELSE 0
<1> SUFFICES ASSUME NEW d \in Int PROVE Max({0, d}) = IF d > 0 THEN d ELSE 0
  OBVIOUS
<1> DEFINE S == {0, d}
<1>1. IsFiniteSet(S) /\ S # {} /\ S \subseteq Int
  <2>1. IsFiniteSet({0, d, 0, 0}) /\ {0, d, 0, 0} = {0, d}
    BY FourFinite
  <2>2. IsFiniteSet(S)
    BY ONLY <2>1
  <2> QED BY <2>2
<1>2. \A x : x \in S <=> x = 0 \/ x = d
  OBVIOUS
<1> HIDE DEF S
<1>3. Max(S) \in S /\ \A x \in S : x <= Max(S)
  BY ONLY <1>1, MaxOf
<1>4. Max(S) = IF d > 0 THEN d ELSE 0
  BY ONLY <1>2, <1>3, d \in Int
<1> QED BY <1>4 DEF S

LEMMA LesserOf ==
  ASSUME NEW a \in Nat, NEW b \in Nat PROVE Min({a, b}) = IF a <= b THEN a ELSE b
<1> DEFINE S == {a, b}
<1>1. IsFiniteSet(S) /\ S # {} /\ S \subseteq Int
  <2>1. S = {a, b, a, a}
    OBVIOUS
  <2>2. IsFiniteSet({a, b, a, a})
    BY FourFinite
  <2> QED BY <2>1, <2>2
<1>2. \A x : x \in S <=> x = a \/ x = b
  OBVIOUS
<1> HIDE DEF S
<1>3. Min(S) \in S /\ \A x \in S : Min(S) <= x
  BY ONLY <1>1, MinOf
<1>4. Min(S) = IF a <= b THEN a ELSE b
  BY ONLY <1>2, <1>3, a \in Nat, b \in Nat
<1> QED BY <1>4 DEF S

\* The target is never negative, a rate of growth being above -1, and what is generated
\* for it and what the baseline exceeds it by are not both above zero.
LEMMA TargetIs ==
  ASSUME in \in DemographyCases
  PROVE /\ TargetTotal \in Nat /\ in.baseline \in Nat
        /\ GeneratedTarget = IF TargetTotal > in.baseline THEN TargetTotal - in.baseline ELSE 0
        /\ BaselineExcess = IF in.baseline > TargetTotal THEN in.baseline - TargetTotal ELSE 0
        /\ GeneratedTarget \in Nat
<1>1. /\ Scale \in Nat \ {0} /\ in.baseline \in Nat /\ in.target.value \in Int
      /\ IF in.target.kind = "total" THEN in.target.value \in Nat ELSE in.target.value > -Scale
  BY CaseFacts
<1>2. TargetTotal \in Nat
  <2> DEFINE v == in.target.value
             b == in.baseline
             x == Scale + v
             y == 2 * b
             n == y * x + Scale
             e == 2 * Scale
  <2>1. v \in Int /\ b \in Nat /\ IF in.target.kind = "total" THEN v \in Nat ELSE v > -Scale
    BY <1>1
  <2>2. TargetTotal = IF in.target.kind = "total" THEN v ELSE n \div e
    BY DEF TargetTotal
  <2>3. CASE in.target.kind = "total"
    BY <2>1, <2>2, <2>3
  <2>4. CASE in.target.kind # "total"
    <3>1. x \in Nat /\ y \in Nat /\ e \in Nat \ {0}
      BY <1>1, <2>1, <2>4
    <3>2. TargetTotal = n \div e
      BY <2>2, <2>4
    <3> HIDE DEF x, y, e
    <3>3. y * x \in Nat
      BY ONLY <3>1
    <3>4. n \in Nat
      BY ONLY <1>1, <3>3
    <3> HIDE DEF n
    <3>5. n \div e \in Nat
      BY ONLY <3>1, <3>4
    <3> QED BY ONLY <3>2, <3>5
  <2> QED BY <2>3, <2>4
<1>3. TargetTotal - in.baseline \in Int /\ in.baseline - TargetTotal \in Int
  BY <1>1, <1>2
<1>4. /\ GeneratedTarget = IF TargetTotal - in.baseline > 0 THEN TargetTotal - in.baseline ELSE 0
      /\ BaselineExcess = IF in.baseline - TargetTotal > 0 THEN in.baseline - TargetTotal ELSE 0
  BY ONLY <1>3, AboveZero DEF GeneratedTarget, BaselineExcess
<1> QED BY ONLY <1>1, <1>2, <1>4

\* Ages and residents of a building agree, as do those of a group and its cohort.
Dealt ==
  /\ residents \in [Buildings -> Nat] /\ ages \in [Buildings -> [Groups -> Nat]]
  /\ \A b \in Buildings : SumFunctionOnSet(ages[b], Groups) = residents[b]
  /\ CohortTotals \in [Groups -> Nat]
  /\ SumFunctionOnSet(CohortTotals, Groups) = SumFunctionOnSet(residents, Buildings)
  /\ \A g \in Groups :
       SumFunctionOnSet([b \in Buildings |-> ages[b][g]], Buildings) = CohortTotals[g]

\* What blocks bs, zones zs and the buildings agree on in a zone.
Agree(bs, zs, z) ==
  /\ zs[z] = Total(UNION {Owned(k) : k \in Inside(z)})
  /\ \A g \in Groups :
       SumFunctionOnSet([k \in Blocks |-> bs[k].ages[g]], Inside(z)) = zs[z].ages[g]
  /\ \A k \in Inside(z) : SumFunction(bs[k].ages) = bs[k].population
  /\ SumFunctionOnSet([k \in Blocks |-> bs[k].population], Inside(z)) = zs[z].population
  /\ SumFunctionOnSet([k \in Blocks |-> bs[k].jobs], Inside(z)) = zs[z].jobs
  /\ SumFunctionOnSet([k \in Blocks |-> bs[k].buildings], Inside(z)) = zs[z].buildings

\* Half the sum of the shifts is what arrives.
Arrivals(now, new) == [k \in Blocks |-> Max({0, new[k] - now[k]})]
AuditRight == audit.moved = SumFunction(Arrivals(audit.original, audit.calibrated))

\* The types of the figures, and the inductive invariant: what each stage of the
\* pipeline has established.
Figures == [buildings : Nat, population : Nat, ages : [Groups -> Nat], jobs : Nat]
Counted == {"population", "ages", "employment"} \cup Late
DemographyInv ==
  /\ in \in DemographyCases
  /\ step \in {"sample", "start", "capacity", "refused"} \cup Counted
  /\ step = "sample" => in.raster
  /\ SamplesRight
  /\ capacity \in [Buildings -> Nat] /\ jobs \in [Buildings -> Nat]
  /\ step \in Counted => FairSplit(residents, Buildings, capacity, Allocated)
  /\ step \in {"ages", "employment"} \cup Late => Dealt
  /\ step \in Late => /\ blocks \in [Blocks -> Figures] /\ DOMAIN zones = Zones
                       /\ \A z \in Zones : Agree(blocks, zones, z)
  /\ step \in {"calibration", "done"} /\ in.raster => AuditRight

LEMMA AllocatedIs ==
  ASSUME DemographyInv
  PROVE /\ SumFunction(capacity) = SumFunctionOnSet(capacity, Buildings)
        /\ SumFunction(capacity) \in Nat /\ Allocated \in Nat
        /\ Allocated = IF GeneratedTarget <= SumFunction(capacity) THEN GeneratedTarget
                       ELSE SumFunction(capacity)
<1>1. SumFunction(capacity) = SumFunctionOnSet(capacity, Buildings)
  BY DEF DemographyInv, SumFunction
<1>2. SumFunctionOnSet(capacity, Buildings) \in Nat
  <2>1. IsFiniteSet(Buildings) /\ \A b \in Buildings : capacity[b] \in Nat
    BY BlockFacts DEF DemographyInv
  <2> QED BY ONLY <2>1, SumIsNat
<1>3. GeneratedTarget \in Nat
  BY TargetIs DEF DemographyInv
<1> QED BY <1>1, <1>2, <1>3, LesserOf DEF Allocated

\* Capacities are counts, of no more floor area than there is.
LEMMA SharesGrow == \A a, r, s \in Nat : r <= s => a * r \in Nat /\ a * r <= a * s
OBVIOUS

LEMMA CapacityIsNat ==
  ASSUME DemographyInv, CalculateCapacity
  PROVE capacity' \in [Buildings -> Nat] /\ step' = "capacity"
<1>1. /\ in.occupancy \in 0..Scale /\ in.perPerson \in Nat \ {0} /\ in.mixed \in 0..Scale
      /\ Scale \in Nat \ {0} /\ in.gfa \in [Buildings -> Nat]
  BY CaseFacts DEF DemographyInv
<1>2. ASSUME NEW b \in Buildings
      PROVE /\ ResidentialGfa(b) <= in.gfa[b] * Scale
            /\ OccupiedArea(b) <= ResidentialGfa(b) * Scale
            /\ OccupiedArea(b) \div (Scale * Scale * in.perPerson) \in Nat
  <2> DEFINE r == ResidentialShare(in.use[b])
             a == in.gfa[b]
             o == in.occupancy
             p == in.perPerson
             g == a * r
             n == g * o
             m == Scale * Scale
             d == m * p
  <2>1. a \in Nat /\ o \in Nat /\ o <= Scale /\ p \in Nat \ {0} /\ Scale \in Nat \ {0}
    BY <1>1
  <2>2. r \in Nat /\ r <= Scale
    BY <1>1 DEF ResidentialShare
  <2>3. ResidentialGfa(b) = g /\ OccupiedArea(b) = n
    BY DEF ResidentialGfa, OccupiedArea
  <2> HIDE DEF a, r, o, p
  <2>4. g \in Nat /\ g <= a * Scale
    BY ONLY <2>1, <2>2, SharesGrow
  <2> HIDE DEF g
  <2>5. n \in Nat /\ n <= g * Scale
    BY ONLY <2>1, <2>4, SharesGrow
  <2> HIDE DEF n
  <2>6. m \in Nat \ {0}
    BY ONLY <2>1
  <2> HIDE DEF m
  <2>7. d \in Nat \ {0}
    BY ONLY <2>1, <2>6
  <2> HIDE DEF d
  <2>8. n \div d \in Nat
    BY ONLY <2>5, <2>7
  <2> QED BY <2>3, <2>4, <2>5, <2>8 DEF a, m, p, d
<1>3. CapacityWhole
  BY <1>2 DEF CapacityWhole
<1> QED BY <1>2, <1>3 DEF CalculateCapacity

\* The residents are shared out without an error.
LEMMA ResidentsAreDealt ==
  ASSUME DemographyInv, AllocatePopulation
  PROVE FairSplit(residents', Buildings, capacity, Allocated) /\ step' = "population"
<1>1. /\ capacity \in [Buildings -> Nat] /\ IsFiniteSet(Buildings) /\ Buildings \subseteq Int
      /\ in \in DemographyCases
  BY BlockFacts DEF DemographyInv
<1>2. /\ SumFunction(capacity) = SumFunctionOnSet(capacity, Buildings)
      /\ SumFunction(capacity) \in Nat /\ Allocated \in Nat
      /\ Allocated = IF GeneratedTarget <= SumFunction(capacity) THEN GeneratedTarget
                     ELSE SumFunction(capacity)
  BY AllocatedIs
<1>3. GeneratedTarget \in Nat /\ TargetTotal \in Nat
  BY <1>1, TargetIs
<1>4. FairSplit(residents', Buildings, capacity, Allocated)
  <2>1. FairSplit(Apportion(Allocated, capacity), Buildings, capacity, Allocated)
    BY ONLY <1>1, <1>2, ApportionIsFair
  <2> QED BY <2>1 DEF AllocatePopulation
<1>5. /\ residents' \in [Buildings -> Nat] /\ SumFunctionOnSet(residents', Buildings) = Allocated
      /\ \A b \in Buildings : residents'[b] <= capacity[b]
  <2>1. Allocated <= SumFunctionOnSet(capacity, Buildings)
    BY ONLY <1>2, <1>3
  <2> QED BY ONLY <1>2, <1>4, <2>1 DEF FairSplit
<1>6. ResidentsHoused(residents')
  BY ONLY <1>1, <1>5 DEF ResidentsHoused
<1>7. TargetWhole
  BY ONLY <1>2, <1>3 DEF TargetWhole
<1>8. SumFunction(residents') = Allocated
  BY ONLY <1>5 DEF SumFunction
<1>9. AllocationWhole(residents')
  BY ONLY <1>6, <1>7, <1>8 DEF AllocationWhole
<1> QED BY <1>4, <1>9 DEF AllocatePopulation

\* A matrix raises neither of its errors when its margins have the same sum.
LEMMA MatrixNeverErrs ==
  ASSUME NEW I, NEW rows, NEW D, NEW columns, Margins(rows, I, columns, D)
  PROVE Exact(Matrix(rows, columns), rows, columns)
<1> DEFINE M == Matrix(rows, columns)
<1>1. DOMAIN rows = I /\ DOMAIN columns = D
  BY DEF Margins
<1>2. /\ M \in [I -> [D -> Nat]]
      /\ \A i \in I : SumFunctionOnSet(M[i], D) = rows[i]
      /\ \A c \in D : SumFunctionOnSet([i \in I |-> M[i][c]], I) = columns[c]
  <2>1. Keeps(M, rows, I, columns, D)
    BY MatrixIsExact
  <2> HIDE DEF M
  <2> QED BY ONLY <2>1 DEF Keeps
<1> HIDE DEF M
<1>3. \A i \in I : SumFunction(M[i]) = rows[i]
  <2>1. \A i \in I : DOMAIN M[i] = D
    BY ONLY <1>2
  <2> QED BY ONLY <1>2, <2>1 DEF SumFunction
<1>4. \A c \in D : SumFunction([i \in I |-> M[i][c]]) = columns[c]
  BY ONLY <1>2 DEF SumFunction
<1>5. \A i \in I, c \in D : M[i][c] >= 0
  BY ONLY <1>2
<1>6. Exact(M, rows, columns)
  BY ONLY <1>1, <1>3, <1>4, <1>5 DEF Exact
<1> QED BY <1>6 DEF M

\* The age groups of the buildings are dealt without an error.
LEMMA AgesAreDealt ==
  ASSUME DemographyInv, AllocateAges PROVE Dealt' /\ step' = "ages"
<1> DEFINE t == SumFunction(residents)
           M == Matrix(residents, CohortTotals)
<1>1. /\ in \in DemographyCases /\ step = "population"
      /\ FairSplit(residents, Buildings, capacity, Allocated)
  BY DEF DemographyInv, AllocateAges, Counted
<1>2. residents \in [Buildings -> Nat]
  BY <1>1 DEF FairSplit
<1>3. t = SumFunctionOnSet(residents, Buildings) /\ t \in Nat
  <2>1. t = SumFunctionOnSet(residents, Buildings)
    BY <1>2 DEF SumFunction
  <2>2. IsFiniteSet(Buildings) /\ \A b \in Buildings : residents[b] \in Nat
    BY <1>2, BlockFacts
  <2>3. SumFunctionOnSet(residents, Buildings) \in Nat
    BY ONLY <2>2, SumIsNat
  <2> QED BY <2>1, <2>3
<1> HIDE DEF t
<1>4. /\ IsFiniteSet(Groups) /\ Groups \subseteq Int /\ in.weights \in [Groups -> Nat]
      /\ SumFunctionOnSet(in.weights, Groups) > 0
  BY <1>1, GroupFacts
<1>5. CohortTotals \in [Groups -> Nat] /\ SumFunctionOnSet(CohortTotals, Groups) = t
  <2>1. FairSplit(Apportion(t, in.weights), Groups, in.weights, t)
    BY ONLY <1>3, <1>4, ApportionIsFair
  <2>2. CohortTotals = Apportion(t, in.weights)
    BY DEF CohortTotals, t
  <2> QED BY <1>4, <2>1, <2>2 DEF FairSplit
<1>12. Splits(CohortTotals, SumFunction(residents))
  BY ONLY <1>4, <1>5, SplitsWhole DEF t
<1>10. /\ ages' = M /\ residents' = residents /\ Groups' = Groups /\ CohortTotals' = CohortTotals
       /\ step' = IF /\ Exact(ages', residents, CohortTotals)
                     /\ Splits(CohortTotals, SumFunction(residents))
                  THEN "ages" ELSE "error"
  BY DEF AllocateAges, Groups, CohortTotals
<1> HIDE DEF CohortTotals, M
<1>6. IsFiniteSet(Buildings) /\ Buildings \subseteq Int
  BY BlockFacts
<1>7. SumFunctionOnSet(residents, Buildings) = SumFunctionOnSet(CohortTotals, Groups)
  BY <1>3, <1>5
<1>11. Margins(residents, Buildings, CohortTotals, Groups)
  BY ONLY <1>2, <1>4, <1>5, <1>6, <1>7 DEF Margins
<1>8. /\ M \in [Buildings -> [Groups -> Nat]]
      /\ \A b \in Buildings : SumFunctionOnSet(M[b], Groups) = residents[b]
      /\ \A g \in Groups : SumFunctionOnSet([b \in Buildings |-> M[b][g]], Buildings) = CohortTotals[g]
  <2>1. Keeps(M, residents, Buildings, CohortTotals, Groups)
    BY ONLY <1>11, MatrixIsExact DEF M
  <2> QED BY ONLY <2>1 DEF Keeps
<1>9. Exact(M, residents, CohortTotals)
  BY ONLY <1>11, MatrixNeverErrs DEF M
<1> QED BY ONLY <1>2, <1>5, <1>7, <1>8, <1>9, <1>10, <1>12 DEF Dealt

\* Jobs are counts of the floor area that is not residential, exactly.
LEMMA JobsAreNat ==
  ASSUME DemographyInv, EstimateEmployment
  PROVE jobs' \in [Buildings -> Nat] /\ step' = "employment"
<1>1. /\ in.gfa \in [Buildings -> Nat] /\ in.use \in [Buildings -> Uses] /\ in.mixed \in 0..Scale
      /\ in.perJob \in [JobUses -> Nat \ {0}] /\ \A u \in JobUses : JobScale % in.perJob[u] = 0
      /\ Scale \in Nat \ {0} /\ JobScale \in Nat \ {0}
  BY CaseFacts DEF DemographyInv
<1>2. ASSUME NEW b \in Buildings
      PROVE /\ JobGfa(b) \in 0..(in.gfa[b] * Scale)
            /\ in.use[b] \in JobUses =>
                 /\ JobGfa(b) * (JobScale \div in.perJob[in.use[b]]) \in Nat
                 /\ JobGfa(b) * (JobScale \div in.perJob[in.use[b]]) * in.perJob[in.use[b]]
                      = JobGfa(b) * JobScale
            /\ in.use[b] \notin JobUses => JobGfa(b) = 0
  <2> DEFINE a == in.gfa[b]
             s == Scale - ResidentialShare(in.use[b])
             g == a * s
  <2>1. a \in Nat /\ s \in Nat /\ s <= Scale
    BY <1>1 DEF ResidentialShare
  <2>2. JobGfa(b) = g
    BY DEF JobGfa
  <2>3. in.use[b] \notin JobUses => s = 0
    BY <1>1 DEF ResidentialShare, JobUses
  <2> HIDE DEF a, s
  <2>4. g \in Nat /\ g <= a * Scale /\ (s = 0 => g = 0)
    BY ONLY <1>1, <2>1, SharesGrow
  <2> HIDE DEF g
  <2>5. ASSUME in.use[b] \in JobUses
        PROVE /\ g * (JobScale \div in.perJob[in.use[b]]) \in Nat
              /\ g * (JobScale \div in.perJob[in.use[b]]) * in.perJob[in.use[b]] = g * JobScale
    <3> DEFINE p == in.perJob[in.use[b]]
               j == JobScale \div p
    <3>1. p \in Nat \ {0} /\ JobScale % p = 0
      BY <1>1, <2>5
    <3> HIDE DEF p
    <3>2. j \in Nat /\ j * p = JobScale
      BY ONLY <1>1, <3>1
    <3> HIDE DEF j
    <3>3. g * j \in Nat /\ g * j * p = g * (j * p)
      BY ONLY <2>4, <3>1, <3>2
    <3> QED BY ONLY <3>2, <3>3 DEF p, j
  <2>6. JobGfa(b) \in 0..(a * Scale)
    <3> DEFINE m == a * Scale
    <3>1. m \in Nat
      BY <1>1, <2>1
    <3> HIDE DEF m
    <3>2. g \in 0..m
      BY ONLY <2>4, <3>1 DEF m
    <3> QED BY <2>2, <3>2 DEF m
  <2> QED BY ONLY <2>2, <2>3, <2>4, <2>5, <2>6 DEF a
<1>3. jobs' = [b \in Buildings |->
         IF in.use[b] \in JobUses THEN JobGfa(b) * (JobScale \div in.perJob[in.use[b]]) ELSE 0]
  BY DEF EstimateEmployment
<1>4. jobs' \in [Buildings -> Nat]
  BY <1>2, <1>3
<1>5. JobsWhole(jobs')
  <2> SUFFICES ASSUME NEW b \in Buildings
               PROVE /\ JobGfa(b) \in 0..(in.gfa[b] * Scale)
                     /\ IF in.use[b] \in JobUses
                        THEN jobs'[b] * in.perJob[in.use[b]] = JobGfa(b) * JobScale
                        ELSE JobGfa(b) = 0 /\ jobs'[b] = 0
    BY DEF JobsWhole
  <2>1. jobs'[b] = IF in.use[b] \in JobUses THEN JobGfa(b) * (JobScale \div in.perJob[in.use[b]])
                   ELSE 0
    BY <1>3
  <2> QED BY <1>2, <2>1
<1> QED BY <1>4, <1>5 DEF EstimateEmployment

\* So they do for any set of buildings.
LEMMA TotalsAgree ==
  ASSUME in \in DemographyCases, Dealt, jobs \in [Buildings -> Nat], NEW bs \in SUBSET Buildings
  PROVE /\ Total(bs) \in Figures
        /\ SumFunctionOnSet(Total(bs).ages, Groups) = Total(bs).population
<1> DEFINE c == [g \in Groups |-> SumFunctionOnSet([b \in Buildings |-> ages[b][g]], bs)]
           d == [g \in Groups |-> SumFunctionOnSet([b \in bs |-> ages[b][g]], bs)]
           r == [b \in bs |-> SumFunctionOnSet(ages[b], Groups)]
<1>1. IsFiniteSet(bs) /\ IsFiniteSet(Groups)
  BY BlockFacts, GroupFacts, FS_Subset
<1>2. Total(bs).population = SumFunctionOnSet(residents, bs) /\ Total(bs).ages = c
  BY DEF Total
<1>3. \A b \in bs : /\ residents[b] \in Nat /\ r[b] = residents[b] /\ r[b] \in Int
                    /\ \A g \in Groups : ages[b][g] \in Nat /\ ages[b][g] \in Int
  BY DEF Dealt
<1>4. ASSUME NEW g \in Groups PROVE c[g] \in Nat /\ c[g] = d[g]
  <2> DEFINE f == [b \in Buildings |-> ages[b][g]]
             h == [b \in bs |-> ages[b][g]]
  <2>1. \A b \in bs : f[b] \in Nat /\ f[b] \in Int /\ f[b] = h[b]
    BY <1>3
  <2>2. c[g] = SumFunctionOnSet(f, bs) /\ d[g] = SumFunctionOnSet(h, bs)
    OBVIOUS
  <2> HIDE DEF f, h, c, d
  <2>3. SumFunctionOnSet(f, bs) = SumFunctionOnSet(h, bs)
    BY ONLY <1>1, <2>1, SumSame
  <2>4. SumFunctionOnSet(f, bs) \in Nat
    BY ONLY <1>1, <2>1, SumIsNat
  <2> QED BY ONLY <2>2, <2>3, <2>4
<1>5. SumFunctionOnSet(residents, bs) \in Nat
  BY ONLY <1>1, <1>3, SumIsNat
<1>6. SumFunctionOnSet(r, bs) = SumFunctionOnSet(d, Groups)
  BY ONLY <1>1, <1>3, SumExchange
<1> HIDE DEF c, d, r
<1>7. SumFunctionOnSet(r, bs) = SumFunctionOnSet(residents, bs)
  BY ONLY <1>1, <1>3, SumSame
<1>8. SumFunctionOnSet(c, Groups) = SumFunctionOnSet(d, Groups)
  <2>1. \A g \in Groups : c[g] \in Int /\ c[g] = d[g]
    BY <1>4
  <2> QED BY ONLY <1>1, <2>1, SumSame
<1>9. c \in [Groups -> Nat]
  BY <1>4 DEF c
<1>10. SumFunctionOnSet(jobs, bs) \in Nat
  <2>1. \A b \in bs : jobs[b] \in Nat
    OBVIOUS
  <2> QED BY ONLY <1>1, <2>1, SumIsNat
<1>11. Total(bs).jobs = SumFunctionOnSet(jobs, bs) /\ Total(bs).buildings = Cardinality(bs)
  BY DEF Total
<1>12. Cardinality(bs) \in Nat
  BY <1>1, FS_CardinalityType
<1>13. Total(bs) = [buildings |-> Total(bs).buildings, population |-> Total(bs).population,
                   ages |-> Total(bs).ages, jobs |-> Total(bs).jobs]
  BY DEF Total
<1> DEFINE t == Total(bs)
<1> HIDE DEF t
<1>14. t \in Figures
  BY ONLY <1>2, <1>5, <1>9, <1>10, <1>11, <1>12, <1>13 DEF Figures, t
<1> QED BY ONLY <1>2, <1>5, <1>6, <1>7, <1>8, <1>14 DEF t

\* Blocks add up to their zone.
LEMMA PartsAddUp ==
  ASSUME NEW f, \A b \in Buildings : f[b] \in Int, NEW z, NEW g,
         \A k \in Inside(z) : g[k] = SumFunctionOnSet(f, Owned(k))
  PROVE SumFunctionOnSet(g, Inside(z))
          = SumFunctionOnSet(f, UNION {Owned(k) : k \in Inside(z)})
<1> DEFINE F == [k \in Inside(z) |-> Owned(k)]
<1>1. IsFiniteSet(Inside(z))
  BY BlockFacts
<1>2. \A k \in Inside(z) : IsFiniteSet(F[k]) /\ \A b \in F[k] : f[b] \in Int
  BY BlockFacts, FS_Subset
<1>3. \A k, l \in Inside(z) : k # l => F[k] \cap F[l] = {}
  BY DEF Owned
<1>4. \A k \in Inside(z) : g[k] = SumFunctionOnSet(f, F[k])
  OBVIOUS
<1>5. UNION {F[k] : k \in Inside(z)} = UNION {Owned(k) : k \in Inside(z)}
  <2>1. \A k \in Inside(z) : F[k] = Owned(k)
    OBVIOUS
  <2> HIDE DEF F
  <2>2. \A b : (\E k \in Inside(z) : b \in F[k]) <=> (\E k \in Inside(z) : b \in Owned(k))
    BY ONLY <2>1
  <2> DEFINE A == UNION {F[k] : k \in Inside(z)}
             B == UNION {Owned(k) : k \in Inside(z)}
  <2>3. \A b : b \in A <=> \E k \in Inside(z) : b \in F[k]
    OBVIOUS
  <2>4. \A b : b \in B <=> \E k \in Inside(z) : b \in Owned(k)
    OBVIOUS
  <2> HIDE DEF A, B
  <2>5. A = B
    BY ONLY <2>2, <2>3, <2>4
  <2> QED BY <2>5 DEF A, B
<1> HIDE DEF F
<1>6. SumFunctionOnSet(g, Inside(z)) = SumFunctionOnSet(f, UNION {F[k] : k \in Inside(z)})
  <2>1. Parts(Inside(z), F, f, g)
    BY ONLY <1>1, <1>2, <1>3, <1>4 DEF Parts
  <2> QED BY ONLY <2>1, SumOfParts
<1> QED BY ONLY <1>5, <1>6

\* A set of buildings counts one for each.
One == [b \in Buildings |-> 1]
LEMMA CountIs == \A bs \in SUBSET Buildings : Cardinality(bs) = SumFunctionOnSet(One, bs)
<1> SUFFICES ASSUME NEW bs \in SUBSET Buildings PROVE SumFunctionOnSet(One, bs) = Cardinality(bs)
  OBVIOUS
<1>1. IsFiniteSet(bs) /\ bs \in SUBSET bs
  BY BlockFacts, FS_Subset
<1>2. \A b \in bs : One[b] = IF b \in bs THEN 1 ELSE 0
  BY DEF One
<1> QED BY ONLY <1>1, <1>2, SumOfMarks

LEMMA TotalsStay ==
  UNCHANGED <<in, residents, ages, jobs>> => \A bs : Total(bs)' = Total(bs)
BY DEF Total, Groups

\* A figure of the buildings, of the blocks and of the zones: if each zone has what its
\* buildings have, and what its blocks have, then every level has what all have.
Levels(f, p, q) ==
  /\ \A b \in Buildings : f[b] \in Int
  /\ DOMAIN p = Blocks /\ \A k \in Blocks : p[k] \in Int
  /\ DOMAIN q = Zones
  /\ \A z \in Zones : /\ q[z] = SumFunctionOnSet(f, UNION {Owned(k) : k \in Inside(z)})
                      /\ q[z] = SumFunctionOnSet(p, Inside(z))

LEMMA LevelsAddUp ==
  ASSUME NEW f, NEW p, NEW q, Levels(f, p, q)
  PROVE /\ SumFunction(p) = SumFunctionOnSet(f, Buildings)
        /\ SumFunction(q) = SumFunctionOnSet(f, Buildings)
<1> USE DEF Levels
<1> DEFINE F == [z \in Zones |-> UNION {Owned(k) : k \in Inside(z)}]
           G == [z \in Zones |-> Inside(z)]
<1>1. /\ IsFiniteSet(Zones) /\ IsFiniteSet(Buildings)
      /\ \A z \in Zones : F[z] \in SUBSET Buildings /\ IsFiniteSet(G[z]) /\ G[z] \in SUBSET Blocks
  BY BlockFacts
<1>2. \A z \in Zones : IsFiniteSet(F[z])
  BY <1>1, FS_Subset
<1>3. \A y, z \in Zones : y # z => G[y] \cap G[z] = {}
  BY DEF Inside
<1>4. \A z \in Zones, b \in Buildings : b \in F[z] <=> ZoneOf[BlockOf[b]] = z
  <2> SUFFICES ASSUME NEW z \in Zones, NEW b \in Buildings
               PROVE b \in F[z] <=> ZoneOf[BlockOf[b]] = z
    OBVIOUS
  <2>1. BlockOf[b] \in Blocks
    BY BlockFacts DEF Blocks, Range
  <2>2. b \in F[z] <=> \E k \in Inside(z) : b \in Owned(k)
    OBVIOUS
  <2> HIDE DEF F
  <2>3. b \in F[z] <=> BlockOf[b] \in Inside(z)
    BY <2>2 DEF Owned
  <2> QED BY <2>1, <2>3 DEF Inside
<1>5. \A b \in Buildings : ZoneOf[BlockOf[b]] \in Zones
  BY BlockFacts DEF Blocks, Range, Zones
<1>6. \A z \in Zones : q[z] = SumFunctionOnSet(f, F[z]) /\ q[z] = SumFunctionOnSet(p, G[z])
  OBVIOUS
<1>13. \A k : k \in UNION {G[z] : z \in Zones} <=> k \in Blocks
  <2>1. \A k : k \in UNION {G[z] : z \in Zones} <=> \E z \in Zones : k \in Inside(z)
    OBVIOUS
  <2>2. \A k : (\E z \in Zones : k \in Inside(z)) <=> k \in Blocks
    BY DEF Inside, Zones
  <2> QED BY ONLY <2>1, <2>2
<1> HIDE DEF F, G
<1>7. \A y, z \in Zones : y # z => F[y] \cap F[z] = {}
  BY ONLY <1>1, <1>4
<1>8. UNION {F[z] : z \in Zones} = Buildings
  BY ONLY <1>1, <1>4, <1>5
<1>9. UNION {G[z] : z \in Zones} = Blocks
  BY ONLY <1>13
<1>10. Parts(Zones, F, f, q)
  <2>1. \A z \in Zones : \A b \in F[z] : f[b] \in Int
    BY <1>1
  <2> QED BY ONLY <1>1, <1>2, <1>6, <1>7, <2>1 DEF Parts
<1>11. Parts(Zones, G, p, q)
  <2>1. \A z \in Zones : \A k \in G[z] : p[k] \in Int
    BY <1>1
  <2> QED BY ONLY <1>1, <1>3, <1>6, <2>1 DEF Parts
<1>12. /\ SumFunctionOnSet(q, Zones) = SumFunctionOnSet(f, Buildings)
       /\ SumFunctionOnSet(q, Zones) = SumFunctionOnSet(p, Blocks)
  <2>1. SumFunctionOnSet(q, Zones) = SumFunctionOnSet(f, UNION {F[z] : z \in Zones})
    BY ONLY <1>10, SumOfParts
  <2>2. SumFunctionOnSet(q, Zones) = SumFunctionOnSet(p, UNION {G[z] : z \in Zones})
    BY ONLY <1>11, SumOfParts
  <2> QED BY ONLY <1>8, <1>9, <2>1, <2>2
<1>14. SumFunction(p) = SumFunctionOnSet(p, Blocks) /\ SumFunction(q) = SumFunctionOnSet(q, Zones)
  BY WholeSum
<1> QED BY ONLY <1>12, <1>14

\* Blocks and zones that agree, zone by zone, keep every total of the run.
LEMMA LevelsAgree ==
  ASSUME DemographyInv, Dealt, FairSplit(residents, Buildings, capacity, Allocated),
         NEW bs \in [Blocks -> Figures], NEW zs, DOMAIN zs = Zones,
         \A z \in Zones : Agree(bs, zs, z)
  PROVE AggregationWhole(bs, zs) /\ GrandTotal \in Figures
<1>1. /\ in \in DemographyCases /\ jobs \in [Buildings -> Nat] /\ residents \in [Buildings -> Nat]
      /\ ages \in [Buildings -> [Groups -> Nat]] /\ capacity \in [Buildings -> Nat]
  BY DEF DemographyInv, Dealt
<1>2. /\ IsFiniteSet(Buildings) /\ Buildings \in SUBSET Buildings /\ IsFiniteSet(Groups)
      /\ IsFiniteSet(Blocks) /\ IsFiniteSet(Zones)
  BY <1>1, BlockFacts, GroupFacts
<1>3. /\ SumFunctionOnSet(residents, Buildings) = Allocated /\ Allocated \in Nat
      /\ CohortTotals \in [Groups -> Nat] /\ SumFunctionOnSet(CohortTotals, Groups) = Allocated
  <2>1. /\ SumFunctionOnSet(capacity, Buildings) \in Nat /\ Allocated \in Nat
        /\ Allocated <= SumFunctionOnSet(capacity, Buildings)
    <3>1. GeneratedTarget \in Nat
      BY <1>1, TargetIs
    <3> QED BY <3>1, AllocatedIs
  <2>2. SumFunctionOnSet(residents, Buildings) = Allocated
    BY ONLY <2>1, FairSplit(residents, Buildings, capacity, Allocated) DEF FairSplit
  <2> QED BY ONLY <2>1, <2>2, Dealt DEF Dealt
<1>4. /\ \A k \in Blocks : bs[k] \in Figures
      /\ DOMAIN bs = Blocks
  OBVIOUS
<1>5. ASSUME NEW z \in Zones
      PROVE /\ zs[z] = Total(UNION {Owned(k) : k \in Inside(z)}) /\ zs[z] \in Figures
            /\ SumFunctionOnSet(zs[z].ages, Groups) = zs[z].population
  <2> DEFINE U == UNION {Owned(k) : k \in Inside(z)}
  <2>1. U \in SUBSET Buildings
    BY BlockFacts
  <2>2. zs[z] = Total(U)
    BY DEF Agree
  <2> HIDE DEF U
  <2>3. Total(U) \in Figures /\ SumFunctionOnSet(Total(U).ages, Groups) = Total(U).population
    BY <1>1, <2>1, TotalsAgree
  <2> QED BY ONLY <2>2, <2>3 DEF U
<1>6. GrandTotal \in Figures /\ AgesWhole(GrandTotal)
  <2>1. SumFunctionOnSet(jobs, Buildings) \in Nat /\ SumFunction(jobs) = SumFunctionOnSet(jobs, Buildings)
    <3>1. (\A b \in Buildings : jobs[b] \in Nat) /\ DOMAIN jobs = Buildings
      BY <1>1
    <3> QED BY ONLY <1>2, <3>1, SumIsNat, WholeSum
  <2>2. Cardinality(Buildings) \in Nat
    BY <1>2, FS_CardinalityType
  <2>3. GrandTotal \in Figures
    BY ONLY <1>3, <2>1, <2>2 DEF GrandTotal, Figures
  <2>4. Splits(CohortTotals, Allocated)
    BY ONLY <1>2, <1>3, SplitsWhole
  <2> QED BY <2>3, <2>4 DEF AgesWhole, GrandTotal
<1>7. (\A k \in Blocks : AgesWhole(bs[k])) /\ \A z \in Zones : AgesWhole(zs[z])
  <2>1. ASSUME NEW k \in Blocks PROVE AgesWhole(bs[k])
    <3>1. ZoneOf[k] \in Zones /\ k \in Inside(ZoneOf[k])
      BY DEF Zones, Inside
    <3>2. SumFunction(bs[k].ages) = bs[k].population
      BY <3>1 DEF Agree
    <3>3. bs[k].ages \in [Groups -> Nat] /\ DOMAIN bs[k].ages = Groups
      BY <1>4 DEF Figures
    <3>4. SumFunctionOnSet(bs[k].ages, Groups) = bs[k].population
      BY ONLY <3>2, <3>3, WholeSum
    <3> QED BY ONLY <1>2, <3>3, <3>4, SplitsWhole DEF AgesWhole
  <2>2. ASSUME NEW z \in Zones PROVE AgesWhole(zs[z])
    <3>1. zs[z].ages \in [Groups -> Nat] /\ SumFunctionOnSet(zs[z].ages, Groups) = zs[z].population
      BY <1>5 DEF Figures
    <3> QED BY ONLY <1>2, <3>1, SplitsWhole DEF AgesWhole
  <2> QED BY <2>1, <2>2
<1>8. LevelKeeps(bs) /\ LevelKeeps(zs)
  <2> DEFINE U(z) == UNION {Owned(k) : k \in Inside(z)}
  <2>1. \A z \in Zones : /\ U(z) \in SUBSET Buildings /\ zs[z] = Total(U(z))
                         /\ Inside(z) \in SUBSET Blocks
    BY <1>5, BlockFacts
  <2>2. ASSUME NEW g \in Groups
        PROVE /\ SumFunction([k \in Blocks |-> bs[k].ages[g]]) = CohortTotals[g]
              /\ SumFunction([z \in Zones |-> zs[z].ages[g]]) = CohortTotals[g]
    <3> DEFINE f == [b \in Buildings |-> ages[b][g]]
               p == [k \in Blocks |-> bs[k].ages[g]]
               q == [z \in Zones |-> zs[z].ages[g]]
    <3>1. \A b \in Buildings : f[b] \in Int
      BY <1>1
    <3>2. \A k \in Blocks : p[k] \in Int
      BY <1>4 DEF Figures
    <3>3. \A z \in Zones : q[z] = SumFunctionOnSet(f, U(z))
      BY <2>1 DEF Total
    <3>4. \A z \in Zones : q[z] = SumFunctionOnSet(p, Inside(z))
      BY DEF Agree
    <3>5. SumFunctionOnSet(f, Buildings) = CohortTotals[g]
      BY DEF Dealt
    <3>6. DOMAIN p = Blocks /\ DOMAIN q = Zones
      OBVIOUS
    <3> HIDE DEF f, p, q
    <3>7. Levels(f, p, q)
      BY ONLY <3>1, <3>2, <3>3, <3>4, <3>6 DEF Levels
    <3> QED BY ONLY <3>5, <3>7, LevelsAddUp DEF p, q
  <2>3. /\ SumFunction([k \in Blocks |-> bs[k].population]) = Allocated
        /\ SumFunction([z \in Zones |-> zs[z].population]) = Allocated
    <3> DEFINE p == [k \in Blocks |-> bs[k].population]
               q == [z \in Zones |-> zs[z].population]
    <3>1. \A b \in Buildings : residents[b] \in Int
      BY <1>1
    <3>2. \A k \in Blocks : p[k] \in Int
      BY <1>4 DEF Figures
    <3>3. \A z \in Zones : q[z] = SumFunctionOnSet(residents, U(z))
      BY <2>1 DEF Total
    <3>4. \A z \in Zones : q[z] = SumFunctionOnSet(p, Inside(z))
      BY DEF Agree
    <3>6. DOMAIN p = Blocks /\ DOMAIN q = Zones
      OBVIOUS
    <3> HIDE DEF p, q
    <3>7. Levels(residents, p, q)
      BY ONLY <3>1, <3>2, <3>3, <3>4, <3>6 DEF Levels
    <3> QED BY ONLY <1>3, <3>7, LevelsAddUp DEF p, q
  <2>4. /\ SumFunction([k \in Blocks |-> bs[k].jobs]) = SumFunction(jobs)
        /\ SumFunction([z \in Zones |-> zs[z].jobs]) = SumFunction(jobs)
    <3> DEFINE p == [k \in Blocks |-> bs[k].jobs]
               q == [z \in Zones |-> zs[z].jobs]
    <3>1. \A b \in Buildings : jobs[b] \in Int
      BY <1>1
    <3>2. \A k \in Blocks : p[k] \in Int
      BY <1>4 DEF Figures
    <3>3. \A z \in Zones : q[z] = SumFunctionOnSet(jobs, U(z))
      BY <2>1 DEF Total
    <3>4. \A z \in Zones : q[z] = SumFunctionOnSet(p, Inside(z))
      BY DEF Agree
    <3>5. SumFunctionOnSet(jobs, Buildings) = SumFunction(jobs)
      BY <1>1, WholeSum
    <3>6. DOMAIN p = Blocks /\ DOMAIN q = Zones
      OBVIOUS
    <3> HIDE DEF p, q
    <3>7. Levels(jobs, p, q)
      BY ONLY <3>1, <3>2, <3>3, <3>4, <3>6 DEF Levels
    <3> QED BY ONLY <3>5, <3>7, LevelsAddUp DEF p, q
  <2>5. /\ SumFunction([k \in Blocks |-> bs[k].buildings]) = Cardinality(Buildings)
        /\ SumFunction([z \in Zones |-> zs[z].buildings]) = Cardinality(Buildings)
    <3> DEFINE p == [k \in Blocks |-> bs[k].buildings]
               q == [z \in Zones |-> zs[z].buildings]
    <3>1. \A b \in Buildings : One[b] \in Int
      BY DEF One
    <3>2. \A k \in Blocks : p[k] \in Int
      BY <1>4 DEF Figures
    <3>3. \A z \in Zones : q[z] = SumFunctionOnSet(One, U(z))
      BY <2>1, CountIs DEF Total
    <3>4. \A z \in Zones : q[z] = SumFunctionOnSet(p, Inside(z))
      BY DEF Agree
    <3>5. SumFunctionOnSet(One, Buildings) = Cardinality(Buildings)
      BY CountIs
    <3>6. DOMAIN p = Blocks /\ DOMAIN q = Zones
      OBVIOUS
    <3> HIDE DEF p, q
    <3>7. Levels(One, p, q)
      BY ONLY <3>1, <3>2, <3>3, <3>4, <3>6 DEF Levels
    <3> QED BY ONLY <3>5, <3>7, LevelsAddUp DEF p, q
  <2>6. /\ GrandTotal.buildings = Cardinality(Buildings) /\ GrandTotal.population = Allocated
        /\ GrandTotal.jobs = SumFunction(jobs) /\ GrandTotal.ages = CohortTotals
    BY DEF GrandTotal
  <2> HIDE DEF GrandTotal
  <2>7. DOMAIN bs = Blocks /\ DOMAIN zs = Zones
    OBVIOUS
  <2>8. LevelKeeps(bs)
    BY ONLY <2>2, <2>3, <2>4, <2>5, <2>6, <2>7 DEF LevelKeeps
  <2>9. LevelKeeps(zs)
    BY ONLY <2>2, <2>3, <2>4, <2>5, <2>6, <2>7 DEF LevelKeeps
  <2> QED BY <2>8, <2>9
<1> QED BY <1>6, <1>7, <1>8 DEF AggregationWhole

\* The agreement is about what the aggregation leaves alone.
LEMMA AgreeStays ==
  UNCHANGED <<in, residents, ages, jobs>> =>
    \A z \in Zones : Agree(blocks, zones, z)' <=> Agree(blocks', zones', z)
<1> SUFFICES ASSUME UNCHANGED <<in, residents, ages, jobs>>, NEW z \in Zones
             PROVE Agree(blocks, zones, z)' <=> Agree(blocks', zones', z)
  OBVIOUS
<1> DEFINE U == UNION {Owned(k) : k \in Inside(z)}
<1>1. Total(U)' = Total(U) /\ Groups' = Groups
  BY TotalsStay DEF Groups
<1> QED BY <1>1 DEF Agree

\* The aggregation agrees with the buildings.
LEMMA AggregateAgrees ==
  ASSUME DemographyInv, Aggregate
  PROVE /\ blocks' \in [Blocks -> Figures] /\ DOMAIN zones' = Zones
        /\ \A z \in Zones : Agree(blocks', zones', z)
        /\ step' = "aggregation"
<1>1. /\ in \in DemographyCases /\ Dealt /\ jobs \in [Buildings -> Nat]
      /\ FairSplit(residents, Buildings, capacity, Allocated)
      /\ blocks' = [k \in Blocks |-> Total(Owned(k))]
      /\ zones' = [z \in Zones |-> Total(UNION {Owned(k) : k \in Inside(z)})]
      /\ step' = IF InputsAgree /\ AggregationWhole(blocks', zones') THEN "aggregation" ELSE "error"
  BY DEF DemographyInv, Aggregate, Counted
<1>2. \A bs \in SUBSET Buildings :
        /\ Total(bs) \in Figures
        /\ SumFunctionOnSet(Total(bs).ages, Groups) = Total(bs).population
  BY <1>1, TotalsAgree
<1>3. blocks' \in [Blocks -> Figures]
  BY <1>1, <1>2, BlockFacts
<1>4. ASSUME NEW z \in Zones PROVE Agree(blocks', zones', z)
  <2> DEFINE U == UNION {Owned(k) : k \in Inside(z)}
  <2>1. U \in SUBSET Buildings /\ Inside(z) \in SUBSET Blocks
    BY BlockFacts
  <2>2. zones'[z] = Total(U)
    BY <1>1
  <2>3. \A k \in Inside(z) : blocks'[k] = Total(Owned(k)) /\ Owned(k) \in SUBSET Buildings
    BY <1>1, <2>1, BlockFacts
  <2>4. ASSUME NEW g \in Groups
        PROVE SumFunctionOnSet([k \in Blocks |-> blocks'[k].ages[g]], Inside(z)) = zones'[z].ages[g]
    <3> DEFINE f == [b \in Buildings |-> ages[b][g]]
               h == [k \in Blocks |-> blocks'[k].ages[g]]
    <3>1. \A b \in Buildings : f[b] \in Int
      BY <1>1 DEF Dealt
    <3>2. \A bs : Total(bs).ages[g] = SumFunctionOnSet(f, bs)
      BY DEF Total
    <3>3. \A k \in Inside(z) : h[k] = blocks'[k].ages[g]
      BY <2>1
    <3> HIDE DEF f, h, U
    <3>4. \A k \in Inside(z) : h[k] = SumFunctionOnSet(f, Owned(k))
      BY ONLY <2>3, <3>2, <3>3
    <3>5. SumFunctionOnSet(h, Inside(z)) = SumFunctionOnSet(f, U)
      BY <3>1, <3>4, PartsAddUp DEF U
    <3>6. SumFunctionOnSet(h, Inside(z)) = zones'[z].ages[g]
      BY ONLY <2>2, <3>2, <3>5
    <3> QED BY <3>6 DEF h
  <2>5. \A k \in Inside(z) : SumFunction(blocks'[k].ages) = blocks'[k].population
    <3> SUFFICES ASSUME NEW k \in Inside(z)
                 PROVE SumFunction(blocks'[k].ages) = blocks'[k].population
      OBVIOUS
    <3>1. blocks'[k] = Total(Owned(k))
      BY <2>3
    <3>2. /\ Total(Owned(k)).ages \in [Groups -> Nat]
          /\ SumFunctionOnSet(Total(Owned(k)).ages, Groups) = Total(Owned(k)).population
      BY <1>2, <2>3 DEF Figures
    <3> QED BY ONLY <3>1, <3>2 DEF SumFunction
  <2>6. SumFunctionOnSet([k \in Blocks |-> blocks'[k].population], Inside(z)) = zones'[z].population
    <3> DEFINE h == [k \in Blocks |-> blocks'[k].population]
    <3>1. \A b \in Buildings : residents[b] \in Int
      BY <1>1 DEF Dealt
    <3>2. \A bs : Total(bs).population = SumFunctionOnSet(residents, bs)
      BY DEF Total
    <3>3. \A k \in Inside(z) : h[k] = blocks'[k].population
      BY <2>1
    <3> HIDE DEF h, U
    <3>4. \A k \in Inside(z) : h[k] = SumFunctionOnSet(residents, Owned(k))
      BY ONLY <2>3, <3>2, <3>3
    <3>5. SumFunctionOnSet(h, Inside(z)) = SumFunctionOnSet(residents, U)
      BY <3>1, <3>4, PartsAddUp DEF U
    <3>6. SumFunctionOnSet(h, Inside(z)) = zones'[z].population
      BY ONLY <2>2, <3>2, <3>5
    <3> QED BY <3>6 DEF h
  <2>7. SumFunctionOnSet([k \in Blocks |-> blocks'[k].jobs], Inside(z)) = zones'[z].jobs
    <3> DEFINE h == [k \in Blocks |-> blocks'[k].jobs]
    <3>1. \A b \in Buildings : jobs[b] \in Int
      BY <1>1
    <3>2. \A bs : Total(bs).jobs = SumFunctionOnSet(jobs, bs)
      BY DEF Total
    <3>3. \A k \in Inside(z) : h[k] = blocks'[k].jobs
      BY <2>1
    <3> HIDE DEF h, U
    <3>4. \A k \in Inside(z) : h[k] = SumFunctionOnSet(jobs, Owned(k))
      BY ONLY <2>3, <3>2, <3>3
    <3>5. SumFunctionOnSet(h, Inside(z)) = SumFunctionOnSet(jobs, U)
      BY <3>1, <3>4, PartsAddUp DEF U
    <3>6. SumFunctionOnSet(h, Inside(z)) = zones'[z].jobs
      BY ONLY <2>2, <3>2, <3>5
    <3> QED BY <3>6 DEF h
  <2>8. SumFunctionOnSet([k \in Blocks |-> blocks'[k].buildings], Inside(z)) = zones'[z].buildings
    <3> DEFINE h == [k \in Blocks |-> blocks'[k].buildings]
    <3>1. \A b \in Buildings : One[b] \in Int
      BY DEF One
    <3>2. \A bs \in SUBSET Buildings : Total(bs).buildings = SumFunctionOnSet(One, bs)
      BY CountIs DEF Total
    <3>3. \A k \in Inside(z) : h[k] = blocks'[k].buildings
      BY <2>1
    <3> HIDE DEF h, U
    <3>4. \A k \in Inside(z) : h[k] = SumFunctionOnSet(One, Owned(k))
      BY ONLY <2>3, <3>2, <3>3
    <3>5. SumFunctionOnSet(h, Inside(z)) = SumFunctionOnSet(One, U)
      BY <3>1, <3>4, PartsAddUp DEF U
    <3>6. SumFunctionOnSet(h, Inside(z)) = zones'[z].buildings
      BY ONLY <2>1, <2>2, <3>2, <3>5
    <3> QED BY <3>6 DEF h
  <2> HIDE DEF U
  <2> QED BY ONLY <2>2, <2>4, <2>5, <2>6, <2>7, <2>8 DEF Agree, U
<1>5. InputsAgree
  <2>1. \A b \in Buildings : SumFunction(ages[b]) = residents[b]
    BY <1>1 DEF Dealt, SumFunction
  <2>2. GrandTotal \in Figures /\ AgesWhole(GrandTotal)
    BY <1>1, <1>3, <1>4, LevelsAgree DEF AggregationWhole
  <2>3. SumFunction(CohortTotals) = Allocated
    BY <2>2 DEF AgesWhole, Splits, GrandTotal
  <2> QED BY <2>1, <2>3 DEF InputsAgree
<1>6. AggregationWhole(blocks', zones')
  BY <1>1, <1>3, <1>4, LevelsAgree
<1>7. DOMAIN zones' = Zones
  BY <1>1
<1> QED BY <1>1, <1>3, <1>4, <1>5, <1>6, <1>7

\* What the calibration deals out in a zone: its population over its blocks, and its
\* age groups over them.
LEMMA ZoneIsDealt ==
  ASSUME DemographyInv, step = "aggregation", in.raster, Comparable, NEW z \in Zones
  PROVE /\ Margins(CalibratedPopulation(z), Inside(z), zones[z].ages, Groups)
        /\ SumFunctionOnSet(CalibratedPopulation(z), Inside(z)) = zones[z].population
<1> DEFINE rows == CalibratedPopulation(z)
           K == Inside(z)
           total == zones[z].population
<1>1. /\ in \in DemographyCases /\ Dealt /\ blocks \in [Blocks -> Figures]
      /\ Agree(blocks, zones, z) /\ jobs \in [Buildings -> Nat]
  BY DEF DemographyInv, Late, Counted
<1>2. IsFiniteSet(K) /\ K \subseteq Int /\ K \in SUBSET Blocks
  BY BlockFacts
<1>3. /\ total \in Nat /\ zones[z].ages \in [Groups -> Nat]
      /\ SumFunctionOnSet(zones[z].ages, Groups) = total
  <2> DEFINE U == UNION {Owned(k) : k \in Inside(z)}
  <2>1. U \in SUBSET Buildings /\ zones[z] = Total(U)
    BY <1>1, BlockFacts DEF Agree
  <2> HIDE DEF U
  <2>2. Total(U) \in Figures /\ SumFunctionOnSet(Total(U).ages, Groups) = Total(U).population
    BY <1>1, <2>1, TotalsAgree
  <2> QED BY ONLY <2>1, <2>2 DEF Figures, total
<1>4. \A k \in K : blocks[k].population \in Nat
  BY <1>1, <1>2 DEF Figures
<1>5. \A k \in Blocks : Evidence(k) \in Nat
  <2>1. \A k \in Blocks : samples[k].population \in Nat
    BY DEF DemographyInv, SamplesRight, SampleRight, Comparable
  <2> QED BY <2>1 DEF Evidence
<1>6. rows \in [K -> Nat] /\ SumFunctionOnSet(rows, K) = total
  <2>1. CASE HasEvidence(z)
    <3> DEFINE w == [k \in K |-> Blend(k)]
               q == in.rasterWeight
               e == EvidenceOf(z)
               f == [k \in Blocks |-> Evidence(k)]
    <3>1. q \in 0..Scale /\ q > 0 /\ Scale \in Nat \ {0} /\ total > 0 /\ e > 0
      BY <1>1, <2>1, CaseFacts DEF HasEvidence
    <3>2. e = SumFunctionOnSet(f, K)
      BY DEF EvidenceOf
    <3>3. \A k \in K : f[k] \in Nat /\ f[k] = Evidence(k)
      BY <1>2, <1>5
    <3>4. e \in Nat
      <4> HIDE DEF f
      <4> QED BY <1>2, <3>2, <3>3, SumIsNat
    <3>5. \A k \in K : w[k] = (Scale - q) * blocks[k].population * e + q * Evidence(k) * total
      BY DEF Blend, Inside
    <3>6. PICK m \in K : Evidence(m) > 0
      <4> SUFFICES ASSUME \A k \in K : f[k] = 0 PROVE FALSE
        BY <3>3
      <4> HIDE DEF f, K
      <4>1. SumFunctionOnSet(f, K) = 0
        BY <1>2, SumOfZeros
      <4> QED BY ONLY <3>1, <3>2, <4>1
    <3> HIDE DEF w, q, e, total, f
    <3>7. ASSUME NEW k \in K PROVE w[k] \in Nat /\ (Evidence(k) > 0 => w[k] > 0)
      <4> DEFINE a == blocks[k].population
                 v == Evidence(k)
                 x == (Scale - q) * a
                 y == q * v
      <4>1. a \in Nat /\ v \in Nat
        BY <1>2, <1>4, <1>5
      <4>2. w[k] = x * e + y * total
        BY <3>5
      <4> HIDE DEF a, v
      <4>3. x \in Nat /\ y \in Nat /\ (v > 0 => y > 0)
        BY ONLY <3>1, <4>1
      <4> HIDE DEF x, y
      <4>4. x * e \in Nat
        BY ONLY <3>4, <4>3
      <4>5. y * total \in Nat /\ (v > 0 => y * total > 0)
        BY ONLY <1>3, <3>1, <4>3
      <4>6. w[k] \in Nat /\ (v > 0 => w[k] > 0)
        BY ONLY <4>2, <4>4, <4>5
      <4> QED BY <4>6 DEF v
    <3>8. w \in [K -> Nat]
      BY <3>7 DEF w
    <3>9. SumFunctionOnSet(w, K) > 0
      <4>1. {m} \in SUBSET K /\ w[m] \in Nat /\ w[m] \in Int /\ w[m] > 0
        BY <3>6, <3>7
      <4>2. \A k \in K : w[k] \in Nat
        BY <3>7
      <4>3. SumFunctionOnSet(w, {m}) <= SumFunctionOnSet(w, K)
        BY ONLY <1>2, <4>1, <4>2, SumGrows
      <4>4. SumFunctionOnSet(w, {m}) = w[m]
        BY ONLY <4>1, SumOfOne
      <4>5. SumFunctionOnSet(w, K) \in Nat
        BY ONLY <1>2, <4>2, SumIsNat
      <4> QED BY ONLY <4>1, <4>3, <4>4, <4>5
    <3>10. rows = Apportion(total, w)
      <4>1. zones[z].population # 0
        BY <3>1 DEF total
      <4> QED BY <2>1, <4>1 DEF CalibratedPopulation, total, w
    <3>11. FairSplit(Apportion(total, w), K, w, total)
      BY ONLY <1>2, <1>3, <3>8, ApportionIsFair
    <3> QED BY <3>9, <3>10, <3>11 DEF FairSplit
  <2>3. CASE total = 0
    <3>1. rows = Zero(K)
      BY <2>3 DEF CalibratedPopulation
    <3> HIDE DEF rows, K, total
    <3>2. rows \in [K -> Nat] /\ \A k \in K : rows[k] = 0
      BY ONLY <3>1 DEF Zero
    <3>3. SumFunctionOnSet(rows, K) = 0
      BY ONLY <1>2, <3>2, SumOfZeros
    <3> QED BY ONLY <2>3, <3>2, <3>3
  <2>2. CASE total # 0 /\ ~HasEvidence(z)
    <3> DEFINE h == [k \in Blocks |-> blocks[k].population]
    <3>1. rows = [k \in K |-> blocks[k].population]
      BY <2>2 DEF CalibratedPopulation
    <3> HIDE DEF rows
    <3>2. rows \in [K -> Nat] /\ \A k \in K : rows[k] \in Int /\ rows[k] = h[k]
      BY <1>2, <1>4, <3>1
    <3>3. SumFunctionOnSet(h, K) = total
      BY <1>1 DEF Agree
    <3> HIDE DEF h, K, total
    <3>4. SumFunctionOnSet(rows, K) = SumFunctionOnSet(h, K)
      BY ONLY <1>2, <3>2, SumSame
    <3> QED BY <3>2, <3>3, <3>4
  <2> QED BY <2>1, <2>2, <2>3
<1>7. IsFiniteSet(Groups) /\ Groups \subseteq Int
  BY <1>1, GroupFacts
<1> HIDE DEF rows, K, total
<1>8. Margins(rows, K, zones[z].ages, Groups)
  BY ONLY <1>2, <1>3, <1>6, <1>7 DEF Margins
<1> QED BY <1>6, <1>8 DEF rows, K, total


\* What leaves some blocks arrives in others: half the shifts are arrivals.
LEMMA ShiftsHalve ==
  ASSUME NEW now \in [Blocks -> Nat], NEW new \in [Blocks -> Nat],
         SumFunctionOnSet(now, Blocks) = SumFunctionOnSet(new, Blocks),
         NEW shift, shift = [k \in Blocks |-> ShiftOf(now[k], new[k])]
  PROVE SumFunction(shift) \div 2 = SumFunction(Arrivals(now, new))
<1> DEFINE a == Arrivals(now, new)
           d == [k \in Blocks |-> now[k] - new[k]]
           e == [k \in Blocks |-> 2 * a[k]]
<1>1. IsFiniteSet(Blocks)
  BY BlockFacts
<1>2. \A k \in Blocks : /\ now[k] \in Int /\ new[k] \in Int /\ d[k] \in Int
                        /\ d[k] = now[k] - new[k] /\ now[k] = new[k] + d[k]
  OBVIOUS
<1>3. \A k \in Blocks : a[k] = IF new[k] - now[k] > 0 THEN new[k] - now[k] ELSE 0
  <2>1. \A k \in Blocks : a[k] = Max({0, new[k] - now[k]}) /\ new[k] - now[k] \in Int
    BY <1>2 DEF Arrivals
  <2> HIDE DEF a
  <2> QED BY ONLY <2>1, AboveZero
<1>4. \A k \in Blocks : e[k] = 2 * a[k] /\ shift[k] = IF now[k] < new[k] THEN new[k] - now[k]
                                                     ELSE now[k] - new[k]
  BY DEF ShiftOf
<1>5. DOMAIN a = Blocks /\ DOMAIN shift = Blocks
  BY DEF Arrivals
<1> HIDE DEF a, d, e
<1>6. \A k \in Blocks : a[k] \in Int /\ e[k] \in Int /\ shift[k] = e[k] + d[k]
  BY ONLY <1>2, <1>3, <1>4
<1>7. SumFunctionOnSet(now, Blocks) = SumFunctionOnSet(new, Blocks) + SumFunctionOnSet(d, Blocks)
  BY ONLY <1>1, <1>2, SumOfSum
<1>8. SumFunctionOnSet(shift, Blocks) = SumFunctionOnSet(e, Blocks) + SumFunctionOnSet(d, Blocks)
  BY ONLY <1>1, <1>2, <1>6, SumOfSum
<1>9. SumFunctionOnSet(e, Blocks) = 2 * SumFunctionOnSet(a, Blocks)
  BY ONLY <1>1, <1>4, <1>6, SumOfTimes
<1>10. /\ SumFunctionOnSet(a, Blocks) \in Int /\ SumFunctionOnSet(d, Blocks) \in Int
       /\ SumFunctionOnSet(e, Blocks) \in Int /\ SumFunctionOnSet(new, Blocks) \in Int
  <2>1. (\A k \in Blocks : a[k] \in Int) /\ (\A k \in Blocks : d[k] \in Int)
        /\ (\A k \in Blocks : e[k] \in Int) /\ (\A k \in Blocks : new[k] \in Int)
    BY <1>2, <1>6
  <2> QED BY ONLY <1>1, <2>1, SumIsInt
<1>11. SumFunction(shift) = SumFunctionOnSet(shift, Blocks) /\ SumFunction(a) = SumFunctionOnSet(a, Blocks)
  BY ONLY <1>5, WholeSum
<1>12. SumFunctionOnSet(d, Blocks) = 0
  BY ONLY <1>7, <1>10, SumFunctionOnSet(now, Blocks) = SumFunctionOnSet(new, Blocks)
<1>13. SumFunction(shift) = 2 * SumFunction(a) /\ SumFunction(a) \in Int
  BY ONLY <1>8, <1>9, <1>10, <1>11, <1>12
<1>14. SumFunction(shift) \div 2 = SumFunction(a)
  BY ONLY <1>13
<1> QED BY <1>14 DEF a

\* The calibration moves residents between the blocks of a zone and keeps the zone.
LEMMA CalibrationAgrees ==
  ASSUME DemographyInv, Calibrate
  PROVE /\ step' = "calibration" /\ blocks' \in [Blocks -> Figures]
        /\ \A z \in Zones : Agree(blocks', zones', z)
        /\ AuditRight'
<1> DEFINE rows == [z \in Zones |-> CalibratedPopulation(z)]
           cohorts == [z \in Zones |-> Matrix(rows[z], zones[z].ages)]
<1>1. /\ step = "aggregation" /\ in.raster /\ Comparable /\ blocks \in [Blocks -> Figures]
      /\ DOMAIN zones = Zones
      /\ UNCHANGED <<in, residents, ages, jobs, zones>>
      /\ FairSplit(residents, Buildings, capacity, Allocated) /\ Dealt
      /\ \A z \in Zones : Agree(blocks, zones, z)
  <2>1. /\ step = "aggregation" /\ in.raster /\ Comparable
        /\ UNCHANGED <<in, residents, ages, jobs, zones>>
    BY Zenon DEF Calibrate
  <2>2. /\ blocks \in [Blocks -> Figures] /\ DOMAIN zones = Zones /\ Dealt
        /\ FairSplit(residents, Buildings, capacity, Allocated)
        /\ \A z \in Zones : Agree(blocks, zones, z)
    BY <2>1 DEF DemographyInv, Late, Counted
  <2> QED BY <2>1, <2>2
<1>2. /\ blocks' = [k \in Blocks |-> [blocks[k] EXCEPT !.population = rows[ZoneOf[k]][k],
                                                      !.ages = cohorts[ZoneOf[k]][k]]]
      /\ audit' = AuditOf(rows)
  BY Zenon DEF Calibrate
<1>3. step' = IF /\ \A z \in Zones : ZoneWhole(z) /\ Exact(cohorts[z], rows[z], zones[z].ages)
                 /\ AggregationWhole(blocks', zones)
              THEN "calibration" ELSE "error"
  BY Zenon DEF Calibrate
<1>4. ASSUME NEW z \in Zones
      PROVE /\ Margins(rows[z], Inside(z), zones[z].ages, Groups)
            /\ Keeps(cohorts[z], rows[z], Inside(z), zones[z].ages, Groups)
            /\ SumFunctionOnSet(rows[z], Inside(z)) = zones[z].population
            /\ Exact(cohorts[z], rows[z], zones[z].ages)
  <2>1. rows[z] = CalibratedPopulation(z) /\ cohorts[z] = Matrix(rows[z], zones[z].ages)
    OBVIOUS
  <2>2. /\ Margins(rows[z], Inside(z), zones[z].ages, Groups)
        /\ SumFunctionOnSet(rows[z], Inside(z)) = zones[z].population
    BY <1>1, <2>1, ZoneIsDealt
  <2> HIDE DEF rows, cohorts
  <2>3. Keeps(cohorts[z], rows[z], Inside(z), zones[z].ages, Groups)
    BY ONLY <2>1, <2>2, MatrixIsExact
  <2>4. Exact(cohorts[z], rows[z], zones[z].ages)
    BY ONLY <2>1, <2>2, MatrixNeverErrs
  <2> QED BY <2>2, <2>3, <2>4
<1> HIDE DEF rows, cohorts
<1>5. ASSUME NEW k \in Blocks
      PROVE /\ blocks'[k].population = rows[ZoneOf[k]][k] /\ blocks'[k].ages = cohorts[ZoneOf[k]][k]
            /\ blocks'[k].jobs = blocks[k].jobs /\ blocks'[k].buildings = blocks[k].buildings
            /\ blocks'[k] \in Figures
  <2>1. blocks[k] \in Figures
    BY <1>1
  <2>2. ZoneOf[k] \in Zones /\ k \in Inside(ZoneOf[k])
    BY DEF Zones, Inside
  <2>3. rows[ZoneOf[k]][k] \in Nat /\ cohorts[ZoneOf[k]][k] \in [Groups -> Nat]
    BY <1>4, <2>2 DEF Margins, Keeps
  <2>4. blocks'[k] = [blocks[k] EXCEPT !.population = rows[ZoneOf[k]][k],
                                       !.ages = cohorts[ZoneOf[k]][k]]
    BY <1>2
  <2> DEFINE p == rows[ZoneOf[k]][k]
             a == cohorts[ZoneOf[k]][k]
  <2> HIDE DEF p, a
  <2>5. blocks'[k] = [blocks[k] EXCEPT !.population = p, !.ages = a] /\ p \in Nat /\ a \in [Groups -> Nat]
    BY <2>3, <2>4 DEF p, a
  <2>6. /\ blocks'[k].population = p /\ blocks'[k].ages = a /\ blocks'[k].jobs = blocks[k].jobs
        /\ blocks'[k].buildings = blocks[k].buildings /\ blocks'[k] \in Figures
    BY ONLY <2>1, <2>5 DEF Figures
  <2> QED BY <2>6 DEF p, a
<1>6. blocks' \in [Blocks -> Figures]
  BY <1>2, <1>5
<1>7. ASSUME NEW z \in Zones PROVE Agree(blocks', zones', z)
  <2> DEFINE K == Inside(z)
             R == rows[z]
             C == cohorts[z]
  <2>1. \A k \in K : k \in Blocks /\ blocks'[k].population = R[k] /\ blocks'[k].ages = C[k]
    BY <1>5 DEF Inside
  <2>2. /\ IsFiniteSet(K) /\ R \in [K -> Nat] /\ C \in [K -> [Groups -> Nat]]
        /\ \A k \in K : SumFunctionOnSet(C[k], Groups) = R[k]
        /\ \A g \in Groups : SumFunctionOnSet([k \in K |-> C[k][g]], K) = zones[z].ages[g]
        /\ SumFunctionOnSet(R, K) = zones[z].population
    BY <1>4 DEF Margins, Keeps
  <2> HIDE DEF K, R, C
  <2>3. ASSUME NEW g \in Groups
        PROVE SumFunctionOnSet([k \in Blocks |-> blocks'[k].ages[g]], K) = zones[z].ages[g]
    <3> DEFINE f == [k \in Blocks |-> blocks'[k].ages[g]]
               h == [k \in K |-> C[k][g]]
    <3>1. \A k \in K : h[k] = C[k][g] /\ h[k] \in Int
      BY <2>2
    <3>2. \A k \in K : f[k] = C[k][g]
      BY <2>1
    <3>3. SumFunctionOnSet(h, K) = zones[z].ages[g]
      BY <2>2
    <3> HIDE DEF f, h
    <3>4. \A k \in K : f[k] \in Int /\ f[k] = h[k]
      BY ONLY <3>1, <3>2
    <3>5. SumFunctionOnSet(f, K) = SumFunctionOnSet(h, K)
      BY ONLY <2>2, <3>4, SumSame
    <3>6. SumFunctionOnSet(f, K) = zones[z].ages[g]
      BY ONLY <3>3, <3>5
    <3> QED BY <3>6 DEF f
  <2>4. SumFunctionOnSet([k \in Blocks |-> blocks'[k].population], K) = zones[z].population
    <3> DEFINE f == [k \in Blocks |-> blocks'[k].population]
    <3>1. \A k \in K : f[k] = R[k]
      BY <2>1
    <3> HIDE DEF f
    <3>2. \A k \in K : f[k] \in Int /\ f[k] = R[k]
      BY ONLY <2>2, <3>1
    <3>3. SumFunctionOnSet(f, K) = SumFunctionOnSet(R, K)
      BY ONLY <2>2, <3>2, SumSame
    <3>4. SumFunctionOnSet(f, K) = zones[z].population
      BY ONLY <2>2, <3>3
    <3> QED BY <3>4 DEF f
  <2>5. \A k \in K : SumFunction(blocks'[k].ages) = blocks'[k].population
    <3>1. \A k \in K : DOMAIN C[k] = Groups
      BY ONLY <2>2
    <3> QED BY ONLY <2>1, <2>2, <3>1 DEF SumFunction
  <2>6. zones' = zones /\ zones[z] = Total(UNION {Owned(k) : k \in K})
    BY <1>1 DEF Agree, K
  <2>7. SumFunctionOnSet([k \in Blocks |-> blocks'[k].jobs], K) = zones[z].jobs
    <3>1. [k \in Blocks |-> blocks'[k].jobs] = [k \in Blocks |-> blocks[k].jobs]
      BY <1>5
    <3> QED BY <1>1, <3>1 DEF Agree, K
  <2>8. SumFunctionOnSet([k \in Blocks |-> blocks'[k].buildings], K) = zones[z].buildings
    <3>1. [k \in Blocks |-> blocks'[k].buildings] = [k \in Blocks |-> blocks[k].buildings]
      BY <1>5
    <3> QED BY <1>1, <3>1 DEF Agree, K
  <2> QED BY ONLY <2>3, <2>4, <2>5, <2>6, <2>7, <2>8 DEF Agree, K
<1>8. zones' = zones /\ DOMAIN zones = Zones
  BY <1>1
<1>9. AggregationWhole(blocks', zones) /\ AggregationWhole(blocks, zones)
  BY <1>1, <1>6, <1>7, <1>8, LevelsAgree
<1>10. \A z \in Zones : ZoneWhole(z)
  BY <1>1, BlockFacts DEF ZoneWhole, Agree
<1>11. step' = "calibration"
  BY <1>3, <1>4, <1>9, <1>10
<1>12. AuditRight'
  <2> DEFINE now == [k \in Blocks |-> blocks[k].population]
             new == [k \in Blocks |-> rows[ZoneOf[k]][k]]
             same == [k \in Blocks |-> blocks'[k].population]
             shift == [k \in Blocks |-> ShiftOf(blocks[k].population, new[k])]
             step1 == [k \in Blocks |-> ShiftOf(now[k], new[k])]
  <2>1. audit'.original = now /\ audit'.calibrated = new /\ audit'.moved = SumFunction(shift) \div 2
    BY <1>2 DEF AuditOf
  <2>2. shift = step1
    OBVIOUS
  <2>3. new = same
    BY <1>5
  <2>4. now \in [Blocks -> Nat] /\ same \in [Blocks -> Nat]
    BY <1>1, <1>6 DEF Figures
  <2>5. SumFunction(now) = GrandTotal.population /\ SumFunction(same) = GrandTotal.population
    BY <1>1, <1>6, <1>9 DEF AggregationWhole, LevelKeeps
  <2> HIDE DEF now, new, same, shift
  <2>6. SumFunctionOnSet(now, Blocks) = SumFunctionOnSet(new, Blocks)
    BY ONLY <2>3, <2>4, <2>5, WholeSum
  <2>7. step1 = [k \in Blocks |-> ShiftOf(now[k], new[k])]
    OBVIOUS
  <2> HIDE DEF step1
  <2>8. SumFunction(step1) \div 2 = SumFunction(Arrivals(now, new))
    BY ONLY <2>3, <2>4, <2>6, <2>7, ShiftsHalve
  <2> QED BY ONLY <2>1, <2>2, <2>8 DEF AuditRight, Arrivals
<1> QED BY <1>6, <1>7, <1>11, <1>12

\* The signals of the blocks add up to those of the run.
LEMMA ProfileIsBuilt == ASSUME DemographyInv, BuildProfile PROVE step' = "done"
<1> DEFINE w == in.working
           p == [k \in Blocks |-> blocks[k].population]
           q == [k \in Blocks |-> blocks[k].population * w]
<1>1. /\ step \in Late /\ blocks \in [Blocks -> Figures] /\ DOMAIN zones = Zones
      /\ \A z \in Zones : Agree(blocks, zones, z)
      /\ Dealt /\ FairSplit(residents, Buildings, capacity, Allocated) /\ w \in Nat
  <2>1. step \in Late
    BY DEF BuildProfile, Late
  <2> QED BY <2>1, CaseFacts DEF DemographyInv, Late, Counted
<1>2. AggregationWhole(blocks, zones) /\ GrandTotal \in Figures
  BY <1>1, LevelsAgree
<1>3. /\ DOMAIN blocks = Blocks /\ SumFunction(p) = GrandTotal.population
      /\ SumFunction([k \in Blocks |-> blocks[k].jobs]) = GrandTotal.jobs
      /\ \A g \in Groups : SumFunction([k \in Blocks |-> blocks[k].ages[g]]) = GrandTotal.ages[g]
      /\ \A k \in Blocks : AgesWhole(blocks[k])
      /\ AgesWhole(GrandTotal)
  BY <1>1, <1>2 DEF AggregationWhole, LevelKeeps
<1>4. SumFunction(q) = GrandTotal.population * w
  <2>1. \A k \in Blocks : p[k] \in Int /\ q[k] = w * p[k]
    BY <1>1 DEF Figures
  <2>2. DOMAIN p = Blocks /\ DOMAIN q = Blocks /\ IsFiniteSet(Blocks)
    BY BlockFacts
  <2>3. GrandTotal.population \in Nat
    BY <1>2 DEF Figures
  <2> HIDE DEF p, q, w
  <2>4. SumFunctionOnSet(q, Blocks) = w * SumFunctionOnSet(p, Blocks)
    BY ONLY <1>1, <2>1, <2>2, SumOfTimes
  <2>5. SumFunction(q) = SumFunctionOnSet(q, Blocks) /\ SumFunction(p) = SumFunctionOnSet(p, Blocks)
    BY ONLY <2>2, WholeSum
  <2>6. SumFunctionOnSet(p, Blocks) = GrandTotal.population
    BY <1>3, <2>5
  <2> QED BY ONLY <1>1, <2>3, <2>4, <2>5, <2>6
<1>5. MetricsWhole
  BY <1>3 DEF MetricsWhole
<1>6. /\ profile'.block = [k \in Blocks |-> Signals(blocks[k])]
      /\ profile'.total = Signals(GrandTotal)
      /\ step' = IF ProfileWhole(profile') /\ MetricsWhole THEN "done" ELSE "error"
  BY DEF BuildProfile, BlockDemands
<1>7. /\ [k \in Blocks |-> profile'.block[k].population] = p
      /\ [k \in Blocks |-> profile'.block[k].workforce] = q
      /\ [k \in Blocks |-> profile'.block[k].jobs] = [k \in Blocks |-> blocks[k].jobs]
      /\ \A g \in Groups : [k \in Blocks |-> profile'.block[k].ages[g]]
                             = [k \in Blocks |-> blocks[k].ages[g]]
      /\ profile'.total.population = GrandTotal.population
      /\ profile'.total.workforce = GrandTotal.population * w
      /\ profile'.total.jobs = GrandTotal.jobs /\ profile'.total.ages = GrandTotal.ages
  BY <1>6 DEF Signals
<1> HIDE DEF p, q, w
<1>8. ProfileWhole(profile')
  BY ONLY <1>3, <1>4, <1>7 DEF ProfileWhole
<1> QED BY <1>5, <1>6, <1>8

LEMMA CellsStay ==
  UNCHANGED in => /\ CellPopulation' = CellPopulation
                  /\ \A k : CellsAsked(k)' = CellsAsked(k) /\ CellsWithData(k)' = CellsWithData(k)
BY DEF CellPopulation, CellsAsked, CellsWithData

\* The samples count every cell once, without an error.
LEMMA SamplesAre ==
  ASSUME DemographyInv, Sample
  PROVE /\ SamplesRight' /\ step' = "start" /\ UNCHANGED <<in, stageVars>>
<1>1. /\ in \in DemographyCases /\ in.raster /\ SubjectsAccepted /\ UNCHANGED <<in, stageVars>>
      /\ samples' = [k \in DOMAIN in.windows |-> SampleOf(k)]
      /\ step' = IF \A k \in DOMAIN samples' : SampleWhole(samples'[k]) THEN "start" ELSE "error"
  BY DEF DemographyInv, Sample
<1>2. \A k \in DOMAIN in.windows : SampleRight(SampleOf(k), k) /\ SampleWhole(SampleOf(k))
  BY <1>1, SampleIsRight
<1>3. DOMAIN samples' = DOMAIN in.windows
  BY <1>1
<1>4. \A k \in DOMAIN samples' : SampleRight(samples'[k], k) /\ SampleWhole(samples'[k])
  BY <1>1, <1>2
<1>5. SamplesRight'
  BY <1>1, <1>4, CellsStay DEF SamplesRight, SampleRight
<1> QED BY <1>1, <1>4, <1>5

\* Every step of the stage keeps the invariant.
LEMMA DemographyStep == DemographyInv /\ [DemographyNext]_demography => DemographyInv'
<1> SUFFICES ASSUME DemographyInv, [DemographyNext]_demography PROVE DemographyInv'
  OBVIOUS
<1>1. ASSUME UNCHANGED <<in, capacity>>
      PROVE Allocated' = Allocated /\ Groups' = Groups /\ Figures' = Figures
  BY <1>1 DEF Allocated, GeneratedTarget, TargetTotal, Groups, Figures
<1>2. ASSUME UNCHANGED <<in, capacity, residents>>
      PROVE FairSplit(residents, Buildings, capacity, Allocated)'
              <=> FairSplit(residents, Buildings, capacity, Allocated)
  BY <1>1, <1>2
<1>3. ASSUME UNCHANGED <<in, residents, ages>> PROVE Dealt' <=> Dealt
  BY <1>3 DEF Dealt, Groups, CohortTotals
<1>4. ASSUME UNCHANGED <<in, residents, ages, jobs, blocks, zones>>
      PROVE \A z \in Zones : Agree(blocks, zones, z)' <=> Agree(blocks, zones, z)
  <2>1. \A z \in Zones : Agree(blocks', zones', z) <=> Agree(blocks, zones, z)
    BY <1>4
  <2> QED BY <1>4, <2>1, AgreeStays
<1>13. ASSUME UNCHANGED <<in, samples>> PROVE SamplesRight'
  <2>1. SamplesRight
    BY DEF DemographyInv
  <2> QED BY <1>13, <2>1, CellsStay DEF SamplesRight, SampleRight
<1>14. ASSUME UNCHANGED audit PROVE AuditRight' <=> AuditRight
  BY <1>14 DEF AuditRight, Arrivals
<1>15. CASE Sample
  <2>1. SamplesRight' /\ step' = "start" /\ UNCHANGED <<in, stageVars>>
    BY <1>15, SamplesAre
  <2> QED BY <2>1 DEF stageVars, DemographyInv, Late, Counted
<1>5. CASE CalculateCapacity
  <2>1. /\ capacity' \in [Buildings -> Nat] /\ step' = "capacity"
        /\ UNCHANGED <<in, samples, residents, ages, jobs, blocks, zones, audit, profile>>
    BY <1>5, CapacityIsNat DEF CalculateCapacity
  <2> QED BY <1>13, <2>1 DEF DemographyInv, Late, Counted
<1>6. CASE AllocatePopulation
  <2>1. FairSplit(residents', Buildings, capacity, Allocated) /\ step' = "population"
    BY <1>6, ResidentsAreDealt
  <2>2. UNCHANGED <<in, samples, capacity, jobs>> /\ Allocated' = Allocated
    BY <1>1, <1>6 DEF AllocatePopulation
  <2> QED BY <1>13, <2>1, <2>2 DEF DemographyInv, Late, Counted
<1>7. CASE AllocateAges
  <2>1. /\ Dealt' /\ step' = "ages" /\ step = "population"
        /\ UNCHANGED <<in, samples, capacity, residents, jobs>>
    BY <1>7, AgesAreDealt DEF AllocateAges
  <2> QED BY <1>2, <1>13, <2>1 DEF DemographyInv, Late, Counted
<1>8. CASE EstimateEmployment
  <2>1. /\ step = "ages" /\ step' = "employment" /\ jobs' \in [Buildings -> Nat]
        /\ UNCHANGED <<in, samples, capacity, residents, ages, blocks, zones>>
    BY <1>8, JobsAreNat DEF EstimateEmployment
  <2>2. FairSplit(residents, Buildings, capacity, Allocated) /\ Dealt
    BY <2>1 DEF DemographyInv, Late, Counted
  <2>3. FairSplit(residents, Buildings, capacity, Allocated)' /\ Dealt' /\ SamplesRight'
    BY <1>2, <1>3, <1>13, <2>1, <2>2
  <2>4. in' \in DemographyCases /\ capacity' \in [Buildings -> Nat]
    BY <2>1 DEF DemographyInv
  <2> QED BY ONLY <2>1, <2>3, <2>4 DEF DemographyInv, Late, Counted
<1>9. CASE Aggregate
  <2>1. /\ step = "employment" /\ UNCHANGED <<in, samples, capacity, residents, ages, jobs>>
    BY <1>9 DEF Aggregate
  <2>2. FairSplit(residents, Buildings, capacity, Allocated) /\ Dealt
    BY <2>1 DEF DemographyInv, Late, Counted
  <2>3. FairSplit(residents, Buildings, capacity, Allocated)' /\ Dealt' /\ SamplesRight'
    BY <1>2, <1>3, <1>13, <2>1, <2>2
  <2>4. /\ step' = "aggregation" /\ blocks' \in [Blocks -> Figures'] /\ DOMAIN zones' = Zones
        /\ \A z \in Zones : Agree(blocks, zones, z)'
    BY <1>1, <1>9, <2>1, AggregateAgrees, AgreeStays
  <2>5. in' \in DemographyCases /\ capacity' \in [Buildings -> Nat] /\ jobs' \in [Buildings -> Nat]
    BY <2>1 DEF DemographyInv
  <2> QED BY ONLY <2>3, <2>4, <2>5 DEF DemographyInv, Late, Counted
<1>10. CASE Calibrate
  <2>1. /\ step = "aggregation" /\ UNCHANGED <<in, samples, capacity, residents, ages, jobs, zones>>
    BY <1>10 DEF Calibrate
  <2>2. /\ FairSplit(residents, Buildings, capacity, Allocated) /\ Dealt /\ DOMAIN zones = Zones
    BY <2>1 DEF DemographyInv, Late, Counted
  <2>3. FairSplit(residents, Buildings, capacity, Allocated)' /\ Dealt' /\ SamplesRight'
    BY <1>2, <1>3, <1>13, <2>1, <2>2
  <2>4. /\ step' = "calibration" /\ blocks' \in [Blocks -> Figures'] /\ DOMAIN zones' = Zones
        /\ \A z \in Zones : Agree(blocks, zones, z)'
        /\ AuditRight'
    BY <1>1, <1>10, <2>1, <2>2, CalibrationAgrees, AgreeStays
  <2>5. in' \in DemographyCases /\ capacity' \in [Buildings -> Nat] /\ jobs' \in [Buildings -> Nat]
    BY <2>1 DEF DemographyInv
  <2> QED BY ONLY <2>3, <2>4, <2>5 DEF DemographyInv, Late, Counted
<1>11. CASE BuildProfile
  <2>1. /\ step \in Late /\ step' = "done"
        /\ in.raster => step = "calibration"
    BY <1>11, ProfileIsBuilt DEF BuildProfile, Late
  <2>2. UNCHANGED <<in, samples, capacity, residents, ages, jobs, blocks, zones, audit>>
    BY <1>11 DEF BuildProfile
  <2>3. /\ FairSplit(residents, Buildings, capacity, Allocated) /\ Dealt
        /\ blocks \in [Blocks -> Figures] /\ DOMAIN zones = Zones
        /\ \A z \in Zones : Agree(blocks, zones, z)
        /\ in.raster => AuditRight
    BY <2>1 DEF DemographyInv, Late, Counted
  <2>4. /\ FairSplit(residents, Buildings, capacity, Allocated)' /\ Dealt' /\ SamplesRight'
        /\ blocks' \in [Blocks -> Figures'] /\ DOMAIN zones' = Zones
        /\ \A z \in Zones : Agree(blocks, zones, z)'
        /\ in'.raster => AuditRight'
    BY <1>1, <1>2, <1>3, <1>4, <1>13, <1>14, <2>2, <2>3
  <2>5. in' \in DemographyCases /\ capacity' \in [Buildings -> Nat] /\ jobs' \in [Buildings -> Nat]
    BY <2>2 DEF DemographyInv
  <2> QED BY ONLY <2>1, <2>4, <2>5 DEF DemographyInv, Late, Counted
<1>16. CASE Refuse
  <2>1. step' = "refused" /\ UNCHANGED <<in, samples, stageVars>>
    BY <1>16 DEF Refuse
  <2> QED BY <1>13, <2>1 DEF stageVars, DemographyInv, Late, Counted
<1>12. CASE UNCHANGED demography
  BY <1>1, <1>2, <1>3, <1>4, <1>12, <1>13, <1>14 DEF demography, stageVars, DemographyInv
<1> QED BY <1>5, <1>6, <1>7, <1>8, <1>9, <1>10, <1>11, <1>12, <1>15, <1>16 DEF DemographyNext

LEMMA DemographyAlways == DemographySpec => []DemographyInv
<1>1. DemographyInit => DemographyInv
  BY DEF DemographyInit, DemographyInv, Zero, Late, Counted, SamplesRight
<1> QED BY <1>1, DemographyStep, PTL DEF DemographySpec

\* No step of the demography stage runs into one of its own errors; a sample counts each
\* of its cells once, however they are cut into windows; from the aggregation on
\* buildings, blocks and zones agree on residents, age groups and jobs; and the audit of
\* the calibration reports as moved what arrives in a block.
THEOREM MarginsAreExact == DemographySpec => []MarginsExact
<1>1. DemographyInv => MarginsExact
  <2> SUFFICES ASSUME DemographyInv PROVE MarginsExact
    OBVIOUS
  <2>1. /\ step # "error" /\ (step \in Late => \A z \in Zones : Agree(blocks, zones, z))
        /\ SamplesRight
        /\ step \in {"calibration", "done"} /\ in.raster => AuditRight
    BY DEF DemographyInv, Late, Counted
  <2> QED BY ONLY <2>1 DEF MarginsExact, After, Agree, SamplesRight, SampleRight, CellsAsked,
                           CellsWithData, AuditRight, Arrivals
<1> QED BY <1>1, DemographyAlways, PTL

\* Residents are shared out in proportion to capacity, within it, and to the last one,
\* and the status of the allocation says what came of the target.
THEOREM ResidentsAreFair == DemographySpec => []ResidentsFair
<1>1. DemographyInv => ResidentsFair
  <2> SUFFICES ASSUME DemographyInv, After(Counted)
               PROVE LET sum == SumFunction(capacity)
                         total == Min({GeneratedTarget, sum})
                     IN  /\ SumFunction(residents) = total
                         /\ \A b \in Buildings :
                              /\ residents[b] \in 0..capacity[b]
                              /\ sum > 0 => (residents[b] * sum) - (total * capacity[b])
                                              \in (1 - sum)..(sum - 1)
                         /\ \A a, b \in Buildings :
                              capacity[a] > capacity[b] => residents[a] >= residents[b]
                         /\ AllocationStatus = "BASELINE_EXCEEDS_TARGET" => residents = Zero(Buildings)
                         /\ AllocationStatus = "CAPACITY_EXHAUSTED" <=> GeneratedTarget > sum
    BY DEF ResidentsFair, Counted
  <2> DEFINE s == SumFunction(capacity)
  <2>1. FairSplit(residents, Buildings, capacity, Allocated) /\ capacity \in [Buildings -> Nat]
    BY DEF DemographyInv, After
  <2>2. /\ s = SumFunctionOnSet(capacity, Buildings) /\ s \in Nat /\ Allocated \in Nat
        /\ Allocated = IF GeneratedTarget <= s THEN GeneratedTarget ELSE s
    BY AllocatedIs
  <2>7. /\ TargetTotal \in Nat /\ in.baseline \in Nat
        /\ GeneratedTarget = IF TargetTotal > in.baseline THEN TargetTotal - in.baseline ELSE 0
        /\ BaselineExcess = IF in.baseline > TargetTotal THEN in.baseline - TargetTotal ELSE 0
        /\ GeneratedTarget \in Nat
    BY TargetIs DEF DemographyInv
  <2> HIDE DEF s
  <2>3. /\ residents \in [Buildings -> Nat] /\ SumFunctionOnSet(residents, Buildings) = Allocated
        /\ \A b \in Buildings : residents[b] <= capacity[b]
        /\ s > 0 => \A b \in Buildings :
                      residents[b] * s - Allocated * capacity[b] \in (1 - s)..(s - 1)
        /\ \A a, b \in Buildings : capacity[a] > capacity[b] => residents[a] >= residents[b]
    <3>1. Allocated <= s
      BY ONLY <2>2, <2>7
    <3> QED BY ONLY <2>1, <2>2, <3>1 DEF FairSplit
  <2>4. SumFunction(residents) = Allocated
    BY ONLY <2>3 DEF SumFunction
  <2>5. \A b \in Buildings : residents[b] \in 0..capacity[b]
    BY ONLY <2>1, <2>3
  <2>8. AllocationStatus = "BASELINE_EXCEEDS_TARGET" => residents = Zero(Buildings)
    <3>1. SUFFICES ASSUME AllocationStatus = "BASELINE_EXCEEDS_TARGET" PROVE residents = Zero(Buildings)
      OBVIOUS
    <3>2. BaselineExcess > 0
      BY <3>1 DEF AllocationStatus
    <3>3. Allocated = 0
      BY ONLY <2>2, <2>7, <3>2
    <3>4. IsFiniteSet(Buildings) /\ DOMAIN residents = Buildings
      BY <2>3, BlockFacts
    <3>5. Splits(residents, 0)
      BY ONLY <2>3, <3>3, <3>4, SplitsWhole
    <3>6. \A b \in Buildings : residents[b] = 0
      BY ONLY <3>4, <3>5 DEF Splits
    <3> QED BY <2>3, <3>6 DEF Zero
  <2>9. AllocationStatus = "CAPACITY_EXHAUSTED" <=> GeneratedTarget > s
    <3>1. AllocationStatus = "CAPACITY_EXHAUSTED"
            <=> ~(BaselineExcess > 0) /\ Allocated # GeneratedTarget
      BY DEF AllocationStatus
    <3> QED BY ONLY <2>2, <2>7, <3>1
  <2>6. Allocated = Min({GeneratedTarget, s})
    BY DEF Allocated, s
  <2> HIDE DEF Allocated
  <2> QED BY <2>3, <2>4, <2>5, <2>6, <2>8, <2>9 DEF s
<1> QED BY <1>1, DemographyAlways, PTL

-----------------------------------------------------------------------------
(* Scores. *)

LEMMA SumIsSum == ASSUME NEW f PROVE SumFunction(f) = SumFunctionOnSet(f, DOMAIN f)
BY DEF SumFunction

\* Values along a bijection sum up to the same.
LEMMA SumAlong ==
  ASSUME NEW S, IsFiniteSet(S), NEW T, NEW b, b \in [S -> T],
         \A x, y \in S : b[x] = b[y] => x = y, \A y \in T : \E x \in S : b[x] = y,
         NEW f, \A y \in T : f[y] \in Int, NEW g, \A x \in S : g[x] = f[b[x]]
  PROVE SumFunctionOnSet(g, S) = SumFunctionOnSet(f, T)
<1> DEFINE Image(R) == {b[x] : x \in R}
           P(R) == SumFunctionOnSet(g, R)
           Q(R) == SumFunctionOnSet(f, Image(R))
           Good == {R \in SUBSET S : P(R) = Q(R)}
<1>1. \A x \in S : g[x] \in Int
  OBVIOUS
<1>2. ASSUME NEW R \in SUBSET S, \A U \in SUBSET R : U # R => U \in Good PROVE R \in Good
  <2>1. CASE R = {}
    <3>1. Image(R) = {}
      BY <2>1
    <3> QED BY <2>1, <3>1, SumOfNone
  <2>2. ASSUME NEW x \in R PROVE R \in Good
    <3>1. R \ {x} \in Good /\ IsFiniteSet(R)
      BY <1>2, FS_Subset
    <3>2. P(R) = P(R \ {x}) + g[x]
      BY <1>1, <3>1, SumOfMore
    <3>3. b[x] \in Image(R) /\ Image(R) \ {b[x]} = Image(R \ {x})
      OBVIOUS
    <3>4. IsFiniteSet(Image(R)) /\ \A y \in Image(R) : f[y] \in Int
      BY <3>1, ImageFinite
    <3>5. Q(R) = SumFunctionOnSet(f, Image(R) \ {b[x]}) + f[b[x]]
      <4> HIDE DEF Image
      <4> QED BY <3>3, <3>4, SumOfMore
    <3>6. Q(R) = Q(R \ {x}) + f[b[x]]
      BY <3>3, <3>5
    <3>7. P(R \ {x}) = Q(R \ {x}) /\ g[x] = f[b[x]]
      BY <3>1
    <3>8. P(R) = Q(R)
      <4> HIDE DEF P, Q
      <4> QED BY ONLY <3>2, <3>6, <3>7
    <3> QED BY <3>8
  <2> QED BY <2>1, <2>2
<1>3. SUBSET S \subseteq Good
  <2> HIDE DEF Good
  <2> QED BY <1>2, SubsetInduction
<1>4. Image(S) = T
  OBVIOUS
<1> QED BY <1>3, <1>4

-----------------------------------------------------------------------------
(* Places in a strict order. *)

StrictOrder(S, A) ==
  /\ IsFiniteSet(S)
  /\ \A x \in S : <<x, x>> \notin A
  /\ \A x, y, z \in S : <<x, y>> \in A /\ <<y, z>> \in A => <<x, z>> \in A
  /\ \A x, y \in S : x # y => <<x, y>> \in A \/ <<y, x>> \in A
PlaceOf(S, A, r) == 1 + Cardinality({s \in S : <<s, r>> \in A})

\* Every element has a place of its own, those before it have lower ones, and no place is free.
LEMMA PlacesAre ==
  ASSUME NEW S, NEW A, StrictOrder(S, A)
  PROVE /\ Cardinality(S) \in Nat
        /\ \A r \in S : PlaceOf(S, A, r) \in 1..Cardinality(S)
        /\ \A r, s \in S : <<r, s>> \in A => PlaceOf(S, A, r) < PlaceOf(S, A, s)
        /\ \A r, s \in S : PlaceOf(S, A, r) = PlaceOf(S, A, s) => r = s
        /\ \A k \in 1..Cardinality(S) : \E r \in S : PlaceOf(S, A, r) = k
<1> DEFINE Up(r) == {s \in S : <<s, r>> \in A}
           Size == Cardinality(S)
<1>1. IsFiniteSet(S) /\ Size \in Nat
  BY FS_CardinalityType DEF StrictOrder
<1>2. \A r \in S : IsFiniteSet(Up(r)) /\ Cardinality(Up(r)) \in Nat
  <2> TAKE r \in S
  <2>1. Up(r) \in SUBSET S
    OBVIOUS
  <2> QED BY <1>1, <2>1, FS_Subset, FS_CardinalityType
<1>3. ASSUME NEW r \in S PROVE PlaceOf(S, A, r) \in 1..Size
  <2>1. Up(r) \in SUBSET (S \ {r})
    BY DEF StrictOrder
  <2>2. IsFiniteSet(S \ {r}) /\ Cardinality(S \ {r}) = Size - 1
    BY <1>1, FS_RemoveElement
  <2>3. Cardinality(Up(r)) <= Size - 1
    <3> HIDE DEF Up, Size
    <3> QED BY <2>1, <2>2, FS_Subset
  <2> HIDE DEF Size
  <2>4. Cardinality(Up(r)) \in Nat
    BY <1>2
  <2> HIDE DEF Up
  <2>5. 1 + Cardinality(Up(r)) \in 1..Size
    BY <1>1, <2>3, <2>4
  <2> QED BY <2>5 DEF PlaceOf, Up
<1>4. ASSUME NEW r \in S, NEW s \in S, <<r, s>> \in A PROVE PlaceOf(S, A, r) < PlaceOf(S, A, s)
  <2>1. Up(r) \in SUBSET Up(s) /\ r \in Up(s) /\ r \notin Up(r)
    BY <1>4 DEF StrictOrder
  <2>2. Cardinality(Up(r)) <= Cardinality(Up(s)) /\ Cardinality(Up(r)) # Cardinality(Up(s))
    <3>1. IsFiniteSet(Up(s))
      BY <1>2
    <3> HIDE DEF Up
    <3> QED BY <2>1, <3>1, FS_Subset
  <2>3. Cardinality(Up(r)) \in Nat /\ Cardinality(Up(s)) \in Nat
    BY <1>2
  <2> HIDE DEF Up
  <2>4. 1 + Cardinality(Up(r)) < 1 + Cardinality(Up(s))
    BY <2>2, <2>3
  <2> QED BY <2>4 DEF PlaceOf, Up
<1>5. ASSUME NEW r \in S, NEW s \in S, PlaceOf(S, A, r) = PlaceOf(S, A, s) PROVE r = s
  <2>1. PlaceOf(S, A, r) \in Int
    BY <1>3
  <2>2. ~(<<r, s>> \in A) /\ ~(<<s, r>> \in A)
    BY <1>4, <1>5, <2>1
  <2> QED BY <2>2 DEF StrictOrder
<1> DEFINE place == [r \in S |-> PlaceOf(S, A, r)]
<1>6. place \in Injection(S, 1..Size)
  BY <1>3, <1>5 DEF Injection, IsInjective
<1>7. place \in Surjection(S, 1..Size)
  <2>1. IsFiniteSet(1..Size) /\ Cardinality(1..Size) = Size
    BY <1>1, FS_Interval
  <2> HIDE DEF place
  <2>2. Size = Cardinality(1..Size) => place \in Surjection(S, 1..Size)
    BY <1>6, <2>1, FS_Injection
  <2> QED BY <2>1, <2>2
<1>8. ASSUME NEW k \in 1..Size PROVE \E r \in S : PlaceOf(S, A, r) = k
  BY <1>7 DEF Surjection
<1> QED BY <1>1, <1>3, <1>4, <1>5, <1>8

-----------------------------------------------------------------------------
(* Normalised values. *)

LEMMA ProductGrows ==
  ASSUME NEW a \in Nat, NEW b \in Nat, NEW q \in Nat, a <= b
  PROVE a * q <= b * q /\ a * q \in Nat
OBVIOUS

LEMMA ExactShare ==
  ASSUME NEW n \in Nat, NEW d \in Nat \ {0}, n % d = 0
  PROVE n \div d \in Nat /\ d * (n \div d) = n
OBVIOUS

\* The part of the way between two bounds that are d apart.
LEMMA ShareIs ==
  ASSUME NEW d \in Nat \ {0}, NormUnit % d = 0, NEW a \in Nat, NEW b \in Nat, a <= b, b <= d
  PROVE /\ a * (NormUnit \div d) \in 0..NormUnit /\ b * (NormUnit \div d) \in 0..NormUnit
        /\ a * (NormUnit \div d) <= b * (NormUnit \div d)
<1> DEFINE q == NormUnit \div d
<1>1. NormUnit \in Nat
  BY ScoringAssumption
<1>2. q \in Nat /\ d * q = NormUnit
  BY <1>1, ExactShare
<1> HIDE DEF q
<1>3. a * q <= b * q /\ a * q \in Nat /\ b * q <= d * q /\ b * q \in Nat
  BY <1>2, ProductGrows
<1> QED BY <1>1, <1>2, <1>3 DEF q

LEMMA PairFinite == ASSUME NEW x, NEW y PROVE IsFiniteSet({x, y})
<1>1. IsFiniteSet({x} \cup {y})
  BY FS_Singleton, FS_AddElement
<1>2. {x} \cup {y} = {x, y}
  OBVIOUS
<1> QED BY <1>1, <1>2

\* Minimum and maximum of two.
LEMMA TwoOf ==
  ASSUME NEW a \in Int, NEW b \in Int
  PROVE /\ Min({a, b}) = (IF a <= b THEN a ELSE b) /\ Max({a, b}) = (IF a <= b THEN b ELSE a)
<1>1. IsFiniteSet({a, b}) /\ {a, b} # {} /\ {a, b} \subseteq Int
  BY PairFinite
<1> DEFINE m == Min({a, b})
           n == Max({a, b})
<1>2. (m = a \/ m = b) /\ m <= a /\ m <= b /\ (n = a \/ n = b) /\ a <= n /\ b <= n
  BY <1>1, MinOf, MaxOf
<1> HIDE DEF m, n
<1>3. m = (IF a <= b THEN a ELSE b) /\ n = (IF a <= b THEN b ELSE a)
  BY <1>2
<1> QED BY <1>3 DEF m, n

\* A value is clamped into the bounds, in order.
LEMMA ClampedIs ==
  ASSUME NEW p, PolicyInput(p), NEW v \in Int
  PROVE /\ Clamped(p, v) \in Int /\ p.lower <= Clamped(p, v) /\ Clamped(p, v) <= p.upper
        /\ Clamped(p, v) = IF v < p.lower THEN p.lower ELSE IF v > p.upper THEN p.upper ELSE v
<1>1. p.lower \in Int /\ p.upper \in Int /\ p.lower < p.upper
  BY DEF PolicyInput
<1> DEFINE m == Max({v, p.lower})
<1>2. m = IF v <= p.lower THEN p.lower ELSE v
  BY <1>1, TwoOf
<1>3. Clamped(p, v) = Min({m, p.upper})
  BY DEF Clamped
<1> HIDE DEF m
<1>4. Min({m, p.upper}) = IF m <= p.upper THEN m ELSE p.upper
  BY <1>1, <1>2, TwoOf
<1> QED BY ONLY <1>1, <1>2, <1>3, <1>4, v \in Int

\* Nothing is normalised out of the unit, and nothing better is normalised lower.
LEMMA PresentValueIs ==
  ASSUME NEW p, PolicyInput(p), NEW x \in p.lower..p.upper
  PROVE PresentValue(p, x) \in 0..NormUnit
<1>1. /\ p.lower \in Int /\ p.upper \in Int /\ p.from \in Int /\ p.to \in Int
      /\ p.lower < p.upper /\ NormUnit \in Nat /\ p.direction \in {"HIGHER", "LOWER", "TARGET"}
  BY ScoringAssumption DEF PolicyInput
<1>2. CASE p.direction = "HIGHER"
  <2>1. NormUnit % (p.upper - p.lower) = 0
    BY <1>2 DEF PolicyInput
  <2>2. p.upper - p.lower \in Nat \ {0} /\ x - p.lower \in Nat /\ x - p.lower <= p.upper - p.lower
    BY <1>1
  <2> QED BY <1>2, <2>1, <2>2, ShareIs DEF PresentValue
<1>3. CASE p.direction = "LOWER"
  <2>1. NormUnit % (p.upper - p.lower) = 0
    BY <1>3 DEF PolicyInput
  <2>2. p.upper - p.lower \in Nat \ {0} /\ p.upper - x \in Nat /\ p.upper - x <= p.upper - p.lower
    BY <1>1
  <2> QED BY <1>3, <2>1, <2>2, ShareIs DEF PresentValue
<1>4. CASE p.direction = "TARGET"
  <2>1. /\ p.lower <= p.from /\ p.from <= p.to /\ p.to <= p.upper
        /\ p.from - p.lower # 0 => NormUnit % (p.from - p.lower) = 0
        /\ p.upper - p.to # 0 => NormUnit % (p.upper - p.to) = 0
    BY <1>4 DEF PolicyInput
  <2>2. CASE p.from <= x /\ x <= p.to
    BY <1>1, <1>4, <2>2 DEF PresentValue
  <2>3. CASE x < p.from
    <3>1. /\ p.from - p.lower \in Nat \ {0} /\ x - p.lower \in Nat
          /\ x - p.lower <= p.from - p.lower
      BY <1>1, <2>3
    <3>2. PresentValue(p, x) = (x - p.lower) * (NormUnit \div (p.from - p.lower))
      BY <1>1, <1>4, <2>3 DEF PresentValue
    <3> QED BY <2>1, <3>1, <3>2, ShareIs
  <2>4. CASE p.to < x
    <3>1. /\ p.upper - p.to \in Nat \ {0} /\ p.upper - x \in Nat
          /\ p.upper - x <= p.upper - p.to
      BY <1>1, <2>4
    <3>2. PresentValue(p, x) = (p.upper - x) * (NormUnit \div (p.upper - p.to))
      BY <1>1, <1>4, <2>1, <2>4 DEF PresentValue
    <3> QED BY <2>1, <3>1, <3>2, ShareIs
  <2> QED BY <1>1, <2>2, <2>3, <2>4
<1> QED BY <1>1, <1>2, <1>3, <1>4

LEMMA PresentValueGrows ==
  ASSUME NEW p, PolicyInput(p), NEW v \in Int \ {Absent}, NEW u \in Int \ {Absent},
         AtLeastAsGood(p, v, u)
  PROVE PresentValue(p, Clamped(p, u)) <= PresentValue(p, Clamped(p, v))
<1> DEFINE x == Clamped(p, v)
           y == Clamped(p, u)
<1>0. SUFFICES PresentValue(p, y) <= PresentValue(p, x)
  OBVIOUS
<1>1. /\ p.lower \in Int /\ p.upper \in Int /\ p.from \in Int /\ p.to \in Int
      /\ p.lower < p.upper /\ NormUnit \in Nat /\ p.direction \in {"HIGHER", "LOWER", "TARGET"}
  BY ScoringAssumption DEF PolicyInput
<1>2. /\ x = IF v < p.lower THEN p.lower ELSE IF v > p.upper THEN p.upper ELSE v
      /\ y = IF u < p.lower THEN p.lower ELSE IF u > p.upper THEN p.upper ELSE u
      /\ x \in p.lower..p.upper /\ y \in p.lower..p.upper
  BY <1>1, ClampedIs
<1> HIDE DEF x, y
<1>3. PresentValue(p, x) \in 0..NormUnit /\ PresentValue(p, y) \in 0..NormUnit
  BY <1>2, PresentValueIs
<1>4. CASE p.direction = "HIGHER"
  <2>1. NormUnit % (p.upper - p.lower) = 0 /\ v >= u
    BY <1>4 DEF PolicyInput, AtLeastAsGood
  <2>2. /\ p.upper - p.lower \in Nat \ {0} /\ x - p.lower \in Nat /\ y - p.lower \in Nat
        /\ y - p.lower <= x - p.lower /\ x - p.lower <= p.upper - p.lower
    BY <1>1, <1>2, <2>1
  <2>3. (y - p.lower) * (NormUnit \div (p.upper - p.lower))
          <= (x - p.lower) * (NormUnit \div (p.upper - p.lower))
    BY <2>1, <2>2, ShareIs
  <2>4. /\ PresentValue(p, x) = (x - p.lower) * (NormUnit \div (p.upper - p.lower))
        /\ PresentValue(p, y) = (y - p.lower) * (NormUnit \div (p.upper - p.lower))
    BY <1>1, <1>2, <1>4 DEF PresentValue
  <2> QED BY <2>3, <2>4
<1>5. CASE p.direction = "LOWER"
  <2>1. NormUnit % (p.upper - p.lower) = 0 /\ v <= u
    BY <1>5 DEF PolicyInput, AtLeastAsGood
  <2>2. /\ p.upper - p.lower \in Nat \ {0} /\ p.upper - x \in Nat /\ p.upper - y \in Nat
        /\ p.upper - y <= p.upper - x /\ p.upper - x <= p.upper - p.lower
    BY <1>1, <1>2, <2>1
  <2>3. (p.upper - y) * (NormUnit \div (p.upper - p.lower))
          <= (p.upper - x) * (NormUnit \div (p.upper - p.lower))
    BY <2>1, <2>2, ShareIs
  <2>4. /\ PresentValue(p, x) = (p.upper - x) * (NormUnit \div (p.upper - p.lower))
        /\ PresentValue(p, y) = (p.upper - y) * (NormUnit \div (p.upper - p.lower))
    BY <1>1, <1>2, <1>5 DEF PresentValue
  <2> QED BY <2>3, <2>4
<1>6. CASE p.direction = "TARGET"
  <2>1. /\ p.lower <= p.from /\ p.from <= p.to /\ p.to <= p.upper
        /\ p.from - p.lower # 0 => NormUnit % (p.from - p.lower) = 0
        /\ p.upper - p.to # 0 => NormUnit % (p.upper - p.to) = 0
    BY <1>6 DEF PolicyInput
  <2>2. \/ p.from <= v /\ v <= p.to
        \/ u <= v /\ v < p.from
        \/ p.to < v /\ v <= u
    BY <1>6 DEF AtLeastAsGood
  <2>3. CASE p.from <= x /\ x <= p.to
    <3>1. PresentValue(p, x) = NormUnit
      BY <1>1, <1>2, <1>6, <2>3 DEF PresentValue
    <3> QED BY <1>1, <1>3, <3>1
  <2>4. CASE u <= v /\ v < p.from /\ ~(p.from <= x /\ x <= p.to)
    <3>1. /\ p.from - p.lower \in Nat \ {0} /\ x - p.lower \in Nat /\ y - p.lower \in Nat
          /\ y - p.lower <= x - p.lower /\ x - p.lower <= p.from - p.lower
          /\ y < p.from /\ x < p.from
      BY <1>1, <1>2, <2>1, <2>4
    <3>2. (y - p.lower) * (NormUnit \div (p.from - p.lower))
            <= (x - p.lower) * (NormUnit \div (p.from - p.lower))
      BY <2>1, <3>1, ShareIs
    <3>3. /\ PresentValue(p, x) = (x - p.lower) * (NormUnit \div (p.from - p.lower))
          /\ PresentValue(p, y) = (y - p.lower) * (NormUnit \div (p.from - p.lower))
      BY <1>1, <1>2, <1>6, <3>1 DEF PresentValue
    <3> QED BY <3>2, <3>3
  <2>5. CASE p.to < v /\ v <= u /\ ~(p.from <= x /\ x <= p.to)
    <3>1. /\ p.upper - p.to \in Nat \ {0} /\ p.upper - x \in Nat /\ p.upper - y \in Nat
          /\ p.upper - y <= p.upper - x /\ p.upper - x <= p.upper - p.to
          /\ p.to < y /\ p.to < x
      BY <1>1, <1>2, <2>1, <2>5
    <3>2. (p.upper - y) * (NormUnit \div (p.upper - p.to))
            <= (p.upper - x) * (NormUnit \div (p.upper - p.to))
      BY <2>1, <3>1, ShareIs
    <3>3. /\ PresentValue(p, x) = (p.upper - x) * (NormUnit \div (p.upper - p.to))
          /\ PresentValue(p, y) = (p.upper - y) * (NormUnit \div (p.upper - p.to))
      BY <1>1, <1>2, <1>6, <2>1, <3>1 DEF PresentValue
    <3> QED BY <3>2, <3>3
  <2>6. v \in Int /\ (p.from <= v /\ v <= p.to => x = v)
    BY <1>1, <1>2, <2>1
  <2> QED BY <2>2, <2>3, <2>4, <2>5, <2>6
<1> QED BY <1>1, <1>4, <1>5, <1>6

-----------------------------------------------------------------------------
(* Rankings of the runs in D, their values by metric. *)

RunsOf(D) == DOMAIN D
Shares(D, r, w) ==
  [m \in DOMAIN D[r] |->
     IF D[r][m] = Absent THEN 0 ELSE D[r][m] * w[m]]
Points(D, r, w) == ScoreOf(D[r], w)[1]
AboveSet(D, w) ==
  {e \in RunsOf(D) \X RunsOf(D) : Points(D, e[1], w) > Points(D, e[2], w)
                        \/ (Points(D, e[1], w) = Points(D, e[2], w) /\ e[1] < e[2])}
PlaceIn(D, w, r) == PlaceOf(RunsOf(D), AboveSet(D, w), r)

\* The runs have values for the same metrics, which the weights are for.
DataOK(D, M) ==
  /\ IsFiniteSet(RunsOf(D)) /\ RunsOf(D) \subseteq Nat /\ IsFiniteSet(M)
  /\ \A r \in RunsOf(D) : D[r] \in [M -> {Absent} \cup 0..NormUnit]

LEMMA PointsAre ==
  ASSUME NEW D, NEW M, DataOK(D, M), NEW w \in [M -> Nat], NEW r \in RunsOf(D)
  PROVE /\ ScoreOf(D[r], w) = <<Points(D, r, w), WeightTotal(w)>>
        /\ Points(D, r, w) = SumFunctionOnSet(Shares(D, r, w), M)
        /\ \A m \in M : Shares(D, r, w)[m] \in 0..(NormUnit * w[m]) /\ Shares(D, r, w)[m] \in Nat
        /\ WeightTotal(w) \in Nat
        /\ Points(D, r, w) \in 0..(NormUnit * WeightTotal(w))
<1> DEFINE t == Shares(D, r, w)
<1>0. NormUnit \in Nat /\ IsFiniteSet(M) /\ D[r] \in [M -> {Absent} \cup 0..NormUnit]
  BY ScoringAssumption DEF DataOK
<1>1. DOMAIN t = M
  BY <1>0 DEF Shares
<1>2. ASSUME NEW m \in M PROVE t[m] \in 0..(NormUnit * w[m]) /\ t[m] \in Nat
  <2>1. t[m] = IF D[r][m] = Absent THEN 0 ELSE D[r][m] * w[m]
    BY <1>0 DEF Shares
  <2>2. w[m] \in Nat /\ D[r][m] \in {Absent} \cup 0..NormUnit
    BY <1>0
  <2>3. NormUnit * w[m] \in Nat
    BY <1>0, <2>2, ProductGrows
  <2>4. CASE D[r][m] \in 0..NormUnit
    <3>1. D[r][m] * w[m] \in Nat /\ D[r][m] * w[m] <= NormUnit * w[m]
      BY <1>0, <2>2, <2>4, ProductGrows
    <3> QED BY <2>1, <2>3, <3>1
  <2> QED BY <2>1, <2>2, <2>3, <2>4
<1>3. ScoreOf(D[r], w) = <<SumFunction(t), WeightTotal(w)>>
  BY DEF ScoreOf, Shares
<1>4. SumFunction(t) = SumFunctionOnSet(t, M)
  <2> HIDE DEF t
  <2> QED BY <1>1, SumIsSum
<1>5. WeightTotal(w) = SumFunctionOnSet(w, M)
  BY SumIsSum DEF WeightTotal
<1>6. WeightTotal(w) \in Nat
  BY <1>0, <1>5, SumIsNat
<1>7. Points(D, r, w) = SumFunctionOnSet(t, M)
  BY <1>3, <1>4 DEF Points
<1> HIDE DEF t
<1>8. Points(D, r, w) \in Nat
  BY <1>0, <1>2, <1>7, SumIsNat
<1> DEFINE c == [m \in M |-> NormUnit * w[m]]
<1>9. \A m \in M : c[m] = NormUnit * w[m] /\ c[m] \in Nat
  BY <1>0, ProductGrows
<1> HIDE DEF c
<1>10. SumFunctionOnSet(c, M) = NormUnit * SumFunctionOnSet(w, M)
  BY <1>0, <1>9, SumOfTimes
<1>11. SumFunctionOnSet(t, M) <= SumFunctionOnSet(c, M)
  <2>1. \A m \in M : t[m] \in Int /\ c[m] \in Int /\ t[m] <= c[m]
    BY <1>2, <1>9
  <2> QED BY <1>0, <2>1, SumLeq
<1>12. Points(D, r, w) <= NormUnit * WeightTotal(w)
  BY <1>5, <1>7, <1>10, <1>11
<1>13. NormUnit * WeightTotal(w) \in Nat
  BY <1>0, <1>6, ProductGrows
<1>14. Points(D, r, w) \in 0..(NormUnit * WeightTotal(w))
  BY <1>8, <1>12, <1>13
<1> QED BY <1>2, <1>3, <1>4, <1>6, <1>7, <1>14 DEF t

LEMMA AboveIsOrder ==
  ASSUME NEW D, NEW M, DataOK(D, M), NEW w \in [M -> Nat] PROVE StrictOrder(RunsOf(D), AboveSet(D, w))
<1> DEFINE q == [r \in RunsOf(D) |-> Points(D, r, w)]
<1>1. \A r \in RunsOf(D) : q[r] \in Int /\ r \in Int
  <2> TAKE r \in RunsOf(D)
  <2>1. Points(D, r, w) \in 0..(NormUnit * WeightTotal(w)) /\ WeightTotal(w) \in Nat /\ NormUnit \in Nat
    BY PointsAre, ScoringAssumption
  <2>2. r \in Int
    BY DEF DataOK
  <2> QED BY <2>1, <2>2
<1>2. \A r, s \in RunsOf(D) : <<r, s>> \in AboveSet(D, w) <=> q[r] > q[s] \/ (q[r] = q[s] /\ r < s)
  BY DEF AboveSet
<1> HIDE DEF q
<1>3. IsFiniteSet(RunsOf(D))
  BY DEF DataOK
<1>4. \A x \in RunsOf(D) : <<x, x>> \notin AboveSet(D, w)
  BY <1>1, <1>2
<1>5. \A x, y, z \in RunsOf(D) :
        <<x, y>> \in AboveSet(D, w) /\ <<y, z>> \in AboveSet(D, w) => <<x, z>> \in AboveSet(D, w)
  <2> TAKE x, y, z \in RunsOf(D)
  <2>1. /\ q[x] \in Int /\ q[y] \in Int /\ q[z] \in Int /\ x \in Int /\ y \in Int /\ z \in Int
    BY <1>1
  <2> QED BY <1>2, <2>1
<1>6. \A x, y \in RunsOf(D) : x # y => <<x, y>> \in AboveSet(D, w) \/ <<y, x>> \in AboveSet(D, w)
  <2> TAKE x, y \in RunsOf(D)
  <2>1. q[x] \in Int /\ q[y] \in Int /\ x \in Int /\ y \in Int
    BY <1>1
  <2> QED BY <1>2, <2>1
<1> QED BY <1>3, <1>4, <1>5, <1>6 DEF StrictOrder

\* What a ranking by weights w is: every run on its place, with its score.
Ranked(D, ranking, w) ==
  /\ Cardinality(RunsOf(D)) \in Nat /\ DOMAIN ranking = 1..Cardinality(RunsOf(D))
  /\ ranking = [k \in DOMAIN ranking |-> ranking[k]]
  /\ \A k \in DOMAIN ranking :
       /\ ranking[k].run \in RunsOf(D) /\ PlaceIn(D, w, ranking[k].run) = k
       /\ ranking[k].score = ScoreOf(D[ranking[k].run], w)

LEMMA RankingIs ==
  ASSUME NEW M, DataOK(dataset.values, M), NEW w \in [M -> Nat]
  PROVE Ranked(dataset.values, RankScores(w), w)
<1> DEFINE D == dataset.values
           score == [r \in DOMAIN D |-> ScoreOf(D[r], w)]
           above(r, s) == score[r][1] > score[s][1] \/ (score[r][1] = score[s][1] /\ r < s)
           place(r) == 1 + Cardinality({s \in DOMAIN score : above(s, r)})
           at(k) == CHOOSE x \in DOMAIN score : place(x) = k
<1>1. RankScores(w) = [k \in 1..Cardinality(DOMAIN score) |->
                         [run |-> at(k), score |-> score[at(k)]]]
  BY Zenon DEF RankScores
<1>0. DataOK(D, M)
  OBVIOUS
<1> SUFFICES Ranked(D, RankScores(w), w)
  OBVIOUS
<1> HIDE DEF D
<1>2. DOMAIN score = RunsOf(D) /\ \A r \in RunsOf(D) : score[r] = ScoreOf(D[r], w)
  BY DEF RunsOf
<1>3. ASSUME NEW r \in RunsOf(D) PROVE place(r) = PlaceIn(D, w, r)
  <2> HIDE DEF score
  <2>1. {s \in DOMAIN score : above(s, r)} = {s \in RunsOf(D) : <<s, r>> \in AboveSet(D, w)}
    BY <1>2 DEF AboveSet, Points
  <2> QED BY <2>1 DEF PlaceIn, PlaceOf
<1> HIDE DEF score, place
<1>4. /\ Cardinality(RunsOf(D)) \in Nat
      /\ \A k \in 1..Cardinality(RunsOf(D)) : \E r \in RunsOf(D) : PlaceIn(D, w, r) = k
  BY <1>0, AboveIsOrder, PlacesAre DEF PlaceIn
<1>5. \A k \in 1..Cardinality(RunsOf(D)) : at(k) \in RunsOf(D) /\ place(at(k)) = k
  BY <1>2, <1>3, <1>4
<1> HIDE DEF at
<1> DEFINE R == RankScores(w)
<1>6. DOMAIN R = 1..Cardinality(RunsOf(D)) /\ R = [k \in DOMAIN R |-> R[k]]
  BY <1>1, <1>2
<1>7. \A k \in 1..Cardinality(RunsOf(D)) : R[k].run = at(k) /\ R[k].score = score[at(k)]
  BY <1>1, <1>2
<1> HIDE DEF R
<1>8. ASSUME NEW k \in DOMAIN R
      PROVE /\ R[k].run \in RunsOf(D) /\ PlaceIn(D, w, R[k].run) = k
            /\ R[k].score = ScoreOf(D[R[k].run], w)
  BY <1>2, <1>3, <1>5, <1>6, <1>7
<1> QED BY <1>4, <1>6, <1>8 DEF Ranked, R

\* The rank of a run is its place.
LEMMA RankIsPlace ==
  ASSUME NEW D, NEW M, DataOK(D, M), NEW w \in [M -> Nat], NEW R, Ranked(D, R, w), NEW r \in RunsOf(D)
  PROVE /\ RankIn(R, r) = PlaceIn(D, w, r) /\ RankIn(R, r) \in 1..Cardinality(RunsOf(D))
        /\ R[RankIn(R, r)].run = r
<1>1. /\ PlaceIn(D, w, r) \in 1..Cardinality(RunsOf(D))
      /\ \A x, y \in RunsOf(D) : PlaceIn(D, w, x) = PlaceIn(D, w, y) => x = y
  BY AboveIsOrder, PlacesAre DEF PlaceIn
<1>2. R[PlaceIn(D, w, r)].run = r
  BY <1>1 DEF Ranked
<1>3. \A k \in DOMAIN R : R[k].run = r => k = PlaceIn(D, w, r)
  BY DEF Ranked
<1>4. PlaceIn(D, w, r) \in DOMAIN R
  BY <1>1 DEF Ranked
<1>5. RankIn(R, r) \in DOMAIN R /\ R[RankIn(R, r)].run = r
  BY <1>2, <1>4 DEF RankIn
<1>6. RankIn(R, r) = PlaceIn(D, w, r)
  BY <1>3, <1>5
<1> QED BY <1>1, <1>5, <1>6

LEMMA UpToFinite == ASSUME NEW n \in Nat PROVE IsFiniteSet(1..n)
  BY FS_Interval

\* Places in the one ranking of the runs of the other sum up to the same.
LEMMA ClimbsCancel ==
  ASSUME NEW D, NEW M, DataOK(D, M), NEW w \in [M -> Nat], NEW v \in [M -> Nat],
         NEW B, Ranked(D, B, v), NEW R, Ranked(D, R, w), NEW climbs,
         climbs = [k \in DOMAIN R |-> RankIn(B, R[k].run) - k]
  PROVE SumFunction(climbs) = 0
<1> DEFINE Size == Cardinality(RunsOf(D))
           b == [k \in 1..Size |-> RankIn(B, R[k].run)]
           id == [k \in 1..Size |-> k]
<1>1. Size \in Nat /\ DOMAIN R = 1..Size /\ \A k \in 1..Size : R[k].run \in RunsOf(D)
  BY DEF Ranked
<1>2. IsFiniteSet(1..Size)
  BY <1>1, UpToFinite
<1>3. \A k \in 1..Size : b[k] = RankIn(B, R[k].run) /\ b[k] \in 1..Size
  <2> TAKE k \in 1..Size
  <2>1. R[k].run \in RunsOf(D)
    BY <1>1
  <2>2. RankIn(B, R[k].run) \in 1..Size
    BY <2>1, RankIsPlace
  <2> QED BY <2>2
<1>4. ASSUME NEW x \in 1..Size, NEW y \in 1..Size, b[x] = b[y] PROVE x = y
  <2>1. R[x].run \in RunsOf(D) /\ R[y].run \in RunsOf(D)
    BY <1>1
  <2>2. B[b[x]].run = R[x].run /\ B[b[y]].run = R[y].run
    BY <1>3, <2>1, RankIsPlace
  <2>3. R[x].run = R[y].run
    BY <1>4, <2>2
  <2>4. PlaceIn(D, w, R[x].run) = x /\ PlaceIn(D, w, R[y].run) = y
    BY <1>1 DEF Ranked
  <2> QED BY <2>3, <2>4
<1>5. ASSUME NEW y \in 1..Size PROVE \E x \in 1..Size : b[x] = y
  <2>1. y \in DOMAIN B /\ B[y].run \in RunsOf(D) /\ PlaceIn(D, v, B[y].run) = y
    BY DEF Ranked
  <2>2. RankIn(R, B[y].run) \in 1..Size /\ R[RankIn(R, B[y].run)].run = B[y].run
    BY <2>1, RankIsPlace
  <2>3. RankIn(B, B[y].run) = y
    BY <2>1, RankIsPlace
  <2>4. b[RankIn(R, B[y].run)] = y
    BY <1>3, <2>2, <2>3
  <2> QED BY <2>2, <2>4
<1>6. b \in [1..Size -> 1..Size] /\ \A y \in 1..Size : id[y] = y /\ id[y] \in Int
  BY <1>3
<1>7. \A k \in 1..Size : b[k] = id[b[k]] /\ b[k] \in Int /\ id[k] \in Int
  BY <1>3, <1>6
<1>8. DOMAIN climbs = 1..Size /\ \A k \in 1..Size : climbs[k] = b[k] - k /\ b[k] = climbs[k] + id[k]
  BY <1>1, <1>3, <1>6
<1> DEFINE S == 1..Size
<1>14. \A k \in S : /\ climbs[k] \in Int /\ b[k] \in Int /\ id[k] \in Int
                    /\ b[k] = climbs[k] + id[k]
  <2>1. \A k \in 1..Size : k \in Int
    OBVIOUS
  <2> HIDE DEF b, id, Size
  <2> QED BY <1>6, <1>7, <1>8, <2>1
<1>15. /\ IsFiniteSet(S) /\ b \in [S -> S] /\ \A y \in S : \E x \in S : b[x] = y
       /\ \A x, y \in S : b[x] = b[y] => x = y
       /\ \A y \in S : id[y] \in Int
       /\ \A x \in S : b[x] = id[b[x]]
  <2>1. b \in [S -> S]
    BY <1>6
  <2>2. \A x, y \in S : b[x] = b[y] => x = y
    BY <1>4
  <2>3. \A y \in S : \E x \in S : b[x] = y
    BY <1>5
  <2>4. \A y \in S : id[y] \in Int
    BY <1>6
  <2>5. \A x \in S : b[x] = id[b[x]]
    BY <1>7
  <2> HIDE DEF b, id
  <2> QED BY <1>2, <2>1, <2>2, <2>3, <2>4, <2>5
<1> HIDE DEF b, id, Size, S
<1>9. SumFunctionOnSet(b, S) = SumFunctionOnSet(id, S)
  BY ONLY <1>15, SumAlong
<1>11. SumFunctionOnSet(b, S) = SumFunctionOnSet(climbs, S) + SumFunctionOnSet(id, S)
  BY ONLY <1>14, <1>15, SumOfSum
<1>12. SumFunctionOnSet(climbs, S) \in Int /\ SumFunctionOnSet(id, S) \in Int
  BY ONLY <1>14, <1>15, SumIsInt
<1>13. SumFunctionOnSet(climbs, S) = 0
  BY <1>9, <1>11, <1>12
<1> QED BY <1>8, <1>13, SumIsSum DEF S

\* The same factor on every weight changes no place.
LEMMA SameFactor ==
  ASSUME NEW D, NEW M, DataOK(D, M), NEW w \in [M -> Nat], NEW v \in [M -> Nat], NEW x \in Nat \ {0},
         \A m \in M : v[m] = x * w[m]
  PROVE AboveSet(D, v) = AboveSet(D, w)
<1>1. ASSUME NEW r \in RunsOf(D) PROVE Points(D, r, v) = x * Points(D, r, w) /\ Points(D, r, w) \in Nat
  <2> DEFINE f == Shares(D, r, w)
             h == Shares(D, r, v)
  <2>1. /\ Points(D, r, w) = SumFunctionOnSet(f, M) /\ \A m \in M : f[m] \in Nat
        /\ Points(D, r, w) \in 0..(NormUnit * WeightTotal(w))
    BY PointsAre
  <2>2. Points(D, r, v) = SumFunctionOnSet(h, M)
    BY PointsAre
  <2>3. ASSUME NEW m \in M PROVE h[m] = x * f[m]
    <3> DEFINE y == D[r][m]
    <3>1. /\ f[m] = IF y = Absent THEN 0 ELSE y * w[m]
          /\ h[m] = IF y = Absent THEN 0 ELSE y * v[m]
      BY DEF Shares, DataOK
    <3>2. y \in {Absent} \cup 0..NormUnit /\ w[m] \in Nat /\ v[m] = x * w[m] /\ NormUnit \in Nat
      BY ScoringAssumption DEF DataOK
    <3> HIDE DEF y
    <3>3. CASE y = Absent
      BY <3>1, <3>3
    <3>4. CASE y # Absent
      <4>1. y \in Nat
        BY <3>2, <3>4
      <4> DEFINE a == w[m]
      <4>2. a \in Nat /\ v[m] = x * a /\ f[m] = y * a /\ h[m] = y * v[m]
        BY <3>1, <3>2, <3>4
      <4> HIDE DEF a
      <4>3. y * (x * a) = x * (y * a)
        BY ONLY <4>1, <4>2, x \in Nat
      <4> QED BY <4>2, <4>3
    <3> QED BY <3>3, <3>4
  <2>4. IsFiniteSet(M) /\ x \in Int
    BY DEF DataOK
  <2> HIDE DEF f, h
  <2>5. \A m \in M : f[m] \in Int /\ h[m] = x * f[m]
    BY <2>1, <2>3
  <2>6. SumFunctionOnSet(h, M) = x * SumFunctionOnSet(f, M)
    BY ONLY <2>4, <2>5, SumOfTimes
  <2>7. Points(D, r, w) \in Nat
    BY <2>1, <2>4, SumIsNat
  <2> QED BY <2>1, <2>2, <2>6, <2>7
<1>2. ASSUME NEW a \in Nat, NEW b \in Nat PROVE (x * a > x * b <=> a > b) /\ (x * a = x * b <=> a = b)
  OBVIOUS
<1>3. ASSUME NEW r \in RunsOf(D), NEW s \in RunsOf(D)
      PROVE <<r, s>> \in AboveSet(D, v) <=> <<r, s>> \in AboveSet(D, w)
  <2> DEFINE a == Points(D, r, w)
             b == Points(D, s, w)
  <2>1. a \in Nat /\ b \in Nat /\ Points(D, r, v) = x * a /\ Points(D, s, v) = x * b
    BY <1>1
  <2>2. /\ <<r, s>> \in AboveSet(D, v) <=>
             Points(D, r, v) > Points(D, s, v) \/ (Points(D, r, v) = Points(D, s, v) /\ r < s)
        /\ <<r, s>> \in AboveSet(D, w) <=> a > b \/ (a = b /\ r < s)
    BY DEF AboveSet
  <2> HIDE DEF a, b
  <2>3. (x * a > x * b <=> a > b) /\ (x * a = x * b <=> a = b)
    BY <1>2, <2>1
  <2> QED BY ONLY <2>1, <2>2, <2>3
<1>4. \A u : AboveSet(D, u) \subseteq RunsOf(D) \X RunsOf(D)
  BY DEF AboveSet
<1>5. ASSUME NEW e PROVE e \in AboveSet(D, v) <=> e \in AboveSet(D, w)
  <2>1. e \notin RunsOf(D) \X RunsOf(D) => e \notin AboveSet(D, v) /\ e \notin AboveSet(D, w)
    BY <1>4
  <2>2. e \in RunsOf(D) \X RunsOf(D) => e = <<e[1], e[2]>> /\ e[1] \in RunsOf(D) /\ e[2] \in RunsOf(D)
    OBVIOUS
  <2> QED BY <1>3, <2>1, <2>2
<1> QED BY <1>5

-----------------------------------------------------------------------------
(* What the analysis has kept. *)

Metrics == DOMAIN contest.profile
Refs == RunsOf(dataset.values)

\* The evaluation of run r.
EvaluatedAs(r, e) ==
  /\ r \in DOMAIN contest.runs
  /\ DOMAIN contest.runs[r].raw = Metrics /\ DOMAIN contest.runs[r].weights = Metrics
  /\ e.weights = contest.runs[r].weights
  /\ e.values = [m \in Metrics |-> NormalizedMetric(contest.profile[m], contest.runs[r].raw[m])]
  /\ e.score = ScoreOf(e.values, e.weights)

EvalInv ==
  /\ contest \in ScoringCases /\ IsFiniteSet(DOMAIN evaluations)
  /\ \A r \in DOMAIN evaluations : EvaluatedAs(r, evaluations[r])
  /\ scoring = "keep" => EvaluatedAs(NextRun, composite)
DataInv ==
  /\ Refs = Range(contest.request) /\ Refs \subseteq DOMAIN evaluations
  /\ \A r \in Refs : /\ dataset.values[r] = evaluations[r].values
                     /\ dataset.weights = evaluations[r].weights
Scenario(i) ==
  LET factors == contest.perturbations[i]
  IN  /\ i \in DOMAIN contest.perturbations
      /\ DOMAIN factors = DOMAIN dataset.weights
      /\ WeightTotal(PerturbedWeights(factors)) # 0
      /\ Ranked(dataset.values, scenarios[i].ranking, PerturbedWeights(factors))
      /\ scenarios[i].climbs =
           [k \in DOMAIN scenarios[i].ranking |-> RankIn(baseline, scenarios[i].ranking[k].run) - k]
RankInv ==
  /\ Ranked(dataset.values, baseline, dataset.weights)
  /\ \E S : scenarios \in Seq(S)
  /\ \A i \in DOMAIN scenarios : Scenario(i)
AnalysisInv ==
  /\ EvalInv
  /\ scoring \in {"score", "keep", "rank"} => scenarios = << >>
  /\ scoring \in {"rank", "perturb", "done"} => DataInv
  /\ scoring \in {"perturb", "done"} => RankInv

\* What the cases say of the inputs.
LEMMA InputsAre ==
  ASSUME contest \in ScoringCases
  PROVE /\ IsFiniteSet(Metrics) /\ \A m \in Metrics : PolicyInput(contest.profile[m])
        /\ DOMAIN contest.runs = 1..Len(contest.runs) /\ Len(contest.runs) \in Nat
        /\ \A r \in DOMAIN contest.runs :
             /\ contest.runs[r].weights \in [DOMAIN contest.runs[r].weights -> Nat]
             /\ \A m \in DOMAIN contest.runs[r].raw : contest.runs[r].raw[m] \in Int
        /\ DOMAIN contest.request = 1..Len(contest.request)
        /\ 1 \in DOMAIN contest.request
        /\ DOMAIN contest.perturbations = 1..Len(contest.perturbations)
        /\ Len(contest.perturbations) \in Nat
        /\ \A i \in DOMAIN contest.perturbations : \A m \in DOMAIN contest.perturbations[i] :
             contest.perturbations[i][m] \in Nat
<1>1. ContestInput(contest)
  BY ScoringAssumption
<1>2. \A i \in DOMAIN contest.perturbations : Range(contest.perturbations[i]) \subseteq Nat
  BY <1>1 DEF ContestInput, Range
<1>3. \A i \in DOMAIN contest.perturbations : \A m \in DOMAIN contest.perturbations[i] :
         contest.perturbations[i][m] \in Nat
  BY <1>2 DEF Range
<1>4. /\ contest.runs \in Seq(Range(contest.runs))
      /\ contest.request \in Seq(Range(contest.request)) /\ contest.request # << >>
      /\ contest.perturbations \in Seq(Range(contest.perturbations))
  BY <1>1 DEF ContestInput
<1>5. /\ DOMAIN contest.runs = 1..Len(contest.runs) /\ Len(contest.runs) \in Nat
      /\ DOMAIN contest.request = 1..Len(contest.request) /\ 1 \in DOMAIN contest.request
      /\ DOMAIN contest.perturbations = 1..Len(contest.perturbations)
      /\ Len(contest.perturbations) \in Nat
  BY <1>4
<1> QED BY <1>1, <1>3, <1>5 DEF ContestInput, Metrics

\* A normalised value is missing or a part of the unit.
LEMMA NormalizedIs ==
  ASSUME NEW p, PolicyInput(p), NEW v \in Int
  PROVE NormalizedMetric(p, v) \in {Absent} \cup 0..NormUnit
<1>1. NormUnit \in Nat
  BY ScoringAssumption
<1>2. CASE v = Absent
  BY <1>1, <1>2 DEF NormalizedMetric
<1>3. CASE v # Absent
  <2>1. Clamped(p, v) \in p.lower..p.upper
    BY ClampedIs DEF PolicyInput
  <2>2. PresentValue(p, Clamped(p, v)) \in 0..NormUnit
    BY <2>1, PresentValueIs
  <2> QED BY <1>3, <2>2 DEF NormalizedMetric
<1> QED BY <1>2, <1>3

LEMMA DataIsOK ==
  ASSUME EvalInv, DataInv
  PROVE DataOK(dataset.values, Metrics) /\ dataset.weights \in [Metrics -> Nat] /\ Refs # {}
<1>1. contest \in ScoringCases /\ IsFiniteSet(DOMAIN evaluations)
  BY DEF EvalInv
<1>2. \A r \in Refs : EvaluatedAs(r, evaluations[r])
  BY DEF EvalInv, DataInv
<1>3. IsFiniteSet(Refs)
  BY <1>1, FS_Subset DEF DataInv
<1>4. Refs \subseteq Nat
  <2>1. \A r \in Refs : r \in 1..Len(contest.runs)
    BY <1>1, <1>2, InputsAre DEF EvaluatedAs
  <2> QED BY <2>1
<1>5. ASSUME NEW r \in Refs PROVE dataset.values[r] \in [Metrics -> {Absent} \cup 0..NormUnit]
  <2>1. \A m \in Metrics : /\ PolicyInput(contest.profile[m])
                           /\ contest.runs[r].raw[m] \in Int
    BY <1>1, <1>2, InputsAre DEF EvaluatedAs
  <2>2. dataset.values[r] =
          [m \in Metrics |-> NormalizedMetric(contest.profile[m], contest.runs[r].raw[m])]
    BY <1>2 DEF EvaluatedAs, DataInv
  <2>3. \A m \in Metrics : NormalizedMetric(contest.profile[m], contest.runs[r].raw[m])
                             \in {Absent} \cup 0..NormUnit
    BY <2>1, NormalizedIs
  <2> QED BY <2>2, <2>3
<1>6. contest.request[1] \in Refs
  BY <1>1, InputsAre DEF DataInv, Range
<1>7. dataset.weights = contest.runs[contest.request[1]].weights
  BY <1>2, <1>6 DEF EvaluatedAs, DataInv
<1>8. dataset.weights \in [Metrics -> Nat]
  BY <1>1, <1>2, <1>6, <1>7, InputsAre DEF EvaluatedAs
<1>9. IsFiniteSet(Metrics)
  BY <1>1, InputsAre
<1> QED BY <1>3, <1>4, <1>5, <1>6, <1>8, <1>9 DEF DataOK, Refs

LEMMA PerturbedAre ==
  ASSUME EvalInv, DataInv, NEW i \in DOMAIN contest.perturbations,
         DOMAIN contest.perturbations[i] = DOMAIN dataset.weights
  PROVE PerturbedWeights(contest.perturbations[i]) \in [Metrics -> Nat]
<1>1. dataset.weights \in [Metrics -> Nat] /\ contest \in ScoringCases
  BY DataIsOK DEF EvalInv
<1>2. \A m \in Metrics : contest.perturbations[i][m] \in Nat
  BY <1>1, InputsAre
<1>3. \A m \in Metrics : contest.perturbations[i][m] * dataset.weights[m] \in Nat
  BY <1>1, <1>2, ProductGrows
<1> QED BY <1>1, <1>3 DEF PerturbedWeights

-----------------------------------------------------------------------------
(* The steps of the analysis. *)

LEMMA RefusalKeeps == ASSUME AnalysisInv, ScoringRefused PROVE AnalysisInv'
<1>1. UNCHANGED <<contest, evaluations>> /\ scoring' = "refused"
  BY DEF ScoringRefused
<1>2. EvalInv'
  BY <1>1 DEF AnalysisInv, EvalInv, EvaluatedAs, Metrics
<1> QED BY <1>1, <1>2 DEF AnalysisInv

LEMMA ScoreKeeps == ASSUME AnalysisInv, ScoreRun PROVE AnalysisInv'
<1>1. CASE ScoringRefused
  BY <1>1, RefusalKeeps
<1>2. CASE ~ScoringRefused
  <2> DEFINE n == NextRun
             run == contest.runs[n]
             vals == [m \in DOMAIN run.raw |-> NormalizedMetric(contest.profile[m], run.raw[m])]
  <2>1. /\ DOMAIN run.raw = Metrics /\ DOMAIN run.weights = Metrics
        /\ composite' = [config |-> run.config, profile |-> run.profile, weights |-> run.weights,
                         values |-> vals, score |-> ScoreOf(vals, run.weights)]
        /\ scoring = "score" /\ n <= Len(contest.runs)
        /\ scoring' = "keep" /\ UNCHANGED <<contest, evaluations, dataset, baseline, scenarios>>
    BY <1>2, Zenon DEF ScoreRun, Metrics
  <2>2. n \in DOMAIN contest.runs
    <3>1. n \in Nat \ {0}
      BY FS_CardinalityType DEF AnalysisInv, EvalInv, NextRun
    <3>2. DOMAIN contest.runs = 1..Len(contest.runs) /\ Len(contest.runs) \in Nat
      BY InputsAre DEF AnalysisInv, EvalInv
    <3> HIDE DEF n
    <3> QED BY <2>1, <3>1, <3>2
  <2>3. n' = n
    BY <2>1 DEF NextRun
  <2>4. EvaluatedAs(n, composite)'
    BY <2>1, <2>2, <2>3, Zenon DEF EvaluatedAs, Metrics
  <2>5. EvalInv'
    BY <2>1, <2>3, <2>4 DEF AnalysisInv, EvalInv, EvaluatedAs, Metrics
  <2> QED BY <2>1, <2>5 DEF AnalysisInv
<1> QED BY <1>1, <1>2

LEMMA KeepKeeps == ASSUME AnalysisInv, KeepEvaluation PROVE AnalysisInv'
<1>1. CASE ScoringRefused
  BY <1>1, RefusalKeeps
<1>2. CASE ~ScoringRefused
  <2> DEFINE n == NextRun
  <2>1. /\ scoring = "keep" /\ scoring' = "score" /\ evaluations' = [r \in DOMAIN evaluations \cup {n} |->
                           IF r = n THEN composite ELSE evaluations[r]]
        /\ UNCHANGED <<contest, dataset, baseline, scenarios>>
    BY <1>2 DEF KeepEvaluation
  <2>2. EvaluatedAs(n, composite)
    BY <2>1 DEF AnalysisInv, EvalInv
  <2> HIDE DEF n
  <2>3. /\ DOMAIN evaluations' = DOMAIN evaluations \cup {n}
        /\ \A r \in DOMAIN evaluations' :
             evaluations'[r] = IF r = n THEN composite ELSE evaluations[r]
    BY <2>1
  <2>4. IsFiniteSet(DOMAIN evaluations')
    BY <2>3, FS_AddElement DEF AnalysisInv, EvalInv
  <2>5. \A r \in DOMAIN evaluations' : EvaluatedAs(r, evaluations'[r])
    BY <2>2, <2>3 DEF AnalysisInv, EvalInv
  <2>6. \A r \in DOMAIN evaluations' : EvaluatedAs(r, evaluations[r])'
    BY <2>1, <2>5 DEF EvaluatedAs, Metrics
  <2>7. EvalInv'
    BY <2>1, <2>4, <2>6 DEF AnalysisInv, EvalInv
  <2> QED BY <2>1, <2>7 DEF AnalysisInv
<1> QED BY <1>1, <1>2

LEMMA LoadKeeps == ASSUME AnalysisInv, LoadDataset PROVE AnalysisInv'
<1>1. CASE ScoringRefused
  BY <1>1, RefusalKeeps
<1>2. CASE ~ScoringRefused
  <2> DEFINE Asked == Range(contest.request)
  <2>1. /\ scoring = "score" /\ scoring' = "rank"
        /\ Asked \subseteq DOMAIN evaluations
        /\ \A r, s \in Asked : evaluations[r].weights = evaluations[s].weights
        /\ dataset' = [weights |-> evaluations[contest.request[1]].weights,
                       values |-> [r \in Asked |-> evaluations[r].values]]
        /\ UNCHANGED <<contest, composite, evaluations, baseline, scenarios>>
    BY <1>2, Zenon DEF LoadDataset
  <2>2. contest.request[1] \in Asked
    BY InputsAre DEF AnalysisInv, EvalInv, Range
  <2> HIDE DEF Asked
  <2>3. Refs' = Asked /\ \A r \in Asked : /\ dataset'.values[r] = evaluations[r].values
                                          /\ dataset'.weights = evaluations[r].weights
    BY <2>1, <2>2 DEF Refs, RunsOf
  <2>4. DataInv'
    BY <2>1, <2>3 DEF DataInv, Asked
  <2>5. EvalInv'
    BY <2>1 DEF AnalysisInv, EvalInv, EvaluatedAs, Metrics
  <2> QED BY <2>1, <2>4, <2>5 DEF AnalysisInv
<1> QED BY <1>1, <1>2

LEMMA BaselineKeeps == ASSUME AnalysisInv, RankBaseline PROVE AnalysisInv'
<1>1. /\ scoring = "rank" /\ scoring' = "perturb" /\ baseline' = RankScores(dataset.weights)
      /\ UNCHANGED <<contest, composite, evaluations, dataset, scenarios>>
  BY DEF RankBaseline
<1>2. EvalInv /\ DataInv /\ scenarios = << >>
  BY <1>1 DEF AnalysisInv
<1>3. Ranked(dataset.values, RankScores(dataset.weights), dataset.weights)
  BY <1>2, DataIsOK, RankingIs
<1>4. EvalInv'
  BY <1>1, <1>2 DEF EvalInv, EvaluatedAs, Metrics
<1>5. DataInv'
  BY <1>1, <1>2 DEF DataInv, Refs, RunsOf
<1>6. Ranked(dataset.values, baseline, dataset.weights)'
  BY <1>1, <1>3 
<1>7. RankInv'
  BY <1>1, <1>2, <1>6 DEF RankInv
<1> QED BY <1>1, <1>4, <1>5, <1>7 DEF AnalysisInv

LEMMA PerturbKeeps == ASSUME AnalysisInv, Perturb PROVE AnalysisInv'
<1>0. scoring = "perturb" /\ EvalInv /\ DataInv /\ RankInv
  BY DEF Perturb, AnalysisInv
<1>1. CASE ScoringRefused
  <2>1. UNCHANGED <<contest, evaluations>> /\ scoring' = "refused"
    BY <1>1 DEF ScoringRefused
  <2>2. EvalInv'
    BY <1>0, <2>1 DEF EvalInv, EvaluatedAs, Metrics
  <2> QED BY <2>1, <2>2 DEF AnalysisInv
<1>2. CASE ~ScoringRefused
  <2> PICK n : n = Len(scenarios) + 1
    OBVIOUS
  <2> DEFINE factors == contest.perturbations[n]
             w == PerturbedWeights(factors)
             ranking == RankScores(w)
             new == [ranking |-> ranking, weights |-> w,
                     climbs |-> [k \in DOMAIN ranking |-> RankIn(baseline, ranking[k].run) - k]]
  <2>1. /\ DOMAIN factors = DOMAIN dataset.weights /\ WeightTotal(w) # 0
        /\ scenarios' = Append(scenarios, new) /\ Len(scenarios) < Len(contest.perturbations)
        /\ UNCHANGED <<scoring, contest, composite, evaluations, dataset, baseline>>
    BY <1>2, Zenon DEF Perturb
  <2>2. Len(scenarios) \in Nat /\ DOMAIN scenarios = 1..Len(scenarios)
    BY <1>0 DEF RankInv
  <2>3. n \in DOMAIN contest.perturbations
    <3>1. /\ DOMAIN contest.perturbations = 1..Len(contest.perturbations)
          /\ Len(contest.perturbations) \in Nat
      BY <1>0, InputsAre DEF EvalInv
    <3> QED BY <2>1, <2>2, <3>1
  <2>4. w \in [Metrics -> Nat]
    BY <1>0, <2>1, <2>3, PerturbedAre
  <2>5. Ranked(dataset.values, ranking, w)
    BY <1>0, <2>4, DataIsOK, RankingIs
  <2>6. EvalInv'
    BY <1>0, <2>1 DEF EvalInv, EvaluatedAs, Metrics
  <2>7. DataInv'
    BY <1>0, <2>1 DEF DataInv, Refs, RunsOf
  <2>8. Ranked(dataset.values, baseline, dataset.weights)'
    BY <1>0, <2>1 DEF RankInv
  <2>9. /\ \E S : scenarios' \in Seq(S)
        /\ DOMAIN scenarios' = 1..n /\ scenarios'[n] = new
        /\ \A i \in DOMAIN scenarios : scenarios'[i] = scenarios[i]
    <3>1. PICK S : scenarios \in Seq(S)
      BY <1>0 DEF RankInv
    <3> HIDE DEF new
    <3> DEFINE T == S \cup {new}
    <3>2. S \subseteq T /\ new \in T
      OBVIOUS
    <3> HIDE DEF T
    <3>3. scenarios \in Seq(T)
      BY <3>1, <3>2, SeqMonotonic, Zenon
    <3> QED BY <2>1, <2>2, <3>2, <3>3
  <2>10. ASSUME NEW i \in DOMAIN scenarios PROVE Scenario(i)'
    <3>1. Scenario(i)
      BY <1>0 DEF RankInv
    <3> QED BY <2>1, <2>9, <3>1, Zenon DEF Scenario, PerturbedWeights
  <2>11. Scenario(n)'
    <3> DEFINE a == scenarios'[n]
    <3>1. a.ranking = ranking
          /\ a.climbs = [k \in DOMAIN ranking |-> RankIn(baseline, ranking[k].run) - k]
      BY <2>9
    <3>2. PerturbedWeights(factors)' = w
      BY <2>1 DEF PerturbedWeights
    <3> QED BY <2>1, <2>3, <2>5, <3>1, <3>2 DEF Scenario
  <2>12. RankInv'
    BY <2>2, <2>8, <2>9, <2>10, <2>11 DEF RankInv
  <2> QED BY <1>0, <2>1, <2>6, <2>7, <2>12 DEF AnalysisInv
<1> QED BY <1>1, <1>2

LEMMA FinishKeeps ==
  ASSUME AnalysisInv, FinishAnalysis \/ UNCHANGED scoringVars PROVE AnalysisInv'
<1>1. /\ UNCHANGED <<contest, composite, evaluations, dataset, baseline, scenarios>>
      /\ scoring' = scoring \/ (scoring = "perturb" /\ scoring' = "done")
  BY DEF FinishAnalysis, scoringVars
<1>2. EvalInv'
  BY <1>1 DEF AnalysisInv, EvalInv, EvaluatedAs, Metrics, NextRun
<1>3. DataInv => DataInv'
  BY <1>1 DEF DataInv, Refs, RunsOf
<1>4. RankInv => RankInv'
  BY <1>1 DEF RankInv, Scenario, PerturbedWeights
<1> QED BY <1>1, <1>2, <1>3, <1>4 DEF AnalysisInv

LEMMA AnalysisSteps == ASSUME AnalysisInv, [ScoringNext]_scoringVars PROVE AnalysisInv'
  BY ScoreKeeps, KeepKeeps, LoadKeeps, BaselineKeeps, PerturbKeeps, FinishKeeps DEF ScoringNext

LEMMA AnalysisStarts == ASSUME ScoringInit PROVE AnalysisInv
<1>1. /\ scoring = "score" /\ contest \in ScoringCases /\ evaluations = << >> /\ scenarios = << >>
  BY DEF ScoringInit
<1>2. DOMAIN evaluations = {}
  BY <1>1
<1>3. EvalInv
  BY <1>1, <1>2, FS_EmptySet DEF EvalInv
<1> QED BY <1>1, <1>3 DEF AnalysisInv

-----------------------------------------------------------------------------
(* What the rankings say. *)

\* A run whose raw metrics are all at least as good has no fewer points.
NowhereWorse(r, s) == \A m \in DOMAIN contest.profile :
  AtLeastAsGood(contest.profile[m], contest.runs[r].raw[m], contest.runs[s].raw[m])

LEMMA BetterHasMore ==
  ASSUME EvalInv, DataInv, NEW w \in [Metrics -> Nat], NEW r \in Refs, NEW s \in Refs, NowhereWorse(r, s)
  PROVE /\ Points(dataset.values, s, w) <= Points(dataset.values, r, w)
        /\ Points(dataset.values, s, w) \in Nat /\ Points(dataset.values, r, w) \in Nat
<1> DEFINE f == Shares(dataset.values, s, w)
           g == Shares(dataset.values, r, w)
<1>1. DataOK(dataset.values, Metrics) /\ IsFiniteSet(Metrics)
  BY DataIsOK DEF DataOK
<1>2. /\ Points(dataset.values, s, w) = SumFunctionOnSet(f, Metrics)
      /\ Points(dataset.values, r, w) = SumFunctionOnSet(g, Metrics)
      /\ \A m \in Metrics : f[m] \in Nat /\ g[m] \in Nat
  BY <1>1, PointsAre DEF Refs
<1>3. ASSUME NEW m \in Metrics PROVE f[m] <= g[m]
  <2> DEFINE p == contest.profile[m]
             v == contest.runs[r].raw[m]
             u == contest.runs[s].raw[m]
             x == dataset.values[r][m]
             y == dataset.values[s][m]
  <2>1. EvaluatedAs(r, evaluations[r]) /\ EvaluatedAs(s, evaluations[s])
    BY DEF EvalInv, DataInv
  <2>2. x = NormalizedMetric(p, v) /\ y = NormalizedMetric(p, u)
    BY <2>1 DEF DataInv, EvaluatedAs
  <2>3. PolicyInput(p) /\ v \in Int /\ u \in Int
    BY <2>1, InputsAre DEF EvalInv, EvaluatedAs
  <2>4. AtLeastAsGood(p, v, u)
    BY DEF NowhereWorse, Metrics
  <2>5. /\ DOMAIN dataset.values[r] = Metrics /\ DOMAIN dataset.values[s] = Metrics
        /\ x \in {Absent} \cup 0..NormUnit /\ y \in {Absent} \cup 0..NormUnit
    BY <1>1 DEF DataOK, Refs
  <2>6. /\ f[m] = IF y = Absent THEN 0 ELSE y * w[m]
        /\ g[m] = IF x = Absent THEN 0 ELSE x * w[m]
    BY <2>5 DEF Shares
  <2>7. w[m] \in Nat /\ NormUnit \in Nat /\ f[m] \in Nat /\ g[m] \in Nat
    BY <1>2, ScoringAssumption
  <2> HIDE DEF f, g, x, y, p, v, u
  <2>8. CASE u = Absent
    <3>1. y = Absent \/ y = 0
      BY <2>2, <2>8 DEF NormalizedMetric
    <3>2. f[m] = 0
      BY <2>6, <2>7, <3>1
    <3> QED BY <2>7, <3>2
  <2>9. CASE u # Absent
    <3>1. v # Absent
      BY <2>4, <2>9 DEF AtLeastAsGood
    <3>2. y = PresentValue(p, Clamped(p, u)) /\ x = PresentValue(p, Clamped(p, v))
      BY <2>2, <2>9, <3>1 DEF NormalizedMetric
    <3>3. y <= x
      BY <2>3, <2>4, <2>9, <3>1, <3>2, PresentValueGrows
    <3>4. x \in Nat /\ y \in Nat
      <4>1. Clamped(p, u) \in p.lower..p.upper /\ Clamped(p, v) \in p.lower..p.upper
        BY <2>3, ClampedIs DEF PolicyInput
      <4>2. y \in 0..NormUnit /\ x \in 0..NormUnit
        BY <2>3, <3>2, <4>1, PresentValueIs
      <4> QED BY <2>7, <4>2
    <3>5. y * w[m] <= x * w[m]
      BY <2>7, <3>3, <3>4, ProductGrows
    <3>6. x # Absent /\ y # Absent
      BY <3>4 DEF Absent
    <3> QED BY <2>6, <3>5, <3>6
  <2> QED BY <2>8, <2>9
<1> HIDE DEF f, g
<1>4. \A m \in Metrics : f[m] \in Int /\ g[m] \in Int /\ f[m] <= g[m]
  BY <1>2, <1>3
<1>5. SumFunctionOnSet(f, Metrics) <= SumFunctionOnSet(g, Metrics)
  BY ONLY <1>1, <1>4, SumLeq
<1>6. SumFunctionOnSet(f, Metrics) \in Nat /\ SumFunctionOnSet(g, Metrics) \in Nat
  BY <1>1, <1>2, SumIsNat
<1> QED BY <1>2, <1>5, <1>6

\* Every ranking has the runs that were asked for, none below one it is as good as.
RankingHonest(R) ==
  /\ {R[k].run : k \in DOMAIN R} = Refs /\ Len(R) = Cardinality(Refs)
  /\ \A r, s \in Refs : NowhereWorse(r, s) /\ r # s =>
       \/ RankIn(R, r) < RankIn(R, s)
       \/ s < r /\ R[RankIn(R, r)].score = R[RankIn(R, s)].score
  /\ \A k \in DOMAIN R : R[k].score[1] \in 0..(NormUnit * R[k].score[2])

LEMMA RankedIsHonest ==
  ASSUME EvalInv, DataInv, NEW w \in [Metrics -> Nat], NEW R, Ranked(dataset.values, R, w)
  PROVE RankingHonest(R)
<1>1. DataOK(dataset.values, Metrics) /\ RunsOf(dataset.values) = Refs
  BY DataIsOK DEF Refs
<1>2. /\ Cardinality(Refs) \in Nat /\ DOMAIN R = 1..Cardinality(Refs)
      /\ R = [k \in DOMAIN R |-> R[k]]
      /\ \A k \in DOMAIN R : /\ R[k].run \in Refs
                             /\ R[k].score = ScoreOf(dataset.values[R[k].run], w)
  BY <1>1 DEF Ranked
<1>3. \A r \in Refs : /\ RankIn(R, r) = PlaceIn(dataset.values, w, r)
                      /\ RankIn(R, r) \in DOMAIN R /\ R[RankIn(R, r)].run = r
  BY <1>1, <1>2, RankIsPlace
<1>4. {R[k].run : k \in DOMAIN R} = Refs
  BY <1>2, <1>3
<1>5. Len(R) = Cardinality(Refs)
  <2> DEFINE n == Cardinality(Refs)
  <2>1. n \in Nat /\ R = [k \in 1..n |-> R[k]]
    BY <1>2
  <2> HIDE DEF n
  <2>2. Len([k \in 1..n |-> R[k]]) = n
    BY <2>1
  <2> QED BY <2>1, <2>2 DEF n
<1>6. \A r \in Refs : R[RankIn(R, r)].score = <<Points(dataset.values, r, w), WeightTotal(w)>>
  BY <1>1, <1>2, <1>3, PointsAre
<1>7. ASSUME NEW r \in Refs, NEW s \in Refs, NowhereWorse(r, s), r # s
      PROVE \/ RankIn(R, r) < RankIn(R, s)
            \/ s < r /\ R[RankIn(R, r)].score = R[RankIn(R, s)].score
  <2> DEFINE a == Points(dataset.values, r, w)
             b == Points(dataset.values, s, w)
  <2>1. b <= a /\ a \in Nat /\ b \in Nat
    BY <1>7, BetterHasMore
  <2>2. r \in Nat /\ s \in Nat
    BY <1>1 DEF DataOK
  <2>3. <<r, s>> \in AboveSet(dataset.values, w) <=> a > b \/ (a = b /\ r < s)
    BY <1>1 DEF AboveSet
  <2>4. <<r, s>> \in AboveSet(dataset.values, w) => RankIn(R, r) < RankIn(R, s)
    <3>1. StrictOrder(Refs, AboveSet(dataset.values, w))
      BY <1>1, AboveIsOrder
    <3>2. <<r, s>> \in AboveSet(dataset.values, w)
            => PlaceIn(dataset.values, w, r) < PlaceIn(dataset.values, w, s)
      BY <1>1, <3>1, PlacesAre DEF PlaceIn
    <3> QED BY <1>3, <3>2
  <2>5. a = b => R[RankIn(R, r)].score = R[RankIn(R, s)].score
    BY <1>6
  <2> HIDE DEF a, b
  <2> QED BY <1>7, <2>1, <2>2, <2>3, <2>4, <2>5
<1>8. ASSUME NEW k \in DOMAIN R PROVE R[k].score[1] \in 0..(NormUnit * R[k].score[2])
  <2>1. R[k].score = <<Points(dataset.values, R[k].run, w), WeightTotal(w)>>
    BY <1>1, <1>2, PointsAre
  <2>2. Points(dataset.values, R[k].run, w) \in 0..(NormUnit * WeightTotal(w))
    BY <1>1, <1>2, PointsAre
  <2> QED BY <2>1, <2>2
<1> QED BY <1>4, <1>5, <1>7, <1>8 DEF RankingHonest

\* Places gained and lost cancel out, and the same factor on all weights moves nothing.
LEMMA ScenarioIsHonest ==
  ASSUME EvalInv, DataInv, RankInv, NEW i \in DOMAIN scenarios
  PROVE /\ RankingHonest(scenarios[i].ranking)
        /\ SumFunction(scenarios[i].climbs) = 0
        /\ \A x \in Range(contest.perturbations[i]) :
             (\A y \in Range(contest.perturbations[i]) : x = y) => Range(scenarios[i].climbs) = {0}
<1> DEFINE f == contest.perturbations[i]
           w == dataset.weights
           v == PerturbedWeights(f)
           R == scenarios[i].ranking
           c == scenarios[i].climbs
           D == dataset.values
<1>1. /\ i \in DOMAIN contest.perturbations /\ DOMAIN f = DOMAIN w /\ WeightTotal(v) # 0
      /\ Ranked(D, R, v) /\ Ranked(D, baseline, w)
      /\ c = [k \in DOMAIN R |-> RankIn(baseline, R[k].run) - k]
  BY DEF RankInv, Scenario
<1>2. /\ DataOK(D, Metrics) /\ w \in [Metrics -> Nat] /\ Refs # {} /\ RunsOf(D) = Refs
      /\ v \in [Metrics -> Nat]
  BY <1>1, DataIsOK, PerturbedAre DEF Refs
<1>3. RankingHonest(R)
  BY <1>1, <1>2, RankedIsHonest
<1>4. SumFunction(c) = 0
  BY <1>1, <1>2, ClimbsCancel
<1>5. ASSUME NEW x \in Range(f), \A y \in Range(f) : x = y PROVE Range(c) = {0}
  <2>1. \A m \in Metrics : f[m] = x /\ f[m] \in Nat
    <3>1. \A m \in Metrics : m \in DOMAIN f
      BY <1>1, <1>2
    <3>2. \A m \in Metrics : f[m] \in Nat
      BY <1>1, <3>1, InputsAre DEF EvalInv
    <3> QED BY <1>5, <3>1, <3>2 DEF Range
  <2>2. \A m \in Metrics : v[m] = x * w[m]
    BY <1>1, <1>2, <2>1 DEF PerturbedWeights
  <2>3. x \in Nat
    <3>1. PICK m \in DOMAIN f : x = f[m]
      BY <1>5 DEF Range
    <3> QED BY <1>1, <1>2, <2>1, <3>1
  <2> HIDE DEF v, w, f
  <2>4. WeightTotal(v) = x * WeightTotal(w) /\ WeightTotal(w) \in Nat
    <3>1. WeightTotal(v) = SumFunctionOnSet(v, Metrics) /\ WeightTotal(w) = SumFunctionOnSet(w, Metrics)
      BY <1>2, SumIsSum DEF WeightTotal
    <3>2. IsFiniteSet(Metrics) /\ x \in Int
      BY <1>2, <2>3 DEF DataOK
    <3>3. \A m \in Metrics : w[m] \in Int /\ v[m] = x * w[m]
      BY <1>2, <2>2
    <3>4. SumFunctionOnSet(v, Metrics) = x * SumFunctionOnSet(w, Metrics)
      BY ONLY <3>2, <3>3, SumOfTimes
    <3>5. SumFunctionOnSet(w, Metrics) \in Nat
      BY <1>2, <3>2, SumIsNat
    <3> QED BY <3>1, <3>4, <3>5
  <2>5. x # 0
    BY <1>1, <2>4
  <2>6. AboveSet(D, v) = AboveSet(D, w)
    BY <1>2, <2>2, <2>3, <2>5, SameFactor
  <2>7. \A r \in Refs : PlaceIn(D, v, r) = PlaceIn(D, w, r)
    BY <2>6 DEF PlaceIn
  <2>8. \A k \in DOMAIN R : R[k].run \in Refs /\ PlaceIn(D, v, R[k].run) = k /\ k \in Int
    BY <1>1, <1>2 DEF Ranked
  <2>9. \A k \in DOMAIN R : c[k] = 0
    <3> TAKE k \in DOMAIN R
    <3>1. RankIn(baseline, R[k].run) = PlaceIn(D, w, R[k].run)
      BY <1>1, <1>2, <2>8, RankIsPlace
    <3>2. RankIn(baseline, R[k].run) = k
      BY <2>7, <2>8, <3>1
    <3> QED BY <1>1, <2>8, <3>2
  <2>10. DOMAIN R # {}
    <3>1. \A r \in Refs : RankIn(R, r) \in 1..Cardinality(Refs) /\ DOMAIN R = 1..Cardinality(Refs)
      <4>1. \A r \in RunsOf(D) : RankIn(R, r) \in 1..Cardinality(RunsOf(D))
        BY <1>1, <1>2, RankIsPlace
      <4> QED BY <1>1, <1>2, <4>1 DEF Ranked
    <3> QED BY <1>2, <3>1
  <2>11. DOMAIN c = DOMAIN R
    BY <1>1
  <2> HIDE DEF c, R
  <2> QED BY <2>9, <2>10, <2>11 DEF Range
<1> QED BY <1>3, <1>4, <1>5

LEMMA AnalysisIsHonest == ASSUME AnalysisInv PROVE RankingsHonest
<1> SUFFICES ASSUME scoring = "done" PROVE RankingsHonest
  BY DEF RankingsHonest
<1>1. EvalInv /\ DataInv /\ RankInv
  BY DEF AnalysisInv
<1>2. Refs = Range(contest.request)
  BY <1>1 DEF DataInv
<1>3. RankingHonest(baseline)
  BY <1>1, DataIsOK, RankedIsHonest DEF RankInv
<1>4. \A ranking \in {baseline} \cup {s.ranking : s \in Range(scenarios)} : RankingHonest(ranking)
  BY <1>1, <1>3, ScenarioIsHonest DEF Range
<1>5. \A k \in DOMAIN baseline : baseline[k].score = evaluations[baseline[k].run].score
  <2> TAKE k \in DOMAIN baseline
  <2> DEFINE r == baseline[k].run
  <2>1. r \in Refs /\ baseline[k].score = ScoreOf(dataset.values[r], dataset.weights)
    BY <1>1 DEF RankInv, Ranked, Refs
  <2>2. EvaluatedAs(r, evaluations[r]) /\ dataset.values[r] = evaluations[r].values
        /\ dataset.weights = evaluations[r].weights
    BY <1>1, <2>1 DEF EvalInv, DataInv
  <2> QED BY <2>1, <2>2 DEF EvaluatedAs
<1>6. \A i \in DOMAIN scenarios :
        /\ SumFunction(scenarios[i].climbs) = 0
        /\ \A x \in Range(contest.perturbations[i]) :
             (\A y \in Range(contest.perturbations[i]) : x = y) => Range(scenarios[i].climbs) = {0}
  BY <1>1, ScenarioIsHonest
<1>7. \A r, s : NowhereWorse(r, s) <=> \A m \in DOMAIN contest.profile :
        AtLeastAsGood(contest.profile[m], contest.runs[r].raw[m], contest.runs[s].raw[m])
  BY Zenon DEF NowhereWorse
<1>8. \A ranking \in {baseline} \cup {s.ranking : s \in Range(scenarios)} :
        /\ {ranking[k].run : k \in DOMAIN ranking} = Range(contest.request)
        /\ Len(ranking) = Cardinality(Range(contest.request))
        /\ \A r, s \in Range(contest.request) : NowhereWorse(r, s) /\ r # s =>
             \/ RankIn(ranking, r) < RankIn(ranking, s)
             \/ s < r /\ ranking[RankIn(ranking, r)].score = ranking[RankIn(ranking, s)].score
        /\ \A k \in DOMAIN ranking : ranking[k].score[1] \in 0..(NormUnit * ranking[k].score[2])
  BY <1>2, <1>4, Zenon DEF RankingHonest
<1> QED BY <1>5, <1>6, <1>8, Zenon DEF RankingsHonest, NowhereWorse

\* sensitivity.py:191, score.py:200: whatever the profiles, the runs and the perturbations, the
\* rankings hold every run once, none ranks below one it is at least as good as but on a tie
\* by name, the baseline ranks by the scores that were kept, the places gained and lost cancel
\* out, and factors that are all the same change no place.
THEOREM RankingsAreHonest == ScoringSpec => []RankingsHonest
<1>1. ScoringInit => AnalysisInv
  BY AnalysisStarts
<1>2. AnalysisInv /\ [ScoringNext]_scoringVars => AnalysisInv'
  BY AnalysisSteps
<1>3. AnalysisInv => RankingsHonest
  BY AnalysisIsHonest
<1> QED BY <1>1, <1>2, <1>3, PTL DEF ScoringSpec

-----------------------------------------------------------------------------
(* Roads: the anchors that pairs of a set connect to an anchor. *)

\* What one step of the search for a component does.
Widened(P, R) == R \cup {b \in anchors : \E q \in R : {q, b} \in P}

IsWidening(g, P, a, n) ==
  /\ g = [k \in 0..n |-> g[k]] /\ g[0] = {a}
  /\ \A k \in 1..n : g[k] = Widened(P, g[k - 1])

LEMMA WideningExists ==
  ASSUME NEW P, NEW a, NEW n \in Nat PROVE \E g : IsWidening(g, P, a, n)
<1> DEFINE Good == {k \in Nat : \E g : IsWidening(g, P, a, k)}
<1>1. 0 \in Good
  <2> DEFINE g == [k \in 0..0 |-> {a}]
  <2>1. IsWidening(g, P, a, 0)
    BY DEF IsWidening
  <2> HIDE DEF g
  <2> QED BY <2>1
<1>2. ASSUME NEW m \in Nat, m \in Good PROVE m + 1 \in Good
  <2>1. PICK g : IsWidening(g, P, a, m)
    BY <1>2
  <2> DEFINE h == [k \in 0..(m + 1) |-> IF k <= m THEN g[k] ELSE Widened(P, g[m])]
  <2>2. h[0] = {a} /\ h = [k \in 0..(m + 1) |-> h[k]]
    BY <2>1 DEF IsWidening
  <2>3. \A k \in 0..m : h[k] = g[k]
    OBVIOUS
  <2>4. h[m + 1] = Widened(P, g[m])
    OBVIOUS
  <2> HIDE DEF h
  <2>5. ASSUME NEW k \in 1..(m + 1) PROVE h[k] = Widened(P, h[k - 1])
    <3>1. k - 1 \in 0..m /\ h[k - 1] = g[k - 1]
      BY <2>3
    <3>2. CASE k = m + 1
      BY <2>4, <3>1, <3>2
    <3>3. CASE k # m + 1
      <4>1. k \in 1..m /\ k \in 0..m
        BY <3>3
      <4> QED BY <2>1, <2>3, <3>1, <4>1 DEF IsWidening
    <3> QED BY <3>2, <3>3
  <2>6. IsWidening(h, P, a, m + 1)
    BY <2>2, <2>5 DEF IsWidening
  <2> QED BY <2>6
<1>3. Nat \subseteq Good
  <2> HIDE DEF Good
  <2> QED BY <1>1, <1>2, NatInductionOnSet
<1> QED BY <1>3

WidenBody(P, a, g, k) == IF k = 0 THEN {a} ELSE Widened(P, g[k - 1])
Widening(P, a, n) == CHOOSE g : g = [k \in 0..n |-> WidenBody(P, a, g, k)]

LEMMA ComponentIsWidening ==
  ASSUME NEW P, NEW a
  PROVE Component(P, a) = Widening(P, a, Cardinality(anchors))[Cardinality(anchors)]
BY Zenon DEF Component, Widening, WidenBody, Widened

LEMMA WideningIs ==
  ASSUME NEW P, NEW a, NEW n \in Nat
  PROVE IsWidening(Widening(P, a, n), P, a, n)
<1> DEFINE r == Widening(P, a, n)
<1>1. PICK h : IsWidening(h, P, a, n)
  BY WideningExists
<1>2. \A k \in 0..n : h[k] = WidenBody(P, a, h, k)
  <2>1. \A k \in 0..n : k = 0 \/ k \in 1..n
    OBVIOUS
  <2> QED BY <1>1, <2>1 DEF IsWidening, WidenBody
<1>3. h = [k \in 0..n |-> WidenBody(P, a, h, k)]
  BY <1>1, <1>2 DEF IsWidening
<1>4. r = [k \in 0..n |-> WidenBody(P, a, r, k)]
  BY <1>3 DEF Widening
<1> HIDE DEF r
<1>5. \A k \in 0..n : r[k] = WidenBody(P, a, r, k)
  BY <1>4
<1>6. r = [k \in 0..n |-> r[k]]
  BY <1>4, <1>5
<1>7. r[0] = {a}
  BY <1>5 DEF WidenBody
<1>8. \A k \in 1..n : r[k] = Widened(P, r[k - 1])
  BY <1>5 DEF WidenBody
<1>9. IsWidening(r, P, a, n)
  BY <1>6, <1>7, <1>8 DEF IsWidening
<1> QED BY <1>9 DEF r

\* A set no pair leads out of.
Encloses(P, T) == \A b \in anchors : (\E q \in T : {q, b} \in P) => b \in T

\* The component of an anchor is the smallest such set around it.
LEMMA ComponentIs ==
  ASSUME IsFiniteSet(anchors), NEW P, NEW a \in anchors
  PROVE /\ a \in Component(P, a) /\ Component(P, a) \subseteq anchors
        /\ Encloses(P, Component(P, a))
        /\ \A T : a \in T /\ Encloses(P, T) => Component(P, a) \subseteq T
<1> DEFINE n == Cardinality(anchors)
           r == Widening(P, a, n)
           S(R) == Widened(P, R)
<1>0. n \in Nat /\ Component(P, a) = r[n]
  BY ComponentIsWidening, FS_CardinalityType
<1>1. r[0] = {a} /\ \A k \in Nat : k < n => r[k + 1] = S(r[k])
  <2>1. IsWidening(r, P, a, n)
    BY <1>0, WideningIs
  <2>2. \A k \in Nat : k < n => k + 1 \in 1..n /\ (k + 1) - 1 = k
    BY <1>0
  <2> HIDE DEF r, n
  <2> QED BY <2>1, <2>2 DEF IsWidening
<1>2. IsFiniteSet(anchors) /\ Cardinality(anchors) = n
  OBVIOUS
<1> HIDE DEF n, r
<1>3. \A R : R \subseteq S(R) /\ (R \subseteq anchors => S(R) \subseteq anchors)
            /\ (Encloses(P, R) => S(R) = R)
  BY DEF Widened, Encloses
<1>4. \A R : S(R) = R => Encloses(P, R)
  BY DEF Widened, Encloses
<1>5. \A R, T : R \subseteq T /\ Encloses(P, T) => S(R) \subseteq T
  BY DEF Widened, Encloses
<1> HIDE DEF S
<1>6. /\ n \in Nat \ {0} /\ n - 1 \in Nat /\ a \in r[n] /\ r[n] \subseteq anchors /\ r[n] = r[n - 1]
      /\ \A T : a \in T /\ (\A k \in Nat : k < n /\ r[k] \subseteq T => r[k + 1] \subseteq T)
                  => r[n] \subseteq T
  <2>1. \A k \in Nat : k < n /\ r[k] \subseteq anchors => r[k + 1] \subseteq anchors
    BY <1>1, <1>3
  <2>2. \A k \in Nat : k < n => r[k] \subseteq r[k + 1]
    BY <1>1, <1>3
  <2>3. \A k \in Nat : k + 1 < n /\ r[k + 1] = r[k] => r[k + 1 + 1] = r[k + 1]
    <3>1. \A k \in Nat : k + 1 < n => k + 1 \in Nat /\ k < n
      BY <1>0
    <3> QED BY <1>1, <3>1
  <2> QED BY <1>1, <1>2, <2>1, <2>2, <2>3, ChainSettles
<1>7. Encloses(P, r[n])
  <2>1. r[(n - 1) + 1] = S(r[n - 1]) /\ (n - 1) + 1 = n
    BY <1>1, <1>6
  <2> QED BY <1>4, <1>6, <2>1
<1>8. \A T : a \in T /\ Encloses(P, T) => r[n] \subseteq T
  BY <1>1, <1>5, <1>6
<1> QED BY <1>0, <1>6, <1>7, <1>8

\* The anchors of a component have one component.
LEMMA ComponentSame ==
  ASSUME IsFiniteSet(anchors), NEW P, NEW a \in anchors, NEW b \in Component(P, a)
  PROVE Component(P, b) = Component(P, a)
<1> DEFINE C(x) == Component(P, x)
<1>1. \A x \in anchors : /\ x \in C(x) /\ C(x) \subseteq anchors /\ Encloses(P, C(x))
                         /\ \A T : x \in T /\ Encloses(P, T) => C(x) \subseteq T
  BY ComponentIs
<1> HIDE DEF C
<1>2. C(b) \subseteq C(a) /\ b \in anchors
  BY <1>1 DEF C
<1>3. a \in C(b)
  <2> DEFINE T == C(a) \ C(b)
  <2>1. Encloses(P, T)
    <3> SUFFICES ASSUME NEW y \in anchors, NEW q \in T, {q, y} \in P PROVE y \in T
      BY DEF Encloses
    <3>1. y \in C(a)
      BY <1>1 DEF Encloses
    <3>2. y \notin C(b)
      <4>1. {y, q} \in P
        <5>1. {y, q} = {q, y}
          OBVIOUS
        <5> QED BY <5>1
      <4>2. q \in anchors /\ q \notin C(b)
        BY <1>1
      <4> QED BY <1>1, <1>2, <4>1, <4>2 DEF Encloses
    <3> QED BY <3>1, <3>2
  <2> QED BY <1>1, <1>2, <2>1 DEF C
<1>4. C(a) \subseteq C(b)
  BY <1>1, <1>2, <1>3
<1> QED BY <1>2, <1>4 DEF C

\* Pairs connect all anchors when some pair leads out of every set of some but not all.
Joins(T, A) ==
  \A S \in SUBSET A : S # {} /\ S # A => \E x \in S, y \in A \ S : {x, y} \in T

LEMMA JoiningConnects ==
  ASSUME IsFiniteSet(anchors), NEW T
  PROVE (\A a \in anchors : Component(T, a) = anchors) <=> Joins(T, anchors)
<1>1. ASSUME \A a \in anchors : Component(T, a) = anchors,
             NEW S \in SUBSET anchors, S # {}, S # anchors,
             ~ \E x \in S, y \in anchors \ S : {x, y} \in T
      PROVE FALSE
  <2>1. PICK a \in S : TRUE
    BY <1>1
  <2>2. Encloses(T, S)
    BY <1>1 DEF Encloses
  <2>3. Component(T, a) \subseteq S
    BY <2>1, <2>2, ComponentIs
  <2> QED BY <1>1, <2>1, <2>3
<1>2. ASSUME Joins(T, anchors), NEW a \in anchors PROVE Component(T, a) = anchors
  <2>1. /\ a \in Component(T, a) /\ Component(T, a) \subseteq anchors
        /\ Encloses(T, Component(T, a))
    BY ComponentIs
  <2> DEFINE C == Component(T, a)
  <2> HIDE DEF C
  <2>2. C = anchors
    BY <1>2, <2>1 DEF Joins, Encloses, C
  <2> QED BY <2>2 DEF C
<1> QED BY <1>1, <1>2 DEF Joins

-----------------------------------------------------------------------------
(* Roads: keys, pairs, and Prim's algorithm. *)

LEMMA LowerIs ==
  ASSUME NEW a, NEW b, NEW c, NEW d, NEW e, NEW f
  PROVE Lower(<<a, b, c>>, <<d, e, f>>)
          <=> a < d \/ (a = d /\ b < e) \/ (a = d /\ b = e /\ c < f)
<1> DEFINE k == <<a, b, c>>
           l == <<d, e, f>>
           At(i) == k[i] < l[i] /\ \A j \in 1..(i - 1) : k[j] = l[j]
<1>1. DOMAIN k = {1, 2, 3} /\ k[1] = a /\ k[2] = b /\ k[3] = c /\ l[1] = d /\ l[2] = e /\ l[3] = f
  OBVIOUS
<1>2. Lower(k, l) <=> At(1) \/ At(2) \/ At(3)
  BY <1>1 DEF Lower
<1>3. 1..(1 - 1) = {} /\ 1..(2 - 1) = {1} /\ 1..(3 - 1) = {1, 2}
  OBVIOUS
<1>4. (At(1) <=> a < d) /\ (At(2) <=> b < e /\ a = d) /\ (At(3) <=> c < f /\ a = d /\ b = e)
  BY <1>1, <1>3
<1> HIDE DEF At
<1> QED BY <1>2, <1>4

\* Elements whose keys differ have a lowest.
LEMMA LowestOf ==
  ASSUME NEW S, IsFiniteSet(S), S # {}, NEW k, \A x \in S : k[x] \in Int \X Int \X Int,
         \A x, y \in S : k[x] = k[y] => x = y
  PROVE \E m \in S : \A x \in S \ {m} : Lower(k[m], k[x])
<1> DEFINE f == [x \in S |-> -k[x][1]]
           g == [x \in S |-> -k[x][2]]
           h == [x \in S |-> -k[x][3]]
<1>1. \A x \in S : /\ k[x][1] \in Int /\ k[x][2] \in Int /\ k[x][3] \in Int
                   /\ k[x] = <<k[x][1], k[x][2], k[x][3]>>
  OBVIOUS
<1>2. \A x \in S : f[x] \in Int /\ g[x] \in Int /\ h[x] \in Int
  BY <1>1
<1>3. PICK u \in S : \A x \in S : f[x] <= f[u]
  <2> HIDE DEF f
  <2> QED BY <1>2, HighestOf
<1> DEFINE S1 == {x \in S : k[x][1] = k[u][1]}
<1>4. IsFiniteSet(S1) /\ S1 # {} /\ S1 \subseteq S
  BY FS_Subset
<1>5. PICK v \in S1 : \A x \in S1 : g[x] <= g[v]
  <2>1. \A x \in S1 : g[x] \in Int
    BY <1>2
  <2> HIDE DEF g, S1
  <2> QED BY <1>4, <2>1, HighestOf
<1> DEFINE S2 == {x \in S1 : k[x][2] = k[v][2]}
<1>6. IsFiniteSet(S2) /\ S2 # {} /\ S2 \subseteq S1
  BY <1>4, FS_Subset
<1>7. PICK m \in S2 : \A x \in S2 : h[x] <= h[m]
  <2>1. \A x \in S2 : h[x] \in Int
    BY <1>2
  <2> HIDE DEF h, S2
  <2> QED BY <1>6, <2>1, HighestOf
<1>8. m \in S /\ k[m][1] = k[u][1] /\ k[m][2] = k[v][2]
  OBVIOUS
<1>9. ASSUME NEW x \in S \ {m} PROVE Lower(k[m], k[x])
  <2>1. k[m][1] <= k[x][1]
    BY <1>1, <1>3, <1>8
  <2>2. k[x][1] = k[m][1] => k[m][2] <= k[x][2]
    BY <1>1, <1>5, <1>8
  <2>3. k[x][1] = k[m][1] /\ k[x][2] = k[m][2] => k[m][3] <= k[x][3]
    BY <1>1, <1>7, <1>8
  <2>4. k[x] # k[m]
    BY <1>8
  <2>5. k[m] = <<k[m][1], k[m][2], k[m][3]>> /\ k[x] = <<k[x][1], k[x][2], k[x][3]>>
    BY <1>1, <1>8
  <2>6. k[x][1] # k[m][1] \/ k[x][2] # k[m][2] \/ k[x][3] # k[m][3]
    BY <2>4, <2>5
  <2>7. /\ k[m][1] \in Int /\ k[m][2] \in Int /\ k[m][3] \in Int
        /\ k[x][1] \in Int /\ k[x][2] \in Int /\ k[x][3] \in Int
    BY <1>1, <1>8
  <2>8. \/ k[m][1] < k[x][1] \/ (k[m][1] = k[x][1] /\ k[m][2] < k[x][2])
        \/ (k[m][1] = k[x][1] /\ k[m][2] = k[x][2] /\ k[m][3] < k[x][3])
    BY ONLY <2>1, <2>2, <2>3, <2>6, <2>7
  <2>9. Lower(<<k[m][1], k[m][2], k[m][3]>>, <<k[x][1], k[x][2], k[x][3]>>)
    BY ONLY <2>8, LowerIs
  <2> QED BY ONLY <2>5, <2>9
<1> QED BY <1>8, <1>9

\* Sets of two.
LEMMA TwoSetIs ==
  ASSUME NEW A, IsFiniteSet(A), NEW p
  PROVE p \in kSubset(2, A) <=> \E a, b \in A : a # b /\ p = {a, b}
<1>1. ASSUME NEW a \in A, NEW b \in A, a # b PROVE {a, b} \in kSubset(2, A)
  <2>1. IsFiniteSet({a}) /\ Cardinality({a}) = 1 /\ b \notin {a} /\ {a} \cup {b} = {a, b}
    BY <1>1, FS_Singleton
  <2>2. Cardinality({a} \cup {b}) = 1 + 1
    BY ONLY <2>1, FS_AddElement
  <2>3. Cardinality({a, b}) = 2
    BY <2>1, <2>2
  <2> QED BY <2>3 DEF kSubset
<1>2. ASSUME p \in kSubset(2, A) PROVE \E a, b \in A : a # b /\ p = {a, b}
  <2>1. p \in SUBSET A /\ Cardinality(p) = 2
    BY <1>2 DEF kSubset
  <2>2. p # {} /\ \A a : p # {a}
    BY <2>1, FS_EmptySet, FS_Singleton
  <2>3. PICK a \in p : TRUE
    BY <2>2
  <2>4. PICK b \in p : b # a
    BY <2>2, <2>3
  <2>5. IsFiniteSet(p)
    BY <2>1, FS_Subset
  <2>6. p = {a, b}
    <3>1. {a, b} \in SUBSET p /\ Cardinality({a, b}) = 2
      <4>1. {a, b} \in kSubset(2, A)
        BY <1>1, <2>1, <2>4
      <4> QED BY <4>1 DEF kSubset
    <3> QED BY <2>1, <2>5, <3>1, FS_Subset
  <2> QED BY <2>1, <2>4, <2>6
<1> QED BY <1>1, <1>2
\* What the assumptions say of the anchors.
Ground == site \in RoadCases /\ anchors \subseteq site.sampled
AnchorPairs == kSubset(2, anchors)

LEMMA GroundIs ==
  ASSUME Ground
  PROVE /\ IsFiniteSet(anchors) /\ anchors \subseteq Nat /\ Cardinality(anchors) \in Nat
        /\ IsFiniteSet(AnchorPairs)
        /\ \A p \in AnchorPairs : Direct(p) \in Nat /\ Direct(p) > 0 /\ Direct(p) = site.distance[p]
        /\ \A a, b \in anchors : a # b => {a, b} \in AnchorPairs
        /\ site.detours \subseteq Nat /\ site.budget \in Nat
<1>1. RoadInput(site)
  BY RoadAssumption DEF Ground
<1>2. /\ site.score \in Seq(Nat \cup {-1}) /\ site.sampled \subseteq DOMAIN site.score
      /\ site.distance \in [kSubset(2, DOMAIN site.score) -> Nat \ {0}]
      /\ site.detours \subseteq Nat /\ site.budget \in Nat
  BY <1>1 DEF RoadInput, GrowthPolicy
<1>3. DOMAIN site.score = 1..Len(site.score) /\ Len(site.score) \in Nat
  BY <1>2
<1>4. IsFiniteSet(DOMAIN site.score) /\ anchors \in SUBSET (DOMAIN site.score)
  <2>1. IsFiniteSet(1..Len(site.score))
    BY <1>3, FS_Interval
  <2> QED BY <1>2, <1>3, <2>1 DEF Ground
<1>5. IsFiniteSet(anchors) /\ anchors \subseteq Nat /\ Cardinality(anchors) \in Nat
  BY <1>3, <1>4, FS_Subset, FS_CardinalityType
<1>6. IsFiniteSet(AnchorPairs)
  <2>1. IsFiniteSet(SUBSET anchors) /\ AnchorPairs \in SUBSET (SUBSET anchors)
    BY <1>5, FS_SUBSET DEF AnchorPairs, kSubset
  <2> QED BY <2>1, FS_Subset
<1>7. AnchorPairs \subseteq kSubset(2, DOMAIN site.score)
  BY <1>4 DEF AnchorPairs, kSubset
<1>8. ASSUME NEW p \in AnchorPairs
      PROVE Direct(p) \in Nat /\ Direct(p) > 0 /\ Direct(p) = site.distance[p]
  <2>1. site.distance[p] \in Nat \ {0}
    BY <1>2, <1>7
  <2> QED BY <2>1 DEF Direct
<1>9. \A a, b \in anchors : a # b => {a, b} \in AnchorPairs
  BY <1>5, TwoSetIs DEF AnchorPairs
<1> QED BY <1>2, <1>5, <1>6, <1>8, <1>9

\* The tree of a sequence of edges, the edge that Prim's algorithm adds next, and its run.
TreeOf(s) == {Min(anchors)} \cup {e[2] : e \in Range(s)}
PairsOf(s) == {{e[1], e[2]} : e \in Range(s)}
NextEdge(s) ==
  CHOOSE e \in Crossing(TreeOf(s)) :
    \A f \in Crossing(TreeOf(s)) \ {e} : Lower(EdgeKey(e), EdgeKey(f))
PrimBody(g, k) == IF k = 0 THEN << >> ELSE Append(g[k - 1], NextEdge(g[k - 1]))
PrimRun(n) == CHOOSE g : g = [k \in 0..n |-> PrimBody(g, k)]

LEMMA PrimIsRun ==
  Prim = IF Cardinality(anchors) <= 1 THEN << >>
         ELSE PrimRun(Cardinality(anchors))[Cardinality(anchors) - 1]
BY Zenon DEF Prim, PrimRun, PrimBody, NextEdge, TreeOf

IsPrimRun(g, n) ==
  /\ g = [k \in 0..n |-> g[k]] /\ g[0] = << >>
  /\ \A k \in 1..n : g[k] = Append(g[k - 1], NextEdge(g[k - 1]))

LEMMA PrimRunExists == ASSUME NEW n \in Nat PROVE \E g : IsPrimRun(g, n)
<1> DEFINE Good == {k \in Nat : \E g : IsPrimRun(g, k)}
           More(s) == Append(s, NextEdge(s))
<1> HIDE DEF More
<1>1. 0 \in Good
  <2> DEFINE g == [k \in 0..0 |-> << >>]
  <2>1. IsPrimRun(g, 0)
    BY DEF IsPrimRun
  <2> HIDE DEF g
  <2> QED BY <2>1
<1>2. ASSUME NEW m \in Nat, m \in Good PROVE m + 1 \in Good
  <2>1. PICK g : IsPrimRun(g, m)
    BY <1>2
  <2> DEFINE h == [k \in 0..(m + 1) |-> IF k <= m THEN g[k] ELSE More(g[m])]
  <2>2. h[0] = << >> /\ h = [k \in 0..(m + 1) |-> h[k]]
    BY <2>1 DEF IsPrimRun
  <2>3. \A k \in 0..m : h[k] = g[k]
    OBVIOUS
  <2>4. h[m + 1] = More(g[m])
    OBVIOUS
  <2> HIDE DEF h
  <2>5. ASSUME NEW k \in 1..(m + 1) PROVE h[k] = More(h[k - 1])
    <3>1. k - 1 \in 0..m /\ h[k - 1] = g[k - 1]
      BY <2>3
    <3>2. CASE k = m + 1
      BY <2>4, <3>1, <3>2
    <3>3. CASE k # m + 1
      <4>1. k \in 1..m /\ k \in 0..m
        BY <3>3
      <4>2. g[k] = More(g[k - 1])
        BY <2>1, <4>1 DEF IsPrimRun, More
      <4> QED BY <2>3, <3>1, <4>1, <4>2
    <3> QED BY <3>2, <3>3
  <2>6. IsPrimRun(h, m + 1)
    BY <2>2, <2>5 DEF IsPrimRun, More
  <2> QED BY <2>6
<1>3. Nat \subseteq Good
  <2> HIDE DEF Good
  <2> QED BY <1>1, <1>2, NatInductionOnSet
<1> QED BY <1>3

LEMMA PrimRunIs == ASSUME NEW n \in Nat PROVE IsPrimRun(PrimRun(n), n)
<1> DEFINE r == PrimRun(n)
           More(s) == Append(s, NextEdge(s))
<1> HIDE DEF More
<1>0. \A g, k : PrimBody(g, k) = IF k = 0 THEN << >> ELSE More(g[k - 1])
  BY DEF PrimBody, More
<1>1. PICK h : IsPrimRun(h, n)
  BY PrimRunExists
<1>2. \A k \in 0..n : h[k] = PrimBody(h, k)
  <2>1. \A k \in 0..n : k = 0 \/ k \in 1..n
    OBVIOUS
  <2>2. h[0] = << >> /\ \A k \in 1..n : h[k] = More(h[k - 1])
    BY <1>1 DEF IsPrimRun, More
  <2> QED BY <1>0, <2>1, <2>2
<1>3. h = [k \in 0..n |-> PrimBody(h, k)]
  BY <1>1, <1>2 DEF IsPrimRun
<1>4. r = [k \in 0..n |-> PrimBody(r, k)]
  BY <1>3 DEF PrimRun
<1> HIDE DEF r
<1>5. \A k \in 0..n : r[k] = PrimBody(r, k)
  BY <1>4
<1>6. r = [k \in 0..n |-> r[k]]
  BY <1>4, <1>5
<1>7. r[0] = << >>
  BY <1>0, <1>5
<1>8. \A k \in 1..n : r[k] = More(r[k - 1])
  BY <1>0, <1>5
<1>9. IsPrimRun(r, n)
  BY <1>6, <1>7, <1>8 DEF IsPrimRun, More
<1> QED BY <1>9 DEF r
\* The first k edges of the algorithm: a tree of k + 1 anchors.
IsTree(s, k) ==
  /\ s \in Seq(anchors \X anchors) /\ Len(s) = k
  /\ TreeOf(s) \in SUBSET anchors /\ Cardinality(TreeOf(s)) = k + 1
  /\ PairsOf(s) \subseteq kSubset(2, TreeOf(s)) /\ Cardinality(PairsOf(s)) = k
  /\ Joins(PairsOf(s), TreeOf(s))

LEMMA TreeStarts ==
  ASSUME Ground, anchors # {}
  PROVE IsTree(<< >>, 0) /\ PairsOf(<< >>) = {}
<1>1. Min(anchors) \in anchors
  BY GroundIs, MinOf
<1>2. Range(<< >>) = {}
  BY DEF Range
<1>3. TreeOf(<< >>) = {Min(anchors)} /\ PairsOf(<< >>) = {}
  BY <1>2 DEF TreeOf, PairsOf
<1>4. Cardinality({Min(anchors)}) = 1 /\ Cardinality({}) = 0
  BY FS_Singleton, FS_EmptySet
<1>5. Joins({}, {Min(anchors)})
  BY DEF Joins
<1>6. << >> \in Seq(anchors \X anchors) /\ Len(<< >>) = 0
  OBVIOUS
<1>7. TreeOf(<< >>) \in SUBSET anchors /\ Cardinality(TreeOf(<< >>)) = 0 + 1
  <2>1. 0 + 1 = 1
    OBVIOUS
  <2>2. {Min(anchors)} \in SUBSET anchors
    BY <1>1
  <2> QED BY ONLY <1>3, <1>4, <2>1, <2>2
<1>8. PairsOf(<< >>) \subseteq kSubset(2, TreeOf(<< >>)) /\ Cardinality(PairsOf(<< >>)) = 0
  BY <1>3, <1>4
<1>9. Joins(PairsOf(<< >>), TreeOf(<< >>))
  BY <1>3, <1>5
<1>10. IsTree(<< >>, 0)
  BY ONLY <1>6, <1>7, <1>8, <1>9 DEF IsTree
<1> QED BY <1>3, <1>10

\* A shortest pair that leads out of a set of anchors.
Leads(u, v, X) ==
  /\ u \in X /\ v \in anchors \ X
  /\ \A x \in X, y \in anchors \ X : Direct({u, v}) <= Direct({x, y})

\* A tree of some anchors grows by a shortest pair that leads out of it.
LEMMA TreeGrows ==
  ASSUME Ground, NEW s, NEW k \in Nat, IsTree(s, k), k + 1 < Cardinality(anchors),
         NEW e, e = NextEdge(s)
  PROVE /\ Leads(e[1], e[2], TreeOf(s))
        /\ IsTree(Append(s, e), k + 1) /\ PairsOf(Append(s, e)) = PairsOf(s) \cup {{e[1], e[2]}}
<1> DEFINE X == TreeOf(s)
           Y == anchors \ X
           P == PairsOf(s)
           u == e[1]
           v == e[2]
           leading == Crossing(X)
           key == [f \in leading |-> EdgeKey(f)]
<1>1. /\ IsFiniteSet(anchors) /\ anchors \subseteq Nat /\ Cardinality(anchors) \in Nat
      /\ \A a, b \in anchors : a # b => Direct({a, b}) \in Nat
  BY GroundIs
<1>2. /\ s \in Seq(anchors \X anchors) /\ Len(s) = k /\ X \in SUBSET anchors
      /\ Cardinality(X) = k + 1 /\ P \subseteq kSubset(2, X) /\ Cardinality(P) = k /\ Joins(P, X)
  BY DEF IsTree
<1>x. X # {}
  BY DEF TreeOf
<1>3. leading = X \X Y
  BY DEF Crossing
<1>e. e = CHOOSE f \in leading : \A g \in leading \ {f} : Lower(EdgeKey(f), EdgeKey(g))
  BY DEF NextEdge
<1> HIDE DEF X, P
<1>4. IsFiniteSet(X) /\ IsFiniteSet(Y) /\ Y # {}
  <2>1. IsFiniteSet(X) /\ Y \in SUBSET anchors
    BY <1>1, <1>2, FS_Subset
  <2>2. IsFiniteSet(Y)
    BY <1>1, <2>1, FS_Subset
  <2>3. X # anchors
    BY <1>1, <1>2
  <2> QED BY <1>2, <2>1, <2>2, <2>3
<1>5. IsFiniteSet(leading) /\ leading # {}
  <2>1. IsFiniteSet(X \X Y)
    BY <1>4, FS_Product
  <2>2. \A x \in X, y \in Y : <<x, y>> \in X \X Y
    OBVIOUS
  <2> HIDE DEF Y, leading
  <2> QED BY <1>3, <1>4, <1>x, <2>1, <2>2
<1>6. \A f \in leading : /\ f[1] \in X /\ f[2] \in Y /\ f = <<f[1], f[2]>>
                      /\ f[1] \in Int /\ f[2] \in Int /\ f[1] # f[2]
                      /\ Direct({f[1], f[2]}) \in Nat
                      /\ key[f] = <<Direct({f[1], f[2]}), f[1], f[2]>>
  <2> TAKE f \in leading
  <2>1. f \in X \X Y
    BY <1>3
  <2>2. f[1] \in X /\ f[2] \in Y /\ f = <<f[1], f[2]>>
    BY ONLY <2>1
  <2>3. f[1] \in anchors /\ f[2] \in anchors /\ f[1] # f[2]
    BY <1>2, <2>2
  <2>4. f[1] \in Int /\ f[2] \in Int
    <3>1. \A a \in anchors : a \in Int
      BY <1>1
    <3> QED BY ONLY <2>3, <3>1
  <2>6. Direct({f[1], f[2]}) \in Nat
    BY ONLY <1>1, <2>3
  <2>5. key[f] = EdgeKey(f)
    OBVIOUS
  <2> HIDE DEF key
  <2> QED BY <2>2, <2>3, <2>4, <2>5, <2>6 DEF EdgeKey
<1> HIDE DEF leading, key
<1>7. \E m \in leading : \A f \in leading \ {m} : Lower(key[m], key[f])
  <2>1. \A f \in leading : key[f] \in Int \X Int \X Int
    <3> TAKE f \in leading
    <3>1. /\ key[f] = <<Direct({f[1], f[2]}), f[1], f[2]>>
          /\ Direct({f[1], f[2]}) \in Int /\ f[1] \in Int /\ f[2] \in Int
      BY <1>6
    <3> QED BY ONLY <3>1
  <2>2. ASSUME NEW f \in leading, NEW g \in leading, key[f] = key[g] PROVE f = g
    <3>1. f = <<f[1], f[2]>> /\ g = <<g[1], g[2]>>
      BY <1>6
    <3>2. <<Direct({f[1], f[2]}), f[1], f[2]>> = <<Direct({g[1], g[2]}), g[1], g[2]>>
      BY <1>6, <2>2
    <3>3. f[1] = g[1] /\ f[2] = g[2]
      BY ONLY <3>2
    <3> QED BY ONLY <3>1, <3>3
  <2> QED BY <1>5, <2>1, <2>2, LowestOf
<1>8. e \in leading /\ \A f \in leading \ {e} : Lower(key[e], key[f])
  <2>1. \A f \in leading : EdgeKey(f) = key[f]
    BY DEF key
  <2>2. \E m \in leading : \A f \in leading \ {m} : Lower(EdgeKey(m), EdgeKey(f))
    BY <1>7, <2>1
  <2>3. e \in leading /\ \A f \in leading \ {e} : Lower(EdgeKey(e), EdgeKey(f))
    BY <1>e, <2>2
  <2> QED BY <2>1, <2>3
<1>9. u \in X /\ v \in Y /\ u \in anchors /\ v \in anchors /\ u # v
  BY <1>2, <1>6, <1>8
<1>10. ASSUME NEW x \in X, NEW y \in Y PROVE Direct({u, v}) <= Direct({x, y})
  <2> DEFINE f == <<x, y>>
  <2>1. f \in leading /\ f[1] = x /\ f[2] = y
    BY <1>3 DEF leading
  <2> HIDE DEF f
  <2>2. CASE f = e
    BY <1>6, <1>8, <2>1, <2>2
  <2>3. CASE f # e
    <3>1. Lower(<<Direct({u, v}), u, v>>, <<Direct({x, y}), x, y>>)
      BY <1>6, <1>8, <2>1, <2>3
    <3>2. Direct({u, v}) < Direct({x, y}) \/ Direct({u, v}) = Direct({x, y})
      BY ONLY <3>1, LowerIs
    <3>3. Direct({u, v}) \in Nat /\ Direct({x, y}) \in Nat
      BY <1>6, <1>8, <2>1
    <3> QED BY ONLY <3>2, <3>3
  <2> QED BY <2>2, <2>3
<1> DEFINE t == Append(s, e)
<1>11. t \in Seq(anchors \X anchors) /\ Len(t) = k + 1 /\ Range(t) = Range(s) \cup {e}
  <2>1. e \in anchors \X anchors
    BY <1>2, <1>3, <1>8 DEF leading
  <2>2. \A i \in 1..k : t[i] = s[i]
    BY <1>2, <2>1
  <2>3. t[k + 1] = e /\ DOMAIN t = 1..(k + 1) /\ DOMAIN s = 1..k /\ t \in Seq(anchors \X anchors)
    BY <1>2, <2>1
  <2>4. \A i \in 1..(k + 1) : i \in 1..k \/ i = k + 1
    OBVIOUS
  <2> HIDE DEF t
  <2>5. Len(t) = k + 1
    BY <2>3
  <2>6. Range(t) = {t[i] : i \in 1..(k + 1)} /\ Range(s) = {s[i] : i \in 1..k}
    BY <2>3 DEF Range
  <2>7. \A i \in 1..(k + 1) : t[i] \in {s[j] : j \in 1..k} \cup {e}
    BY ONLY <2>2, <2>3, <2>4
  <2>8. \A i \in 1..k : i \in 1..(k + 1)
    OBVIOUS
  <2>9. k + 1 \in 1..(k + 1)
    OBVIOUS
  <2>10. Range(t) = Range(s) \cup {e}
    BY ONLY <2>2, <2>3, <2>6, <2>7, <2>8, <2>9
  <2> QED BY ONLY <2>3, <2>5, <2>10
<1> HIDE DEF t
<1>12. TreeOf(t) = X \cup {v} /\ PairsOf(t) = P \cup {{u, v}}
  BY <1>11 DEF TreeOf, PairsOf, X, P
<1>13. v \notin X /\ {u, v} \notin P /\ P \subseteq SUBSET X
  BY <1>2, <1>9 DEF kSubset
<1>14. Cardinality(X \cup {v}) = k + 2
  <2>1. Cardinality(X \cup {v}) = Cardinality(X) + 1
    BY ONLY <1>4, <1>13, FS_AddElement
  <2> QED BY ONLY <1>2, <2>1, k \in Nat
<1>15. Cardinality(P \cup {{u, v}}) = k + 1
  <2>1. IsFiniteSet(SUBSET X)
    BY <1>4, FS_SUBSET
  <2>2. IsFiniteSet(P)
    BY <1>13, <2>1, FS_Subset
  <2>3. Cardinality(P \cup {{u, v}}) = Cardinality(P) + 1
    BY ONLY <1>13, <2>2, FS_AddElement
  <2> QED BY <1>2, <2>3
<1>16. P \cup {{u, v}} \subseteq kSubset(2, X \cup {v})
  <2>1. IsFiniteSet(X \cup {v})
    BY <1>4, FS_AddElement
  <2>2. {u, v} \in kSubset(2, X \cup {v})
    BY <1>9, <2>1, TwoSetIs
  <2>3. kSubset(2, X) \subseteq kSubset(2, X \cup {v})
    BY DEF kSubset
  <2> QED BY <1>2, <2>2, <2>3
<1>17. Joins(P \cup {{u, v}}, X \cup {v})
  <2> SUFFICES ASSUME NEW S \in SUBSET (X \cup {v}), S # {}, S # X \cup {v}
               PROVE \E x \in S, y \in (X \cup {v}) \ S : {x, y} \in P \cup {{u, v}}
    BY DEF Joins
  <2>1. CASE S \cap X # {} /\ S \cap X # X
    <3>1. PICK x \in S \cap X, y \in X \ (S \cap X) : {x, y} \in P
      BY <1>2, <2>1 DEF Joins
    <3> QED BY <3>1
  <2>2. CASE S \cap X = {}
    <3>1. v \in S /\ u \in (X \cup {v}) \ S /\ {v, u} = {u, v}
      BY <1>9, <2>2
    <3> QED BY <3>1
  <2>3. CASE S \cap X = X
    <3>1. u \in S /\ v \in (X \cup {v}) \ S
      BY <1>9, <2>3
    <3> QED BY <3>1
  <2> QED BY <2>1, <2>2, <2>3
<1>18. IsTree(t, k + 1)
  <2>1. X \cup {v} \in SUBSET anchors /\ k + 1 + 1 = k + 2
    BY <1>2, <1>9
  <2> QED BY <1>11, <1>12, <1>14, <1>15, <1>16, <1>17, <2>1 DEF IsTree
<1>19. Leads(u, v, X)
  BY ONLY <1>9, <1>10 DEF Leads
<1> QED BY <1>12, <1>18, <1>19 DEF X, P, t
\* What the algorithm plans, up to each step.
LEMMA PrimRuns ==
  ASSUME Ground, anchors # {}
  PROVE LET n == Cardinality(anchors)
            g == PrimRun(n)
        IN  /\ n \in Nat /\ n >= 1 /\ g[0] = << >>
            /\ \A k \in Nat : k < n => IsTree(g[k], k)
            /\ \A k \in Nat : k + 1 < n => g[k + 1] = Append(g[k], NextEdge(g[k]))
            /\ Prim = g[n - 1]
<1> DEFINE n == Cardinality(anchors)
           g == PrimRun(n)
<1>1. IsFiniteSet(anchors) /\ n \in Nat /\ n # 0
  BY GroundIs, FS_EmptySet
<1>2. IsPrimRun(g, n)
  BY <1>1, PrimRunIs
<1>3. Prim = IF n <= 1 THEN << >> ELSE g[n - 1]
  BY PrimIsRun
<1> HIDE DEF n, g
<1>4. g[0] = << >> /\ \A k \in Nat : k + 1 < n => g[k + 1] = Append(g[k], NextEdge(g[k]))
  <2>1. \A k \in Nat : k + 1 < n => k + 1 \in 1..n /\ (k + 1) - 1 = k
    BY <1>1
  <2> QED BY <1>2, <2>1 DEF IsPrimRun
<1>5. Prim = g[n - 1]
  BY <1>1, <1>3, <1>4
<1> DEFINE Good == {k \in Nat : k < n => IsTree(g[k], k)}
<1>6. 0 \in Good
  BY <1>4, TreeStarts
<1>7. ASSUME NEW k \in Nat, k \in Good PROVE k + 1 \in Good
  <2> SUFFICES ASSUME k + 1 < n PROVE IsTree(g[k + 1], k + 1)
    OBVIOUS
  <2>1. IsTree(g[k], k)
    <3>1. k < n
      BY <1>1
    <3> QED BY <1>7, <3>1
  <2>2. IsTree(Append(g[k], NextEdge(g[k])), k + 1)
    BY <2>1, TreeGrows DEF n
  <2> QED BY <1>4, <2>2
<1>8. Nat \subseteq Good
  <2> HIDE DEF Good
  <2> QED BY <1>6, <1>7, NatInductionOnSet
<1>9. \A k \in Nat : k < n => IsTree(g[k], k)
  BY <1>8
<1>10. n >= 1
  BY <1>1
<1> QED BY ONLY <1>1, <1>4, <1>5, <1>9, <1>10 DEF n, g

\* As many pairs as such a tree has that connect all anchors.
Connecting(T) ==
  T \in SUBSET AnchorPairs /\ Cardinality(T) = Cardinality(anchors) - 1 /\ Joins(T, anchors)

Spans(P, X) == X \in SUBSET anchors /\ P \subseteq kSubset(2, X) /\ Joins(P, X)

\* They may as well contain a shortest pair that leads out of a set some of them join.
LEMMA ShortestMayStay ==
  ASSUME Ground, NEW T, Connecting(T), NEW P, P \subseteq T, NEW X, Spans(P, X),
         NEW u, NEW v, Leads(u, v, X)
  PROVE \E U : Connecting(U) /\ P \cup {{u, v}} \subseteq U /\ Length(U) <= Length(T)
<1> DEFINE e == {u, v}
           Y == anchors \ X
           d == site.distance
<1>0. /\ X \in SUBSET anchors /\ P \subseteq kSubset(2, X) /\ Joins(P, X)
      /\ u \in X /\ v \in anchors \ X
      /\ \A x \in X, y \in anchors \ X : Direct({u, v}) <= Direct({x, y})
  BY DEF Spans, Leads
<1>1. /\ IsFiniteSet(anchors) /\ IsFiniteSet(AnchorPairs) /\ Cardinality(anchors) \in Nat
      /\ \A p \in AnchorPairs : Direct(p) \in Nat /\ Direct(p) = d[p]
      /\ \A a, b \in anchors : a # b => {a, b} \in AnchorPairs
  BY GroundIs
<1>2. T \in SUBSET AnchorPairs /\ IsFiniteSet(T) /\ Joins(T, anchors)
  BY <1>1, FS_Subset DEF Connecting
<1>3. CASE e \in T
  <2>1. P \cup {e} \subseteq T
    BY <1>3
  <2>2. Length(T) \in Int
    <3>1. \A p \in T : d[p] \in Int
      BY <1>1, <1>2
    <3> QED BY <1>2, <3>1, SumIsInt DEF Length
  <2> QED BY <2>1, <2>2
<1>4. CASE e \notin T
  \* What pairs connect to v without entering X; one of them leads from there to X.
  <2> DEFINE Shut(S) == \A a \in S, b \in Y : {a, b} \in T => b \in S
             R == {y \in Y : \A S \in SUBSET Y : v \in S /\ Shut(S) => y \in S}
  <2>1. v \in R /\ R \in SUBSET Y /\ Shut(R)
    BY <1>0
  <2>2. ASSUME NEW Q \in SUBSET R, v \in Q, Q # R PROVE \E a \in Q, b \in R \ Q : {a, b} \in T
    <3>1. ~Shut(Q)
      BY <2>2
    <3>2. PICK a \in Q, b \in Y \ Q : {a, b} \in T
      BY <3>1
    <3> HIDE DEF R
    <3> QED BY <2>1, <2>2, <3>2
  <2> HIDE DEF R
  <2>3. PICK r \in R, x \in X : {r, x} \in T
    <3>1. R \in SUBSET anchors /\ R # {} /\ R # anchors
      BY <1>0, <2>1
    <3>2. PICK r \in R, x \in anchors \ R : {r, x} \in T
      BY <1>2, <3>1 DEF Joins
    <3> QED BY <2>1, <3>2
  <2> HIDE DEF Shut
  <2> DEFINE f == {r, x}
             U == (T \ {f}) \cup {e}
  <2>4. r \in anchors /\ x \in anchors /\ r \notin X /\ x \notin R /\ f \in T
    BY <1>0, <2>1, <2>3
  <2>5. e \in AnchorPairs /\ f \in AnchorPairs /\ {x, r} = f /\ r \in Y
    BY <1>0, <1>1, <1>2, <2>4
  <2>6. Direct(e) <= Direct(f)
    <3>1. Direct(e) <= Direct({x, r})
      BY <1>0, <2>3, <2>5
    <3> QED BY <2>5, <3>1
  <2>7. f \notin P /\ P \cup {e} \subseteq U
    <3>1. \A p \in P : p \subseteq X
      BY <1>0 DEF kSubset
    <3>2. f \notin P
      BY <2>4, <3>1
    <3> HIDE DEF f, e
    <3> QED BY <3>2
  <2>8. U \in SUBSET AnchorPairs /\ Cardinality(U) = Cardinality(anchors) - 1
    <3> HIDE DEF f, e
    <3>1. Cardinality(T \ {f}) = Cardinality(T) - 1 /\ IsFiniteSet(T \ {f})
      BY ONLY <1>2, <2>4, FS_RemoveElement
    <3>2. Cardinality(U) = Cardinality(T \ {f}) + 1
      BY ONLY <1>4, <3>1, FS_AddElement
    <3>3. Cardinality(T) = Cardinality(anchors) - 1
      BY DEF Connecting
    <3> QED BY ONLY <1>1, <1>2, <2>5, <3>1, <3>2, <3>3
  <2>9. Length(U) <= Length(T)
    <3> HIDE DEF f, e
    <3>1. \A p \in T \cup {e} : d[p] \in Int
      BY <1>1, <1>2, <2>5
    <3>2. IsFiniteSet(U) /\ U \ {e} = T \ {f} /\ U \subseteq T \cup {e} /\ e \in U
          /\ IsFiniteSet(T \ {f})
      BY <1>1, <1>2, <1>4, <2>8, FS_Subset
    <3>3. SumFunctionOnSet(d, U) = SumFunctionOnSet(d, U \ {e}) + d[e]
      <4>1. \A p \in U : d[p] \in Int
        BY <3>1, <3>2
      <4> QED BY ONLY <3>2, <4>1, SumOfMore
    <3>4. SumFunctionOnSet(d, T) = SumFunctionOnSet(d, T \ {f}) + d[f]
      <4>1. \A p \in T : d[p] \in Int
        BY <3>1
      <4> QED BY ONLY <1>2, <2>4, <4>1, SumOfMore
    <3>5. SumFunctionOnSet(d, T \ {f}) \in Int
      <4>1. \A p \in T \ {f} : d[p] \in Int
        BY <3>1
      <4> QED BY ONLY <3>2, <4>1, SumIsInt
    <3>6. d[e] \in Int /\ d[f] \in Int /\ d[e] <= d[f]
      BY <1>1, <2>5, <2>6
    <3>7. SumFunctionOnSet(d, U) = SumFunctionOnSet(d, T \ {f}) + d[e]
      BY ONLY <3>2, <3>3
    <3>8. SumFunctionOnSet(d, U) <= SumFunctionOnSet(d, T)
      BY ONLY <3>4, <3>5, <3>6, <3>7
    <3> QED BY <3>8 DEF Length
  <2>10. ASSUME NEW S \in SUBSET anchors, S # {}, S # anchors,
                ~ \E a \in S, b \in anchors \ S : {a, b} \in U
         PROVE FALSE
    <3>1. \A a \in S, b \in anchors \ S : {a, b} \notin U
      BY <2>10
    <3>2. (u \in S) <=> (v \in S)
      <4>1. {u, v} \in U /\ {v, u} \in U
        <5>1. {v, u} = {u, v}
          OBVIOUS
        <5> QED BY <5>1
      <4> QED BY <1>0, <3>1, <4>1
    <3>3. (u \in S) <=> (x \in S)
      <4> SUFFICES ASSUME S \cap X # {}, S \cap X # X PROVE FALSE
        BY <1>0, <2>3
      <4>1. PICK a \in S \cap X, b \in X \ (S \cap X) : {a, b} \in P
        BY <1>0 DEF Joins
      <4>2. {a, b} \in U /\ a \in S /\ b \in anchors \ S
        <5> HIDE DEF U
        <5> QED BY <1>0, <2>7, <4>1
      <4> QED BY ONLY <3>1, <4>2
    <3>4. (v \in S) <=> (r \in S)
      <4> SUFFICES ASSUME ~((v \in S) <=> (r \in S)) PROVE FALSE
        OBVIOUS
      <4> DEFINE Q == {z \in R : (z \in S) <=> (v \in S)}
      <4>1. v \in Q /\ Q \in SUBSET R /\ Q # R
        BY <2>1, <2>3
      <4>2. PICK a \in Q, b \in R \ Q : {a, b} \in T
        <5> HIDE DEF Q
        <5> QED BY <2>2, <4>1
      <4>3. /\ a \in R /\ b \in R /\ ((a \in S) <=> (v \in S)) /\ ~((b \in S) <=> (v \in S))
            /\ a \in anchors /\ b \in anchors
        BY <2>1, <4>2
      <4>4. {a, b} \in U /\ {b, a} \in U
        <5>1. {a, b} # f /\ {b, a} = {a, b}
          BY <2>4, <4>3
        <5> HIDE DEF f, e
        <5> QED BY <4>2, <5>1
      <4> HIDE DEF U
      <4> QED BY ONLY <3>1, <4>3, <4>4
    <3>5. PICK a \in S, b \in anchors \ S : {a, b} \in T
      BY <1>2, <2>10 DEF Joins
    <3>6. {a, b} = f
      <4>1. {a, b} \notin U
        BY <3>1
      <4> HIDE DEF f, e
      <4> QED BY <3>5, <4>1
    <3>7. (a = r /\ b = x) \/ (a = x /\ b = r)
      BY <2>4, <3>6
    <3> HIDE DEF U, R
    <3> QED BY ONLY <3>2, <3>3, <3>4, <3>5, <3>7
  <2>11. Joins(U, anchors)
    <3> HIDE DEF U
    <3> QED BY <2>10 DEF Joins
  <2>12. Connecting(U)
    BY ONLY <2>8, <2>11 DEF Connecting
  <2> HIDE DEF U
  <2> QED BY <2>7, <2>9, <2>12
<1> QED BY <1>3, <1>4
LEMMA LengthIsNat == ASSUME Ground, NEW T \in SUBSET AnchorPairs PROVE Length(T) \in Nat
<1>1. IsFiniteSet(T)
  BY GroundIs, FS_Subset
<1>2. \A p \in T : site.distance[p] \in Nat
  BY GroundIs
<1> QED BY <1>1, <1>2, SumIsNat DEF Length

\* The planned pairs connect all anchors, and no others do with less length.
LEMMA PrimIsMinimal ==
  ASSUME Ground, spanning = Prim
  PROVE /\ Planned \subseteq AnchorPairs
        /\ \A a \in anchors : Component(Planned, a) = anchors
        /\ \A tree \in kSubset(Len(spanning), AnchorPairs) :
             (\A a \in anchors : Component(tree, a) = anchors) => Length(Planned) <= Length(tree)
<1>1. CASE anchors = {}
  <2>1. Cardinality(anchors) = 0
    BY <1>1, FS_EmptySet
  <2>2. Prim = << >>
    BY <2>1, PrimIsRun
  <2>3. Planned = {}
    BY <2>2 DEF Planned, Range
  <2>4. ASSUME NEW tree \in kSubset(Len(spanning), AnchorPairs) PROVE Length(Planned) <= Length(tree)
    <3>1. tree \in SUBSET AnchorPairs
      BY DEF kSubset
    <3>2. Length(Planned) = 0
      BY <2>3, SumOfNone DEF Length
    <3>3. Length(tree) \in Nat
      BY <3>1, LengthIsNat
    <3> QED BY <3>2, <3>3
  <2> QED BY <1>1, <2>3, <2>4
<1>2. CASE anchors # {}
  <2> DEFINE n == Cardinality(anchors)
             g == PrimRun(n)
  <2>1. /\ n \in Nat /\ n >= 1 /\ g[0] = << >>
        /\ \A k \in Nat : k < n => IsTree(g[k], k)
        /\ \A k \in Nat : k + 1 < n => g[k + 1] = Append(g[k], NextEdge(g[k]))
        /\ Prim = g[n - 1]
    BY <1>2, PrimRuns
  <2>2. IsFiniteSet(anchors) /\ Cardinality(anchors) = n
    BY GroundIs
  <2> HIDE DEF n, g
  <2>3. IsTree(spanning, n - 1) /\ n - 1 \in Nat /\ n - 1 < n
    BY <2>1
  <2>4. Planned = PairsOf(spanning)
    BY DEF Planned, PairsOf
  <2>5. /\ Len(spanning) = n - 1 /\ Cardinality(Planned) = n - 1 /\ TreeOf(spanning) \in SUBSET anchors
        /\ Cardinality(TreeOf(spanning)) = (n - 1) + 1 /\ Joins(Planned, TreeOf(spanning))
        /\ Planned \subseteq kSubset(2, TreeOf(spanning))
    BY <2>3, <2>4 DEF IsTree
  <2>6. TreeOf(spanning) = anchors
    <3>1. (n - 1) + 1 = n
      BY <2>1
    <3> QED BY <2>2, <2>5, <3>1, FS_Subset
  <2>7. Joins(Planned, anchors) /\ Planned \in SUBSET AnchorPairs
    BY <2>5, <2>6 DEF AnchorPairs
  <2>8. \A a \in anchors : Component(Planned, a) = anchors
    BY <2>2, <2>7, JoiningConnects
  <2>9. ASSUME NEW T, Connecting(T) PROVE Length(Planned) <= Length(T)
    <3> DEFINE Reaches(k, U) ==
                 Connecting(U) /\ PairsOf(g[k]) \subseteq U /\ Length(U) <= Length(T)
               Good == {k \in Nat : k < n => \E U : Reaches(k, U)}
    <3>0. \A U : Connecting(U) => U \in SUBSET AnchorPairs /\ Length(U) \in Nat
      BY LengthIsNat DEF Connecting
    <3>1. 0 \in Good
      <4>1. PairsOf(g[0]) = {}
        BY <1>2, <2>1, TreeStarts
      <4>2. Length(T) <= Length(T)
        BY <2>9, <3>0
      <4> QED BY <2>9, <4>1, <4>2
    <3>2. ASSUME NEW k \in Nat, k \in Good, k + 1 < n PROVE \E U : Reaches(k + 1, U)
      <4>1. k < n /\ IsTree(g[k], k) /\ g[k + 1] = Append(g[k], NextEdge(g[k]))
        BY <2>1, <3>2
      <4>2. PICK U : Reaches(k, U)
        BY <3>2, <4>1
      <4> DEFINE e == NextEdge(g[k])
                 X == TreeOf(g[k])
                 P == PairsOf(g[k])
                 u == e[1]
                 v == e[2]
      <4>3. Leads(u, v, X) /\ PairsOf(g[k + 1]) = P \cup {{u, v}}
        <5>1. k + 1 < Cardinality(anchors) /\ g[k + 1] = Append(g[k], e)
          BY <3>2, <4>1 DEF n
        <5>2. e = NextEdge(g[k])
          OBVIOUS
        <5> HIDE DEF e
        <5>3. Leads(e[1], e[2], TreeOf(g[k])) /\ PairsOf(Append(g[k], e)) = PairsOf(g[k]) \cup {{e[1], e[2]}}
          BY ONLY Ground, k \in Nat, <4>1, <5>1, <5>2, TreeGrows
        <5> QED BY <5>1, <5>3
      <4>4. Spans(P, X)
        BY <4>1 DEF IsTree, Spans
      <4>5. P \subseteq U /\ Connecting(U) /\ Length(U) <= Length(T)
        BY <4>2
      <4> HIDE DEF e, X, P, u, v
      <4>6. PICK V : Connecting(V) /\ P \cup {{u, v}} \subseteq V /\ Length(V) <= Length(U)
        BY ONLY Ground, <4>3, <4>4, <4>5, ShortestMayStay, ZenonT(30)
      <4>7. Length(V) <= Length(T)
        BY <2>9, <3>0, <4>5, <4>6
      <4> QED BY <4>3, <4>6, <4>7
    <3>3. \A k \in Nat : k \in Good => k + 1 \in Good
      BY <3>2
    <3>4. Nat \subseteq Good
      <4> HIDE DEF Good
      <4> QED BY <3>1, <3>3, NatInductionOnSet
    <3>5. PICK U : Reaches(n - 1, U)
      BY <2>3, <3>4
    <3>6. Planned \in SUBSET U /\ Cardinality(U) = n - 1 /\ IsFiniteSet(U)
      BY <2>1, <2>2, <2>4, <3>0, <3>5, GroundIs, FS_Subset DEF Connecting
    <3>7. U = Planned
      BY <2>5, <3>6, FS_Subset
    <3> QED BY <3>5, <3>7
  <2>10. ASSUME NEW tree \in kSubset(Len(spanning), AnchorPairs),
                \A a \in anchors : Component(tree, a) = anchors
         PROVE Length(Planned) <= Length(tree)
    <3>1. Joins(tree, anchors)
      BY <2>2, <2>10, JoiningConnects
    <3>2. tree \in SUBSET AnchorPairs /\ Cardinality(tree) = n - 1
      BY <2>5 DEF kSubset
    <3>3. Connecting(tree)
      BY <2>2, <3>1, <3>2 DEF Connecting
    <3> QED BY <2>9, <3>3
  <2> QED BY <2>7, <2>8, <2>10
<1> QED BY <1>1, <1>2
-----------------------------------------------------------------------------
(* Roads: growth within a budget. *)

Intents == {"LOCAL", "COLLECTOR"}
Ends == {"ADDED", "LENGTH_BUDGET_REJECTED", "NO_PATH", "SEARCH_LIMIT_REACHED"}
Answers == {"CONNECTED", "NO_PATH", "SEARCH_LIMIT_REACHED"}
Attempts == [pair : AnchorPairs, intent : Intents, status : Ends, route : Answers, added : Nat]
Spent(s) == SumFunction([i \in DOMAIN s |-> s[i].added])

\* Attempts are of different pairs the baseline does not have, and within the budget.
TriedInv ==
  /\ tried \in Seq(Attempts) /\ Spent(tried) <= site.budget
  /\ \A i \in 1..Len(tried) :
       /\ tried[i].pair \notin Planned
       /\ tried[i].route = IF tried[i].status \in {"ADDED", "LENGTH_BUDGET_REJECTED"}
                           THEN "CONNECTED" ELSE tried[i].status
  /\ \A i, j \in 1..Len(tried) : tried[i].pair = tried[j].pair => i = j

LEMMA IntentIs == ASSUME NEW p PROVE Intent(p) \in Intents
BY DEF Intent, Intents

\* A pair of anchors, by its ends.
LEMMA EndsOf ==
  ASSUME Ground, NEW p \in AnchorPairs
  PROVE Min(p) \in Int /\ Max(p) \in Int /\ Min(p) < Max(p) /\ p = {Min(p), Max(p)}
<1>1. PICK a \in anchors, b \in anchors : a # b /\ p = {a, b}
  BY GroundIs, TwoSetIs DEF AnchorPairs
<1>2. a \in Int /\ b \in Int
  BY GroundIs
<1>3. Min(p) = (IF a <= b THEN a ELSE b) /\ Max(p) = (IF a <= b THEN b ELSE a)
  BY ONLY <1>1, <1>2, TwoOf
<1>4. CASE a <= b
  BY <1>1, <1>2, <1>3, <1>4
<1>5. CASE ~(a <= b)
  BY <1>1, <1>2, <1>3, <1>5
<1> QED BY <1>4, <1>5

\* Behind the heads there is nothing shorter.
LEMMA HeadsAre ==
  ASSUME Ground, NEW p \in AnchorPairs \ (Planned \cup Tried)
  PROVE \E q \in Heads(Intent(p)) : Direct(q) <= Direct(p)
<1> DEFINE leading == {q \in AnchorPairs \ (Planned \cup Tried) : Intent(q) = Intent(p)}
           key == [q \in leading |-> GrowthKey(q)]
<1>1. IsFiniteSet(leading) /\ leading # {} /\ p \in leading /\ leading \subseteq AnchorPairs
  BY GroundIs, FS_Subset
<1>2. Heads(Intent(p)) = {q \in leading : \A r \in leading \ {q} : Lower(GrowthKey(q), GrowthKey(r))}
  BY DEF Heads, AnchorPairs
<1> HIDE DEF leading
<1>3. \A q \in leading : /\ key[q] = <<Direct(q), Min(q), Max(q)>>
                      /\ key[q] \in Int \X Int \X Int /\ Direct(q) \in Nat
                      /\ q = {Min(q), Max(q)}
  <2> TAKE q \in leading
  <2>1. key[q] = <<Direct(q), Min(q), Max(q)>>
    BY DEF GrowthKey
  <2>2. Min(q) \in Int /\ Max(q) \in Int /\ q = {Min(q), Max(q)} /\ Direct(q) \in Nat
    BY <1>1, EndsOf, GroundIs
  <2> HIDE DEF key
  <2>3. Direct(q) \in Int
    BY <2>2
  <2>4. key[q] \in Int \X Int \X Int
    BY ONLY <2>1, <2>2, <2>3
  <2> QED BY <2>1, <2>2, <2>4
<1>4. \A q \in leading : GrowthKey(q) = key[q]
  OBVIOUS
<1> HIDE DEF key
<1>5. ASSUME NEW q \in leading, NEW r \in leading, key[q] = key[r] PROVE q = r
  <2>1. <<Direct(q), Min(q), Max(q)>> = <<Direct(r), Min(r), Max(r)>>
    BY <1>3, <1>5
  <2>2. Min(q) = Min(r) /\ Max(q) = Max(r)
    BY ONLY <2>1
  <2> QED BY <1>3, <2>2
<1>6. PICK m \in leading : \A q \in leading \ {m} : Lower(key[m], key[q])
  BY <1>1, <1>3, <1>5, LowestOf
<1>7. m \in Heads(Intent(p))
  BY <1>2, <1>4, <1>6
<1>8. Direct(m) <= Direct(p)
  <2>1. CASE m = p
    BY <1>3, <2>1
  <2>2. CASE m # p
    <3>1. Lower(<<Direct(m), Min(m), Max(m)>>, <<Direct(p), Min(p), Max(p)>>)
      BY <1>1, <1>3, <1>6, <2>2
    <3>2. Direct(m) < Direct(p) \/ Direct(m) = Direct(p)
      BY ONLY <3>1, LowerIs
    <3>3. Direct(m) \in Nat /\ Direct(p) \in Nat
      BY <1>1, <1>3
    <3> QED BY ONLY <3>2, <3>3
  <2> QED BY <2>1, <2>2
<1> QED BY <1>7, <1>8

\* One more attempt spends what it adds.
LEMMA SpentGrows ==
  ASSUME NEW s, s \in Seq(Attempts), NEW t \in Attempts
  PROVE Spent(s) \in Nat /\ Spent(Append(s, t)) = Spent(s) + t.added
<1> DEFINE n == Len(s)
           u == Append(s, t)
           f == [i \in DOMAIN s |-> s[i].added]
           g == [i \in DOMAIN u |-> u[i].added]
<1>1. n \in Nat /\ DOMAIN s = 1..n /\ \A i \in 1..n : s[i] \in Attempts
  OBVIOUS
<1>2. DOMAIN u = 1..(n + 1) /\ u[n + 1] = t /\ \A i \in 1..n : u[i] = s[i]
  BY <1>1
<1> HIDE DEF u
<1>3. \A i \in 1..n : f[i] \in Nat /\ f[i] = g[i]
  <2> TAKE i \in 1..n
  <2>1. i \in 1..(n + 1) /\ s[i].added \in Nat
    BY <1>1 DEF Attempts
  <2> QED BY <1>1, <1>2, <2>1
<1>4. g[n + 1] = t.added /\ t.added \in Nat
  <2>1. n + 1 \in 1..(n + 1)
    BY <1>1
  <2> QED BY <1>2, <2>1 DEF Attempts
<1>5. Spent(s) = SumFunctionOnSet(f, 1..n) /\ Spent(u) = SumFunctionOnSet(g, 1..(n + 1))
  BY <1>1, <1>2, SumIsSum DEF Spent
<1> HIDE DEF f, g, n
<1>6. /\ IsFiniteSet(1..n) /\ IsFiniteSet(1..(n + 1)) /\ n + 1 \in 1..(n + 1)
      /\ (1..(n + 1)) \ {n + 1} = 1..n
  BY <1>1, UpToFinite
<1>7. \A i \in 1..(n + 1) : g[i] \in Int
  <2>1. \A i \in 1..(n + 1) : i \in 1..n \/ i = n + 1
    BY <1>1
  <2> QED BY <1>3, <1>4, <2>1
<1>8. SumFunctionOnSet(g, 1..(n + 1)) = SumFunctionOnSet(g, 1..n) + g[n + 1]
  <2>1. SumFunctionOnSet(g, 1..(n + 1)) = SumFunctionOnSet(g, (1..(n + 1)) \ {n + 1}) + g[n + 1]
    BY ONLY <1>6, <1>7, SumOfMore
  <2> QED BY ONLY <1>6, <2>1
<1>9. SumFunctionOnSet(g, 1..n) = SumFunctionOnSet(f, 1..n) /\ SumFunctionOnSet(f, 1..n) \in Nat
  <2>1. \A i \in 1..n : f[i] \in Int /\ f[i] = g[i]
    BY <1>3
  <2>2. SumFunctionOnSet(f, 1..n) = SumFunctionOnSet(g, 1..n)
    BY ONLY <1>6, <2>1, SumSame
  <2>3. SumFunctionOnSet(f, 1..n) \in Nat
    BY ONLY <1>3, <1>6, SumIsNat
  <2> QED BY <2>2, <2>3
<1> QED BY <1>4, <1>5, <1>8, <1>9 DEF u

LEMMA BudgetLeft == Left = site.budget - Spent(tried)
BY DEF Left, Spent

LEMMA TriedIs ==
  ASSUME tried \in Seq(Attempts)
  PROVE Tried = {tried[i].pair : i \in 1..Len(tried)} /\ Tried \subseteq AnchorPairs
<1>1. DOMAIN tried = 1..Len(tried) /\ \A i \in 1..Len(tried) : tried[i] \in Attempts
  OBVIOUS
<1>2. Tried = {tried[i].pair : i \in 1..Len(tried)}
  BY <1>1 DEF Tried, Range
<1> QED BY <1>1, <1>2 DEF Attempts

LEMMA TriedStarts == ASSUME Ground, tried = << >> PROVE TriedInv
<1>1. Spent(tried) = 0
  <2>1. DOMAIN tried = {}
    OBVIOUS
  <2> DEFINE f == [i \in DOMAIN tried |-> tried[i].added]
  <2>2. DOMAIN f = {}
    BY <2>1
  <2> HIDE DEF f
  <2>3. SumFunction(f) = 0
    BY <2>2, SumIsSum, SumOfNone
  <2> QED BY <2>3 DEF Spent, f
<1>2. site.budget \in Nat
  BY GroundIs
<1> QED BY <1>1, <1>2 DEF TriedInv

LEMMA AttemptKeeps ==
  ASSUME Ground, TriedInv, Attempt
  PROVE TriedInv'
<1> DEFINE n == Len(tried)
<1>1. /\ tried \in Seq(Attempts) /\ Spent(tried) <= site.budget /\ Spent(tried) \in Nat
      /\ site.budget \in Nat
  <2>1. site.budget \in Nat
    BY GroundIs
  <2>2. tried \in Seq(Attempts) /\ Spent(tried) <= site.budget
    BY DEF TriedInv
  <2>3. Spent(tried) \in Nat
    <3> DEFINE f == [i \in DOMAIN tried |-> tried[i].added]
    <3>0. DOMAIN f = 1..Len(tried) /\ Len(tried) \in Nat
          /\ \A i \in 1..Len(tried) : tried[i] \in Attempts
      BY <2>2
    <3>1. IsFiniteSet(DOMAIN f) /\ \A i \in DOMAIN f : f[i] \in Nat
      BY <3>0, UpToFinite DEF Attempts
    <3> HIDE DEF f
    <3>2. SumFunction(f) \in Nat
      BY <3>1, SumIsSum, SumIsNat
    <3> QED BY <3>2 DEF Spent, f
  <2> QED BY <2>1, <2>2, <2>3
<1>2. UNCHANGED <<road, site, anchors, spanning>>
  BY DEF Attempt
<1> DEFINE Try(intent, p, r) ==
             [pair |-> p, intent |-> intent, status |-> AttemptStatus(r), route |-> r.status,
              added |-> IF AttemptStatus(r) = "ADDED" THEN r.length ELSE 0]
<1>a. PICK intent \in Intents :
        \E p \in Fitting(intent) : \E r \in Routes(Min(p), Max(p), Direct(p)) :
          tried' = Append(tried, Try(intent, p, r))
  BY DEF Attempt, Intents
<1>b. PICK p \in Fitting(intent) : \E r \in Routes(Min(p), Max(p), Direct(p)) :
        tried' = Append(tried, Try(intent, p, r))
  BY <1>a
<1>3. PICK r \in Routes(Min(p), Max(p), Direct(p)) : tried' = Append(tried, Try(intent, p, r))
  BY <1>b
<1> DEFINE t == Try(intent, p, r)
<1>4. p \in AnchorPairs /\ p \notin Planned /\ p \notin Tried
  BY DEF Fitting, Heads, AnchorPairs
<1>5. r.length \in Nat /\ r.status \in {"CONNECTED", "NO_PATH", "SEARCH_LIMIT_REACHED"}
  <2>1. Direct(p) \in Nat /\ site.detours \subseteq Nat
    BY <1>4, GroundIs
  <2>2. \/ r = [status |-> "SEARCH_LIMIT_REACHED", length |-> 0]
        \/ \E x \in site.detours : r = [status |-> "CONNECTED", length |-> Direct(p) + x]
        \/ r = [status |-> "NO_PATH", length |-> 0]
    BY DEF Routes
  <2> QED BY <2>1, <2>2
<1>6. /\ AttemptStatus(r) \in Ends
      /\ r.status = IF AttemptStatus(r) \in {"ADDED", "LENGTH_BUDGET_REJECTED"}
                    THEN "CONNECTED" ELSE AttemptStatus(r)
      /\ AttemptStatus(r) = "ADDED" => r.length <= Left
  BY <1>5 DEF AttemptStatus, Ends
<1>7. t \in Attempts /\ t.pair = p /\ t.status = AttemptStatus(r) /\ t.route = r.status
      /\ t.added = IF AttemptStatus(r) = "ADDED" THEN r.length ELSE 0
  <2> DEFINE x == IF AttemptStatus(r) = "ADDED" THEN r.length ELSE 0
  <2>1. x \in Nat
    BY <1>5
  <2>2. r.status \in Answers /\ intent \in Intents
    <3>1. intent \in Intents
      OBVIOUS
    <3>2. r.status \in Answers
      BY ONLY <1>5 DEF Answers
    <3> QED BY <3>1, <3>2
  <2> HIDE DEF x
  <2>3. t = [pair |-> p, intent |-> intent, status |-> AttemptStatus(r), route |-> r.status,
             added |-> x]
    BY DEF x
  <2> HIDE DEF t
  <2>4. t \in Attempts
    BY ONLY <2>1, <2>2, <2>3, <1>4, <1>6 DEF Attempts
  <2>5. t.pair = p /\ t.status = AttemptStatus(r) /\ t.route = r.status /\ t.added = x
    BY ONLY <2>3
  <2> QED BY <2>4, <2>5 DEF x
<1>8. tried' = Append(tried, t)
  BY <1>3
<1> HIDE DEF t
<1>9. /\ tried' \in Seq(Attempts) /\ Len(tried') = n + 1 /\ n \in Nat
      /\ tried'[n + 1] = t /\ \A i \in 1..n : tried'[i] = tried[i]
  BY <1>1, <1>7, <1>8
<1>10. Spent(tried') <= site.budget
  <2>1. Spent(tried') = Spent(tried) + t.added
    BY <1>1, <1>7, <1>8, SpentGrows
  <2>2. t.added \in Nat /\ (t.added = 0 \/ t.added <= site.budget - Spent(tried))
    BY <1>5, <1>6, <1>7, BudgetLeft
  <2> QED BY ONLY <1>1, <2>1, <2>2
<1>11. \A i \in 1..n : tried[i].pair # p
  BY <1>1, <1>4, TriedIs
<1>12. \A i \in 1..(n + 1) : i \in 1..n \/ i = n + 1
  BY <1>9
<1>13. \A i \in 1..n : /\ tried[i].pair \notin Planned
                       /\ tried[i].route = IF tried[i].status \in {"ADDED", "LENGTH_BUDGET_REJECTED"}
                                           THEN "CONNECTED" ELSE tried[i].status
  BY DEF TriedInv
<1>14. \A i \in 1..(n + 1) :
         /\ tried'[i].pair \notin Planned
         /\ tried'[i].route = IF tried'[i].status \in {"ADDED", "LENGTH_BUDGET_REJECTED"}
                              THEN "CONNECTED" ELSE tried'[i].status
  BY ONLY <1>4, <1>6, <1>7, <1>9, <1>12, <1>13
<1>15. \A i, j \in 1..(n + 1) : tried'[i].pair = tried'[j].pair => i = j
  <2>1. \A i, j \in 1..n : tried[i].pair = tried[j].pair => i = j
    BY DEF TriedInv
  <2> QED BY ONLY <1>7, <1>9, <1>11, <1>12, <2>1
<1>16. Planned' = Planned /\ Attempts' = Attempts /\ Spent(tried)' = Spent(tried')
  BY <1>2 DEF Planned, Attempts, AnchorPairs, Spent
<1>17. site' = site
  BY <1>2
<1> QED BY ONLY <1>9, <1>10, <1>14, <1>15, <1>16, <1>17 DEF TriedInv
-----------------------------------------------------------------------------
(* Roads: what the diagnostics of the growth count. *)

LEMMA DisjointCount ==
  ASSUME NEW S, NEW T, IsFiniteSet(S), IsFiniteSet(T), S \cap T = {}
  PROVE /\ IsFiniteSet(S \cup T) /\ Cardinality(S) \in Nat /\ Cardinality(T) \in Nat
        /\ Cardinality(S \cup T) = Cardinality(S) + Cardinality(T)
<1>1. Cardinality(S \cap T) = 0
  BY FS_EmptySet
<1>2. Cardinality(S) \in Nat /\ Cardinality(T) \in Nat
  BY FS_CardinalityType
<1>3. /\ IsFiniteSet(S \cup T)
      /\ Cardinality(S \cup T) = Cardinality(S) + Cardinality(T) - Cardinality(S \cap T)
  BY FS_Union, Zenon
<1> QED BY ONLY <1>1, <1>2, <1>3

\* As many attempts as pairs tried.
LEMMA TriedCount ==
  ASSUME Ground, TriedInv
  PROVE /\ Cardinality(Tried) = Len(tried) /\ Len(tried) \in Nat
        /\ Tried \subseteq AnchorPairs \ Planned
<1> DEFINE n == Len(tried)
           f == [i \in 1..n |-> tried[i].pair]
<1>1. tried \in Seq(Attempts) /\ n \in Nat
  BY DEF TriedInv
<1>2. Tried = {tried[i].pair : i \in 1..n} /\ Tried \subseteq AnchorPairs
  BY <1>1, TriedIs
<1>3. f \in Bijection(1..n, Tried)
  <2>1. f \in [1..n -> Tried] /\ \A y \in Tried : \E i \in 1..n : f[i] = y
    BY <1>2
  <2>2. \A i, j \in 1..n : f[i] = f[j] => i = j
    BY DEF TriedInv
  <2> HIDE DEF f
  <2> QED BY <2>1, <2>2 DEF Bijection, Injection, Surjection, IsInjective
<1> HIDE DEF f, n
<1>4. IsFiniteSet(1..n) /\ Cardinality(1..n) = n
  BY <1>1, FS_Interval, UpToFinite
<1>5. Cardinality(Tried) = n
  BY ONLY <1>3, <1>4, FS_Bijection DEF ExistsBijection
<1>6. Tried \cap Planned = {}
  BY <1>2 DEF TriedInv, n
<1> QED BY <1>1, <1>2, <1>5, <1>6, Zenon DEF n

LEMMA CountsAreAccepted ==
  ASSUME Ground, TriedInv, Planned \subseteq AnchorPairs
  PROVE CountsAccepted(GrowthCounts) /\ GrowthCounts.attempted = Len(tried)
<1> DEFINE n == Len(tried)
           E(status) == {i \in DOMAIN tried : tried[i].status = status}
           A(intent) == {i \in DOMAIN tried : /\ tried[i].status = "ADDED"
                                              /\ tried[i].intent = intent}
<1>1. n \in Nat /\ DOMAIN tried = 1..n /\ \A i \in 1..n : tried[i] \in Attempts
  BY DEF TriedInv
<1>2. IsFiniteSet(DOMAIN tried) /\ Cardinality(DOMAIN tried) = n
  <2>1. n \in Nat /\ DOMAIN tried = 1..n
    BY <1>1
  <2> HIDE DEF n
  <2>2. IsFiniteSet(1..n) /\ Cardinality(1..n) = n
    BY ONLY <2>1, FS_Interval, UpToFinite
  <2> QED BY ONLY <2>1, <2>2
<1>3. \A i \in DOMAIN tried : tried[i].status \in Ends /\ tried[i].intent \in Intents
  BY <1>1 DEF Attempts
<1> DEFINE a == E("ADDED")
           b == E("NO_PATH")
           c == E("SEARCH_LIMIT_REACHED")
           d == E("LENGTH_BUDGET_REJECTED")
           l == A("LOCAL")
           m == A("COLLECTOR")
<1>4. /\ a \cup b \cup c \cup d = DOMAIN tried
      /\ a \cap b = {} /\ (a \cup b) \cap c = {} /\ (a \cup b \cup c) \cap d = {}
      /\ l \cup m = a /\ l \cap m = {}
  BY <1>3 DEF Ends, Intents
<1>5. /\ IsFiniteSet(a) /\ IsFiniteSet(b) /\ IsFiniteSet(c) /\ IsFiniteSet(d)
      /\ IsFiniteSet(l) /\ IsFiniteSet(m)
  BY <1>2, FS_Subset
<1>6. /\ GrowthCounts.baseline = Cardinality(Planned)
      /\ GrowthCounts.evaluated = Cardinality(AnchorPairs)
      /\ GrowthCounts.eligible = Cardinality(AnchorPairs \ Planned)
      /\ GrowthCounts.attempted = n /\ GrowthCounts.added = Cardinality(a)
      /\ GrowthCounts.noPath = Cardinality(b) /\ GrowthCounts.limited = Cardinality(c)
      /\ GrowthCounts.rejected = Cardinality(d) /\ GrowthCounts.local = Cardinality(l)
      /\ GrowthCounts.collector = Cardinality(m)
  BY DEF GrowthCounts, AnchorPairs
<1> HIDE DEF a, b, c, d, l, m
<1>7. Cardinality(a) + Cardinality(b) + Cardinality(c) + Cardinality(d) = n
  <2>1. /\ IsFiniteSet(a \cup b) /\ Cardinality(a \cup b) = Cardinality(a) + Cardinality(b)
        /\ Cardinality(a) \in Nat /\ Cardinality(b) \in Nat
    BY <1>4, <1>5, DisjointCount
  <2>2. /\ IsFiniteSet(a \cup b \cup c) /\ Cardinality(c) \in Nat
        /\ Cardinality(a \cup b \cup c) = Cardinality(a \cup b) + Cardinality(c)
    BY <1>4, <1>5, <2>1, DisjointCount
  <2>3. /\ Cardinality(a \cup b \cup c \cup d) = Cardinality(a \cup b \cup c) + Cardinality(d)
        /\ Cardinality(d) \in Nat
    BY <1>4, <1>5, <2>2, DisjointCount
  <2> QED BY ONLY <1>2, <1>4, <2>1, <2>2, <2>3
<1>8. Cardinality(l) + Cardinality(m) = Cardinality(a)
  BY <1>4, <1>5, DisjointCount
<1>9. Cardinality(Planned) <= Cardinality(AnchorPairs)
  BY GroundIs, FS_Subset
<1>10. Cardinality(AnchorPairs \ Planned) <= Cardinality(AnchorPairs)
  BY GroundIs, FS_Subset
<1>11. n <= Cardinality(AnchorPairs \ Planned)
  <2>1. IsFiniteSet(AnchorPairs \ Planned)
    BY GroundIs, FS_Subset
  <2>2. Cardinality(Tried) <= Cardinality(AnchorPairs \ Planned) /\ Cardinality(Tried) = n
    BY <2>1, TriedCount, FS_Subset
  <2> QED BY <2>2
<1> QED BY ONLY <1>6, <1>7, <1>8, <1>9, <1>10, <1>11 DEF CountsAccepted

LEMMA AttemptsAreAccepted ==
  ASSUME Ground, TriedInv
  PROVE \A t \in Range(tried) : AttemptAccepted(t) /\ t.pair \subseteq anchors
<1> TAKE t \in Range(tried)
<1>1. PICK i \in 1..Len(tried) : t = tried[i] /\ t \in Attempts
  BY DEF Range, TriedInv
<1>2. t.pair \in AnchorPairs
  BY <1>1 DEF Attempts
<1>3. Min(t.pair) < Max(t.pair) /\ Direct(t.pair) > 0
  BY <1>2, EndsOf, GroundIs
<1>4. t.pair \subseteq anchors
  BY <1>2, GroundIs, TwoSetIs DEF AnchorPairs
<1>5. t.route = IF t.status \in {"ADDED", "LENGTH_BUDGET_REJECTED"} THEN "CONNECTED" ELSE t.status
  BY <1>1 DEF TriedInv
<1> QED BY <1>3, <1>4, <1>5 DEF AttemptAccepted

\* What is left open when the budget is what stops the growth.
StopInv ==
  halt = "LENGTH_BUDGET" => \A p \in AnchorPairs \ (Planned \cup Tried) : Direct(p) > Left

LEMMA LeftIsInt ==
  ASSUME Ground, TriedInv PROVE Left \in Int /\ Left >= 0
<1>1. tried \in Seq(Attempts) /\ Spent(tried) <= site.budget /\ site.budget \in Nat
  BY GroundIs DEF TriedInv
<1> DEFINE f == [i \in DOMAIN tried |-> tried[i].added]
<1>2. DOMAIN f = 1..Len(tried) /\ Len(tried) \in Nat /\ \A i \in 1..Len(tried) : tried[i] \in Attempts
  BY <1>1
<1>3. IsFiniteSet(DOMAIN f) /\ \A i \in DOMAIN f : f[i] \in Nat
  BY <1>2, UpToFinite DEF Attempts
<1> HIDE DEF f
<1>4. SumFunction(f) \in Nat
  BY <1>3, SumIsSum, SumIsNat
<1> QED BY <1>1, <1>4, BudgetLeft DEF Spent, f

LEMMA StopKeeps ==
  ASSUME Ground, TriedInv, GrowthStops
  PROVE StopInv'
<1>1. UNCHANGED <<site, anchors, spanning, tried>>
  BY DEF GrowthStops
<1>2. /\ ~CanGrow \/ Fitting("LOCAL") \cup Fitting("COLLECTOR") = {}
      /\ halt' = "LENGTH_BUDGET" => ~(Len(tried) >= site.maxIterations)
  BY DEF GrowthStops
<1>3. Left \in Int /\ Len(tried) \in Nat
  BY LeftIsInt DEF TriedInv
<1>4. site.maxIterations \in Nat
  BY RoadAssumption DEF Ground, RoadInput, GrowthPolicy
<1>5. ASSUME halt' = "LENGTH_BUDGET", NEW p \in AnchorPairs \ (Planned \cup Tried)
      PROVE Direct(p) > Left
  <2>1. PICK q \in Heads(Intent(p)) : Direct(q) <= Direct(p)
    BY HeadsAre
  <2>2. q \in AnchorPairs
    BY DEF Heads, AnchorPairs
  <2>3. Direct(p) \in Nat /\ Direct(p) > 0 /\ Direct(q) \in Nat
    BY <2>2, GroundIs
  <2>4. CASE Left > 0
    <3>1. CanGrow
      BY <1>2, <1>3, <1>4, <1>5, <2>4 DEF CanGrow
    <3>2. Fitting(Intent(p)) = {}
      BY <1>2, <3>1, IntentIs DEF Intents
    <3>3. ~(Direct(q) <= Left)
      BY <3>2 DEF Fitting
    <3> QED BY ONLY <1>3, <2>1, <2>3, <3>3
  <2>5. CASE ~(Left > 0)
    BY ONLY <1>3, <2>3, <2>5
  <2> QED BY <2>4, <2>5
<1>6. /\ Left' = Left /\ Planned' = Planned /\ Tried' = Tried /\ AnchorPairs' = AnchorPairs
      /\ \A p : (Direct(p))' = Direct(p)
  BY <1>1 DEF Left, Planned, Tried, AnchorPairs, Direct
<1> QED BY ONLY <1>5, <1>6 DEF StopInv

-----------------------------------------------------------------------------
(* Roads: the numbered components. *)

\* A component is the component of each of its anchors.
LEMMA ComponentsAre ==
  ASSUME Ground
  PROVE /\ IsFiniteSet(Components)
        /\ \A s \in Components : /\ s \subseteq anchors /\ Min(s) \in s /\ Min(s) \in Int
                                 /\ \A m \in s : Component(ConnectedPairs, m) = s
<1> DEFINE f == [a \in anchors |-> Component(ConnectedPairs, a)]
<1>1. IsFiniteSet(anchors) /\ anchors \subseteq Nat
  BY GroundIs
<1>2. Components = {f[a] : a \in anchors}
  BY DEF Components
<1>3. ASSUME NEW s \in Components
      PROVE /\ s \subseteq anchors /\ Min(s) \in s /\ Min(s) \in Int
            /\ \A m \in s : Component(ConnectedPairs, m) = s
  <2>1. PICK a \in anchors : s = Component(ConnectedPairs, a)
    BY <1>2
  <2>2. a \in s /\ s \subseteq anchors
    BY <1>1, <2>1, ComponentIs
  <2>3. IsFiniteSet(s) /\ s \subseteq Int /\ s # {}
    <3>1. IsFiniteSet(s)
      BY ONLY <1>1, <2>2, FS_Subset
    <3> QED BY ONLY <3>1, <1>1, <2>2
  <2>4. Min(s) \in s
    BY <2>3, MinOf
  <2>5. \A m \in s : Component(ConnectedPairs, m) = s
    BY <1>1, <2>1, ComponentSame
  <2> QED BY <2>2, <2>3, <2>4, <2>5
<1> HIDE DEF f
<1>4. IsFiniteSet(Components)
  BY <1>1, <1>2, ImageFinite
<1> QED BY <1>3, <1>4

\* They are numbered from one, each once.
LEMMA NthIs ==
  ASSUME Ground
  PROVE /\ Cardinality(Components) \in Nat
        /\ \A k \in 1..Cardinality(Components) : Nth(Components, k) \in Components
        /\ \A s \in Components : \E k \in 1..Cardinality(Components) : Nth(Components, k) = s
<1> DEFINE S == Components
           A == {e \in S \X S : Min(e[1]) < Min(e[2])}
<1>1. /\ IsFiniteSet(S)
      /\ \A s \in S : Min(s) \in Int /\ Min(s) \in s
                      /\ \A m \in s : Component(ConnectedPairs, m) = s
  BY ComponentsAre
<1> HIDE DEF S
<1>2. \A s, t \in S : <<s, t>> \in A <=> Min(s) < Min(t)
  OBVIOUS
<1>3. \A s, t \in S : Min(s) = Min(t) => s = t
  BY <1>1
<1> HIDE DEF A
<1>4. StrictOrder(S, A)
  BY ONLY <1>1, <1>2, <1>3 DEF StrictOrder
<1>5. /\ Cardinality(S) \in Nat
      /\ \A r \in S : PlaceOf(S, A, r) \in 1..Cardinality(S)
      /\ \A r, s \in S : PlaceOf(S, A, r) = PlaceOf(S, A, s) => r = s
      /\ \A k \in 1..Cardinality(S) : \E r \in S : PlaceOf(S, A, r) = k
  BY <1>4, PlacesAre
<1>6. ASSUME NEW s \in S
      PROVE PlaceOf(S, A, s) = 1 + Cardinality({t \in S : Min(t) < Min(s)})
  <2>1. {t \in S : <<t, s>> \in A} = {t \in S : Min(t) < Min(s)}
    BY <1>2
  <2> QED BY <2>1 DEF PlaceOf
<1>7. ASSUME NEW s \in S
      PROVE Cardinality({t \in S : Min(t) < Min(s)}) \in Int
  <2>1. IsFiniteSet({t \in S : Min(t) < Min(s)})
    BY <1>1, FS_Subset
  <2> QED BY <2>1, FS_CardinalityType
<1>8. ASSUME NEW k \in 1..Cardinality(S), NEW s \in S
      PROVE PlaceOf(S, A, s) = k <=> Cardinality({t \in S : Min(t) < Min(s)}) = k - 1
  BY <1>6, <1>7
<1>9. ASSUME NEW k \in 1..Cardinality(S)
      PROVE Nth(S, k) \in S /\ PlaceOf(S, A, Nth(S, k)) = k
  <2>1. \E s \in S : Cardinality({t \in S : Min(t) < Min(s)}) = k - 1
    BY <1>5, <1>8
  <2>2. /\ Nth(S, k) \in S
        /\ Cardinality({t \in S : Min(t) < Min(Nth(S, k))}) = k - 1
    BY <2>1 DEF Nth
  <2> QED BY <1>8, <2>2
<1>10. ASSUME NEW s \in S PROVE \E k \in 1..Cardinality(S) : Nth(S, k) = s
  <2>1. PlaceOf(S, A, s) \in 1..Cardinality(S)
    BY <1>5
  <2>2. Nth(S, PlaceOf(S, A, s)) = s
    BY <1>5, <1>9, <2>1
  <2> QED BY <2>1, <2>2
<1> QED BY <1>5, <1>9, <1>10 DEF S

-----------------------------------------------------------------------------
(* Roads: the stage. *)

AttachStatuses == {"CONNECTED", "NO_PATH", "SEARCH_LIMIT_REACHED", "ALREADY_CONNECTED",
                   "NO_FIXED_NODE_IN_RANGE"}
AttachedInv ==
  /\ attached \in Seq([part : SUBSET anchors, at : anchors, status : AttachStatuses])
  /\ \A k \in 1..Len(attached) : attached[k].at \in Nth(Components, k)
RoutesInv ==
  /\ spanning = Prim /\ TriedInv /\ StopInv /\ AttachedInv
RoadInv ==
  /\ Ground
  /\ road \in {"align", "sample", "plan"} => tried = << >> /\ attached = << >> /\ halt = ""
  /\ road \in {"baseline", "grow"} =>
       spanning = Prim /\ TriedInv /\ attached = << >> /\ halt = ""
  /\ road \in {"attach", "info", "warning"} => RoutesInv
  /\ road = "info" => Complete /\ (Attaches => Len(attached) = Cardinality(Components))

LEMMA RoadStarts == RoadInit => RoadInv
BY Zenon DEF RoadInit, RoadInv, Ground

LEMMA GroundStays == ASSUME Ground, UNCHANGED <<site, anchors>> PROVE Ground'
BY DEF Ground

LEMMA PrimStays == ASSUME UNCHANGED <<site, anchors>> PROVE Prim' = Prim
BY DEF Prim, Crossing, EdgeKey, Direct, Lower

LEMMA TriedStays ==
  ASSUME TriedInv, UNCHANGED <<site, anchors, spanning, tried>> PROVE TriedInv'
BY DEF TriedInv, Attempts, AnchorPairs, Planned, Spent

LEMMA StopStays ==
  ASSUME StopInv, UNCHANGED <<site, anchors, spanning, tried, halt>> PROVE StopInv'
<1>1. /\ Left' = Left /\ Planned' = Planned /\ Tried' = Tried /\ AnchorPairs' = AnchorPairs
      /\ \A p : (Direct(p))' = Direct(p)
  BY DEF Left, Planned, Tried, AnchorPairs, Direct
<1> QED BY <1>1 DEF StopInv

LEMMA ComponentsStay ==
  ASSUME UNCHANGED <<site, anchors, spanning, routed, tried>> PROVE Components' = Components
BY DEF Components, Component, ConnectedPairs, Connected, Grown

LEMMA AttachedStarts == ASSUME attached = << >> PROVE AttachedInv
BY DEF AttachedInv

LEMMA AttachedStays ==
  ASSUME AttachedInv, UNCHANGED <<site, anchors, spanning, routed, tried, attached>>
  PROVE AttachedInv'
BY ComponentsStay DEF AttachedInv

LEMMA AttachKeeps ==
  ASSUME Ground, AttachedInv, Attach
  PROVE AttachedInv'
<1> DEFINE n == Len(attached)
           part == Nth(Components, n + 1)
           Rs == [part : SUBSET anchors, at : anchors, status : AttachStatuses]
<1>1. UNCHANGED <<site, anchors, spanning, routed, tried>> /\ n < Cardinality(Components)
  BY DEF Attach
<1>2. attached \in Seq(Rs) /\ n \in Nat /\ Cardinality(Components) \in Nat
  BY NthIs DEF AttachedInv
<1>3. part \in Components
  <2>1. n + 1 \in 1..Cardinality(Components)
    BY <1>1, <1>2
  <2> QED BY <2>1, NthIs
<1>4. part \subseteq anchors /\ Min(part) \in part
  BY <1>3, ComponentsAre
<1>5. \/ UNCHANGED attached
      \/ attached' = Append(attached, [part |-> part, at |-> Min(part),
                                       status |-> "NO_FIXED_NODE_IN_RANGE"])
      \/ \E e \in Nearest(part) : \E s \in Attachments(e) :
           attached' = Append(attached, [part |-> part, at |-> e[1], status |-> s])
  BY DEF Attach
<1>6. ASSUME NEW a \in part, NEW s \in AttachStatuses,
             attached' = Append(attached, [part |-> part, at |-> a, status |-> s])
      PROVE AttachedInv'
  <2> DEFINE r == [part |-> part, at |-> a, status |-> s]
  <2>1. r \in Rs /\ r.at \in Nth(Components, n + 1)
    BY <1>4
  <2>2. attached' = Append(attached, r)
    BY <1>6
  <2> HIDE DEF r, Rs, part
  <2>3. /\ attached' \in Seq(Rs) /\ Len(attached') = n + 1 /\ attached'[n + 1] = r
        /\ \A k \in 1..n : attached'[k] = attached[k]
    BY <1>2, <2>1, <2>2
  <2>4. \A k \in 1..(n + 1) : k \in 1..n \/ k = n + 1
    BY <1>2
  <2>5. \A k \in 1..n : attached[k].at \in Nth(Components, k)
    BY DEF AttachedInv
  <2>6. \A k \in 1..(n + 1) : attached'[k].at \in Nth(Components, k)
    BY ONLY <2>1, <2>3, <2>4, <2>5
  <2>7. Components' = Components /\ anchors' = anchors
    BY <1>1, ComponentsStay
  <2> QED BY <2>3, <2>6, <2>7 DEF AttachedInv, Rs
<1>7. CASE UNCHANGED attached
  BY <1>1, <1>7, AttachedStays
<1>8. CASE attached' = Append(attached, [part |-> part, at |-> Min(part),
                                         status |-> "NO_FIXED_NODE_IN_RANGE"])
  <2>1. "NO_FIXED_NODE_IN_RANGE" \in AttachStatuses
    BY DEF AttachStatuses
  <2> QED BY <1>4, <1>6, <1>8, <2>1
<1>9. CASE \E e \in Nearest(part) : \E s \in Attachments(e) :
             attached' = Append(attached, [part |-> part, at |-> e[1], status |-> s])
  <2>1. PICK e \in Nearest(part) : \E s \in Attachments(e) :
          attached' = Append(attached, [part |-> part, at |-> e[1], status |-> s])
    BY <1>9
  <2>2. PICK s \in Attachments(e) :
          attached' = Append(attached, [part |-> part, at |-> e[1], status |-> s])
    BY <2>1
  <2>3. e[1] \in part
    BY DEF Nearest
  <2>4. s \in AttachStatuses
    BY DEF Attachments, Routes, AttachStatuses
  <2> QED BY <1>6, <2>2, <2>3, <2>4
<1> QED BY <1>5, <1>7, <1>8, <1>9

LEMMA RoadStep == ASSUME RoadInv, [RoadNext]_roadVars PROVE RoadInv'
<1>1. Ground
  BY Zenon DEF RoadInv
<1>2. CASE Align
  <2>1. road = "align" /\ road' \in {"sample", "error"}
    BY <1>2 DEF Align
  <2>2. UNCHANGED <<site, anchors, tried, attached, halt>>
    BY <1>2 DEF Align
  <2>3. tried = << >> /\ attached = << >> /\ halt = ""
    BY <2>1, Zenon DEF RoadInv
  <2>4. Ground'
    BY <1>1, <2>2, GroundStays
  <2> QED BY ONLY <2>1, <2>2, <2>3, <2>4, Zenon DEF RoadInv
<1>3. CASE SampleAnchors
  <2>1. road = "sample" /\ road' = "plan" /\ UNCHANGED <<site, tried, attached, halt>>
    BY <1>3 DEF SampleAnchors
  <2>2. anchors' \subseteq site.sampled
    BY <1>3 DEF SampleAnchors
  <2>3. tried = << >> /\ attached = << >> /\ halt = ""
    BY <2>1, Zenon DEF RoadInv
  <2>4. Ground'
    BY <1>1, <2>1, <2>2 DEF Ground
  <2> QED BY ONLY <2>1, <2>3, <2>4, Zenon DEF RoadInv
<1>4. CASE PlanBaseline
  <2>1. road = "plan" /\ UNCHANGED <<site, anchors, tried, attached, halt>>
    BY <1>4 DEF PlanBaseline
  <2>2. road' = "error" \/ (road' = "baseline" /\ spanning' = Prim)
    BY <1>4 DEF PlanBaseline
  <2>3. tried = << >> /\ attached = << >> /\ halt = ""
    BY <2>1, Zenon DEF RoadInv
  <2>4. Ground' /\ Prim' = Prim
    BY <1>1, <2>1, GroundStays, PrimStays
  <2>5. TriedInv'
    <3>1. Spent(tried)' <= site.budget'
      <4>1. Spent(tried) <= site.budget
        BY <1>1, <2>3, TriedStarts, Zenon DEF TriedInv
      <4>2. Spent(tried)' = Spent(tried) /\ site' = site
        BY <2>1 DEF Spent
      <4> QED BY <4>1, <4>2
    <3>2. tried' = << >>
      BY <2>1, <2>3, Zenon
    <3> QED BY <3>1, <3>2 DEF TriedInv
  <2> QED BY ONLY <2>1, <2>2, <2>3, <2>4, <2>5, Zenon DEF RoadInv
<1>5. CASE RouteBaseline
  <2>1. road = "baseline" /\ UNCHANGED <<road, site, anchors, spanning, tried, attached, halt>>
    BY <1>5 DEF RouteBaseline
  <2>2. spanning = Prim /\ TriedInv /\ attached = << >> /\ halt = ""
    BY <2>1, Zenon DEF RoadInv
  <2>3. Ground' /\ Prim' = Prim /\ TriedInv'
    BY <1>1, <2>1, <2>2, GroundStays, PrimStays, TriedStays, Zenon
  <2> QED BY ONLY <2>1, <2>2, <2>3, Zenon DEF RoadInv
<1>6. CASE BaselineDone
  <2>1. /\ road = "baseline" /\ UNCHANGED <<site, anchors, spanning, tried, attached, halt>>
        /\ road' \in {"error", "grow"}
    BY <1>6 DEF BaselineDone
  <2>2. spanning = Prim /\ TriedInv /\ attached = << >> /\ halt = ""
    BY <2>1, Zenon DEF RoadInv
  <2>3. Ground' /\ Prim' = Prim /\ TriedInv'
    BY <1>1, <2>1, <2>2, GroundStays, PrimStays, TriedStays, Zenon
  <2> QED BY ONLY <2>1, <2>2, <2>3, Zenon DEF RoadInv
<1>7. CASE Attempt
  <2>1. road = "grow" /\ UNCHANGED <<road, site, anchors, spanning, attached, halt>>
    BY <1>7 DEF Attempt
  <2>2. spanning = Prim /\ TriedInv /\ attached = << >> /\ halt = ""
    BY <2>1, Zenon DEF RoadInv
  <2>3. Ground' /\ Prim' = Prim /\ TriedInv'
    BY <1>1, <1>7, <2>1, <2>2, GroundStays, PrimStays, AttemptKeeps, Zenon
  <2> QED BY ONLY <2>1, <2>2, <2>3, Zenon DEF RoadInv
<1>8. CASE GrowthStops
  <2>1. /\ road = "grow" /\ road' = "attach"
        /\ UNCHANGED <<site, anchors, spanning, tried, routed, attached>>
    BY <1>8 DEF GrowthStops
  <2>2. spanning = Prim /\ TriedInv /\ attached = << >>
    BY <2>1, Zenon DEF RoadInv
  <2>3. Ground' /\ Prim' = Prim /\ TriedInv' /\ StopInv'
    BY <1>1, <1>8, <2>1, <2>2, GroundStays, PrimStays, TriedStays, StopKeeps
  <2>4. AttachedInv'
    BY <2>1, <2>2, AttachedStarts, AttachedStays
  <2> QED BY ONLY <2>1, <2>2, <2>3, <2>4 DEF RoadInv, RoutesInv
<1>9. CASE Attach
  <2>1. /\ road = "attach" /\ road' \in {"attach", "error"}
        /\ UNCHANGED <<site, anchors, spanning, tried, routed, halt>>
    BY <1>9 DEF Attach
  <2>2. spanning = Prim /\ TriedInv /\ StopInv /\ AttachedInv
    BY <2>1 DEF RoadInv, RoutesInv
  <2>3. Ground' /\ Prim' = Prim /\ TriedInv' /\ StopInv'
    BY <1>1, <2>1, <2>2, GroundStays, PrimStays, TriedStays, StopStays
  <2>4. AttachedInv'
    BY <1>1, <1>9, <2>2, AttachKeeps
  <2> QED BY ONLY <2>1, <2>2, <2>3, <2>4, Zenon DEF RoadInv, RoutesInv
<1>10. CASE Validate
  <2>1. /\ road = "attach" /\ road' \in {"info", "warning"} /\ (road' = "info" => Complete)
        /\ UNCHANGED <<site, anchors, spanning, tried, routed, halt, attached>>
        /\ Attaches => Len(attached) = Cardinality(Components)
    BY <1>10 DEF Validate
  <2>2. spanning = Prim /\ TriedInv /\ StopInv /\ AttachedInv
    BY <2>1 DEF RoadInv, RoutesInv
  <2>3. Ground' /\ Prim' = Prim /\ TriedInv' /\ StopInv' /\ AttachedInv'
    BY <1>1, <2>1, <2>2, GroundStays, PrimStays, TriedStays, StopStays, AttachedStays
  <2>4. Complete' = Complete /\ Attaches' = Attaches /\ Components' = Components
    BY <2>1, ComponentsStay DEF Complete, Attaches
  <2> QED BY ONLY <2>1, <2>2, <2>3, <2>4, Zenon DEF RoadInv, RoutesInv
<1>11. CASE UNCHANGED roadVars
  <2>1. UNCHANGED <<road, site, anchors, spanning, routed, tried, halt, attached>>
    BY <1>11 DEF roadVars
  <2>2. Ground' /\ Prim' = Prim /\ (TriedInv => TriedInv') /\ (StopInv => StopInv')
    BY <1>1, <2>1, GroundStays, PrimStays, TriedStays, StopStays
  <2>3. AttachedInv => AttachedInv'
    BY <2>1, AttachedStays
  <2>4. Complete' = Complete /\ Attaches' = Attaches /\ Components' = Components
    BY <2>1, ComponentsStay DEF Complete, Attaches
  <2> QED BY ONLY <2>1, <2>2, <2>3, <2>4, RoadInv, Zenon DEF RoadInv, RoutesInv
<1> QED BY <1>2, <1>3, <1>4, <1>5, <1>6, <1>7, <1>8, <1>9, <1>10, <1>11 DEF RoadNext

\* The planned baseline is a shortest tree over all anchors, whatever the raster and the
\* number of anchors; growth spends no more than its budget, tries no pair twice, when
\* it stops for want of length no pair left fits, and the counts of its attempts add up.
THEOREM GrowthIsWithinBudget == RoadSpec => []GrowthUsesBudget
<1>1. RoadInv => GrowthUsesBudget
  <2> SUFFICES ASSUME RoadInv, road = "attach" PROVE GrowthUsesBudget
    BY DEF GrowthUsesBudget
  <2>1. Ground /\ spanning = Prim /\ TriedInv /\ StopInv
    BY DEF RoadInv, RoutesInv
  <2>2. /\ Planned \subseteq AnchorPairs
        /\ \A a \in anchors : Component(Planned, a) = anchors
        /\ \A tree \in kSubset(Len(spanning), AnchorPairs) :
             (\A a \in anchors : Component(tree, a) = anchors) => Length(Planned) <= Length(tree)
    BY <2>1, PrimIsMinimal
  <2>3. GrowthAccepted
    BY <2>1, <2>2, AttemptsAreAccepted, CountsAreAccepted DEF GrowthAccepted
  <2>4. Left >= 0
    BY <2>1, LeftIsInt
  <2>5. Cardinality(Tried) = Len(tried) /\ Tried \cap Planned = {}
    BY <2>1, TriedCount
  <2>6. halt = "LENGTH_BUDGET" => \A p \in AnchorPairs \ (Planned \cup Tried) : Direct(p) > Left
    BY <2>1 DEF StopInv
  <2> QED BY ONLY <2>2, <2>3, <2>4, <2>5, <2>6 DEF GrowthUsesBudget, AnchorPairs
<1>2. RoadInv /\ [RoadNext]_roadVars => RoadInv'
  BY RoadStep
<1> QED BY <1>1, <1>2, RoadStarts, PTL DEF RoadSpec

\* Sets of pairs that differ in no pair of elements have the same components.
LEMMA SamePairs ==
  ASSUME IsFiniteSet(anchors), NEW P, NEW Q, \A q, b : {q, b} \in P <=> {q, b} \in Q,
         NEW a \in anchors
  PROVE Component(P, a) = Component(Q, a)
<1>1. \A T : Encloses(P, T) <=> Encloses(Q, T)
  BY DEF Encloses
<1>2. Component(P, a) \subseteq Component(Q, a)
  <2>1. a \in Component(Q, a) /\ Encloses(P, Component(Q, a))
    BY <1>1, ComponentIs
  <2> QED BY <2>1, ComponentIs
<1>3. Component(Q, a) \subseteq Component(P, a)
  <2>1. a \in Component(P, a) /\ Encloses(Q, Component(P, a))
    BY <1>1, ComponentIs
  <2> QED BY <2>1, ComponentIs
<1> QED BY <1>2, <1>3

\* A stage that ends well has, for every anchor, an attachment of the component the anchor
\* is in to the fixed network.
THEOREM AnchorsAreAttached == RoadSpec => []AnchorsReachNetwork
<1>1. RoadInv => AnchorsReachNetwork
  <2> DEFINE built == Range([k \in DOMAIN routed |->
                        IF Connected(k) THEN {spanning[k][1], spanning[k][2]} ELSE {}]) \cup Grown
  <2> SUFFICES ASSUME RoadInv, road = "info", Attaches, NEW a \in anchors
               PROVE \E k \in DOMAIN attached :
                       /\ attached[k].status \in {"CONNECTED", "ALREADY_CONNECTED"}
                       /\ attached[k].at \in Component(built, a)
    BY DEF AnchorsReachNetwork
  <2>1. /\ Ground /\ AttachedInv /\ Complete /\ Len(attached) = Cardinality(Components)
        /\ IsFiniteSet(anchors)
    BY GroundIs DEF RoadInv, RoutesInv
  <2>2. \A q, b : {q, b} \in built <=> {q, b} \in ConnectedPairs
    BY DEF ConnectedPairs, Range
  <2> HIDE DEF built
  <2>3. Component(built, a) = Component(ConnectedPairs, a)
    BY ONLY <2>1, <2>2, SamePairs, a \in anchors
  <2>4. Component(ConnectedPairs, a) \in Components
    BY DEF Components
  <2>5. PICK k \in 1..Cardinality(Components) : Nth(Components, k) = Component(ConnectedPairs, a)
    BY <2>1, <2>4, NthIs
  <2>6. k \in DOMAIN attached /\ k \in 1..Len(attached)
    BY <2>1 DEF AttachedInv
  <2>7. attached[k].at \in Component(built, a)
    BY <2>1, <2>3, <2>5, <2>6 DEF AttachedInv
  <2>8. attached[k].status \in {"CONNECTED", "ALREADY_CONNECTED"}
    BY <2>1, <2>6 DEF Complete
  <2> QED BY <2>6, <2>7, <2>8
<1>2. RoadInv /\ [RoadNext]_roadVars => RoadInv'
  BY RoadStep
<1> QED BY <1>1, <1>2, RoadStarts, PTL DEF RoadSpec

-----------------------------------------------------------------------------
(* Suitability: tiles, windows and slopes. *)

\* A quotient and its remainder.
LEMMA DivIs ==
  ASSUME NEW a \in Nat, NEW b \in Nat \ {0}
  PROVE /\ a \div b \in Nat /\ a % b \in Nat /\ a % b < b /\ a = b * (a \div b) + (a % b)
        /\ b * (a \div b) <= a /\ a < b * (a \div b) + b
<1>1. a \div b \in Nat /\ a % b \in Nat /\ a % b < b /\ a = b * (a \div b) + (a % b)
  OBVIOUS
<1>2. b * (a \div b) \in Nat
  BY <1>1
<1> QED BY <1>1, <1>2

\* A quotient and a remainder are the only ones that fit.
LEMMA DivOf ==
  ASSUME NEW u \in Nat, NEW b \in Nat \ {0}, NEW r \in Nat, r < b
  PROVE (u * b + r) \div b = u /\ (u * b + r) % b = r /\ u * b + r \in Nat
<1> DEFINE a == u * b + r
           k == a \div b
<1>1. u * b \in Nat /\ a \in Nat
  OBVIOUS
<1>2. k \in Nat /\ a % b \in Nat /\ a % b < b /\ a = b * k + (a % b)
  BY <1>1, DivIs
<1> HIDE DEF a, k
<1>3. k = u
  <2>1. CASE k < u
    <3>1. b * (k + 1) <= b * u
      BY <1>2, <2>1
    <3>2. b * (k + 1) = b * k + b /\ b * u = u * b /\ b * k \in Nat
      BY <1>2
    <3> QED BY <3>1, <3>2, <1>2, <1>1 DEF a
  <2>2. CASE u < k
    <3>1. b * (u + 1) <= b * k
      BY <1>2, <2>2
    <3>2. b * (u + 1) = b * u + b /\ b * u = u * b /\ b * k \in Nat
      BY <1>2
    <3> QED BY <3>1, <3>2, <1>2, <1>1 DEF a
  <2> QED BY <2>1, <2>2, <1>2
<1> QED BY <1>1, <1>2, <1>3 DEF a, k

\* What the inputs are, for the terrain of a stage.
LEMMA TerrainIs ==
  ASSUME terrain \in SuitabilityCases
  PROVE SuitabilityInput(terrain) /\ SuitUnit \in Nat \ {0}
BY SuitabilityAssumption

\* The grid has a cell for each row and column.
LEMMA GridIs ==
  ASSUME terrain \in SuitabilityCases
  PROVE /\ terrain.height \in Nat \ {0} /\ terrain.width \in Nat \ {0} /\ terrain.tile \in Nat \ {0}
        /\ \A p \in Grid : /\ p = <<p[1], p[2]>> /\ p[1] \in Nat /\ p[2] \in Nat
                           /\ p[1] < terrain.height /\ p[2] < terrain.width
        /\ \A r, k \in Int : <<r, k>> \in Grid <=> 0 <= r /\ r < terrain.height /\ 0 <= k /\ k < terrain.width
<1>1. terrain.height \in Nat \ {0} /\ terrain.width \in Nat \ {0} /\ terrain.tile \in Nat \ {0}
  BY TerrainIs DEF SuitabilityInput
<1> QED BY <1>1 DEF Grid

\* Every cell is in some tile.
LEMMA TilesCoverGrid ==
  ASSUME terrain \in SuitabilityCases, NEW p \in Grid
  PROVE \E i \in 1..Len(Tiles) : p \in Core(Tiles[i])
<1> DEFINE t == terrain.tile
           along(size) == (size + t - 1) \div t
           h == along(terrain.height)
           w == along(terrain.width)
           u == p[1] \div t
           v == p[2] \div t
           i == u * w + v + 1
<1>1. /\ terrain.height \in Nat \ {0} /\ terrain.width \in Nat \ {0} /\ t \in Nat \ {0}
      /\ p[1] \in Nat /\ p[2] \in Nat /\ p[1] < terrain.height /\ p[2] < terrain.width
  BY GridIs
<1>2. \A x, size \in Nat : x < size => /\ x \div t \in Nat /\ along(size) \in Nat /\ x \div t < along(size)
                                       /\ t * (x \div t) <= x /\ x <= t * (x \div t) + t - 1
  <2> SUFFICES ASSUME NEW x \in Nat, NEW size \in Nat, x < size
               PROVE /\ x \div t \in Nat /\ along(size) \in Nat /\ x \div t < along(size)
                     /\ t * (x \div t) <= x /\ x <= t * (x \div t) + t - 1
    OBVIOUS
  <2> DEFINE a == x \div t
             c == along(size)
  <2>1. a \in Nat /\ t * a <= x /\ x < t * a + t
    BY <1>1, DivIs
  <2>2. c \in Nat /\ size + t - 1 < t * c + t
    <3>1. size + t - 1 \in Nat
      BY <1>1
    <3> QED BY <3>1, <1>1, DivIs
  <2> HIDE DEF a, c, t
  <2>3. t * a \in Int /\ t * c \in Int /\ t * a < t * c
    BY <2>1, <2>2, <1>1
  <2>4. a < c
    <3>1. CASE c <= a
      <4>1. t * c <= t * a
        BY <3>1, <2>1, <2>2, <1>1
      <4> QED BY <4>1, <2>3
    <3> QED BY <3>1, <2>1, <2>2
  <2>5. x <= t * a + t - 1
    BY <2>1, <1>1, <2>3
  <2> QED BY <2>1, <2>2, <2>4, <2>5 DEF a, c
<1>3. /\ u \in Nat /\ h \in Nat /\ u < h /\ t * u <= p[1] /\ p[1] <= t * u + t - 1
      /\ v \in Nat /\ w \in Nat /\ v < w /\ t * v <= p[2] /\ p[2] <= t * v + t - 1
  BY <1>1, <1>2
<1>4. Tiles = [k \in 1..(h * w) |-> <<t * ((k - 1) \div w), t * ((k - 1) % w)>>]
  BY DEF Tiles
<1> HIDE DEF u, v, h, w, t
<1>5. (u * w + v) \div w = u /\ (u * w + v) % w = v /\ u * w + v \in Nat
  <2>1. w \in Nat \ {0}
    BY <1>3
  <2> QED BY <1>3, <2>1, DivOf
<1>6. i \in 1..(h * w) /\ h * w \in Nat
  <2>1. (u + 1) * w <= h * w
    BY <1>3
  <2>2. (u + 1) * w = u * w + w /\ u * w \in Nat /\ h * w \in Nat
    BY <1>3
  <2> QED BY <2>1, <2>2, <1>3
<1>7. Tiles[i] = <<t * u, t * v>> /\ Len(Tiles) = h * w
  <2>1. i - 1 = u * w + v
    BY <1>5
  <2> QED BY <1>4, <1>5, <1>6, <2>1
<1>8. p[1] \in (t * u)..(t * u + t - 1) /\ p[2] \in (t * v)..(t * v + t - 1)
  BY <1>3, <1>1
<1>9. p \in Core(<<t * u, t * v>>)
  BY <1>8 DEF Core, t
<1> QED BY <1>6, <1>7, <1>9

\* Along one axis: what a window with a margin of one cell makes of the heights before, at
\* and behind a cell is what its known neighbours make of them. B and A stand for the cells
\* before and behind, K for those of them that are known, and W for those in the grid.
AxisInput(top, b, c, a, i, n, B, A, W, K, e, twice) ==
  /\ twice = Twice(b, c, a, i = 0, i = n - 1)
  /\ top \in Nat /\ b \in 0..top \cup {NoData} /\ c \in 0..top /\ a \in 0..top \cup {NoData}
  /\ i \in Int /\ n \in Int /\ n >= 2 /\ (i = 0 => b = NoData) /\ (i = n - 1 => a = NoData)
  /\ B # A /\ W = {x \in {B, A} : (x = B => i # 0) /\ (x = A => i # n - 1)}
  /\ K = {x \in {B, A} : (x = B => b # NoData) /\ (x = A => a # NoData)}
  /\ (B \in K => e[B] = b) /\ (A \in K => e[A] = a)
AxisRise(c, K, e) ==
  IF Cardinality(K) = 2 THEN Max({e[x] : x \in K}) - Min({e[x] : x \in K})
  ELSE 2 * (Max({e[x] : x \in K} \cup {c}) - Min({e[x] : x \in K} \cup {c}))
AxisHas(K, W) == IF terrain.missing = "ONE_SIDED" THEN K # {} ELSE K = W

\* The window knows a derivative where the neighbours give one, and the same up to its sign.
LEMMA AxisIs ==
  ASSUME NEW top, NEW b, NEW c, NEW a, NEW i, NEW n, NEW B, NEW A, NEW W, NEW K, NEW e,
         NEW twice, AxisInput(top, b, c, a, i, n, B, A, W, K, e, twice),
         terrain.missing \in {"INVALIDATE", "ONE_SIDED"}
  PROVE /\ twice # {} <=> AxisHas(K, W)
        /\ AxisHas(K, W) => \E x \in (-2 * top)..(2 * top) :
             twice = {x} /\ x * x = AxisRise(c, K, e) * AxisRise(c, K, e)
<1> USE DEF AxisInput
<1> DEFINE heights == {e[x] : x \in K}
           all == heights \cup {c}
           rise == AxisRise(c, K, e)
           has == AxisHas(K, W)
<1> USE DEF NoData, AxisHas
<1>0. rise = IF Cardinality(K) = 2 THEN Max(heights) - Min(heights) ELSE 2 * (Max(all) - Min(all))
  BY DEF AxisRise
<1>1. \A x, y \in Int : /\ Max({x, y}) - Min({x, y}) \in {x - y, y - x}
                       /\ Max({x, y}) - Min({x, y}) \in Int
  <2> SUFFICES ASSUME NEW x \in Int, NEW y \in Int
               PROVE /\ Max({x, y}) - Min({x, y}) \in {x - y, y - x}
                     /\ Max({x, y}) - Min({x, y}) \in Int
    OBVIOUS
  <2> QED BY TwoOf
<1>2. CASE b # NoData /\ a # NoData
  <2>1. K = {B, A} /\ W = {B, A} /\ Cardinality(K) = 2
    <3>1. K = {B, A} /\ W = {B, A}
      BY <1>2
    <3>2. Cardinality({B}) = 1 /\ IsFiniteSet({B}) /\ A \notin {B} /\ {B, A} = {B} \cup {A}
      BY FS_Singleton
    <3>3. Cardinality({B} \cup {A}) = Cardinality({B}) + 1
      BY <3>2, FS_AddElement
    <3> QED BY <3>1, <3>2, <3>3
  <2>2. heights = {b, a} /\ b \in Int /\ a \in Int
    BY <2>1, <1>2
  <2>3. twice = {a - b}
    BY <1>2 DEF Twice
  <2>4. rise \in {b - a, a - b}
    BY <2>1, <2>2, <1>0, <1>1
  <2>5. (a - b) * (a - b) = rise * rise /\ a - b \in (-2 * top)..(2 * top)
    BY <2>4, <2>2, <1>2
  <2> QED BY <2>1, <2>3, <2>5
<1>3. CASE b = NoData /\ a # NoData
  <2>1. K = {A} /\ i # n - 1 /\ W = (IF i = 0 THEN {A} ELSE {B, A})
    BY <1>3
  <2>2. Cardinality(K) = 1
    BY <2>1, FS_Singleton
  <2>3. all = {a, c} /\ a \in Int
    BY <2>1, <1>3
  <2>4. rise \in {2 * (a - c), 2 * (c - a)}
    <3>1. Max(all) - Min(all) \in {a - c, c - a}
      <4>1. c \in Int
        OBVIOUS
      <4> QED BY <4>1, <2>3, <1>1
    <3>2. rise = 2 * (Max(all) - Min(all))
      BY <2>2, <1>0
    <3> QED BY <3>1, <3>2
  <2>5. twice = IF i = 0 \/ terrain.missing = "ONE_SIDED" THEN {2 * (a - c)} ELSE {}
    BY <1>3, <2>1 DEF Twice
  <2>6. has <=> i = 0 \/ terrain.missing = "ONE_SIDED"
    BY <2>1
  <2> DEFINE x == 2 * (a - c)
  <2>7. x * x = rise * rise /\ x \in (-2 * top)..(2 * top)
    <3>1. x \in (-2 * top)..(2 * top) /\ rise \in {x, -x}
      BY <2>4, <2>3, <1>3
    <3> HIDE DEF x, rise
    <3> QED BY <3>1
  <2> QED BY <2>5, <2>6, <2>7
<1>4. CASE b # NoData /\ a = NoData
  <2>1. K = {B} /\ i # 0 /\ W = (IF i = n - 1 THEN {B} ELSE {B, A})
    BY <1>4
  <2>2. Cardinality(K) = 1
    BY <2>1, FS_Singleton
  <2>3. all = {b, c} /\ b \in Int
    BY <2>1, <1>4
  <2>4. rise \in {2 * (b - c), 2 * (c - b)}
    <3>1. Max(all) - Min(all) \in {b - c, c - b}
      <4>1. c \in Int
        OBVIOUS
      <4> QED BY <4>1, <2>3, <1>1
    <3>2. rise = 2 * (Max(all) - Min(all))
      BY <2>2, <1>0
    <3> QED BY <3>1, <3>2
  <2>5. twice = IF i = n - 1 \/ terrain.missing = "ONE_SIDED" THEN {2 * (c - b)} ELSE {}
    BY <1>4, <2>1 DEF Twice
  <2>6. has <=> i = n - 1 \/ terrain.missing = "ONE_SIDED"
    BY <2>1
  <2> DEFINE x == 2 * (c - b)
  <2>7. x * x = rise * rise /\ x \in (-2 * top)..(2 * top)
    <3>1. x \in (-2 * top)..(2 * top) /\ rise \in {x, -x}
      BY <2>4, <2>3, <1>4
    <3> HIDE DEF x, rise
    <3> QED BY <3>1
  <2> QED BY <2>5, <2>6, <2>7
<1>5. CASE b = NoData /\ a = NoData
  <2>1. K = {} /\ W # {}
    BY <1>5
  <2>2. twice = {}
    BY <1>5 DEF Twice
  <2> QED BY <2>1, <2>2
<1> QED BY <1>2, <1>3, <1>4, <1>5

\* The cells beside a cell, by axis.
LEMMA BesideIs ==
  ASSUME terrain \in SuitabilityCases, NEW r, NEW k, <<r, k>> \in Grid
  PROVE /\ Beside(<<r, k>>, 2) = {x \in {<<r, k - 1>>, <<r, k + 1>>} :
               (x = <<r, k - 1>> => k # 0) /\ (x = <<r, k + 1>> => k # terrain.width - 1)}
        /\ Beside(<<r, k>>, 1) = {x \in {<<r - 1, k>>, <<r + 1, k>>} :
               (x = <<r - 1, k>> => r # 0) /\ (x = <<r + 1, k>> => r # terrain.height - 1)}
<1>1. /\ r \in Nat /\ k \in Nat /\ r < terrain.height /\ k < terrain.width
      /\ terrain.height \in Nat /\ terrain.width \in Nat
  <2>1. <<r, k>>[1] = r /\ <<r, k>>[2] = k
    OBVIOUS
  <2> QED BY <2>1, GridIs
<1>2. Beside(<<r, k>>, 2) = {q \in Grid : q[1] = r /\ q[2] \in {k - 1, k + 1}}
  BY DEF Beside
<1>3. Beside(<<r, k>>, 1) = {q \in Grid : q[2] = k /\ q[1] \in {r - 1, r + 1}}
  BY DEF Beside
<1>4. \A q \in Grid : q = <<q[1], q[2]>> /\ q[1] \in Nat /\ q[2] \in Nat
  BY GridIs
<1>5. \A i, j \in Int : <<i, j>> \in Grid <=>
        0 <= i /\ i < terrain.height /\ 0 <= j /\ j < terrain.width
  BY GridIs
<1>6. {q \in Grid : q[1] = r /\ q[2] \in {k - 1, k + 1}}
        = {x \in {<<r, k - 1>>, <<r, k + 1>>} : x \in Grid}
  BY <1>4
<1>7. {q \in Grid : q[2] = k /\ q[1] \in {r - 1, r + 1}}
        = {x \in {<<r - 1, k>>, <<r + 1, k>>} : x \in Grid}
  BY <1>4
<1>8. (<<r, k - 1>> \in Grid <=> k # 0) /\ (<<r, k + 1>> \in Grid <=> k # terrain.width - 1)
  BY <1>1, <1>5
<1>9. (<<r - 1, k>> \in Grid <=> r # 0) /\ (<<r + 1, k>> \in Grid <=> r # terrain.height - 1)
  BY <1>1, <1>5
<1> QED BY <1>2, <1>3, <1>6, <1>7, <1>8, <1>9

\* The cells around a cell of a tile are in its window, and what is known of them there is
\* what is known at all.
SeenAt(r, k) == IF <<r, k>> \in Grid THEN terrain.elevation[<<r, k>>] ELSE NoData
\* The window of a tile shows the neighbours of its cells.
LEMMA WindowShows ==
  ASSUME terrain \in SuitabilityCases, NEW t1 \in Int, NEW t2 \in Int,
         NEW r, NEW k, <<r, k>> \in Core(<<t1, t2>>),
         NEW dr \in -1..1, NEW dk \in -1..1
  PROVE <<r + dr, k + dk>> \in HaloWindow(<<t1, t2>>) <=> <<r + dr, k + dk>> \in Grid
<1>1. /\ <<r, k>> \in Grid /\ r \in t1..(t1 + terrain.tile - 1) /\ k \in t2..(t2 + terrain.tile - 1)
      /\ terrain.tile \in Nat
  BY GridIs DEF Core
<1>2. r + dr \in (t1 - 1)..(t1 + terrain.tile) /\ k + dk \in (t2 - 1)..(t2 + terrain.tile)
  BY <1>1
<1> QED BY <1>2 DEF HaloWindow

\* A slope read from the window of a tile is the slope of the cell and its neighbours.
LEMMA SlopeIs ==
  ASSUME terrain \in SuitabilityCases, terrain.width >= 2, terrain.height >= 2,
         NEW t1 \in Int, NEW t2 \in Int, NEW p \in Core(<<t1, t2>>)
  PROVE /\ SlopeIn(HaloWindow(<<t1, t2>>), p) =
             IF HasSlope(p)
             THEN {terrain.degrees[Rise(p, 1) * Rise(p, 1) + Rise(p, 2) * Rise(p, 2)]}
             ELSE {}
        /\ HasSlope(p) =>
             terrain.degrees[Rise(p, 1) * Rise(p, 1) + Rise(p, 2) * Rise(p, 2)] \in Nat
<1>1. /\ p \in Grid /\ p = <<p[1], p[2]>> /\ p[1] \in Nat /\ p[2] \in Nat
      /\ p[1] < terrain.height /\ p[2] < terrain.width
      /\ terrain.height \in Nat /\ terrain.width \in Nat
  BY GridIs DEF Core
<1>2. PICK top \in Nat : /\ \A q \in Grid : terrain.elevation[q] \in 0..top \cup {NoData}
                         /\ \A g \in 0..(8 * top * top) : terrain.degrees[g] \in Nat
  <2>1. SourceInput(terrain, Grid)
    BY TerrainIs DEF SuitabilityInput, Grid
  <2> QED BY <2>1 DEF SourceInput
<1> DEFINE r == p[1]
           k == p[2]
           w == HaloWindow(<<t1, t2>>)
           at(i, j) == IF <<i, j>> \in w THEN terrain.elevation[<<i, j>>] ELSE NoData
<1>3. /\ at(r, k) = SeenAt(r, k) /\ at(r, k - 1) = SeenAt(r, k - 1) /\ at(r, k + 1) = SeenAt(r, k + 1)
      /\ at(r - 1, k) = SeenAt(r - 1, k) /\ at(r + 1, k) = SeenAt(r + 1, k)
  <2>1. <<r, k>> \in Core(<<t1, t2>>)
    BY <1>1
  <2>2. \A dr \in -1..1, dk \in -1..1 : <<r + dr, k + dk>> \in w <=> <<r + dr, k + dk>> \in Grid
    BY <2>1, WindowShows
  <2>3. /\ r + 0 = r /\ k + 0 = k /\ r + 1 = r + 1 /\ r + (-1) = r - 1 /\ k + (-1) = k - 1
        /\ 0 \in -1..1 /\ 1 \in -1..1 /\ -1 \in -1..1
    BY <1>1
  <2> HIDE DEF w, r, k
  <2>4. /\ <<r, k>> \in w <=> <<r, k>> \in Grid
        /\ <<r, k - 1>> \in w <=> <<r, k - 1>> \in Grid
        /\ <<r, k + 1>> \in w <=> <<r, k + 1>> \in Grid
        /\ <<r - 1, k>> \in w <=> <<r - 1, k>> \in Grid
        /\ <<r + 1, k>> \in w <=> <<r + 1, k>> \in Grid
    BY <2>2, <2>3
  <2> QED BY <2>4 DEF SeenAt
<1> DEFINE dx == Twice(SeenAt(r, k - 1), SeenAt(r, k), SeenAt(r, k + 1), k = 0, k = terrain.width - 1)
           dy == Twice(SeenAt(r - 1, k), SeenAt(r, k), SeenAt(r + 1, k), r = 0, r = terrain.height - 1)
<1>4. SlopeIn(w, p) = IF SeenAt(r, k) = NoData THEN {} ELSE SlopeOf(dx, dy)
  <2> DEFINE X == Twice(at(r, k - 1), at(r, k), at(r, k + 1), k = 0, k = terrain.width - 1)
             Y == Twice(at(r - 1, k), at(r, k), at(r + 1, k), r = 0, r = terrain.height - 1)
  <2>1. SlopeIn(w, p) = IF at(r, k) = NoData THEN {} ELSE SlopeOf(X, Y)
    BY DEF SlopeIn
  <2>2. X = dx /\ Y = dy
    BY Zenon, <1>3
  <2> HIDE DEF X, Y, dx, dy, w, r, k
  <2> QED BY <2>1, <2>2, <1>3
<1>5. SeenAt(r, k) = terrain.elevation[p]
  BY <1>1 DEF SeenAt
<1>6. CASE terrain.elevation[p] = NoData
  BY <1>4, <1>5, <1>6 DEF HasSlope
<1>7. CASE terrain.elevation[p] # NoData
  <2> DEFINE has(axis) == IF terrain.missing = "ONE_SIDED" THEN KnownBeside(p, axis) # {}
                          ELSE KnownBeside(p, axis) = Beside(p, axis)
  <2>1. SeenAt(r, k) \in 0..top
    BY <1>1, <1>2, <1>5, <1>7
  <2>2. \A i, j \in Int : SeenAt(i, j) \in 0..top \cup {NoData}
    BY <1>2 DEF SeenAt
  <2>3. /\ \A i, j \in Int : <<i, j>> \in Grid <=> 0 <= i /\ i < terrain.height /\ 0 <= j /\ j < terrain.width
        /\ terrain.missing \in {"INVALIDATE", "ONE_SIDED"}
    BY GridIs, TerrainIs DEF SuitabilityInput
  <2>4. /\ dx # {} <=> has(2)
        /\ has(2) => \E x \in (-2 * top)..(2 * top) : dx = {x} /\ x * x = Rise(p, 2) * Rise(p, 2)
    <3> DEFINE B == <<r, k - 1>>
               A == <<r, k + 1>>
               K == KnownBeside(p, 2)
               W == Beside(p, 2)
    <3>1. W = {x \in {B, A} : (x = B => k # 0) /\ (x = A => k # terrain.width - 1)}
      BY <1>1, BesideIs
    <3>2. B # A /\ terrain.width \in Int /\ terrain.height \in Int /\ k \in Int /\ r \in Int
      BY <1>1
    <3>3. /\ k = 0 => SeenAt(r, k - 1) = NoData
          /\ k = terrain.width - 1 => SeenAt(r, k + 1) = NoData
          /\ k # 0 => B \in Grid
          /\ k # terrain.width - 1 => A \in Grid
      BY <1>1, <2>3 DEF SeenAt
    <3>4. /\ B \in Grid => terrain.elevation[B] = SeenAt(r, k - 1)
          /\ A \in Grid => terrain.elevation[A] = SeenAt(r, k + 1)
      BY DEF SeenAt
    <3>5. K = {x \in W : terrain.elevation[x] # NoData}
      BY DEF KnownBeside
    <3>6. K = {x \in {B, A} : (x = B => SeenAt(r, k - 1) # NoData) /\ (x = A => SeenAt(r, k + 1) # NoData)}
      <4> HIDE DEF B, A, K, W, r, k
      <4> QED BY <3>1, <3>2, <3>3, <3>4, <3>5
    <3>7. /\ B \in K => terrain.elevation[B] = SeenAt(r, k - 1)
          /\ A \in K => terrain.elevation[A] = SeenAt(r, k + 1)
      BY <3>1, <3>3, <3>4, <3>5
    <3>8. SeenAt(r, k - 1) \in 0..top \cup {NoData} /\ SeenAt(r, k + 1) \in 0..top \cup {NoData}
      BY <1>1, <2>2
    <3>9. AxisInput(top, SeenAt(r, k - 1), SeenAt(r, k), SeenAt(r, k + 1), k, terrain.width, B, A, W, K,
                     terrain.elevation, dx)
      <4>1. dx = Twice(SeenAt(r, k - 1), SeenAt(r, k), SeenAt(r, k + 1), k = 0, k = terrain.width - 1)
        BY Zenon
      <4> HIDE DEF B, A, K, W, r, k, dx
      <4> QED BY <2>1, <3>1, <3>2, <3>3, <3>6, <3>7, <3>8, <4>1 DEF AxisInput
    <3>10. /\ dx # {} <=> AxisHas(K, W)
           /\ AxisHas(K, W) => \E x \in (-2 * top)..(2 * top) : dx = {x}
                 /\ x * x = AxisRise(SeenAt(r, k), K, terrain.elevation) * AxisRise(SeenAt(r, k), K, terrain.elevation)
      <4> HIDE DEF B, A, K, W, r, k, dx
      <4> QED BY <2>3, <3>9, AxisIs
    <3>11. AxisRise(SeenAt(r, k), K, terrain.elevation) = Rise(p, 2)
      BY <1>5 DEF Rise, AxisRise
    <3> QED BY <3>10, <3>11 DEF AxisHas
  <2>5. /\ dy # {} <=> has(1)
        /\ has(1) => \E x \in (-2 * top)..(2 * top) : dy = {x} /\ x * x = Rise(p, 1) * Rise(p, 1)
    <3> DEFINE B == <<r - 1, k>>
               A == <<r + 1, k>>
               K == KnownBeside(p, 1)
               W == Beside(p, 1)
    <3>1. W = {x \in {B, A} : (x = B => r # 0) /\ (x = A => r # terrain.height - 1)}
      BY <1>1, BesideIs
    <3>2. B # A /\ terrain.width \in Int /\ terrain.height \in Int /\ k \in Int /\ r \in Int
      BY <1>1
    <3>3. /\ r = 0 => SeenAt(r - 1, k) = NoData
          /\ r = terrain.height - 1 => SeenAt(r + 1, k) = NoData
          /\ r # 0 => B \in Grid
          /\ r # terrain.height - 1 => A \in Grid
      BY <1>1, <2>3 DEF SeenAt
    <3>4. /\ B \in Grid => terrain.elevation[B] = SeenAt(r - 1, k)
          /\ A \in Grid => terrain.elevation[A] = SeenAt(r + 1, k)
      BY DEF SeenAt
    <3>5. K = {x \in W : terrain.elevation[x] # NoData}
      BY DEF KnownBeside
    <3>6. K = {x \in {B, A} : (x = B => SeenAt(r - 1, k) # NoData) /\ (x = A => SeenAt(r + 1, k) # NoData)}
      <4> HIDE DEF B, A, K, W, r, k
      <4> QED BY <3>1, <3>2, <3>3, <3>4, <3>5
    <3>7. /\ B \in K => terrain.elevation[B] = SeenAt(r - 1, k)
          /\ A \in K => terrain.elevation[A] = SeenAt(r + 1, k)
      BY <3>1, <3>3, <3>4, <3>5
    <3>8. SeenAt(r - 1, k) \in 0..top \cup {NoData} /\ SeenAt(r + 1, k) \in 0..top \cup {NoData}
      BY <1>1, <2>2
    <3>9. AxisInput(top, SeenAt(r - 1, k), SeenAt(r, k), SeenAt(r + 1, k), r, terrain.height, B, A, W, K,
                     terrain.elevation, dy)
      <4>1. dy = Twice(SeenAt(r - 1, k), SeenAt(r, k), SeenAt(r + 1, k), r = 0, r = terrain.height - 1)
        BY Zenon
      <4> HIDE DEF B, A, K, W, r, k, dy
      <4> QED BY <2>1, <3>1, <3>2, <3>3, <3>6, <3>7, <3>8, <4>1 DEF AxisInput
    <3>10. /\ dy # {} <=> AxisHas(K, W)
           /\ AxisHas(K, W) => \E x \in (-2 * top)..(2 * top) : dy = {x}
                 /\ x * x = AxisRise(SeenAt(r, k), K, terrain.elevation) * AxisRise(SeenAt(r, k), K, terrain.elevation)
      <4> HIDE DEF B, A, K, W, r, k, dy
      <4> QED BY <2>3, <3>9, AxisIs
    <3>11. AxisRise(SeenAt(r, k), K, terrain.elevation) = Rise(p, 1)
      BY <1>5 DEF Rise, AxisRise
    <3> QED BY <3>10, <3>11 DEF AxisHas
  <2> HIDE DEF dx, dy, r, k, w
  <2>6. HasSlope(p) <=> has(1) /\ has(2)
    BY <1>7 DEF HasSlope
  <2>7. CASE ~(has(1) /\ has(2))
    <3>1. dx = {} \/ dy = {}
      BY <2>4, <2>5, <2>7
    <3> QED BY <3>1, <2>6, <2>7, <1>4, <1>5, <1>7 DEF w, SlopeOf
  <2>8. CASE has(1) /\ has(2)
    <3>1. PICK x \in (-2 * top)..(2 * top) : dx = {x} /\ x * x = Rise(p, 2) * Rise(p, 2)
      BY <2>4, <2>8
    <3>2. PICK y \in (-2 * top)..(2 * top) : dy = {y} /\ y * y = Rise(p, 1) * Rise(p, 1)
      BY <2>5, <2>8
    <3>3. x * x + y * y = y * y + x * x
      OBVIOUS
    <3>4. SlopeIn(w, p) = {terrain.degrees[y * y + x * x]}
      BY <3>1, <3>2, <3>3, <1>4, <1>5, <1>7 DEF SlopeOf
    <3>5. y * y + x * x \in 0..(8 * top * top)
      <4>1. \A z \in (-2 * top)..(2 * top) : z * z \in 0..(4 * top * top)
        OBVIOUS
      <4> QED BY <4>1
    <3> QED BY <3>1, <3>2, <3>4, <3>5, <2>6, <2>8, <1>2 DEF w
  <2> QED BY <2>7, <2>8
<1> QED BY <1>6, <1>7

\* What is known of a factor after the cells of C were read: for each cell with data the
\* value that follows from the cell itself.
ReadFrom(f, v, C) ==
  /\ DOMAIN v = {p \in C : HasData(f, p)}
  /\ \A p \in DOMAIN v : v[p] = RawValue(f, p) /\ v[p] \in Nat
Readable(f) ==
  /\ f.code \in {"slope", "landuse", "roads"}
  /\ f.code = "slope" => terrain.width >= 2 /\ terrain.height >= 2
Roadless(f) == f.code = "roads" /\ terrain.roadDistance = << >>

\* There are finitely many tiles, each at a whole row and column.
LEMMA TilesNumbered ==
  ASSUME terrain \in SuitabilityCases
  PROVE Len(Tiles) \in Nat /\ \A i \in 1..Len(Tiles) : \E t1, t2 \in Int : Tiles[i] = <<t1, t2>>
<1> DEFINE t == terrain.tile
           along(size) == (size + t - 1) \div t
           h == along(terrain.height)
           w == along(terrain.width)
<1>1. /\ terrain.height \in Nat \ {0} /\ terrain.width \in Nat \ {0} /\ t \in Nat \ {0}
  BY GridIs
<1>2. h \in Nat /\ w \in Nat /\ (w = 0 => h * w = 0)
  <2>1. terrain.height + t - 1 \in Nat /\ terrain.width + t - 1 \in Nat
    BY <1>1
  <2>2. h \in Nat /\ w \in Nat
    BY <1>1, <2>1, DivIs
  <2> HIDE DEF h, w
  <2> QED BY <2>2
<1>3. Tiles = [k \in 1..(h * w) |-> <<t * ((k - 1) \div w), t * ((k - 1) % w)>>]
  BY DEF Tiles
<1> HIDE DEF h, w, t
<1>4. h * w \in Nat /\ Len(Tiles) = h * w
  BY <1>2, <1>3
<1>5. ASSUME NEW i \in 1..Len(Tiles) PROVE \E t1, t2 \in Int : Tiles[i] = <<t1, t2>>
  <2>1. Tiles[i] = <<t * ((i - 1) \div w), t * ((i - 1) % w)>> /\ w \in Nat \ {0} /\ i - 1 \in Nat
    BY <1>2, <1>3, <1>4
  <2>2. (i - 1) \div w \in Nat /\ (i - 1) % w \in Nat
    BY <2>1, DivIs
  <2>3. t * ((i - 1) \div w) \in Int /\ t * ((i - 1) % w) \in Int
    BY <1>1, <2>2
  <2> QED BY <2>1, <2>3
<1> QED BY <1>4, <1>5

\* A tile reads what its cells are.
LEMMA TileIsRead ==
  ASSUME terrain \in SuitabilityCases, factorAt \in DOMAIN terrain.factors, Readable(Factor),
         ~Roadless(Factor), NEW i \in 1..Len(Tiles)
  PROVE ReadFrom(Factor, TileValues(Tiles[i]), Core(Tiles[i]))
<1> DEFINE t == Tiles[i]
           data(p) == CASE Factor.code = "slope" -> SlopeIn(HaloWindow(t), p)
                        [] Factor.code = "landuse" -> LanduseScore(p)
                        [] OTHER -> {terrain.roadDistance[p]}
           v == TileValues(t)
<1>1. v = [p \in {q \in Core(t) : data(q) # {}} |-> CHOOSE x \in data(p) : TRUE]
  BY DEF TileValues
<1>2. SourceInput(terrain, Grid)
  BY TerrainIs DEF SuitabilityInput, Grid
<1>3. Core(t) \subseteq Grid
  BY DEF Core
<1>4. ASSUME NEW p \in Core(t)
      PROVE /\ HasData(Factor, p) => data(p) = {RawValue(Factor, p)} /\ RawValue(Factor, p) \in Nat
            /\ ~HasData(Factor, p) => data(p) = {}
  <2>1. CASE Factor.code = "slope"
    <3>1. PICK t1, t2 \in Int : t = <<t1, t2>>
      BY TilesNumbered
    <3>2. /\ SlopeIn(HaloWindow(t), p) =
               IF HasSlope(p)
               THEN {terrain.degrees[Rise(p, 1) * Rise(p, 1) + Rise(p, 2) * Rise(p, 2)]}
               ELSE {}
          /\ HasSlope(p) =>
               terrain.degrees[Rise(p, 1) * Rise(p, 1) + Rise(p, 2) * Rise(p, 2)] \in Nat
      <4> HIDE DEF t
      <4>1. terrain.width >= 2 /\ terrain.height >= 2 /\ p \in Core(<<t1, t2>>)
        BY <2>1, <3>1, <1>4 DEF Readable
      <4> QED BY <4>1, <3>1, SlopeIs
    <3>3. /\ data(p) = SlopeIn(HaloWindow(t), p) /\ (HasData(Factor, p) <=> HasSlope(p))
          /\ RawValue(Factor, p) = terrain.degrees[Rise(p, 1) * Rise(p, 1) + Rise(p, 2) * Rise(p, 2)]
      BY <2>1 DEF HasData, RawValue
    <3> HIDE DEF data, t
    <3> QED BY <3>2, <3>3
  <2>2. CASE Factor.code = "landuse"
    <3>1. /\ data(p) = LanduseScore(p)
          /\ HasData(Factor, p) <=> /\ terrain.landuse[p] # ""
                                    /\ \/ terrain.landuse[p] \in DOMAIN terrain.classScore
                                       \/ terrain.defaultScore # NoData
          /\ RawValue(Factor, p) = IF terrain.landuse[p] \in DOMAIN terrain.classScore
                                   THEN terrain.classScore[terrain.landuse[p]] ELSE terrain.defaultScore
      BY <2>2 DEF HasData, RawValue
    <3>2. /\ \A class \in DOMAIN terrain.classScore : terrain.classScore[class] \in Nat
          /\ terrain.defaultScore # NoData => terrain.defaultScore \in Nat
      BY <1>2 DEF SourceInput
    <3> HIDE DEF data, t
    <3> QED BY <3>1, <3>2 DEF LanduseScore
  <2>3. CASE Factor.code = "roads"
    <3>1. /\ data(p) = {terrain.roadDistance[p]} /\ RawValue(Factor, p) = terrain.roadDistance[p]
          /\ HasData(Factor, p) <=> terrain.roadDistance # << >>
      BY <2>3 DEF HasData, RawValue
    <3>2. terrain.roadDistance # << >> /\ terrain.roadDistance[p] \in Nat
      BY <1>2, <1>3, <2>3 DEF SourceInput, Roadless
    <3> HIDE DEF data, t
    <3> QED BY <3>1, <3>2
  <2> QED BY <2>1, <2>2, <2>3 DEF Readable
<1> HIDE DEF data, v, t
<1>5. DOMAIN v = {q \in Core(t) : HasData(Factor, q)}
  BY <1>1, <1>4
<1>6. \A p \in DOMAIN v : v[p] = RawValue(Factor, p) /\ v[p] \in Nat
  BY <1>1, <1>4, <1>5
<1> QED BY <1>5, <1>6 DEF ReadFrom, v, t

\* The invariant: what is measured and read so far is what the cells themselves give.
SeenCells == UNION {Core(Tiles[i]) : i \in 1..(tileAt - 1)}
FactorInv ==
  /\ factorAt \in Weighing /\ Readable(Factor) /\ tileAt \in 1..(Len(Tiles) + 1)
  /\ IF Roadless(Factor) THEN tileAt = Len(Tiles) + 1 /\ DOMAIN values = {}
     ELSE ReadFrom(Factor, values, SeenCells)
SuitInv ==
  /\ terrain \in SuitabilityCases /\ suiting \in {"mask", "factor", "tiles", "refused", "done"}
  /\ factorAt \in 1..(Len(terrain.factors) + 1)
  /\ suiting \notin {"mask", "refused"} => excluded = {p \in Grid : Forbids(p)}
  /\ DOMAIN measured = {i \in Weighing : i < factorAt}
  /\ \A i \in DOMAIN measured : ReadFrom(terrain.factors[i], measured[i], Grid)
  /\ suiting = "tiles" => FactorInv
  /\ suiting = "done" => factorAt = Len(terrain.factors) + 1 /\ ~OutOfRange /\ weighted = ScoreRaster

\* The factors are numbered, and each one is an input.
LEMMA FactorsAre ==
  ASSUME terrain \in SuitabilityCases
  PROVE /\ Len(terrain.factors) \in Nat /\ DOMAIN terrain.factors = 1..Len(terrain.factors)
        /\ \A i \in DOMAIN terrain.factors : FactorInput(terrain.factors[i])
        /\ \A i \in DOMAIN terrain.factors : terrain.factors[i].weight \in Nat
        /\ IsFiniteSet(DOMAIN terrain.factors)
<1>1. /\ terrain.factors \in Seq(Range(terrain.factors))
      /\ \A f \in Range(terrain.factors) : FactorInput(f)
  BY TerrainIs DEF SuitabilityInput
<1>2. \A i \in DOMAIN terrain.factors : terrain.factors[i] \in Range(terrain.factors)
  BY DEF Range
<1>3. Len(terrain.factors) \in Nat /\ DOMAIN terrain.factors = 1..Len(terrain.factors)
  BY <1>1
<1>4. \A i \in DOMAIN terrain.factors : FactorInput(terrain.factors[i])
  BY <1>1, <1>2
<1>5. IsFiniteSet(DOMAIN terrain.factors)
  <2>1. IsFiniteSet(1..Len(terrain.factors))
    BY <1>3, FS_Interval
  <2> QED BY <2>1, <1>3
<1>6. \A i \in DOMAIN terrain.factors : terrain.factors[i].weight \in Nat
  BY <1>4 DEF FactorInput
<1> QED BY <1>3, <1>4, <1>5, <1>6

\* No factor is measured in the beginning.
LEMMA SuitInvInit == SuitInit => SuitInv
<1> SUFFICES ASSUME SuitInit PROVE SuitInv
  OBVIOUS
<1>1. terrain \in SuitabilityCases /\ Len(terrain.factors) \in Nat
  BY FactorsAre DEF SuitInit
<1>2. DOMAIN measured = {} /\ {i \in Weighing : i < factorAt} = {}
  BY FactorsAre DEF SuitInit, Weighing
<1> QED BY <1>1, <1>2 DEF SuitInit, SuitInv

\* What the terrain alone decides stays as it is.
LEMMA TerrainKept ==
  ASSUME terrain' = terrain
  PROVE /\ Grid' = Grid /\ Tiles' = Tiles /\ Weighing' = Weighing
        /\ \A p : Forbids(p)' <=> Forbids(p)
        /\ \A t : Core(t)' = Core(t)
        /\ \A f : (Readable(f)' <=> Readable(f)) /\ (Roadless(f)' <=> Roadless(f))
        /\ \A f, v, C : ReadFrom(f, v, C)' <=> ReadFrom(f, v, C)
<1>1. Grid' = Grid /\ Tiles' = Tiles /\ Weighing' = Weighing
  BY DEF Grid, Tiles, Weighing
<1>2. \A p : Forbids(p)' <=> Forbids(p)
  BY DEF Forbids
<1>3. \A t : Core(t)' = Core(t)
  BY <1>1 DEF Core
<1>4. \A f : (Readable(f)' <=> Readable(f)) /\ (Roadless(f)' <=> Roadless(f))
  BY DEF Readable, Roadless
<1>5. \A p, axis : KnownBeside(p, axis)' = KnownBeside(p, axis) /\ Beside(p, axis)' = Beside(p, axis)
  BY <1>1 DEF KnownBeside, Beside
<1>6. \A p : HasSlope(p)' <=> HasSlope(p)
  BY <1>5 DEF HasSlope
<1>7. \A p, axis : Rise(p, axis)' = Rise(p, axis)
  BY <1>5 DEF Rise
<1>8. \A f, p : (HasData(f, p)' <=> HasData(f, p)) /\ RawValue(f, p)' = RawValue(f, p)
  BY <1>6, <1>7 DEF HasData, RawValue
<1>9. \A f, v, C : ReadFrom(f, v, C)' <=> ReadFrom(f, v, C)
  BY <1>8 DEF ReadFrom
<1> QED BY <1>1, <1>2, <1>3, <1>4, <1>9

\* The mask is made of the exclusions of all layers.
LEMMA MaskStep == SuitInv /\ EvaluateConstraints => SuitInv'
<1> SUFFICES ASSUME SuitInv, EvaluateConstraints PROVE SuitInv'
  OBVIOUS
<1> USE DEF SuitInv, EvaluateConstraints
<1>1. CASE MaskRefused
  <2>1. terrain' = terrain /\ suiting' = "refused" /\ measured' = measured /\ factorAt' = factorAt
    BY <1>1 DEF SuitRefused
  <2> QED BY <2>1, TerrainKept
<1>2. CASE ~MaskRefused
  <2>1. terrain' = terrain /\ suiting' = "factor" /\ measured' = measured /\ factorAt' = factorAt
    BY <1>2
  <2>2. excluded' = {p \in Grid : Forbids(p)}
    <3>1. /\ \A layer \in Range(terrain.vectors) :
               layer.centre \subseteq layer.touched /\ layer.touched \subseteq Grid
          /\ \A mask \in Range(terrain.masks) : mask.cells \subseteq Grid
          /\ terrain.burn \in {"CELL_CENTER", "ANY_TOUCH"}
      BY <1>2, TerrainIs DEF SuitabilityInput, Grid, MaskRefused
    <3>2. excluded' = (Grid \ terrain.inside)
                \cup (UNION {Burned(layer) : layer \in Range(terrain.vectors)})
                \cup (UNION {mask.cells : mask \in Range(terrain.masks)})
      BY <1>2
    <3>3. \A p \in Grid : p \in excluded' <=> Forbids(p)
      <4>1. \A layer \in Range(terrain.vectors) : \A p : p \in Burned(layer) <=>
              p \in layer.centre \/ (terrain.burn = "ANY_TOUCH" /\ p \in layer.touched)
        BY <3>1 DEF Burned
      <4>2. \A p \in Grid : p \in excluded' <=>
              \/ p \notin terrain.inside
              \/ \E layer \in Range(terrain.vectors) : p \in Burned(layer)
              \/ \E mask \in Range(terrain.masks) : p \in mask.cells
        BY <3>2
      <4> QED BY <4>1, <4>2 DEF Forbids
    <3>4. excluded' \subseteq Grid
      <4>1. \A layer \in Range(terrain.vectors) : Burned(layer) \subseteq Grid
        BY <3>1 DEF Burned
      <4> QED BY <3>1, <3>2, <4>1
    <3> QED BY <3>3, <3>4
  <2> QED BY <2>1, <2>2, TerrainKept
<1> QED BY <1>1, <1>2

\* A factor without weight leaves no result.
LEMMA SkipStep == SuitInv /\ SkipFactor => SuitInv'
<1> SUFFICES ASSUME SuitInv, SkipFactor PROVE SuitInv'
  OBVIOUS
<1>1. /\ terrain' = terrain /\ suiting = "factor" /\ suiting' = "factor" /\ measured' = measured
      /\ excluded' = excluded /\ factorAt' = factorAt + 1 /\ factorAt <= Len(terrain.factors)
      /\ factorAt \notin Weighing
  BY DEF SkipFactor, FactorsLeft, Factor, Weighing
<1>2. Len(terrain.factors) \in Nat /\ \A i \in Weighing : i \in Nat
  BY FactorsAre DEF SuitInv, Weighing
<1>3. {i \in Weighing : i < factorAt'} = {i \in Weighing : i < factorAt}
  BY <1>1, <1>2 DEF SuitInv
<1> QED BY <1>1, <1>2, <1>3, TerrainKept DEF SuitInv

\* Before its first tile a factor has no values.
LEMMA BeginStep == SuitInv /\ BeginFactor => SuitInv'
<1> SUFFICES ASSUME SuitInv, BeginFactor PROVE SuitInv'
  OBVIOUS
<1>1. suiting = "factor" /\ factorAt \in Weighing /\ Len(Tiles) \in Nat
  <2>1. factorAt \in DOMAIN terrain.factors
    BY FactorsAre DEF SuitInv, BeginFactor, FactorsLeft
  <2>2. Len(Tiles) \in Nat
    BY TilesNumbered DEF SuitInv
  <2> QED BY <2>1, <2>2 DEF BeginFactor, Weighing, Factor
<1>2. CASE suiting' = "refused"
  <2>1. terrain' = terrain /\ measured' = measured /\ factorAt' = factorAt
    BY <1>2 DEF BeginFactor, SuitRefused
  <2> QED BY <1>2, <2>1, TerrainKept DEF SuitInv
<1>3. CASE suiting' # "refused"
  <2>1. /\ suiting' = "tiles" /\ values' = << >> /\ Readable(Factor)
        /\ tileAt' = IF Roadless(Factor) THEN Len(Tiles) + 1 ELSE 1
        /\ UNCHANGED <<terrain, excluded, factorAt, measured>>
    <3>1. /\ ~(\/ Factor.code = "unknown" \/ Cardinality(Grid) > terrain.maxFactorCells
               \/ Factor.code = "slope" /\ (terrain.width < 2 \/ terrain.height < 2))
          /\ suiting' = "tiles" /\ values' = << >>
          /\ tileAt' = IF Factor.code = "roads" /\ terrain.roadDistance = << >>
                       THEN Len(Tiles) + 1 ELSE 1
          /\ UNCHANGED <<terrain, excluded, factorAt, measured>>
      BY <1>3 DEF BeginFactor, SuitRefused
    <3>2. Factor.code \in {"slope", "landuse", "roads", "unknown"} /\ terrain.width \in Nat /\ terrain.height \in Nat
      BY <1>1, FactorsAre, GridIs DEF SuitInv, Weighing, Factor, FactorInput
    <3> QED BY <3>1, <3>2 DEF Readable, Roadless
  <2>2. Factor' = Factor /\ DOMAIN values' = {}
    BY <2>1 DEF Factor
  <2>3. ~Roadless(Factor) => SeenCells' = {}
    <3>1. SeenCells' = UNION {Core(Tiles[i])' : i \in 1..(tileAt' - 1)}
      BY <2>1, TerrainKept DEF SeenCells
    <3> QED BY <3>1, <2>1
  <2>4. FactorInv'
    <3>1. ~Roadless(Factor) => ReadFrom(Factor, values', SeenCells')
      BY <2>2, <2>3 DEF ReadFrom
    <3>2. tileAt' \in 1..(Len(Tiles) + 1)
      BY <2>1, <1>1
    <3> QED BY <3>1, <3>2, <2>1, <2>2, <1>1, TerrainKept DEF FactorInv
  <2> QED BY <1>1, <2>1, <2>4, TerrainKept DEF SuitInv
<1> QED BY <1>2, <1>3

\* A tile adds the values of its cells.
LEMMA ReadStep == SuitInv /\ ReadTile => SuitInv'
<1> SUFFICES ASSUME SuitInv, ReadTile PROVE SuitInv'
  OBVIOUS
<1> DEFINE read == TileValues(Tiles[tileAt])
<1>1. /\ suiting = "tiles" /\ tileAt <= Len(Tiles) /\ tileAt' = tileAt + 1
      /\ values' = [p \in DOMAIN read \cup DOMAIN values |-> IF p \in DOMAIN read THEN read[p] ELSE values[p]]
      /\ UNCHANGED <<suiting, terrain, excluded, factorAt, measured>> /\ FactorInv
  BY DEF ReadTile, SuitInv
<1>2. /\ Len(Tiles) \in Nat /\ tileAt \in 1..Len(Tiles) /\ factorAt \in DOMAIN terrain.factors
      /\ Readable(Factor) /\ ~Roadless(Factor) /\ ReadFrom(Factor, values, SeenCells)
  BY <1>1, TilesNumbered DEF SuitInv, FactorInv, Weighing
<1>3. ReadFrom(Factor, read, Core(Tiles[tileAt]))
  BY <1>2, TileIsRead DEF SuitInv
<1>4. SeenCells' = SeenCells \cup Core(Tiles[tileAt])
  <2>1. SeenCells' = UNION {Core(Tiles[i])' : i \in 1..(tileAt' - 1)}
    BY <1>1, TerrainKept DEF SeenCells
  <2>2. 1..(tileAt' - 1) = (1..(tileAt - 1)) \cup {tileAt}
    BY <1>1, <1>2
  <2>3. \A t : Core(t)' = Core(t)
    BY <1>1, TerrainKept
  <2> QED BY <1>1, <2>1, <2>2, <2>3, TerrainKept DEF SeenCells
<1>5. ReadFrom(Factor, values', SeenCells')
  <2> HIDE DEF read
  <2> QED BY <1>1, <1>2, <1>3, <1>4 DEF ReadFrom
<1>6. Factor' = Factor
  BY <1>1 DEF Factor
<1>7. FactorInv'
  BY <1>1, <1>2, <1>5, <1>6, TerrainKept DEF FactorInv
<1> QED BY <1>1, <1>7, TerrainKept DEF SuitInv

\* After the last tile the whole grid is read.
LEMMA FinishStep == SuitInv /\ FinishFactor => SuitInv'
<1> SUFFICES ASSUME SuitInv, FinishFactor PROVE SuitInv'
  OBVIOUS
<1>1. /\ suiting = "tiles" /\ tileAt > Len(Tiles) /\ suiting' = "factor" /\ factorAt' = factorAt + 1
      /\ measured' = [i \in DOMAIN measured \cup {factorAt} |-> IF i = factorAt THEN values ELSE measured[i]]
      /\ UNCHANGED <<terrain, excluded>> /\ FactorInv
  BY DEF FinishFactor, SuitInv
<1>2. /\ Len(Tiles) \in Nat /\ tileAt = Len(Tiles) + 1 /\ factorAt \in Weighing
      /\ Len(terrain.factors) \in Nat /\ factorAt <= Len(terrain.factors) /\ \A i \in Weighing : i \in Nat
  BY <1>1, TilesNumbered, FactorsAre DEF SuitInv, FactorInv, Weighing
<1>3. ReadFrom(Factor, values, Grid)
  <2>1. CASE Roadless(Factor)
    <3>1. \A p : ~HasData(Factor, p)
      BY <2>1 DEF Roadless, HasData
    <3> QED BY <1>1, <2>1, <3>1 DEF FactorInv, ReadFrom
  <2>2. CASE ~Roadless(Factor)
    <3>1. SeenCells = UNION {Core(Tiles[i]) : i \in 1..Len(Tiles)}
      BY <1>2 DEF SeenCells
    <3>2. SeenCells = Grid
      <4>1. SeenCells \subseteq Grid
        BY <3>1 DEF Core
      <4>2. \A p \in Grid : \E i \in 1..Len(Tiles) : p \in Core(Tiles[i])
        BY TilesCoverGrid DEF SuitInv
      <4> QED BY <3>1, <4>1, <4>2
    <3> QED BY <1>1, <2>2, <3>2 DEF FactorInv
  <2> QED BY <2>1, <2>2
<1>4. \A i \in DOMAIN measured' : ReadFrom(terrain.factors[i], measured'[i], Grid)
  BY <1>1, <1>3 DEF SuitInv, Factor
<1>5. DOMAIN measured' = {i \in Weighing : i < factorAt'}
  <2>1. DOMAIN measured' = DOMAIN measured \cup {factorAt}
    BY <1>1
  <2>2. DOMAIN measured = {i \in Weighing : i < factorAt}
    BY DEF SuitInv
  <2>3. \A i \in Nat : i < factorAt + 1 <=> i < factorAt \/ i = factorAt
    BY <1>2
  <2> QED BY <1>1, <1>2, <2>1, <2>2, <2>3
<1>6. (\A i \in DOMAIN measured : ReadFrom(terrain.factors[i], measured[i], Grid))'
  BY <1>1, <1>4, TerrainKept
<1>7. (DOMAIN measured = {i \in Weighing : i < factorAt})'
  BY <1>1, <1>5, TerrainKept
<1>8. factorAt' \in 1..(Len(terrain.factors) + 1)
  BY <1>1, <1>2
<1>9. (excluded = {p \in Grid : Forbids(p)})'
  BY <1>1, TerrainKept DEF SuitInv
<1> QED BY <1>1, <1>6, <1>7, <1>8, <1>9 DEF SuitInv

\* What the raster is made of.
LEMMA RasterKept ==
  ASSUME terrain' = terrain, excluded' = excluded, measured' = measured
  PROVE ScoreRaster' = ScoreRaster /\ (OutOfRange' <=> OutOfRange)
<1>1. Grid' = Grid
  BY TerrainKept
<1>2. ValidCells' = ValidCells
  BY <1>1 DEF ValidCells
<1>3. \A p : WeightedScore(p)' = WeightedScore(p)
  BY <1>2 DEF WeightedScore, Normalized
<1>4. \A p : CellStatus(p)' = CellStatus(p)
  BY <1>2 DEF CellStatus
<1>5. TotalWeight' = TotalWeight
  BY DEF TotalWeight
<1>6. Statistics' = Statistics
  BY <1>1, <1>2, <1>3, <1>5 DEF Statistics
<1> QED BY <1>1, <1>3, <1>4, <1>6 DEF ScoreRaster, OutOfRange

\* Nothing the raster is made of changes when it is made.
LEMMA CombineStep == SuitInv /\ CombineFactors => SuitInv'
<1> SUFFICES ASSUME SuitInv, CombineFactors PROVE SuitInv'
  OBVIOUS
<1>1. CASE OutOfRange
  <2>1. terrain' = terrain /\ suiting' = "refused" /\ measured' = measured /\ factorAt' = factorAt
    BY <1>1 DEF CombineFactors, SuitRefused
  <2> QED BY <2>1, TerrainKept DEF SuitInv
<1>2. CASE ~OutOfRange
  <2>1. /\ suiting = "factor" /\ suiting' = "done" /\ weighted' = ScoreRaster /\ ~(factorAt <= Len(terrain.factors))
        /\ UNCHANGED <<terrain, excluded, factorAt, tileAt, values, measured>>
    BY <1>2 DEF CombineFactors, FactorsLeft
  <2>2. factorAt = Len(terrain.factors) + 1
    BY <2>1, FactorsAre DEF SuitInv
  <2>3. ScoreRaster' = ScoreRaster /\ (OutOfRange' <=> OutOfRange)
    BY <2>1, RasterKept
  <2> QED BY <1>2, <2>1, <2>2, <2>3, TerrainKept DEF SuitInv
<1> QED BY <1>1, <1>2

\* Every step keeps the invariant, and so it always holds.
LEMMA SuitStep == SuitInv /\ [SuitNext]_suitVars => SuitInv'
<1> SUFFICES ASSUME SuitInv, [SuitNext]_suitVars PROVE SuitInv'
  OBVIOUS
<1>1. CASE UNCHANGED suitVars
  <2>1. UNCHANGED <<suiting, terrain, excluded, factorAt, tileAt, values, measured, weighted>>
    BY <1>1 DEF suitVars
  <2>2. FactorInv' <=> FactorInv
    <3>1. Factor' = Factor /\ SeenCells' = SeenCells
      BY <2>1, TerrainKept DEF Factor, SeenCells
    <3> QED BY <2>1, <3>1, TerrainKept DEF FactorInv
  <2>3. ScoreRaster' = ScoreRaster /\ (OutOfRange' <=> OutOfRange)
    BY <2>1, RasterKept
  <2> QED BY <2>1, <2>2, <2>3, TerrainKept DEF SuitInv
<1> QED BY <1>1, MaskStep, SkipStep, BeginStep, ReadStep, FinishStep, CombineStep DEF SuitNext

LEMMA SuitAlways == SuitSpec => []SuitInv
BY SuitInvInit, SuitStep, PTL DEF SuitSpec

\* A normalised value is a score.
ScoreInput(f, v) ==
  /\ FactorInput(f) /\ v \in Nat /\ SuitUnit \in Nat \ {0}
  /\ f.form = "IDENTITY" => v \in 0..SuitUnit

LEMMA ScoreWithin == ASSUME NEW f, NEW v, ScoreInput(f, v) PROVE Normalized(f, v) \in 0..SuitUnit
<1>0. FactorInput(f) /\ v \in Nat /\ SuitUnit \in Nat \ {0}
  BY DEF ScoreInput
<1>1. CASE f.form = "IDENTITY"
  BY <1>1 DEF Normalized, ScoreInput
<1>2. CASE f.form # "IDENTITY"
  <2> DEFINE part == SuitUnit \div (f.high - f.low)
             x == (v - f.low) * part
  <2>1. f.high - f.low \in Nat \ {0} /\ f.low \in Int
    BY <1>0, <1>2 DEF FactorInput
  <2>2. part \in Nat
    BY <1>0, <2>1, DivIs
  <2>3. x \in Int
    <3> HIDE DEF part
    <3> QED BY <1>0, <2>1, <2>2
  <2>4. Clipped(x) \in 0..SuitUnit
    <3> HIDE DEF x
    <3>1. Min({SuitUnit, x}) = IF SuitUnit <= x THEN SuitUnit ELSE x
      BY <1>0, <2>3, TwoOf
    <3>2. \A y \in Int : Max({0, y}) = IF 0 <= y THEN y ELSE 0
      BY TwoOf
    <3>3. Min({SuitUnit, x}) \in Int /\ Min({SuitUnit, x}) <= SuitUnit
      BY <1>0, <2>3, <3>1
    <3> QED BY <1>0, <3>2, <3>3 DEF Clipped
  <2>5. Normalized(f, v) \in {Clipped(x), SuitUnit - Clipped(x)}
    BY <1>0, <1>2 DEF Normalized, FactorInput
  <2> HIDE DEF x
  <2>6. \A y \in 0..SuitUnit : SuitUnit - y \in 0..SuitUnit
    BY <1>0
  <2> QED BY <2>4, <2>5, <2>6
<1> QED BY <1>1, <1>2

\* What the grid and its parts are counted by.
LEMMA GridCounts ==
  ASSUME terrain \in SuitabilityCases
  PROVE IsFiniteSet(Grid) /\ Cardinality(Grid) = terrain.height * terrain.width
<1> DEFINE R == 0..(terrain.height - 1)
           C == 0..(terrain.width - 1)
<1>1. terrain.height \in Nat \ {0} /\ terrain.width \in Nat \ {0}
  BY GridIs
<1>2. IsFiniteSet(R) /\ Cardinality(R) = terrain.height /\ IsFiniteSet(C) /\ Cardinality(C) = terrain.width
  <2>1. \A n \in Nat \ {0} : IsFiniteSet(0..(n - 1)) /\ Cardinality(0..(n - 1)) = n
    <3> SUFFICES ASSUME NEW n \in Nat \ {0}
                 PROVE IsFiniteSet(0..(n - 1)) /\ Cardinality(0..(n - 1)) = n
      OBVIOUS
    <3>1. 0 \in Int /\ n - 1 \in Int /\ ~(0 > n - 1) /\ (n - 1) - 0 + 1 = n
      OBVIOUS
    <3>2. /\ IsFiniteSet(0..(n - 1))
          /\ Cardinality(0..(n - 1)) = IF 0 > n - 1 THEN 0 ELSE (n - 1) - 0 + 1
      BY <3>1, FS_Interval
    <3> QED BY <3>1, <3>2
  <2> QED BY <1>1, <2>1
<1>3. IsFiniteSet(R \X C) /\ Cardinality(R \X C) = Cardinality(R) * Cardinality(C)
  BY <1>2, FS_Product
<1> QED BY <1>2, <1>3 DEF Grid

\* Sets that share nothing are counted together.
LEMMA SizeOfBoth ==
  ASSUME NEW S, NEW T, IsFiniteSet(S), IsFiniteSet(T), S \cap T = {}
  PROVE Cardinality(S \cup T) = Cardinality(S) + Cardinality(T)
<1>1. Cardinality(S \cup T) = Cardinality(S) + Cardinality(T) - Cardinality(S \cap T)
  BY FS_Union
<1>2. Cardinality(S) \in Nat /\ Cardinality(T) \in Nat /\ Cardinality(S \cap T) = 0
  BY FS_CardinalityType, FS_EmptySet
<1> QED BY <1>1, <1>2

\* When all factors are measured, a cell is valid where nothing forbids it and all have data.
LEMMA ValidIs ==
  ASSUME SuitInv, suiting = "done"
  PROVE /\ DOMAIN measured = Weighing
        /\ ValidCells = {p \in Grid : ~Forbids(p) /\ \A i \in Weighing : HasData(terrain.factors[i], p)}
<1>1. DOMAIN measured = Weighing
  <2>1. \A i \in Weighing : i \in Nat /\ i <= Len(terrain.factors) /\ Len(terrain.factors) \in Nat
    BY FactorsAre DEF SuitInv, Weighing
  <2> QED BY <2>1 DEF SuitInv
<1>2. \A i \in Weighing : DOMAIN measured[i] = {p \in Grid : HasData(terrain.factors[i], p)}
  BY <1>1 DEF SuitInv, ReadFrom
<1>3. excluded = {p \in Grid : Forbids(p)}
  BY DEF SuitInv
<1> QED BY <1>1, <1>2, <1>3 DEF ValidCells

\* The score of a valid cell is the sum its own values give, and a score.
LEMMA ScoreIs ==
  ASSUME SuitInv, suiting = "done", NEW p \in ValidCells
  PROVE WeightedScore(p) = RawScore(p) /\ RawScore(p) \in 0..(SuitUnit * TotalWeight)
<1> DEFINE F == terrain.factors
           part == [i \in Weighing |-> F[i].weight * Normalized(F[i], RawValue(F[i], p))]
           weigh == [i \in DOMAIN F |-> F[i].weight]
           most == [i \in Weighing |-> SuitUnit * weigh[i]]
<1>1. /\ DOMAIN measured = Weighing /\ terrain \in SuitabilityCases /\ SuitUnit \in Nat \ {0}
      /\ ~OutOfRange
  BY ValidIs, TerrainIs DEF SuitInv
<1>2. /\ Weighing \subseteq DOMAIN F /\ IsFiniteSet(DOMAIN F) /\ IsFiniteSet(Weighing)
      /\ \A i \in DOMAIN F : FactorInput(F[i]) /\ F[i].weight \in Nat
  <2>1. Weighing \subseteq DOMAIN F
    BY DEF Weighing
  <2>2. IsFiniteSet(DOMAIN F) /\ \A i \in DOMAIN F : FactorInput(F[i]) /\ F[i].weight \in Nat
    BY <1>1, FactorsAre
  <2> QED BY <2>1, <2>2, FS_Subset
<1>3. \A i \in Weighing : /\ measured[i][p] = RawValue(F[i], p) /\ RawValue(F[i], p) \in Nat
                          /\ p \in DOMAIN measured[i]
  BY <1>1 DEF SuitInv, ReadFrom, ValidCells
<1>4. \A i \in Weighing : Normalized(F[i], RawValue(F[i], p)) \in 0..SuitUnit
  <2> SUFFICES ASSUME NEW i \in Weighing PROVE Normalized(F[i], RawValue(F[i], p)) \in 0..SuitUnit
    OBVIOUS
  <2>1. F[i].form = "IDENTITY" => RawValue(F[i], p) \in 0..SuitUnit
    BY <1>1, <1>3 DEF OutOfRange, Range
  <2> HIDE DEF F
  <2>2. ScoreInput(F[i], RawValue(F[i], p))
    BY <1>1, <1>2, <1>3, <2>1 DEF ScoreInput
  <2> QED BY <2>2, ScoreWithin
<1>5. WeightedScore(p) = RawScore(p)
  <2> DEFINE seen == [i \in DOMAIN measured |-> F[i].weight * Normalized(F[i], measured[i][p])]
  <2>1. seen = part
    BY <1>1, <1>3
  <2>2. WeightedScore(p) = SumFunctionOnSet(seen, DOMAIN measured)
    BY DEF WeightedScore
  <2> QED BY <1>1, <2>1, <2>2 DEF RawScore
<1>6. RawScore(p) = SumFunctionOnSet(part, Weighing)
  BY DEF RawScore
<1>7. \A i \in Weighing : /\ part[i] \in Nat /\ most[i] \in Nat /\ part[i] <= most[i]
                          /\ weigh[i] \in Int /\ most[i] = SuitUnit * weigh[i]
  <2> SUFFICES ASSUME NEW i \in Weighing
               PROVE /\ part[i] \in Nat /\ most[i] \in Nat /\ part[i] <= most[i]
                     /\ weigh[i] \in Int /\ most[i] = SuitUnit * weigh[i]
    OBVIOUS
  <2> DEFINE x == Normalized(F[i], RawValue(F[i], p))
             y == F[i].weight
  <2>1. part[i] = y * x /\ most[i] = SuitUnit * y /\ weigh[i] = y
    BY <1>2
  <2>2. x \in 0..SuitUnit /\ y \in Nat
    BY <1>2, <1>4
  <2> HIDE DEF x, y, part, most, weigh
  <2>3. y * x \in Nat /\ SuitUnit * y \in Nat /\ y * x <= SuitUnit * y
    BY <1>1, <2>2
  <2> QED BY <2>1, <2>2, <2>3
<1>8. /\ SumFunctionOnSet(part, Weighing) \in Nat
      /\ SumFunctionOnSet(part, Weighing) <= SumFunctionOnSet(most, Weighing)
      /\ SumFunctionOnSet(most, Weighing) = SuitUnit * SumFunctionOnSet(weigh, Weighing)
  <2> HIDE DEF part, most, weigh
  <2> QED BY <1>1, <1>2, <1>7, SumIsNat, SumLeq, SumOfTimes
<1>9. /\ SumFunctionOnSet(weigh, Weighing) \in Nat /\ SumFunctionOnSet(weigh, DOMAIN F) \in Nat
      /\ SumFunctionOnSet(weigh, Weighing) <= SumFunctionOnSet(weigh, DOMAIN F)
  <2>1. \A i \in DOMAIN F : weigh[i] \in Nat
    BY <1>2
  <2> HIDE DEF weigh
  <2> QED BY <1>2, <2>1, SumIsNat, SumGrows
<1>10. TotalWeight = SumFunctionOnSet(weigh, DOMAIN F)
  BY DEF TotalWeight
<1> DEFINE a == SumFunctionOnSet(part, Weighing)
           b == SumFunctionOnSet(weigh, Weighing)
           c == SumFunctionOnSet(weigh, DOMAIN F)
<1>11. a \in Nat /\ b \in Nat /\ c \in Nat /\ b <= c /\ a <= SuitUnit * b
  BY <1>8, <1>9
<1> HIDE DEF a, b, c
<1>12. a \in 0..(SuitUnit * c)
  BY <1>1, <1>11
<1> QED BY <1>5, <1>6, <1>10, <1>12 DEF a, c

\* The weights add up to a number.
LEMMA WeightIs == ASSUME terrain \in SuitabilityCases PROVE TotalWeight \in Nat
<1> DEFINE weigh == [i \in DOMAIN terrain.factors |-> terrain.factors[i].weight]
<1>1. IsFiniteSet(DOMAIN terrain.factors) /\ \A i \in DOMAIN terrain.factors : weigh[i] \in Nat
  BY FactorsAre
<1>2. TotalWeight = SumFunctionOnSet(weigh, DOMAIN terrain.factors)
  BY DEF TotalWeight
<1> HIDE DEF weigh
<1> QED BY <1>1, <1>2, SumIsNat

\* The statistics take the grid apart.
LEMMA StatisticsAre ==
  ASSUME SuitInv, suiting = "done"
  PROVE /\ Statistics.valid + Statistics.hard + Statistics.invalid = terrain.height * terrain.width
        /\ Statistics.preferred <= Statistics.meets
<1> DEFINE V == ValidCells
           I == (Grid \ V) \ excluded
           above(t) == {p \in V : WeightedScore(p) >= t * TotalWeight}
<1>1. /\ terrain \in SuitabilityCases /\ excluded \subseteq Grid /\ V \subseteq Grid /\ V \cap excluded = {}
  BY DEF SuitInv, ValidCells
<1>2. IsFiniteSet(Grid) /\ Cardinality(Grid) = terrain.height * terrain.width
  BY <1>1, GridCounts
<1>3. IsFiniteSet(V) /\ IsFiniteSet(excluded) /\ IsFiniteSet(I)
  BY <1>1, <1>2, FS_Subset
<1>4. Statistics.valid + Statistics.hard + Statistics.invalid = terrain.height * terrain.width
  <2>1. Statistics.valid = Cardinality(V) /\ Statistics.hard = Cardinality(excluded) /\ Statistics.invalid = Cardinality(I)
    BY DEF Statistics
  <2> HIDE DEF V
  <2>2. Cardinality(V \cup excluded) = Cardinality(V) + Cardinality(excluded)
    BY <1>1, <1>3, SizeOfBoth
  <2>3. IsFiniteSet(V \cup excluded) /\ (V \cup excluded) \cap I = {} /\ (V \cup excluded) \cup I = Grid
    BY <1>1, <1>3, FS_Union
  <2>4. Cardinality(Grid) = Cardinality(V \cup excluded) + Cardinality(I)
    <3> HIDE DEF I
    <3> QED BY <1>3, <2>3, SizeOfBoth
  <2> QED BY <1>2, <2>1, <2>2, <2>4
<1>5. Statistics.preferred <= Statistics.meets
  <2>1. Statistics.preferred = Cardinality(above(terrain.preferred)) /\ Statistics.meets = Cardinality(above(terrain.minimum))
    BY DEF Statistics
  <2>2. terrain.minimum \in Nat /\ terrain.preferred \in Nat /\ terrain.minimum <= terrain.preferred
    BY <1>1, TerrainIs DEF SuitabilityInput
  <2>3. above(terrain.preferred) \subseteq above(terrain.minimum)
    <3> SUFFICES ASSUME NEW p \in V, WeightedScore(p) >= terrain.preferred * TotalWeight
                 PROVE WeightedScore(p) >= terrain.minimum * TotalWeight
      OBVIOUS
    <3>1. WeightedScore(p) \in Nat
      BY ScoreIs DEF SuitInv
    <3>2. TotalWeight \in Nat
      BY <1>1, WeightIs
    <3>3. terrain.minimum * TotalWeight <= terrain.preferred * TotalWeight
      BY <2>2, <3>2
    <3>4. terrain.minimum * TotalWeight \in Nat /\ terrain.preferred * TotalWeight \in Nat
      BY <2>2, <3>2
    <3> QED BY <3>1, <3>3, <3>4
  <2>4. IsFiniteSet(above(terrain.minimum))
    BY <1>3, FS_Subset
  <2> HIDE DEF above
  <2> QED BY <2>1, <2>3, <2>4, FS_Subset
<1> QED BY <1>4, <1>5

\* Whatever the grid, its tiles, gaps, layers, factors and weights, every cell ends with the
\* status and score that follow from the cell and its neighbours alone, and the statistics
\* count each cell once: suitability/aggregation.py, dem_slope.py, artifact.py.
THEOREM SuitabilityIsExact == SuitSpec => []SuitabilityExact
<1>1. SuitInv => SuitabilityExact
  <2> SUFFICES ASSUME SuitInv, suiting = "done"
      PROVE LET usable(p) == ~Forbids(p) /\ \A i \in Weighing : HasData(terrain.factors[i], p)
            IN  /\ \A p \in Grid :
                     /\ weighted.status[p] = IF Forbids(p) THEN "hard_excluded"
                                             ELSE IF usable(p) THEN "valid" ELSE "invalid_data"
                     /\ weighted.score[p] = IF usable(p) THEN RawScore(p) ELSE 0
                     /\ weighted.score[p] \in 0..(SuitUnit * TotalWeight)
                /\ weighted.statistics.valid + weighted.statistics.hard + weighted.statistics.invalid
                     = terrain.height * terrain.width
                /\ weighted.statistics.preferred <= weighted.statistics.meets
    BY DEF SuitabilityExact
  <2> DEFINE usable(p) == ~Forbids(p) /\ \A i \in Weighing : HasData(terrain.factors[i], p)
  <2>1. /\ weighted = ScoreRaster /\ excluded = {p \in Grid : Forbids(p)}
        /\ ValidCells = {p \in Grid : usable(p)}
    BY ValidIs DEF SuitInv
  <2>2. ASSUME NEW p \in Grid
        PROVE /\ weighted.status[p] = IF Forbids(p) THEN "hard_excluded"
                                      ELSE IF usable(p) THEN "valid" ELSE "invalid_data"
              /\ weighted.score[p] = IF usable(p) THEN RawScore(p) ELSE 0
              /\ weighted.score[p] \in 0..(SuitUnit * TotalWeight)
    <3>1. weighted.status[p] = CellStatus(p) /\ weighted.score[p] = WeightedScore(p)
      BY <2>1 DEF ScoreRaster
    <3>2. (p \in excluded <=> Forbids(p)) /\ (p \in ValidCells <=> usable(p))
      BY <2>1
    <3>3. p \in ValidCells => WeightedScore(p) = RawScore(p) /\ RawScore(p) \in 0..(SuitUnit * TotalWeight)
      BY ScoreIs
    <3>4. p \notin ValidCells => WeightedScore(p) = 0
      BY DEF WeightedScore
    <3>5. 0 \in 0..(SuitUnit * TotalWeight)
      <4>1. TotalWeight \in Nat /\ SuitUnit \in Nat
        BY WeightIs, TerrainIs DEF SuitInv
      <4> QED BY <4>1
    <3>6. p \in ValidCells => p \notin excluded
      BY DEF ValidCells
    <3> HIDE DEF usable
    <3>7. weighted.status[p] = IF Forbids(p) THEN "hard_excluded"
                               ELSE IF usable(p) THEN "valid" ELSE "invalid_data"
      <4>1. CellStatus(p) = IF p \in excluded THEN "hard_excluded"
                            ELSE IF p \in ValidCells THEN "valid" ELSE "invalid_data"
        BY <3>6 DEF CellStatus
      <4> QED BY <3>1, <3>2, <4>1
    <3>8. weighted.score[p] = IF usable(p) THEN RawScore(p) ELSE 0
      BY <3>1, <3>2, <3>3, <3>4
    <3>9. weighted.score[p] \in 0..(SuitUnit * TotalWeight)
      BY <3>1, <3>3, <3>4, <3>5
    <3> QED BY <3>7, <3>8, <3>9
  <2>3. weighted.statistics = Statistics
    BY <2>1 DEF ScoreRaster
  <2> HIDE DEF usable
  <2> QED BY <2>2, <2>3, StatisticsAre DEF usable
<1> QED BY <1>1, SuitAlways, PTL
=============================================================================

-------------------------------- MODULE Zoning --------------------------------
(***************************************************************************)
(* The zoning stage (stages/zoning.py and zoning/*.py): seeds on the       *)
(* suitability raster, one partition cell around each, a class for every   *)
(* cell by target shares, the bounded refinement of the labels, and the    *)
(* verdict of the constraint engine.                                       *)
(*                                                                         *)
(* The geometry of a partition is an input: which cells share a boundary,  *)
(* and their areas. Shares are counted in units of 1/Unit, so areas, exact *)
(* sums in the code up to rounding, are exact here.                        *)
(***************************************************************************)
EXTENDS Integers, FiniteSets, SequencesExt

CONSTANTS
  Unit,        \* denominator of target shares
  ZoningCases  \* the inputs: see ZoningInput

\* ZoneClass in canonical order.
ZoneClasses == <<"residential", "mixed", "public", "recreation">>
ClassIds == DOMAIN ZoneClasses
Policies == {"PREFERRED", "ALLOWED", "DISCOURAGED", "FORBIDDEN"}

VARIABLES
  zoning,     \* where the stage is
  given,      \* suitability, plats, configuration and limits of the stage
  seeds,      \* raster cells of the seeds, in order
  plat,       \* the partition: borders between its cells, and their areas
  label,      \* class of each cell, 0 before assignment
  dealt,      \* initial_labels: the classes the refinement was given
  moves,      \* moves the refinement has made
  best,       \* current_objective of the refinement
  refs        \* the generated zones, with the verdict of the constraint engine

zoningVars == <<zoning, given, seeds, plat, label, dealt, moves, best, refs>>

\* ZoningConfig: every class once, shares that sum to one, symmetric policies of
\* different classes; a suitability raster whose score is -1 where it has no data.
ZoningInput(c) ==
  /\ c.share \in [ClassIds -> 0..Unit] /\ SumFunction(c.share) = Unit
  /\ c.minimum \in [ClassIds -> Nat \ {0}]
  /\ DOMAIN c.policy \subseteq kSubset(2, ClassIds) /\ Range(c.policy) \subseteq Policies
  /\ Range(c.score) \subseteq Nat \cup {-1}
  /\ c.rejected \subseteq ClassIds
  /\ c.count \in Nat \ {0} /\ c.limit \in Nat \ {0}
  /\ \A p \in c.plats :
       /\ p.borders \subseteq kSubset(2, 1..c.count)
       /\ p.area \in [1..c.count -> Nat \ {0}]

ASSUME ZoningAssumption ==
  /\ Unit \in Nat \ {0}
  /\ \A c \in ZoningCases : ZoningInput(c)

ZoningInit ==
  /\ zoning = "seeds" /\ given \in ZoningCases
  /\ seeds = << >> /\ plat = << >> /\ label = << >>
  /\ dealt = << >> /\ moves = 0 /\ best = << >> /\ refs = << >>

Cells == 1..given.count
Developable == SumFunction(plat.area)
Neighbors(i) == {j \in Cells : {i, j} \in plat.borders}
Policy(a, b) == IF {a, b} \in DOMAIN given.policy THEN given.policy[{a, b}] ELSE "ALLOWED"
LabelArea(lab, z) == SumFunctionOnSet(plat.area, {i \in Cells : lab[i] = z})

-----------------------------------------------------------------------------
(* Seeds and partition. *)

Usable == {x \in DOMAIN given.score : given.score[x] >= 0}
Positive == {x \in Usable : given.score[x] > 0}

\* Weighted draws while there are positive scores, then uniform ones; the draws are
\* sorted by their position in the raster.
GenerateSeeds ==
  /\ zoning = "seeds"
  /\ IF given.count > Cardinality(Usable)
     THEN zoning' = "error" /\ UNCHANGED seeds
     ELSE /\ zoning' = "partition"
          /\ \E drawn \in kSubset(given.count, Usable) :
               /\ Cardinality(drawn \cap Positive) = Min({given.count, Cardinality(Positive)})
               /\ seeds' = SetToSortSeq(drawn, <)
  /\ UNCHANGED <<given, plat, label, dealt, moves, best, refs>>

\* One cell per seed, or an error when Voronoi, clipping or coverage fails.
Partition ==
  /\ zoning = "partition"
  /\ \/ /\ zoning' = "assign"
        /\ plat' \in given.plats
        /\ label' = [i \in Cells |-> 0]
     \/ zoning' = "error" /\ UNCHANGED <<plat, label>>
  /\ UNCHANGED <<given, seeds, dealt, moves, best, refs>>

-----------------------------------------------------------------------------
(* SuitabilityTargetShareAssigner. *)

Score(i) == given.score[seeds[i]]
Before(i, j) == Score(i) > Score(j) \/ (Score(i) = Score(j) /\ i < j)

\* Remaining target area, in units of 1/Unit.
Deficit(z) == Developable * given.share[z] - Unit * LabelArea(label, z)

\* Mutant: the class with the larger share wins, whatever it has received.
NeedsByShare(z) ==
  \A y \in ClassIds : given.share[z] > given.share[y] \/ (given.share[z] = given.share[y] /\ z <= y)

\* The class with the largest deficit, then the largest share, then the first one.
Needs(z) ==
  \A y \in ClassIds \ {z} :
    \/ Deficit(z) > Deficit(y)
    \/ Deficit(z) = Deficit(y) /\ given.share[z] > given.share[y]
    \/ Deficit(z) = Deficit(y) /\ given.share[z] = given.share[y] /\ z < y

Assign(i, z) ==
  /\ zoning = "assign" /\ label[i] = 0
  /\ \A j \in Cells \ {i} : label[j] = 0 => Before(i, j)
  /\ Needs(z)
  /\ label' = [label EXCEPT ![i] = z]
  /\ UNCHANGED <<zoning, given, seeds, plat, dealt, moves, best, refs>>

-----------------------------------------------------------------------------
(* BoundedRegionRefiner. *)

\* The cells of the same class that are connected to cell i.
Region(lab, i) ==
  LET reached[k \in 0..given.count] ==
        LET before == reached[k - 1]
        IN  IF k = 0 THEN {i}
            ELSE before \cup {j \in Cells : lab[j] = lab[i] /\ Neighbors(j) \cap before # {}}
  IN  reached[given.count]

\* The areas that connected regions miss to the minimum of their class.
Shortfall(lab, r) ==
  given.minimum[lab[Min(r)]] - SumFunctionOnSet(plat.area, r)
Undersized(lab) == {r \in {Region(lab, i) : i \in Cells} : Shortfall(lab, r) > 0}

Edges(lab, policy) ==
  Cardinality({e \in plat.borders :
    \E i, j \in e : lab[i] # lab[j] /\ Policy(lab[i], lab[j]) = policy})

Distance(a, b) == IF a < b THEN b - a ELSE a - b
TargetError(lab) ==
  SumFunction([z \in ClassIds |->
                 Distance(Unit * LabelArea(lab, z), Developable * given.share[z])])

Objective(lab) ==
  <<Edges(lab, "FORBIDDEN"), Cardinality(Undersized(lab)),
    SumFunction([r \in Undersized(lab) |-> Shortfall(lab, r)]),
    Edges(lab, "DISCOURAGED"), -Edges(lab, "PREFERRED"), TargetError(lab)>>

Better(p, q) ==
  \E k \in DOMAIN p : p[k] < q[k] /\ \A j \in 1..(k - 1) : p[j] = q[j]

BeginRefinement ==
  /\ zoning = "assign" /\ \A i \in Cells : label[i] # 0
  /\ zoning' = "refine" /\ best' = Objective(label) /\ dealt' = label
  /\ UNCHANGED <<given, seeds, plat, label, moves, refs>>

\* Every cell with every class of its neighbours, by objective, cell and class.
Candidates ==
  {[at |-> m, value |-> Objective([label EXCEPT ![m[1]] = m[2]])] :
     m \in {m \in Cells \X ClassIds :
             m[2] # label[m[1]] /\ \E j \in Neighbors(m[1]) : label[j] = m[2]}}
\* Mutant: the best candidate is taken without a look at what it is better than.
AnyCandidate == Candidates

Improving == {m \in Candidates : Better(m.value, best)}

Move ==
  /\ zoning = "refine" /\ moves < given.limit
  /\ LET found == Improving
     IN  \E m \in found :
           /\ \A n \in found \ {m} :
                Better(m.value, n.value) \/ (m.value = n.value /\ Better(m.at, n.at))
           /\ label' = [label EXCEPT ![m.at[1]] = m.at[2]]
           /\ best' = m.value
  /\ moves' = moves + 1
  /\ UNCHANGED <<zoning, given, seeds, plat, dealt, refs>>

Stop ==
  /\ zoning = "refine"
  /\ \/ moves = given.limit /\ zoning' = "max_iterations"
     \/ moves < given.limit /\ Improving = {} /\ zoning' = "stable"
  /\ UNCHANGED <<given, seeds, plat, label, dealt, moves, best, refs>>

\* ZoneConstraintEvaluator and build_generated_zone_refs: one subject for the shared
\* engine and one reference per cell, in the order of the cells.
EvaluateZones ==
  /\ zoning \in {"stable", "max_iterations"}
  /\ refs' = [i \in Cells |-> [class |-> label[i], area |-> plat.area[i],
                              valid |-> label[i] \notin given.rejected]]
  /\ zoning' = IF \A i \in Cells : refs'[i].valid THEN "info" ELSE "warning"
  /\ UNCHANGED <<given, seeds, plat, label, dealt, moves, best>>

ZoningNext ==
  \/ GenerateSeeds \/ Partition
  \/ \E i \in Cells, z \in ClassIds : Assign(i, z)
  \/ BeginRefinement \/ Move \/ Stop \/ EvaluateZones

ZoningSpec == ZoningInit /\ [][ZoningNext]_zoningVars

-----------------------------------------------------------------------------
(* Properties. *)

\* While cells are dealt out, no class exceeds its target by as much as one cell,
\* whatever areas and shares meet: a class without a target receives nothing, and
\* the error of the assignment is one of granularity (docs/ZONING_ASSIGNMENT.md).
TargetsRespected ==
  zoning = "assign" =>
    \A z \in ClassIds :
      LET mine == {i \in Cells : label[i] = z}
      IN  mine # {} => -Deficit(z) < Unit * Max({plat.area[i] : i \in mine})

\* Refinement never leaves the labels worse than it found them: without a move they are
\* those it was given, after moves they are strictly better and at most as many cells have
\* changed. Its objective is that of the labels it returns, and when it reports convergence
\* without forbidden pairs, no cell is left alone below the minimum of its class beside a
\* neighbour it could join (docs/ZONING_REFINEMENT.md).
RefinementSettles ==
  zoning \in {"stable", "max_iterations"} =>
    /\ best = Objective(label)
    /\ IF moves = 0 THEN label = dealt ELSE Better(best, Objective(dealt))
    /\ Cardinality({i \in Cells : label[i] # dealt[i]}) <= moves
    /\ (zoning = "stable" /\ "FORBIDDEN" \notin Range(given.policy)) =>
         \A i \in Cells : plat.area[i] < given.minimum[label[i]] =>
           \/ Neighbors(i) = {}
           \/ \E j \in Neighbors(i) : label[j] = label[i]
=============================================================================
